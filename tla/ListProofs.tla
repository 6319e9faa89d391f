----------------------------- MODULE ListProofs ------------------------------
(***************************************************************************)
(* Proofs about lists: what is left of a list without some of its members, *)
(* and what two lists of different members are one after the other.        *)
(***************************************************************************)
EXTENDS Lists, SequencesExt, FiniteSetTheorems, FunctionTheorems, SequenceTheorems, WellFoundedInduction,
        TLAPS

(***************************************************************************)
(* Induction over the numbers, for sets of numbers (the library's theorem  *)
(* takes an operator, which the provers cannot instantiate).               *)
(***************************************************************************)

\* A set of numbers that is not empty has a least one.
LEMMA Least ==
    ASSUME NEW T \in SUBSET Nat, T # {}
    PROVE  \E n \in T : \A m \in T : n <= m
<1>1. \E n \in T : \A m \in T : ~ (<<m, n>> \in OpToRel(<, Nat))
  BY NatLessThanWellFounded, WFMin
<1>2. PICK n \in T : \A m \in T : ~ (<<m, n>> \in OpToRel(<, Nat))
  BY <1>1
<1>3. ASSUME NEW m \in T PROVE n <= m
  <2>1. ~ (<<m, n>> \in OpToRel(<, Nat))
    BY <1>2
  <2>2. ~(m < n)
    BY <2>1 DEF OpToRel
  <2> QED BY <2>2
<1> QED BY <1>3

\* A set with zero and the successor of each of its members has all numbers.
LEMMA Induction ==
    ASSUME NEW T \in SUBSET Nat, 0 \in T, \A n \in T : n + 1 \in T
    PROVE  T = Nat
<1> SUFFICES ASSUME Nat \ T # {} PROVE FALSE
  OBVIOUS
<1>1. PICK n \in Nat \ T : \A m \in Nat \ T : n <= m
  BY Least
<1>2. n # 0
  OBVIOUS
<1>3. n - 1 \in Nat /\ ~ (n <= n - 1)
  BY <1>2
<1>4. n - 1 \in T
  BY <1>1, <1>3
<1>5. (n - 1) + 1 \in T
  BY <1>4
<1>6. (n - 1) + 1 = n
  OBVIOUS
<1> QED BY <1>5, <1>6
-----------------------------------------------------------------------------

\* rest has the members of list outside xs, each from its place at[k].
Picks(at, rest, list, xs) ==
    /\ \A k \in DOMAIN rest : /\ at[k] \in DOMAIN list /\ list[at[k]] \notin xs
                              /\ rest[k] = list[at[k]]
    /\ \A n \in DOMAIN list : list[n] \notin xs => \E k \in DOMAIN rest : at[k] = n
    /\ \A k, l \in DOMAIN rest : k < l <=> at[k] < at[l]

\* Skipping picks the places of the members that are left, in their order.
LEMMA Picked ==
    ASSUME NEW S, NEW list \in Seq(S), NEW ips
    PROVE  /\ Skipping(list, ips) \in Seq(S)
           /\ \E at : Picks(at, Skipping(list, ips), list, ips)
<1> DEFINE left    == {n \in DOMAIN list : list[n] \notin ips}
           Rank(n) == Cardinality({i \in left : i <= n})
           N       == Cardinality(left)
           at(k)   == CHOOSE n \in left : Rank(n) = k
<1>1. Skipping(list, ips) = [k \in 1 .. N |-> list[at(k)]]
  BY DEF Skipping
<1>2. left \subseteq 1 .. Len(list) /\ IsFiniteSet(left) /\ N \in Nat
  <2>1. left \subseteq 1 .. Len(list) /\ Len(list) \in Nat
    BY LenProperties
  <2> HIDE DEF left
  <2>2. IsFiniteSet(1 .. Len(list))
    BY <2>1, FS_Interval
  <2>3. IsFiniteSet(left)
    BY <2>1, <2>2, FS_Subset
  <2> QED
    BY <2>1, <2>3, FS_CardinalityType
<1>3. \A n \in left : /\ IsFiniteSet({i \in left : i <= n})
                      /\ Rank(n) \in 1 .. N
  <2> SUFFICES ASSUME NEW n \in left
               PROVE  IsFiniteSet({i \in left : i <= n}) /\ Rank(n) \in 1 .. N
    OBVIOUS
  <2> DEFINE A == {i \in left : i <= n}
  <2>1. A \subseteq left /\ n \in A
    BY <1>2
  <2> HIDE DEF A
  <2>2. IsFiniteSet(A) /\ Cardinality(A) <= N /\ Cardinality(A) \in Nat
    BY <1>2, <2>1, FS_Subset, FS_CardinalityType
  <2>3. Cardinality(A) # 0
    BY <2>1, <2>2, FS_EmptySet
  <2>4. Cardinality(A) \in 1 .. N
    BY <1>2, <2>2, <2>3
  <2> QED
    BY <2>2, <2>4 DEF A
<1>4. \A m, n \in left : m < n => Rank(m) < Rank(n)
  <2> SUFFICES ASSUME NEW m \in left, NEW n \in left, m < n
               PROVE  Rank(m) < Rank(n)
    OBVIOUS
  <2> DEFINE A == {i \in left : i <= m}
             B == {i \in left : i <= n}
  <2>1. A \subseteq B /\ n \in B /\ n \notin A
    BY <1>2
  <2>2. IsFiniteSet(B) /\ Rank(m) \in 1 .. N /\ Rank(n) \in 1 .. N
    BY <1>3
  <2>5. Rank(m) = Cardinality(A) /\ Rank(n) = Cardinality(B)
    OBVIOUS
  <2> HIDE DEF A, B, Rank
  <2>3. Cardinality(A) <= Cardinality(B) /\ (Cardinality(B) = Cardinality(A) => B = A)
    BY <2>1, <2>2, FS_Subset
  <2> HIDE DEF N
  <2>4. Rank(m) \in Nat /\ Rank(n) \in Nat
    BY <1>2, <2>2
  <2> QED
    BY <2>1, <2>3, <2>4, <2>5
<1>5. \A k \in 1 .. N : at(k) \in left /\ Rank(at(k)) = k
  <2> DEFINE r == [n \in left |-> Rank(n)]
  <2>1. r \in [left -> 1 .. N]
    BY <1>3
  <2>2. \A m, n \in left : m # n => r[m] # r[n]
    <3> SUFFICES ASSUME NEW m \in left, NEW n \in left, m # n
                 PROVE  Rank(m) # Rank(n)
      OBVIOUS
    <3>5. Rank(m) \in 1 .. N /\ Rank(n) \in 1 .. N
      BY <1>3
    <3> HIDE DEF left, N, Rank
    <3>1. Rank(m) \in Nat /\ Rank(n) \in Nat
      BY <1>2, <3>5
    <3>2. m \in Nat /\ n \in Nat
      BY <1>2
    <3>3. m < n \/ n < m
      BY <3>2
    <3>4. Rank(m) < Rank(n) \/ Rank(n) < Rank(m)
      BY <1>4, <3>3
    <3> QED
      BY <3>1, <3>4
  <2> HIDE DEF r
  <2>3. r \in Injection(left, 1 .. N)
    BY <2>1, <2>2 DEF Injection, IsInjective
  <2>4. IsFiniteSet(1 .. N) /\ Cardinality(1 .. N) = N
    BY <1>2, FS_Interval
  <2>5. r \in Surjection(left, 1 .. N)
    BY <2>3, <2>4, FS_Injection
  <2> SUFFICES ASSUME NEW k \in 1 .. N
               PROVE  at(k) \in left /\ Rank(at(k)) = k
    OBVIOUS
  <2>6. PICK n \in left : r[n] = k
    BY <2>5 DEF Surjection
  <2>7. Rank(n) = k
    BY <2>6 DEF r
  <2> HIDE DEF Rank
  <2> QED
    BY <2>7
<1>6. \A n \in left : at(Rank(n)) = n
  <2> SUFFICES ASSUME NEW n \in left PROVE at(Rank(n)) = n
    OBVIOUS
  <2>1. Rank(n) \in 1 .. N
    BY <1>3
  <2> DEFINE m == at(Rank(n))
  <2>2. m \in left /\ Rank(m) = Rank(n)
    BY <1>5, <2>1
  <2>3. m \in Nat /\ n \in Nat /\ Rank(n) \in Nat
    BY <1>2, <2>1, <2>2
  <2> HIDE DEF m, Rank
  <2>4. ~(m < n) /\ ~(n < m)
    BY <1>4, <2>2, <2>3
  <2>5. m = n
    BY <2>3, <2>4
  <2> QED
    BY <2>5 DEF m
<1> HIDE DEF left, N, at, Rank
<1>7. Skipping(list, ips) \in Seq(S)
  <2>1. \A k \in 1 .. N : list[at(k)] \in S
    BY <1>5 DEF left
  <2> QED
    BY <1>1, <1>2, <2>1
<1>8. \A k, l \in 1 .. N : k < l <=> at(k) < at(l)
  <2> SUFFICES ASSUME NEW k \in 1 .. N, NEW l \in 1 .. N
               PROVE  k < l <=> at(k) < at(l)
    OBVIOUS
  <2>1. at(k) \in left /\ at(l) \in left /\ at(k) \in Nat /\ at(l) \in Nat
    <3>1. at(k) \in left /\ at(l) \in left
      BY <1>5
    <3>2. \A n \in left : n \in Nat
      BY <1>2
    <3> HIDE DEF at
    <3> QED
      BY <3>1, <3>2
  <2>2. Rank(at(k)) = k /\ Rank(at(l)) = l
    BY <1>5
  <2>3. at(k) < at(l) => k < l
    BY <1>4, <2>1, <2>2
  <2>4. at(l) < at(k) => l < k
    BY <1>4, <2>1, <2>2
  <2>5. at(k) = at(l) => k = l
    BY <2>2
  <2>6. k \in Nat /\ l \in Nat
    BY <1>2
  <2> HIDE DEF Rank
  <2> QED
    BY <2>1, <2>3, <2>4, <2>5, <2>6
<1>9. DOMAIN Skipping(list, ips) = 1 .. N
  BY <1>1
<1> DEFINE f == [k \in 1 .. N |-> at(k)]
<1>10. f \in [1 .. N -> left]
  BY <1>5
<1>11. \A n \in left : \E k \in 1 .. N : f[k] = n
  <2>1. \A n \in left : Rank(n) \in 1 .. N /\ at(Rank(n)) = n
    BY <1>3, <1>6 DEF Rank
  <2> QED
    BY <2>1
<1>12. \A k \in 1 .. N : f[k] = at(k) /\ Skipping(list, ips)[k] = list[f[k]]
  BY <1>1
<1> HIDE DEF f
<1>13. \A k, l \in 1 .. N : k < l <=> f[k] < f[l]
  BY <1>8, <1>12
<1>14. Picks(f, Skipping(list, ips), list, ips)
  <2>1. \A k \in 1 .. N : f[k] \in DOMAIN list /\ list[f[k]] \notin ips
    BY <1>10 DEF left
  <2>2. \A n \in DOMAIN list : list[n] \notin ips => \E k \in 1 .. N : f[k] = n
    BY <1>11 DEF left
  <2> QED
    BY <1>9, <1>12, <1>13, <2>1, <2>2 DEF Picks
<1> QED
  BY <1>7, <1>14

\* Skipping leaves the other members of the list, each as often as before.
LEMMA Skipped ==
    ASSUME NEW S, NEW list \in Seq(S), NEW ips
    PROVE  /\ Skipping(list, ips) \in Seq(S)
           /\ ToSet(Skipping(list, ips)) = ToSet(list) \ ips
           /\ IsInjective(list) => IsInjective(Skipping(list, ips))
<1> DEFINE rest == Skipping(list, ips)
<1>1. rest \in Seq(S)
  BY Picked
<1>2. PICK at : Picks(at, rest, list, ips)
  BY Picked
<1> HIDE DEF rest
<1>3. /\ \A k \in DOMAIN rest : /\ at[k] \in DOMAIN list /\ list[at[k]] \notin ips
                               /\ rest[k] = list[at[k]]
      /\ \A n \in DOMAIN list : list[n] \notin ips => \E k \in DOMAIN rest : at[k] = n
      /\ \A k, l \in DOMAIN rest : k < l <=> at[k] < at[l]
  BY <1>2 DEF Picks
<1>4. ToSet(rest) = ToSet(list) \ ips
  <2>1. \A k \in DOMAIN rest : rest[k] \in ToSet(list) \ ips
    BY <1>3 DEF ToSet
  <2>2. \A n \in DOMAIN list : list[n] \notin ips => \E k \in DOMAIN rest : rest[k] = list[n]
    BY <1>3
  <2> QED
    BY <2>1, <2>2 DEF ToSet
<1>5. ASSUME IsInjective(list) PROVE IsInjective(rest)
  <2>1. \A k, l \in DOMAIN rest : rest[k] = rest[l] => at[k] = at[l]
    BY <1>3, <1>5 DEF IsInjective
  <2>2. DOMAIN rest = 1 .. Len(rest) /\ Len(rest) \in Nat
    BY <1>1, LenProperties
  <2>3. DOMAIN list = 1 .. Len(list) /\ Len(list) \in Nat
    BY LenProperties
  <2>4. \A k, l \in DOMAIN rest : at[k] = at[l] => k = l
    <3> SUFFICES ASSUME NEW k \in DOMAIN rest, NEW l \in DOMAIN rest, at[k] = at[l]
                 PROVE  k = l
      OBVIOUS
    <3>1. ~(k < l) /\ ~(l < k)
      BY <1>3, <2>3
    <3>2. k \in Nat /\ l \in Nat
      BY <2>2
    <3> QED
      BY <3>1, <3>2
  <2> QED
    BY <2>1, <2>4 DEF IsInjective
<1> QED
  BY <1>1, <1>4, <1>5 DEF rest

\* A list's members are finitely many, and as many as its places if no two are
\* the same.
LEMMA Listed ==
    ASSUME NEW S, NEW list \in Seq(S)
    PROVE  /\ IsFiniteSet(ToSet(list))
           /\ IsInjective(list) => Cardinality(ToSet(list)) = Len(list)
<1>1. Len(list) \in Nat /\ DOMAIN list = 1 .. Len(list)
  BY LenProperties
<1>2. IsFiniteSet(1 .. Len(list)) /\ Cardinality(1 .. Len(list)) = Len(list)
  BY <1>1, FS_Interval
<1>3. list \in Surjection(1 .. Len(list), ToSet(list))
  BY <1>1 DEF Surjection, ToSet
<1>4. IsInjective(list) => list \in Injection(1 .. Len(list), ToSet(list))
  BY <1>1, <1>3 DEF Injection, Surjection, IsInjective
<1> QED
  BY <1>2, <1>3, <1>4, FS_Surjection

\* An order of a finite set lists each of its members once.
LEMMA Ordered ==
    ASSUME NEW S, IsFiniteSet(S), NEW order \in SetToSeqs(S)
    PROVE  order \in Seq(S) /\ IsInjective(order) /\ ToSet(order) = S
<1> DEFINE D == 1 .. Cardinality(S)
<1>1. Cardinality(S) \in Nat
  BY FS_CardinalityType
<1>2. /\ order \in [D -> S]
      /\ \A i, j \in D : i # j => order[i] # order[j]
  BY DEF SetToSeqs
<1>3. IsFiniteSet(D) /\ Cardinality(D) = Cardinality(S)
  BY <1>1, FS_Interval
<1>4. order \in Seq(S)
  BY <1>1, <1>2
<1> HIDE DEF D
<1>5. order \in Injection(D, S) /\ IsInjective(order)
  BY <1>2 DEF Injection, IsInjective
<1>6. order \in Surjection(D, S)
  BY <1>3, <1>5, FS_Injection
<1>7. ToSet(order) = S
  BY <1>2, <1>6 DEF Surjection, ToSet
<1> QED
  BY <1>4, <1>5, <1>7

\* Two lists of different members, one after the other.
LEMMA InARow ==
    ASSUME NEW S, NEW s \in Seq(S), NEW t \in Seq(S),
           IsInjective(s), IsInjective(t), ToSet(s) \cap ToSet(t) = {}
    PROVE  /\ s \o t \in Seq(S)
           /\ IsInjective(s \o t)
           /\ ToSet(s \o t) = ToSet(s) \cup ToSet(t)
<1>1. /\ Len(s) \in Nat /\ Len(t) \in Nat
      /\ DOMAIN s = 1 .. Len(s) /\ DOMAIN t = 1 .. Len(t)
  BY LenProperties
<1>2. /\ s \o t \in Seq(S) /\ Len(s \o t) = Len(s) + Len(t)
      /\ DOMAIN (s \o t) = 1 .. Len(s) + Len(t)
      /\ \A i \in 1 .. Len(s) + Len(t) :
            (s \o t)[i] = IF i <= Len(s) THEN s[i] ELSE t[i - Len(s)]
  BY ConcatProperties, LenProperties
<1> DEFINE j == s \o t
<1> HIDE DEF j
<1>3. \A i \in 1 .. Len(s) : i \in DOMAIN j /\ j[i] = s[i] /\ j[i] \in ToSet(s)
  BY <1>1, <1>2 DEF j, ToSet
<1>4. \A i \in 1 .. Len(t) : i + Len(s) \in DOMAIN j /\ j[i + Len(s)] = t[i]
  BY <1>1, <1>2 DEF j
<1>5. \A i \in DOMAIN j : \/ i \in 1 .. Len(s)
                         \/ /\ i - Len(s) \in 1 .. Len(t)
                            /\ j[i] = t[i - Len(s)]
                            /\ j[i] \in ToSet(t)
  BY <1>1, <1>2 DEF j, ToSet
<1>6. ToSet(j) = ToSet(s) \cup ToSet(t)
  <2>1. ToSet(j) \subseteq ToSet(s) \cup ToSet(t)
    BY <1>3, <1>5 DEF ToSet
  <2>2. ToSet(s) \subseteq ToSet(j)
    BY <1>1, <1>3 DEF ToSet
  <2>3. ToSet(t) \subseteq ToSet(j)
    BY <1>1, <1>4 DEF ToSet
  <2> QED
    BY <2>1, <2>2, <2>3
<1>7. IsInjective(j)
  <2> SUFFICES ASSUME NEW a \in DOMAIN j, NEW b \in DOMAIN j, j[a] = j[b]
               PROVE  a = b
    BY DEF IsInjective
  <2>1. a \in Nat /\ b \in Nat
    BY <1>1, <1>2 DEF j
  <2>2. CASE a \in 1 .. Len(s) /\ b \in 1 .. Len(s)
    BY <1>1, <1>3, <2>2 DEF IsInjective
  <2>3. CASE a \notin 1 .. Len(s) /\ b \notin 1 .. Len(s)
    <3>1. t[a - Len(s)] = t[b - Len(s)]
      BY <1>5, <2>3
    <3>2. a - Len(s) \in DOMAIN t /\ b - Len(s) \in DOMAIN t
      BY <1>1, <1>5, <2>3
    <3>3. a - Len(s) = b - Len(s)
      BY <3>1, <3>2 DEF IsInjective
    <3> QED
      BY <1>1, <2>1, <3>3
  <2>4. CASE (a \in 1 .. Len(s)) # (b \in 1 .. Len(s))
    BY <1>3, <1>5, <2>4
  <2> QED
    BY <2>2, <2>3, <2>4
<1> QED
  BY <1>2, <1>6, <1>7 DEF j

\* A list of different members, one more put to its end, or its first taken off.
LEMMA Extended ==
    ASSUME NEW S, NEW s \in Seq(S), IsInjective(s), NEW x \in S, x \notin ToSet(s)
    PROVE  /\ Append(s, x) \in Seq(S) /\ IsInjective(Append(s, x))
           /\ ToSet(Append(s, x)) = ToSet(s) \cup {x}
<1>1. /\ Len(s) \in Nat /\ DOMAIN s = 1 .. Len(s)
      /\ Append(s, x) \in Seq(S) /\ DOMAIN Append(s, x) = 1 .. Len(s) + 1
      /\ \A i \in 1 .. Len(s) : Append(s, x)[i] = s[i]
      /\ Append(s, x)[Len(s) + 1] = x
  BY AppendProperties, LenProperties
<1>2. \A i \in 1 .. Len(s) : s[i] # x
  BY <1>1 DEF ToSet
<1>3. /\ \A i \in 1 .. Len(s) + 1 : i \in 1 .. Len(s) \/ i = Len(s) + 1
      /\ \A i \in 1 .. Len(s) : i \in 1 .. Len(s) + 1
      /\ Len(s) + 1 \in 1 .. Len(s) + 1
  BY <1>1
<1>4. IsInjective(Append(s, x))
  BY <1>1, <1>2, <1>3 DEF IsInjective
<1>5. ToSet(Append(s, x)) = ToSet(s) \cup {x}
  BY <1>1, <1>3 DEF ToSet
<1> QED
  BY <1>1, <1>4, <1>5

LEMMA Shortened ==
    ASSUME NEW S, NEW s \in Seq(S), IsInjective(s), s # <<>>
    PROVE  /\ Head(s) \in S /\ Head(s) \in ToSet(s)
           /\ Tail(s) \in Seq(S) /\ IsInjective(Tail(s))
           /\ ToSet(Tail(s)) = ToSet(s) \ {Head(s)}
<1>1. /\ Len(s) \in Nat /\ Len(s) > 0 /\ DOMAIN s = 1 .. Len(s)
      /\ Head(s) = s[1] /\ Head(s) \in S
      /\ Tail(s) \in Seq(S) /\ DOMAIN Tail(s) = 1 .. Len(s) - 1
      /\ \A i \in 1 .. Len(s) - 1 : Tail(s)[i] = s[i + 1]
  BY HeadTailProperties, LenProperties, EmptySeq
<1>2. \A i \in 1 .. Len(s) - 1 : i \in Nat /\ i + 1 \in 1 .. Len(s)
  BY <1>1
<1>3. \A i, j \in 1 .. Len(s) - 1 : s[i + 1] = s[j + 1] => i + 1 = j + 1
  BY <1>1, <1>2 DEF IsInjective
<1>4. \A i, j \in 1 .. Len(s) - 1 : i + 1 = j + 1 => i = j
  BY <1>2
<1>5. IsInjective(Tail(s))
  BY <1>1, <1>3, <1>4 DEF IsInjective
<1>6. Head(s) \in ToSet(s)
  BY <1>1 DEF ToSet
<1>7. ToSet(Tail(s)) = ToSet(s) \ {Head(s)}
  <2>1. \A i \in 1 .. Len(s) - 1 : Tail(s)[i] \in ToSet(s) /\ Tail(s)[i] # Head(s)
    BY <1>1, <1>2 DEF ToSet, IsInjective
  <2>2. \A i \in 1 .. Len(s) : i = 1 \/ (i - 1 \in 1 .. Len(s) - 1 /\ Tail(s)[i - 1] = s[i])
    BY <1>1
  <2>3. ToSet(s) = {s[i] : i \in 1 .. Len(s)}
    BY <1>1 DEF ToSet
  <2>4. ToSet(Tail(s)) = {Tail(s)[i] : i \in 1 .. Len(s) - 1}
    BY <1>1 DEF ToSet
  <2>5. ASSUME NEW x \in ToSet(s), x # Head(s) PROVE x \in ToSet(Tail(s))
    BY <1>1, <2>2, <2>3, <2>4, <2>5
  <2>6. ASSUME NEW x \in ToSet(Tail(s)) PROVE x \in ToSet(s) /\ x # Head(s)
    BY <2>1, <2>4
  <2> QED
    BY <2>5, <2>6
<1> QED
  BY <1>1, <1>5, <1>6, <1>7

\* A new member put to the front of a list.
LEMMA Prepended ==
    ASSUME NEW S, NEW list \in Seq(S), IsInjective(list), NEW x \in S, x \notin ToSet(list)
    PROVE  LET longer == <<x>> \o list
           IN  longer \in Seq(S) /\ IsInjective(longer) /\ ToSet(longer) = ToSet(list) \cup {x}
<1> DEFINE one == <<x>>
<1>1. one \in Seq(S) /\ IsInjective(one) /\ ToSet(one) = {x}
  BY DEF IsInjective, ToSet
<1> HIDE DEF one
<1>2. ToSet(one) \cap ToSet(list) = {}
  BY <1>1
<1>3. /\ one \o list \in Seq(S) /\ IsInjective(one \o list)
      /\ ToSet(one \o list) = ToSet(one) \cup ToSet(list)
  BY <1>1, <1>2, InARow
<1>4. ToSet(one \o list) = ToSet(list) \cup {x}
  BY <1>1, <1>3
<1> QED
  BY <1>3, <1>4 DEF one

\* A list over a set is one over any larger set.
LEMMA Widened ==
    ASSUME NEW S, NEW T, S \subseteq T, NEW list \in Seq(S)
    PROVE  list \in Seq(T)
<1>1. Len(list) \in Nat /\ list \in [1 .. Len(list) -> S]
  BY LenProperties
<1> QED
  BY <1>1

\* A member moved, or put, to the front of a list.
LEMMA Promoted ==
    ASSUME NEW S, NEW list \in Seq(S), IsInjective(list), NEW x \in S
    PROVE  LET moved == <<x>> \o Skipping(list, {x})
           IN  moved \in Seq(S) /\ IsInjective(moved) /\ ToSet(moved) = ToSet(list) \cup {x}
<1> DEFINE rest == Skipping(list, {x})
<1>1. rest \in Seq(S) /\ IsInjective(rest) /\ ToSet(rest) = ToSet(list) \ {x}
  BY Skipped
<1> HIDE DEF rest
<1>2. x \notin ToSet(rest) /\ ToSet(rest) \cup {x} = ToSet(list) \cup {x}
  BY <1>1
<1>3. /\ <<x>> \o rest \in Seq(S) /\ IsInjective(<<x>> \o rest)
      /\ ToSet(<<x>> \o rest) = ToSet(rest) \cup {x}
  BY <1>1, <1>2, Prepended
<1> QED
  BY <1>2, <1>3 DEF rest
\* What is where in a list after one member is taken out.
LEMMA TakenOut ==
    ASSUME NEW S, NEW list \in Seq(S), NEW i \in DOMAIN list
    PROVE  LET rest == RemoveAt(list, i)
           IN  /\ rest \in Seq(S) /\ Len(rest) = Len(list) - 1
               /\ DOMAIN rest = 1 .. Len(list) - 1
               /\ \A j \in 1 .. Len(list) - 1 :
                     rest[j] = IF j < i THEN list[j] ELSE list[j + 1]
<1> DEFINE L      == Len(list)
           before == SubSeq(list, 1, i - 1)
           after  == SubSeq(list, i + 1, L)
<1>1. L \in Nat /\ DOMAIN list = 1 .. L /\ i \in 1 .. L /\ \A j \in 1 .. L : list[j] \in S
  BY LenProperties
<1>2. /\ before \in Seq(S) /\ Len(before) = i - 1
      /\ \A j \in 1 .. i - 1 : before[j] = list[j]
  <2>1. before = [j \in 1 .. i - 1 |-> list[j]] /\ i - 1 \in Nat
    BY <1>1
  <2>2. \A j \in 1 .. i - 1 : j \in 1 .. L
    BY <1>1
  <2> HIDE DEF L
  <2> QED
    BY <1>1, <2>1, <2>2
<1>3. /\ after \in Seq(S) /\ Len(after) = L - i
      /\ \A j \in 1 .. L - i : after[j] = list[i + j]
  <2>1. after = [j \in 1 .. L - i |-> list[i + j]] /\ L - i \in Nat
    BY <1>1
  <2>2. \A j \in 1 .. L - i : i + j \in 1 .. L
    BY <1>1
  <2> HIDE DEF L
  <2> QED
    BY <1>1, <2>1, <2>2
<1>4. RemoveAt(list, i) = before \o after
  BY DEF RemoveAt
<1> HIDE DEF L, before, after
<1>5. /\ before \o after \in Seq(S) /\ Len(before \o after) = L - 1
      /\ \A j \in 1 .. L - 1 :
            (before \o after)[j] = IF j <= i - 1 THEN before[j] ELSE after[j - (i - 1)]
  <2>1. Len(before) + Len(after) = L - 1
    BY <1>1, <1>2, <1>3
  <2>2. /\ before \o after \in Seq(S) /\ Len(before \o after) = Len(before) + Len(after)
        /\ \A j \in 1 .. Len(before) + Len(after) :
              (before \o after)[j] = IF j <= Len(before) THEN before[j] ELSE after[j - Len(before)]
    BY <1>2, <1>3, ConcatProperties
  <2> QED
    BY <1>2, <2>1, <2>2
<1>6. \A j \in 1 .. L - 1 : (before \o after)[j] = IF j < i THEN list[j] ELSE list[j + 1]
  <2> SUFFICES ASSUME NEW j \in 1 .. L - 1
               PROVE  (before \o after)[j] = IF j < i THEN list[j] ELSE list[j + 1]
    OBVIOUS
  <2>1. CASE j < i
    <3>1. j \in 1 .. i - 1 /\ j <= i - 1
      BY <1>1, <2>1
    <3> QED
      BY <1>2, <1>5, <2>1, <3>1
  <2>2. CASE ~(j < i)
    <3>1. j - (i - 1) \in 1 .. L - i /\ i + (j - (i - 1)) = j + 1 /\ ~(j <= i - 1)
      BY <1>1, <2>2
    <3> QED
      BY <1>3, <1>5, <2>2, <3>1
  <2> QED
    BY <2>1, <2>2
<1>7. DOMAIN (before \o after) = 1 .. L - 1
  BY <1>5, LenProperties
<1> QED
  BY <1>4, <1>5, <1>6, <1>7 DEF L

\* What is where in a list after a member is put in.
LEMMA PutIn ==
    ASSUME NEW S, NEW list \in Seq(S), NEW i \in 1 .. Len(list) + 1, NEW x \in S
    PROVE  LET more == InsertAt(list, i, x)
           IN  /\ more \in Seq(S) /\ DOMAIN more = 1 .. Len(list) + 1
               /\ \A j \in 1 .. Len(list) + 1 :
                     more[j] = IF j < i THEN list[j] ELSE IF j = i THEN x ELSE list[j - 1]
<1> DEFINE L      == Len(list)
           before == SubSeq(list, 1, i - 1)
           after  == SubSeq(list, i, L)
           one    == <<x>>
<1>1. L \in Nat /\ DOMAIN list = 1 .. L /\ i \in 1 .. L + 1 /\ \A j \in 1 .. L : list[j] \in S
  BY LenProperties
<1>2. /\ before \in Seq(S) /\ Len(before) = i - 1
      /\ \A j \in 1 .. i - 1 : before[j] = list[j]
  <2>1. before = [j \in 1 .. i - 1 |-> list[j]] /\ i - 1 \in Nat
    BY <1>1
  <2>2. \A j \in 1 .. i - 1 : j \in 1 .. L
    BY <1>1
  <2> HIDE DEF L
  <2> QED
    BY <1>1, <2>1, <2>2
<1>3. /\ after \in Seq(S) /\ Len(after) = L + 1 - i
      /\ \A j \in 1 .. L + 1 - i : after[j] = list[i + j - 1]
  <2>1. after = [j \in 1 .. L + 1 - i |-> list[i + j - 1]] /\ L + 1 - i \in Nat
    BY <1>1
  <2>2. \A j \in 1 .. L + 1 - i : i + j - 1 \in 1 .. L
    BY <1>1
  <2> HIDE DEF L
  <2> QED
    BY <1>1, <2>1, <2>2
<1>4. InsertAt(list, i, x) = (before \o one) \o after
  BY DEF InsertAt
<1>5. one \in Seq(S) /\ Len(one) = 1 /\ one[1] = x
  OBVIOUS
<1> HIDE DEF L, before, after, one
<1>6. /\ before \o one \in Seq(S) /\ Len(before \o one) = i
      /\ \A j \in 1 .. i : (before \o one)[j] = IF j <= i - 1 THEN before[j] ELSE one[j - (i - 1)]
  <2>1. Len(before) + Len(one) = i
    BY <1>1, <1>2, <1>5
  <2>2. /\ before \o one \in Seq(S) /\ Len(before \o one) = Len(before) + Len(one)
        /\ \A j \in 1 .. Len(before) + Len(one) :
              (before \o one)[j] = IF j <= Len(before) THEN before[j] ELSE one[j - Len(before)]
    BY <1>2, <1>5, ConcatProperties
  <2> QED
    BY <1>2, <2>1, <2>2
<1> DEFINE first == before \o one
           more  == first \o after
<1>7. \A j \in 1 .. i : first[j] = IF j < i THEN list[j] ELSE x
  <2>1. \A j \in 1 .. i : j < i => j <= i - 1 /\ j \in 1 .. i - 1
    BY <1>1
  <2>2. ~(i <= i - 1) /\ i - (i - 1) = 1 /\ i \in 1 .. i
    BY <1>1
  <2>3. \A j \in 1 .. i : j < i \/ j = i
    BY <1>1
  <2> QED
    BY <1>2, <1>5, <1>6, <2>1, <2>2, <2>3
<1> HIDE DEF first
<1>8. /\ more \in Seq(S) /\ Len(more) = L + 1
      /\ \A j \in 1 .. L + 1 : more[j] = IF j <= i THEN first[j] ELSE after[j - i]
  BY <1>1, <1>3, <1>6, ConcatProperties DEF first
<1> HIDE DEF more
<1>9. \A j \in 1 .. L + 1 :
         more[j] = IF j < i THEN list[j] ELSE IF j = i THEN x ELSE list[j - 1]
  <2> SUFFICES ASSUME NEW j \in 1 .. L + 1
               PROVE  more[j] = IF j < i THEN list[j] ELSE IF j = i THEN x ELSE list[j - 1]
    OBVIOUS
  <2>1. CASE j <= i
    <3>1. j \in 1 .. i /\ (j < i \/ j = i)
      BY <1>1, <2>1
    <3> QED
      BY <1>7, <1>8, <2>1, <3>1
  <2>2. CASE ~(j <= i)
    <3>1. j - i \in 1 .. L + 1 - i /\ i + (j - i) - 1 = j - 1 /\ ~(j < i) /\ j # i
      BY <1>1, <2>2
    <3> QED
      BY <1>3, <1>8, <2>2, <3>1
  <2> QED
    BY <2>1, <2>2
<1>10. DOMAIN more = 1 .. L + 1
  BY <1>8, LenProperties
<1> QED
  BY <1>4, <1>8, <1>9, <1>10 DEF L, more, first

\* A new member put into a list of different members.
LEMMA PutInMembers ==
    ASSUME NEW S, NEW list \in Seq(S), IsInjective(list), NEW i \in 1 .. Len(list) + 1,
           NEW x \in S, x \notin ToSet(list)
    PROVE  LET more == InsertAt(list, i, x)
           IN  IsInjective(more) /\ ToSet(more) = ToSet(list) \cup {x}
<1> DEFINE more == InsertAt(list, i, x)
           L    == Len(list)
<1>1. /\ DOMAIN list = 1 .. L /\ L \in Nat /\ DOMAIN more = 1 .. L + 1
      /\ \A j \in 1 .. L + 1 :
            more[j] = IF j < i THEN list[j] ELSE IF j = i THEN x ELSE list[j - 1]
  BY PutIn, LenProperties
<1> HIDE DEF more, L
<1>2. i \in 1 .. L + 1 /\ i \in Nat
  BY <1>1 DEF L
<1>3. \A j \in 1 .. L + 1 : /\ j \in Nat
                            /\ j < i => j \in 1 .. L
                            /\ ~(j < i) /\ j # i => j - 1 \in 1 .. L /\ j - 1 >= i
  BY <1>1, <1>2
<1>4. \A j \in 1 .. L : list[j] # x
  BY <1>1 DEF ToSet
<1>5. \A j, k \in 1 .. L + 1 : more[j] = more[k] => j = k
  <2> SUFFICES ASSUME NEW j \in 1 .. L + 1, NEW k \in 1 .. L + 1, more[j] = more[k]
               PROVE  j = k
    OBVIOUS
  <2>1. \A a, b \in 1 .. L : list[a] = list[b] => a = b
    BY <1>1 DEF IsInjective
  <2>2. CASE j = i \/ k = i
    BY <1>1, <1>2, <1>3, <1>4, <2>2
  <2>3. CASE j < i /\ k < i
    BY <1>1, <1>3, <2>1, <2>3
  <2>4. CASE j # i /\ k # i /\ ~(j < i) /\ ~(k < i)
    <3>1. j - 1 = k - 1
      BY <1>1, <1>3, <2>1, <2>4
    <3> QED BY <1>3, <3>1
  <2>5. CASE j < i /\ k # i /\ ~(k < i)
    <3>1. j = k - 1 /\ k - 1 >= i
      BY <1>1, <1>3, <2>1, <2>5
    <3> QED BY <1>2, <1>3, <2>5, <3>1
  <2>6. CASE k < i /\ j # i /\ ~(j < i)
    <3>1. k = j - 1 /\ j - 1 >= i
      BY <1>1, <1>3, <2>1, <2>6
    <3> QED BY <1>2, <1>3, <2>6, <3>1
  <2> QED BY <2>2, <2>3, <2>4, <2>5, <2>6
<1>6. ToSet(more) = ToSet(list) \cup {x}
  <2>1. \A j \in 1 .. L + 1 : more[j] = x \/ \E k \in 1 .. L : more[j] = list[k]
    BY <1>1, <1>3
  <2>2. \A k \in 1 .. L : \E j \in 1 .. L + 1 : more[j] = list[k]
    <3> TAKE k \in 1 .. L
    <3>1. CASE k < i
      <4>1. k \in 1 .. L + 1
        BY <1>1
      <4> QED BY <1>1, <3>1, <4>1
    <3>2. CASE ~(k < i)
      <4>1. k + 1 \in 1 .. L + 1 /\ ~(k + 1 < i) /\ k + 1 # i /\ (k + 1) - 1 = k
        BY <1>1, <1>2, <3>2
      <4> QED BY <1>1, <4>1
    <3> QED BY <3>1, <3>2
  <2>3. more[i] = x
    BY <1>1, <1>2
  <2>4. ToSet(more) = {more[j] : j \in 1 .. L + 1} /\ ToSet(list) = {list[j] : j \in 1 .. L}
    BY <1>1 DEF ToSet
  <2>5. \A y \in ToSet(more) : y \in ToSet(list) \cup {x}
    BY <2>1, <2>4
  <2>6. \A y \in ToSet(list) \cup {x} : y \in ToSet(more)
    BY <1>2, <2>2, <2>3, <2>4
  <2> QED BY <2>5, <2>6
<1> QED BY <1>1, <1>5, <1>6 DEF IsInjective, more

\* A set of places with all places before each of its own is an interval from
\* one on.
LEMMA FirstPlaces ==
    ASSUME NEW L \in Nat, NEW A \in SUBSET (1 .. L),
           \A i \in A : \A j \in 1 .. L : j < i => j \in A
    PROVE  A = 1 .. Cardinality(A) /\ Cardinality(A) \in 0 .. L
<1> DEFINE T == {n \in Nat : n >= 1 /\ n \notin A}
<1>1. L + 1 \in T
  OBVIOUS
<1>2. PICK n \in T : \A m \in T : n <= m
  BY <1>1, Least
<1>3. n \in Nat /\ n >= 1 /\ n \notin A /\ n <= L + 1
  BY <1>1, <1>2
<1>4. \A m \in 1 .. n - 1 : m \in A
  <2> TAKE m \in 1 .. n - 1
  <2>1. m \in Nat /\ m >= 1 /\ ~(n <= m)
    BY <1>3
  <2> QED BY <1>2, <2>1
<1>5. \A m \in A : m \in 1 .. n - 1
  <2> TAKE m \in A
  <2>1. m \in 1 .. L
    OBVIOUS
  <2>2. m # n
    BY <1>3
  <2>3. ~(n < m)
    <3>1. n < m => n \in 1 .. L
      BY <1>3, <2>1
    <3>2. n < m => n \in A
      BY <3>1
    <3> QED BY <1>3, <3>2
  <2> QED BY <1>3, <2>1, <2>2, <2>3
<1>6. A = 1 .. n - 1 /\ n - 1 \in Nat
  <2>1. n - 1 \in Nat
    BY <1>3
  <2>2. A \subseteq 1 .. n - 1
    BY <1>5
  <2>3. 1 .. n - 1 \subseteq A
    BY <1>4
  <2> QED BY <2>1, <2>2, <2>3
<1>7. Cardinality(A) = n - 1
  BY <1>6, FS_Interval
<1>8. n - 1 \in 0 .. L
  BY <1>3
<1> QED BY <1>6, <1>7, <1>8
-----------------------------------------------------------------------------
(***************************************************************************)
(* Who is ahead of whom.                                                   *)
(***************************************************************************)

\* Who is ahead of somebody is a member, and so is the other.
LEMMA AheadMembers ==
    \A list, x, y : Ahead(list, x, y) => x \in ToSet(list) /\ y \in ToSet(list)
BY DEF Ahead, ToSet

\* Two different members are ahead of each other one way, and only one if the
\* list has none twice.
LEMMA AheadOneWay ==
    ASSUME NEW S, NEW list \in Seq(S)
    PROVE  /\ \A x, y \in ToSet(list) : x # y => Ahead(list, x, y) \/ Ahead(list, y, x)
           /\ IsInjective(list) => \A x, y : ~(Ahead(list, x, y) /\ Ahead(list, y, x))
           /\ IsInjective(list) => \A x : ~Ahead(list, x, x)
<1>1. DOMAIN list = 1 .. Len(list) /\ Len(list) \in Nat
  BY LenProperties
<1>2. \A i, j \in DOMAIN list : i # j => i < j \/ j < i
  BY <1>1
<1>3. \A i, j \in DOMAIN list : ~(i < j /\ j < i) /\ ~(i < i)
  BY <1>1
<1>4. \A x, y \in ToSet(list) : x # y => Ahead(list, x, y) \/ Ahead(list, y, x)
  BY <1>2 DEF Ahead, ToSet
<1>5. IsInjective(list) => \A x, y : ~(Ahead(list, x, y) /\ Ahead(list, y, x))
  BY <1>3 DEF Ahead, IsInjective
<1>6. IsInjective(list) => \A x : ~Ahead(list, x, x)
  BY <1>3 DEF Ahead, IsInjective
<1> QED
  BY <1>4, <1>5, <1>6

\* Skipping leaves the others in their order.
LEMMA AheadPicked ==
    ASSUME NEW S, NEW list \in Seq(S), NEW xs
    PROVE  \A x, y : Ahead(Skipping(list, xs), x, y)
                        <=> Ahead(list, x, y) /\ x \notin xs /\ y \notin xs
<1> DEFINE rest == Skipping(list, xs)
<1>1. PICK at : Picks(at, rest, list, xs)
  BY Picked
<1> HIDE DEF rest
<1>2. /\ \A k \in DOMAIN rest : /\ at[k] \in DOMAIN list /\ list[at[k]] \notin xs
                               /\ rest[k] = list[at[k]]
      /\ \A n \in DOMAIN list : list[n] \notin xs => \E k \in DOMAIN rest : at[k] = n
      /\ \A k, l \in DOMAIN rest : k < l <=> at[k] < at[l]
  BY <1>1 DEF Picks
<1>3. \A x, y : Ahead(rest, x, y) => Ahead(list, x, y) /\ x \notin xs /\ y \notin xs
  BY <1>2 DEF Ahead
<1>4. \A x, y : Ahead(list, x, y) /\ x \notin xs /\ y \notin xs => Ahead(rest, x, y)
  BY <1>2 DEF Ahead
<1> QED
  BY <1>3, <1>4 DEF rest

\* Whoever is put at the end of a list is behind all others.
LEMMA AheadAppended ==
    ASSUME NEW S, NEW list \in Seq(S), NEW z \in S
    PROVE  \A x, y : Ahead(Append(list, z), x, y)
                        <=> Ahead(list, x, y) \/ (x \in ToSet(list) /\ y = z)
<1> DEFINE more == Append(list, z)
           L    == Len(list)
<1>1. /\ DOMAIN list = 1 .. L /\ L \in Nat /\ DOMAIN more = 1 .. L + 1
      /\ \A i \in 1 .. L : more[i] = list[i]
      /\ more[L + 1] = z
  BY AppendProperties, LenProperties
<1> HIDE DEF more, L
<1>2. \A i \in DOMAIN more : i \in DOMAIN list \/ i = L + 1
  BY <1>1
<1>3. \A i \in DOMAIN list : i \in DOMAIN more /\ i < L + 1 /\ ~(L + 1 < i) /\ more[i] = list[i]
  BY <1>1
<1>4. L + 1 \in DOMAIN more /\ ~(L + 1 < L + 1)
  BY <1>1
<1>5. \A x, y : Ahead(more, x, y) => Ahead(list, x, y) \/ (x \in ToSet(list) /\ y = z)
  BY <1>1, <1>2, <1>3, <1>4 DEF Ahead, ToSet
<1>6. \A x, y : Ahead(list, x, y) => Ahead(more, x, y)
  BY <1>3 DEF Ahead
<1>7. \A x \in ToSet(list) : Ahead(more, x, z)
  BY <1>1, <1>3, <1>4 DEF Ahead, ToSet
<1> QED
  BY <1>5, <1>6, <1>7 DEF more

\* Whoever is put at the front of a list is ahead of all others.
LEMMA AheadPrepended ==
    ASSUME NEW S, NEW list \in Seq(S), NEW z \in S
    PROVE  \A x, y : Ahead(<<z>> \o list, x, y)
                        <=> Ahead(list, x, y) \/ (x = z /\ y \in ToSet(list))
<1> DEFINE more == <<z>> \o list
           L    == Len(list)
<1>1. /\ DOMAIN list = 1 .. L /\ L \in Nat /\ DOMAIN more = 1 .. L + 1
      /\ \A i \in 1 .. L : more[i + 1] = list[i]
      /\ more[1] = z
  BY ConcatProperties, LenProperties
<1> HIDE DEF more, L
<1>2. \A i \in DOMAIN more : i = 1 \/ \E j \in DOMAIN list : i = j + 1
  <2>1. \A i \in 1 .. L + 1 : i = 1 \/ (i - 1 \in 1 .. L /\ i = (i - 1) + 1)
    BY <1>1
  <2> QED
    BY <1>1, <2>1
<1>3. \A i \in DOMAIN list : /\ i + 1 \in DOMAIN more /\ 1 < i + 1 /\ ~(i + 1 < 1)
                             /\ more[i + 1] = list[i]
  BY <1>1
<1>4. 1 \in DOMAIN more /\ ~(1 < 1)
  BY <1>1
<1>5. \A i, j \in DOMAIN list : i < j <=> i + 1 < j + 1
  BY <1>1
<1>6. \A x, y : Ahead(more, x, y) => Ahead(list, x, y) \/ (x = z /\ y \in ToSet(list))
  <2> SUFFICES ASSUME NEW x, NEW y, NEW i \in DOMAIN more, NEW j \in DOMAIN more,
                      i < j, more[i] = x, more[j] = y
               PROVE  Ahead(list, x, y) \/ (x = z /\ y \in ToSet(list))
    BY DEF Ahead
  <2>1. PICK n \in DOMAIN list : j = n + 1 /\ y = list[n]
    BY <1>1, <1>2, <1>3, <1>4
  <2>2. CASE i = 1
    BY <1>1, <2>1, <2>2 DEF ToSet
  <2>3. CASE i # 1
    <3>1. PICK m \in DOMAIN list : i = m + 1 /\ x = list[m]
      BY <1>2, <1>3, <2>3
    <3>2. m < n
      BY <1>5, <2>1, <3>1
    <3> QED
      BY <2>1, <3>1, <3>2 DEF Ahead
  <2> QED
    BY <2>2, <2>3
<1>7. \A x, y : Ahead(list, x, y) => Ahead(more, x, y)
  BY <1>3, <1>5 DEF Ahead
<1>8. \A y \in ToSet(list) : Ahead(more, z, y)
  BY <1>1, <1>3, <1>4 DEF Ahead, ToSet
<1> QED
  BY <1>6, <1>7, <1>8 DEF more

\* Without its last member a list is as it was, and that one is behind all.
LEMMA WithoutLast ==
    ASSUME NEW S, NEW list \in Seq(S), IsInjective(list), list # <<>>
    PROVE  /\ Last(list) \in S /\ Last(list) \in ToSet(list)
           /\ Front(list) \in Seq(S) /\ IsInjective(Front(list))
           /\ ToSet(Front(list)) = ToSet(list) \ {Last(list)}
           /\ \A x, y : Ahead(Front(list), x, y) => Ahead(list, x, y)
           /\ \A x \in ToSet(list) \ {Last(list)} : Ahead(list, x, Last(list))
<1> DEFINE front == Front(list)
           L     == Len(list)
<1>1. DOMAIN list = 1 .. L /\ L \in Nat /\ L > 0 /\ \A i \in 1 .. L : list[i] \in S
  BY LenProperties, EmptySeq
<1>2. front = [i \in 1 .. L - 1 |-> list[i]]
  BY <1>1, SubSeqProperties DEF Front
<1>3. Last(list) = list[L] /\ L \in 1 .. L
  BY <1>1 DEF Last
<1> HIDE DEF front, L
<1>4. DOMAIN front = 1 .. L - 1 /\ L - 1 \in Nat /\ \A i \in 1 .. L - 1 : front[i] = list[i]
  BY <1>1, <1>2
<1>5. \A i \in 1 .. L - 1 : i \in DOMAIN list /\ i < L /\ i # L
  BY <1>1
<1>6. \A i \in DOMAIN list : i \in DOMAIN front \/ i = L
  BY <1>1, <1>4
<1>7. front \in Seq(S)
  BY <1>1, <1>2, <1>4, <1>5
<1>8. IsInjective(front)
  BY <1>4, <1>5 DEF IsInjective
<1>9. ToSet(front) = ToSet(list) \ {Last(list)}
  <2>1. \A i \in DOMAIN front : list[i] # list[L]
    BY <1>1, <1>3, <1>4, <1>5 DEF IsInjective
  <2>2. ToSet(front) \subseteq ToSet(list) \ {Last(list)}
    BY <1>3, <1>4, <1>5, <2>1 DEF ToSet
  <2>3. ToSet(list) \ {Last(list)} \subseteq ToSet(front)
    BY <1>3, <1>4, <1>6 DEF ToSet
  <2> QED
    BY <2>2, <2>3
<1>10. \A x, y : Ahead(front, x, y) => Ahead(list, x, y)
  BY <1>4, <1>5 DEF Ahead
<1>11. \A x \in ToSet(list) \ {Last(list)} : Ahead(list, x, Last(list))
  BY <1>1, <1>3, <1>4, <1>5, <1>6 DEF Ahead, ToSet
<1>12. Last(list) \in S /\ Last(list) \in ToSet(list)
  BY <1>1, <1>3 DEF ToSet
<1> QED
  BY <1>7, <1>8, <1>9, <1>10, <1>11, <1>12 DEF front

\* The first member is ahead of all others, which stay in their order.
LEMMA WithoutHead ==
    ASSUME NEW S, NEW list \in Seq(S), IsInjective(list), list # <<>>
    PROVE  /\ \A x, y : Ahead(Tail(list), x, y) => Ahead(list, x, y)
           /\ \A x \in ToSet(list) \ {Head(list)} : Ahead(list, Head(list), x)
<1>1. /\ Len(list) \in Nat /\ Len(list) > 0 /\ DOMAIN list = 1 .. Len(list)
      /\ Head(list) = list[1]
      /\ DOMAIN Tail(list) = 1 .. Len(list) - 1
      /\ \A i \in 1 .. Len(list) - 1 : Tail(list)[i] = list[i + 1]
  BY HeadTailProperties, LenProperties, EmptySeq
<1>2. /\ \A i \in DOMAIN Tail(list) : i + 1 \in DOMAIN list /\ Tail(list)[i] = list[i + 1]
      /\ \A i, j \in DOMAIN Tail(list) : i < j => i + 1 < j + 1
      /\ \A i \in DOMAIN list : i = 1 \/ 1 < i
      /\ 1 \in DOMAIN list
  BY <1>1
<1>3. \A x, y : Ahead(Tail(list), x, y) => Ahead(list, x, y)
  BY <1>2 DEF Ahead
<1>4. \A x \in ToSet(list) \ {Head(list)} : Ahead(list, Head(list), x)
  BY <1>1, <1>2 DEF Ahead, ToSet
<1> QED
  BY <1>3, <1>4

\* Orders compared by their pairs.
LEMMA OrdersByPairs ==
    \A s, t : /\ Follows(s, t) <=> \A x, y : Ahead(s, x, y) => Ahead(t, x, y)
              /\ Mirrors(s, t) <=> \A x, y : Ahead(s, x, y) => Ahead(t, y, x)
<1> SUFFICES ASSUME NEW s, NEW t
             PROVE  /\ Follows(s, t) <=> \A x, y : Ahead(s, x, y) => Ahead(t, x, y)
                    /\ Mirrors(s, t) <=> \A x, y : Ahead(s, x, y) => Ahead(t, y, x)
  OBVIOUS
<1>1. \A i, j \in DOMAIN s : i < j => Ahead(s, s[i], s[j])
  BY DEF Ahead
<1>2. \A x, y : Ahead(s, x, y) => \E i, j \in DOMAIN s : i < j /\ s[i] = x /\ s[j] = y
  BY DEF Ahead
<1>3. Follows(s, t) <=> \A x, y : Ahead(s, x, y) => Ahead(t, x, y)
  BY <1>1, <1>2 DEF Follows
<1>4. Mirrors(s, t) <=> \A x, y : Ahead(s, x, y) => Ahead(t, y, x)
  BY <1>1, <1>2 DEF Mirrors
<1> QED
  BY <1>3, <1>4

\* Orders stay alike when members neither list keeps are taken out of one, and
\* when one gets longer.
LEMMA OrdersKept ==
    ASSUME NEW S, NEW s, NEW t \in Seq(S), NEW z \in S, NEW xs, ToSet(s) \cap xs = {}
    PROVE  LET u == Append(Skipping(t, xs), z)
           IN  /\ Follows(s, t) => Follows(s, Skipping(t, xs)) /\ Follows(s, u)
               /\ Mirrors(s, t) => Mirrors(s, Skipping(t, xs)) /\ Mirrors(s, u)
<1> DEFINE rest == Skipping(t, xs)
           u    == Append(rest, z)
<1>1. rest \in Seq(S) /\ \A x, y : Ahead(rest, x, y) <=> Ahead(t, x, y) /\ x \notin xs /\ y \notin xs
  BY Skipped, AheadPicked
<1> HIDE DEF rest
<1>2. \A x, y : Ahead(rest, x, y) => Ahead(u, x, y)
  BY <1>1, AheadAppended
<1> HIDE DEF u
<1>3. \A x, y : Ahead(s, x, y) => x \notin xs /\ y \notin xs
  BY AheadMembers
<1>4. Follows(s, t) => Follows(s, rest) /\ Follows(s, u)
  BY <1>1, <1>2, <1>3, OrdersByPairs
<1>5. Mirrors(s, t) => Mirrors(s, rest) /\ Mirrors(s, u)
  BY <1>1, <1>2, <1>3, OrdersByPairs
<1> QED
  BY <1>4, <1>5 DEF rest, u

\* A part of a list is in the order of the list.
LEMMA OrdersOfPart ==
    ASSUME NEW s, NEW p, NEW t, \A x, y : Ahead(p, x, y) => Ahead(s, x, y)
    PROVE  /\ Follows(s, t) => Follows(p, t)
           /\ Mirrors(s, t) => Mirrors(p, t)
BY OrdersByPairs

\* A new member at the end of both, or at the front of one and the end of the
\* other.
LEMMA OrdersExtended ==
    ASSUME NEW S, NEW s \in Seq(S), NEW t \in Seq(S), NEW z \in S, ToSet(s) \subseteq ToSet(t)
    PROVE  /\ Follows(s, t) => Follows(Append(s, z), Append(t, z))
           /\ Mirrors(s, t) => Mirrors(<<z>> \o s, Append(t, z))
<1> DEFINE longer == Append(s, z)
           more   == <<z>> \o s
           u      == Append(t, z)
<1>1. /\ \A x, y : Ahead(longer, x, y) <=> Ahead(s, x, y) \/ (x \in ToSet(s) /\ y = z)
      /\ \A x, y : Ahead(u, x, y) <=> Ahead(t, x, y) \/ (x \in ToSet(t) /\ y = z)
      /\ \A x, y : Ahead(more, x, y) <=> Ahead(s, x, y) \/ (x = z /\ y \in ToSet(s))
  BY AheadAppended, AheadPrepended
<1> HIDE DEF longer, more, u
<1>2. Follows(s, t) => Follows(longer, u)
  BY <1>1, OrdersByPairs
<1>3. Mirrors(s, t) => Mirrors(more, u)
  BY <1>1, OrdersByPairs
<1> QED
  BY <1>2, <1>3 DEF longer, more, u

==============================================================================
