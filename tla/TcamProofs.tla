------------------------------ MODULE TcamProofs -------------------------------
(***************************************************************************)
(* Proofs about Tcam, for a field of any bits, ports of any width, any     *)
(* rules and batches, and any limits of the bitmaps and the tree: the      *)
(* inductive invariant, that the three lookups agree as far as they can,   *)
(* and that cleaning up and restoring keep every answer.                   *)
(***************************************************************************)
EXTENDS Tcam, ListProofs

(***************************************************************************)
(* The order of the rules.                                                 *)
(***************************************************************************)

LEMMA SpecificityIsInt ==
    ASSUME NEW r \in Rules, NEW rs
    PROVE  Specificity(r, rs) \in Int
<1>1. r.mask \subseteq Bits /\ IsFiniteSet(r.mask)
  <2>1. r.mask \subseteq Bits
    BY DEF Rules
  <2> QED BY <2>1, FieldAssumption, FS_Subset
<1>2. Cardinality(r.mask) \in Nat
  BY <1>1, FS_CardinalityType
<1>3. \A n : Log2(n) \in Nat
  <2> TAKE n
  <2> DEFINE K == {k \in 1 .. 2 * PortBits : 2^(2*k) <= 2 * n^2}
  <2>1. 2 * PortBits \in Nat
    BY PortAssumption
  <2>2. IsFiniteSet(1 .. 2 * PortBits) /\ K \subseteq 1 .. 2 * PortBits
    BY <2>1, FS_Interval
  <2> HIDE DEF K
  <2>3. Cardinality(K) \in Nat
    BY <2>2, FS_Subset, FS_CardinalityType
  <2> QED BY <2>3 DEF Log2, K
<1>4. \A range : RangeScore(range) \in Int
  BY <1>3, PortAssumption DEF RangeScore
<1>5. \/ Specificity(r, rs) = Cardinality(r.mask) + PortBits
      \/ Specificity(r, rs) = Cardinality(r.mask) + RangeScore(rs[r.range])
      \/ Specificity(r, rs) = Cardinality(r.mask) + 0
  BY DEF Specificity
<1> QED BY <1>2, <1>4, <1>5, PortAssumption

\* Who is before whom is a weak order.
LEMMA BeforeOneWay ==
    ASSUME NEW a \in Rules, NEW b \in Rules, NEW rs, Before(a, b, rs)
    PROVE  ~Before(b, a, rs)
<1>1. a.priority \in Int /\ b.priority \in Int
  BY DEF Rules
<1>2. Specificity(a, rs) \in Int /\ Specificity(b, rs) \in Int
  BY SpecificityIsInt
<1> QED BY <1>1, <1>2 DEF Before

LEMMA BeforeThrough ==
    ASSUME NEW a \in Rules, NEW b \in Rules, NEW c \in Rules, NEW rs, Before(a, c, rs)
    PROVE  Before(a, b, rs) \/ Before(b, c, rs)
<1>1. a.priority \in Int /\ b.priority \in Int /\ c.priority \in Int
  BY DEF Rules
<1>2. /\ Specificity(a, rs) \in Int /\ Specificity(b, rs) \in Int
      /\ Specificity(c, rs) \in Int
  BY SpecificityIsInt
<1> QED BY <1>1, <1>2 DEF Before

\* Whether rules are active does not matter for their order, and neither do
\* ranges that are not theirs.
LEMMA SameSpecificity ==
    ASSUME NEW r, NEW t, NEW rs, NEW ts,
           t.mask = r.mask, t.exact = r.exact,
           r.range \in DOMAIN rs <=> t.range \in DOMAIN ts,
           r.range \in DOMAIN rs => ts[t.range] = rs[r.range]
    PROVE  Specificity(t, ts) = Specificity(r, rs)
BY DEF Specificity
-----------------------------------------------------------------------------
(***************************************************************************)
(* Lists of rules.                                                         *)
(***************************************************************************)

\* What IInv says of one rule, of a list of them and of the ranges.
RuleOK(r, rs) == /\ r \in Rules
                 /\ r.range \in {NoRange} \cup DOMAIN rs
                 /\ r.exact => r.range = NoRange
                 /\ r.mask = {} => r.value = {}

RulesOK(s, rs, next) == /\ s \in Seq(Rules) /\ IsInjective(s)
                        /\ \A r \in ToSet(s) : RuleOK(r, rs) /\ r.id < next
                        /\ \A a, b \in ToSet(s) : a.id = b.id => a = b

RangesOK(rs) == /\ rs \in Seq([min : Ports, max : Ports])
                /\ \A k \in DOMAIN rs : rs[k].min # rs[k].max /\ ~IsWildPort(rs[k])

\* The bitmaps and the tree hold rules.
LEMMA IndexedRules ==
    ASSUME NEW s \in Seq(Rules)
    PROVE  Indexed(s) \in Seq(Rules)
<1>1. ASSUME NEW i \in DOMAIN s PROVE [s[i] EXCEPT !.active = TRUE] \in Rules
  <2>1. s[i] \in Rules
    OBVIOUS
  <2> QED BY <2>1 DEF Rules
<1>2. Len(s) \in Nat /\ DOMAIN s = 1 .. Len(s)
  OBVIOUS
<1> QED BY <1>1, <1>2 DEF Indexed

LEMMA ListedRules ==
    ASSUME NEW s \in Seq(Rules), NEW rs, NEW next
    PROVE  /\ \A i \in DOMAIN s : s[i] \in ToSet(s) /\ s[i] \in Rules
           /\ \A r \in ToSet(s) : \E i \in DOMAIN s : s[i] = r
           /\ ToSet(s) \subseteq Rules
           /\ DOMAIN s = 1 .. Len(s) /\ Len(s) \in Nat
BY DEF ToSet

LEMMA IdsApart ==
    ASSUME NEW s \in Seq(Rules)
    PROVE  (\A i, j \in DOMAIN s : s[i].id = s[j].id => i = j)
              <=> /\ IsInjective(s)
                  /\ \A a, b \in ToSet(s) : a.id = b.id => a = b
BY DEF ToSet, IsInjective

LEMMA TcamParts ==
    IInv <=> /\ RulesOK(rules, ranges, nextId) /\ RangesOK(ranges) /\ nextId \in Nat
             /\ IsSortedRules(rules, ranges) /\ built = Indexed(rules)
<1>1. ASSUME rules \in Seq(Rules)
      PROVE  /\ IdsUnique <=> /\ IsInjective(rules)
                              /\ \A a, b \in ToSet(rules) : a.id = b.id => a = b
             /\ IdsGiven <=> \A r \in ToSet(rules) : r.id < nextId
             /\ WildNormal <=> \A r \in ToSet(rules) : r.mask = {} => r.value = {}
             /\ RangesKnown <=>
                   /\ \A r \in ToSet(rules) : /\ r.range \in {NoRange} \cup DOMAIN ranges
                                              /\ r.exact => r.range = NoRange
                   /\ \A k \in DOMAIN ranges :
                         ranges[k].min # ranges[k].max /\ ~IsWildPort(ranges[k])
             /\ \A r \in ToSet(rules) : r \in Rules
  <2>1. IdsUnique <=> /\ IsInjective(rules)
                      /\ \A a, b \in ToSet(rules) : a.id = b.id => a = b
    BY <1>1, IdsApart DEF IdsUnique
  <2>2. /\ \A i \in DOMAIN rules : rules[i] \in ToSet(rules) /\ rules[i] \in Rules
        /\ \A r \in ToSet(rules) : \E i \in DOMAIN rules : rules[i] = r
        /\ ToSet(rules) \subseteq Rules
    BY <1>1, ListedRules
  <2> QED BY <2>1, <2>2 DEF IdsGiven, WildNormal, RangesKnown
<1>2. ASSUME rules \in Seq(Rules), built = Indexed(rules)
      PROVE  built \in Seq(Rules)
  BY <1>2, IndexedRules
<1> QED BY <1>1, <1>2 DEF IInv, TypeOK, RulesOK, RuleOK, RangesOK

LEMMA TcamPartsAfter ==
    (IInv <=> /\ RulesOK(rules, ranges, nextId) /\ RangesOK(ranges) /\ nextId \in Nat
              /\ IsSortedRules(rules, ranges) /\ built = Indexed(rules))'
BY TcamParts, PTL

\* A list is sorted if nobody in it is ahead of one it should be behind.
LEMMA SortedByPairs ==
    \A s, rs : IsSortedRules(s, rs) <=> \A a, b : Ahead(s, a, b) => ~Before(b, a, rs)
<1> SUFFICES ASSUME NEW s, NEW rs
             PROVE  IsSortedRules(s, rs) <=> \A a, b : Ahead(s, a, b) => ~Before(b, a, rs)
  OBVIOUS
<1>1. \A i, j \in DOMAIN s : i < j => Ahead(s, s[i], s[j])
  BY DEF Ahead
<1>2. \A a, b : Ahead(s, a, b) => \E i, j \in DOMAIN s : i < j /\ s[i] = a /\ s[j] = b
  BY DEF Ahead
<1> QED BY <1>1, <1>2 DEF IsSortedRules

LEMMA ActivesOK ==
    ASSUME NEW s, NEW rs, NEW next, RulesOK(s, rs, next)
    PROVE  /\ RulesOK(Actives(s), rs, next)
           /\ ToSet(Actives(s)) = {r \in ToSet(s) : r.active}
           /\ IsSortedRules(s, rs) => IsSortedRules(Actives(s), rs)
<1> DEFINE out  == {r \in ToSet(s) : ~r.active}
           rest == Skipping(s, out)
<1>1. s \in Seq(Rules) /\ IsInjective(s)
  BY DEF RulesOK
<1>2. rest \in Seq(Rules) /\ IsInjective(rest) /\ ToSet(rest) = ToSet(s) \ out
  BY <1>1, Skipped
<1>3. Actives(s) = rest
  BY DEF Actives
<1>4. \A a, b : Ahead(rest, a, b) => Ahead(s, a, b)
  BY <1>1, AheadPicked
<1>5. ToSet(s) \ out = {r \in ToSet(s) : r.active}
  OBVIOUS
<1> HIDE DEF out, rest
<1>6. RulesOK(rest, rs, next)
  BY <1>2 DEF RulesOK
<1>7. IsSortedRules(s, rs) => IsSortedRules(rest, rs)
  BY <1>4, SortedByPairs
<1> QED BY <1>2, <1>3, <1>5, <1>6, <1>7

LEMMA DeactivatedOK ==
    ASSUME NEW s, NEW rs, NEW next, RulesOK(s, rs, next), NEW bad
    PROVE  LET d == Deactivated(s, bad)
           IN  /\ RulesOK(d, rs, next)
               /\ DOMAIN d = DOMAIN s
               /\ \A i \in DOMAIN s : /\ d[i] = [s[i] EXCEPT !.active = s[i].active /\ i \notin bad]
                                      /\ Specificity(d[i], rs) = Specificity(s[i], rs)
               /\ IsSortedRules(s, rs) => IsSortedRules(d, rs)
               /\ Indexed(d) = Indexed(s)
<1> DEFINE d == Deactivated(s, bad)
<1>1. /\ s \in Seq(Rules) /\ IsInjective(s)
      /\ \A r \in ToSet(s) : RuleOK(r, rs) /\ r.id < next
      /\ \A a, b \in ToSet(s) : a.id = b.id => a = b
  BY DEF RulesOK
<1>2. /\ \A i \in DOMAIN s : s[i] \in ToSet(s) /\ s[i] \in Rules
      /\ DOMAIN s = 1 .. Len(s) /\ Len(s) \in Nat
  BY <1>1, ListedRules
<1>3. DOMAIN d = DOMAIN s
  BY DEF Deactivated
<1>4. \A i \in DOMAIN s : d[i] = [s[i] EXCEPT !.active = s[i].active /\ i \notin bad]
  BY DEF Deactivated
<1>5. d = [i \in DOMAIN s |-> d[i]]
  BY DEF Deactivated
<1> HIDE DEF d
<1>6. ASSUME NEW i \in DOMAIN s
      PROVE  /\ d[i] \in Rules
             /\ d[i].mask = s[i].mask /\ d[i].exact = s[i].exact /\ d[i].range = s[i].range
             /\ d[i].value = s[i].value /\ d[i].id = s[i].id /\ d[i].priority = s[i].priority
  <2>1. s[i] \in Rules
    BY <1>2
  <2> QED BY <1>4, <2>1 DEF Rules
<1>7. \A i \in DOMAIN s : Specificity(d[i], rs) = Specificity(s[i], rs)
  <2> TAKE i \in DOMAIN s
  <2> QED BY <1>6, SameSpecificity
<1>8. d \in Seq(Rules)
  BY <1>2, <1>5, <1>6
<1>9. \A i, j \in DOMAIN s : s[i].id = s[j].id => i = j
  BY <1>1, IdsApart
<1>10. \A i, j \in DOMAIN d : d[i].id = d[j].id => i = j
  BY <1>3, <1>6, <1>9
<1>11. IsInjective(d) /\ \A a, b \in ToSet(d) : a.id = b.id => a = b
  BY <1>8, <1>10, IdsApart
<1>12. \A r \in ToSet(d) : RuleOK(r, rs) /\ r.id < next
  <2> TAKE r \in ToSet(d)
  <2>1. PICK i \in DOMAIN d : d[i] = r
    BY <1>8, ListedRules
  <2>2. RuleOK(s[i], rs) /\ s[i].id < next
    BY <1>1, <1>2, <1>3
  <2> QED BY <1>3, <1>6, <2>1, <2>2 DEF RuleOK
<1>13. RulesOK(d, rs, next)
  BY <1>8, <1>11, <1>12 DEF RulesOK
<1>14. IsSortedRules(s, rs) => IsSortedRules(d, rs)
  BY <1>3, <1>6, <1>7 DEF IsSortedRules, Before
<1>15. Indexed(d) = Indexed(s)
  <2>1. ASSUME NEW i \in DOMAIN s
        PROVE  [d[i] EXCEPT !.active = TRUE] = [s[i] EXCEPT !.active = TRUE]
    <3>1. s[i] \in Rules
      BY <1>2
    <3> QED BY <1>4, <3>1 DEF Rules
  <2> QED BY <1>3, <2>1 DEF Indexed
<1> QED BY <1>3, <1>4, <1>7, <1>13, <1>14, <1>15 DEF d

LEMMA SortingsOK ==
    ASSUME NEW s, NEW rs, NEW next, RulesOK(s, rs, next), NEW t \in Sortings(s, rs)
    PROVE  RulesOK(t, rs, next) /\ IsSortedRules(t, rs) /\ ToSet(t) = ToSet(s)
<1>1. s \in Seq(Rules) /\ ToSet(s) \subseteq Rules
  BY ListedRules DEF RulesOK
<1>2. IsFiniteSet(ToSet(s))
  BY <1>1, Listed
<1>3. t \in SetToSeqs(ToSet(s)) /\ IsSortedRules(t, rs)
  BY DEF Sortings
<1>4. t \in Seq(ToSet(s)) /\ IsInjective(t) /\ ToSet(t) = ToSet(s)
  BY <1>2, <1>3, Ordered
<1>5. t \in Seq(Rules)
  BY <1>1, <1>4, Widened
<1> QED BY <1>3, <1>4, <1>5 DEF RulesOK
-----------------------------------------------------------------------------
(***************************************************************************)
(* The operations keep IInv.                                               *)
(***************************************************************************)

\* The copies of a batch: rules and ranges as IInv has them, but unsorted.
CopyOK(copy) == /\ copy \in [rules : Seq(Rules), ranges : Seq([min : Ports, max : Ports]),
                             nextId : Nat, ok : BOOLEAN]
                /\ RulesOK(copy.rules, copy.ranges, copy.nextId)
                /\ RangesOK(copy.ranges)

LEMMA CommitSound ==
    ASSUME NEW copy, CopyOK(copy), Commit(copy)
    PROVE  IInv' /\ ToSet(rules') = {r \in ToSet(copy.rules) : r.active}
<1>1. /\ RulesOK(copy.rules, copy.ranges, copy.nextId) /\ RangesOK(copy.ranges)
      /\ copy.nextId \in Nat
  BY DEF CopyOK
<1>2. /\ ranges' = copy.ranges /\ nextId' = copy.nextId /\ built' = Indexed(rules')
      /\ rules' \in Sortings(Actives(copy.rules), copy.ranges)
  BY DEF Commit
<1>3. /\ RulesOK(Actives(copy.rules), copy.ranges, copy.nextId)
      /\ ToSet(Actives(copy.rules)) = {r \in ToSet(copy.rules) : r.active}
  BY <1>1, ActivesOK
<1>4. /\ RulesOK(rules', copy.ranges, copy.nextId) /\ IsSortedRules(rules', copy.ranges)
      /\ ToSet(rules') = ToSet(Actives(copy.rules))
  BY <1>2, <1>3, SortingsOK
<1>5. RulesOK(rules', ranges', nextId') /\ RangesOK(ranges') /\ IsSortedRules(rules', ranges')
  BY <1>1, <1>2, <1>4
<1>6. IInv'
  BY <1>1, <1>2, <1>5, TcamPartsAfter
<1> QED BY <1>3, <1>4, <1>6

\* What a new rule is.
LEMMA NewRule ==
    ASSUME NEW d \in Fields, NEW exact \in BOOLEAN, NEW rs \in Seq([min : Ports, max : Ports]),
           NEW range \in {NoRange} \cup DOMAIN rs, exact => range = NoRange, NEW id \in Nat
    PROVE  LET r == Rule(d, exact, d.min, range, id)
           IN  RuleOK(r, rs) /\ r.id = id /\ r.active
<1> DEFINE r == Rule(d, exact, d.min, range, id)
<1>1. /\ d.value \subseteq Bits /\ d.mask \subseteq Bits /\ d.min \in Ports
      /\ d.priority \in Int /\ d.action \in Nat
  BY DEF Fields
<1>2. 0 \in Ports
  BY PortAssumption DEF Ports
<1>3. range \in Nat
  BY DEF NoRange
<1>4. r \in Rules
  BY <1>1, <1>2, <1>3 DEF Rule, Rules
<1> QED BY <1>4 DEF RuleOK, Rule

\* Ranges that are added leave the others, and the order of the rules, alone.
LEMMA MoreRanges ==
    ASSUME NEW s, NEW rs, NEW next, RulesOK(s, rs, next), RangesOK(rs),
           NEW x \in [min : Ports, max : Ports], x.min # x.max, ~IsWildPort(x)
    PROVE  LET ts == Append(rs, x)
           IN  /\ RulesOK(s, ts, next) /\ RangesOK(ts)
               /\ \A r \in ToSet(s) : Specificity(r, ts) = Specificity(r, rs)
               /\ IsSortedRules(s, rs) => IsSortedRules(s, ts)
               /\ DOMAIN ts = 1 .. Len(ts) /\ Len(ts) \in DOMAIN ts /\ ts[Len(ts)] = x
               /\ \A k \in DOMAIN rs : k \in DOMAIN ts /\ ts[k] = rs[k]
<1> DEFINE ts == Append(rs, x)
           L  == Len(rs)
<1>1. rs \in Seq([min : Ports, max : Ports])
  BY DEF RangesOK
<1>2. /\ DOMAIN rs = 1 .. L /\ L \in Nat /\ ts \in Seq([min : Ports, max : Ports])
      /\ DOMAIN ts = 1 .. L + 1 /\ Len(ts) = L + 1
      /\ \A k \in 1 .. L : ts[k] = rs[k]
      /\ ts[L + 1] = x
  BY <1>1, AppendProperties, LenProperties
<1> HIDE DEF ts, L
<1>3. \A k \in DOMAIN rs : k \in DOMAIN ts /\ ts[k] = rs[k]
  BY <1>2
<1>4. \A k \in DOMAIN ts : k \in DOMAIN rs \/ k = L + 1
  BY <1>2
<1>5. RangesOK(ts)
  BY <1>2, <1>3, <1>4 DEF RangesOK
<1>6. 0 \notin DOMAIN rs /\ 0 \notin DOMAIN ts
  BY <1>2
<1>7. \A r \in ToSet(s) : r.range \in {NoRange} \cup DOMAIN rs
  BY DEF RulesOK, RuleOK
<1>8. RulesOK(s, ts, next)
  BY <1>3 DEF RulesOK, RuleOK
<1>9. \A r \in ToSet(s) : Specificity(r, ts) = Specificity(r, rs)
  <2> TAKE r \in ToSet(s)
  <2>1. /\ r.range \in DOMAIN rs <=> r.range \in DOMAIN ts
        /\ r.range \in DOMAIN rs => ts[r.range] = rs[r.range]
    BY <1>3, <1>6, <1>7 DEF NoRange
  <2> QED BY <2>1, SameSpecificity
<1>10. IsSortedRules(s, rs) => IsSortedRules(s, ts)
  <2>1. \A i \in DOMAIN s : s[i] \in ToSet(s)
    BY DEF ToSet
  <2> QED BY <1>9, <2>1 DEF IsSortedRules, Before
<1>11. L + 1 \in DOMAIN ts
  BY <1>2
<1> QED BY <1>2, <1>3, <1>5, <1>8, <1>9, <1>10, <1>11 DEF ts

\* One more rule in a list.
LEMMA OneMore ==
    ASSUME NEW s, NEW rs, NEW next \in Nat, RulesOK(s, rs, next),
           NEW new, RuleOK(new, rs), new.id = next,
           NEW t \in Seq(Rules), IsInjective(t), ToSet(t) = ToSet(s) \cup {new}
    PROVE  RulesOK(t, rs, next + 1)
<1>1. \A r \in ToSet(s) : RuleOK(r, rs) /\ r.id < next /\ r.id \in Nat
  BY DEF RulesOK, RuleOK, Rules
<1>2. \A r \in ToSet(s) : r.id < next + 1 /\ r.id # next
  BY <1>1
<1>3. next < next + 1
  OBVIOUS
<1>4. \A r \in ToSet(t) : RuleOK(r, rs) /\ r.id < next + 1
  BY <1>1, <1>2, <1>3
<1>5. \A a, b \in ToSet(t) : a.id = b.id => a = b
  BY <1>2 DEF RulesOK
<1> QED BY <1>4, <1>5 DEF RulesOK

\* A new rule put behind those that are before it.
LEMMA InOrder ==
    ASSUME NEW kept, NEW rs, NEW next \in Nat, RulesOK(kept, rs, next),
           IsSortedRules(kept, rs), NEW new, RuleOK(new, rs), new.id = next
    PROVE  LET place == Cardinality({i \in DOMAIN kept : Before(kept[i], new, rs)}) + 1
               more  == InsertAt(kept, place, new)
           IN  RulesOK(more, rs, next + 1) /\ IsSortedRules(more, rs)
<1> DEFINE ahead == {i \in DOMAIN kept : Before(kept[i], new, rs)}
           place == Cardinality(ahead) + 1
           more  == InsertAt(kept, place, new)
           L     == Len(kept)
<1>6. /\ kept \in Seq(Rules) /\ IsInjective(kept) /\ DOMAIN kept = 1 .. L /\ L \in Nat
      /\ \A i \in 1 .. L : kept[i] \in Rules /\ kept[i] \in ToSet(kept)
  BY ListedRules DEF RulesOK
<1>7. new \in Rules /\ new \notin ToSet(kept)
  <2>1. \A r \in ToSet(kept) : r.id < next /\ r.id \in Nat
    BY DEF RulesOK, RuleOK, Rules
  <2>2. \A r \in ToSet(kept) : r.id # next
    BY <2>1
  <2> QED BY <2>2 DEF RuleOK
<1> HIDE DEF L
<1>8. ahead = 1 .. Cardinality(ahead) /\ Cardinality(ahead) \in 0 .. L
  <2>1. ahead \in SUBSET (1 .. L)
    BY <1>6
  <2>2. ASSUME NEW i \in ahead, NEW j \in 1 .. L, j < i PROVE j \in ahead
    <3>1. Before(kept[i], new, rs) /\ i \in 1 .. L
      BY <2>1
    <3>2. ~Before(kept[i], kept[j], rs)
      BY <1>6, <2>2, <3>1 DEF IsSortedRules
    <3>3. Before(kept[j], new, rs)
      BY <1>6, <1>7, <3>1, <3>2, BeforeThrough
    <3> QED BY <1>6, <3>3
  <2> HIDE DEF ahead
  <2> QED BY <1>6, <2>1, <2>2, FirstPlaces
<1>9. \A i \in 1 .. L : Before(kept[i], new, rs) <=> i < place
  <2>1. \A i \in 1 .. L : Before(kept[i], new, rs) <=> i \in ahead
    BY <1>6
  <2> HIDE DEF ahead
  <2>2. \A i \in 1 .. L : i \in ahead <=> i < place
    BY <1>6, <1>8
  <2> QED BY <2>1, <2>2
<1>10. place \in 1 .. L + 1
  <2> HIDE DEF ahead
  <2> QED BY <1>6, <1>8
<1> HIDE DEF place
<1>11. /\ more \in Seq(Rules) /\ DOMAIN more = 1 .. L + 1
       /\ \A j \in 1 .. L + 1 :
             more[j] = IF j < place THEN kept[j] ELSE IF j = place THEN new ELSE kept[j - 1]
       /\ IsInjective(more) /\ ToSet(more) = ToSet(kept) \cup {new}
  <2>1. place \in 1 .. Len(kept) + 1 /\ L = Len(kept)
    BY <1>10 DEF L
  <2>2. kept \in Seq(Rules) /\ new \in Rules
    BY <1>6, <1>7
  <2> HIDE DEF ahead, more
  <2>3. more = InsertAt(kept, place, new)
    BY DEF more
  <2>4. \A j \in 1 .. L + 1 :
           more[j] = IF j < place THEN kept[j] ELSE IF j = place THEN new ELSE kept[j - 1]
    BY <2>1, <2>2, <2>3, PutIn
  <2>5. more \in Seq(Rules) /\ DOMAIN more = 1 .. L + 1
    BY <2>1, <2>2, <2>3, PutIn
  <2>6. IsInjective(more) /\ ToSet(more) = ToSet(kept) \cup {new}
    BY <1>6, <1>7, <2>1, <2>3, PutInMembers
  <2> QED BY <2>4, <2>5, <2>6
<1> HIDE DEF more
<1>12. RulesOK(more, rs, next + 1)
  BY <1>11, OneMore
<1>13. IsSortedRules(more, rs)
  <2> SUFFICES ASSUME NEW i \in 1 .. L + 1, NEW j \in 1 .. L + 1, i < j
               PROVE  ~Before(more[j], more[i], rs)
    BY <1>11 DEF IsSortedRules
  <2>1. \A a, b \in 1 .. L : a < b => ~Before(kept[b], kept[a], rs)
    BY <1>6 DEF IsSortedRules
  <2>2. /\ i < place => i \in 1 .. L
        /\ ~(i < place) /\ i # place => i - 1 \in 1 .. L
        /\ j < place => j \in 1 .. L
        /\ ~(j < place) /\ j # place => j - 1 \in 1 .. L /\ ~(j - 1 < place)
        /\ i \in Nat /\ j \in Nat /\ place \in Nat
    BY <1>6, <1>10
  <2>3. CASE j < place
    BY <1>11, <2>1, <2>2, <2>3
  <2>4. CASE j = place
    <3>1. i < place /\ Before(kept[i], new, rs)
      BY <1>9, <2>2, <2>4
    <3>2. ~Before(new, kept[i], rs)
      BY <1>6, <1>7, <2>2, <3>1, BeforeOneWay
    <3> QED BY <1>11, <2>2, <2>4, <3>1, <3>2
  <2>5. CASE ~(j < place) /\ j # place
    <3>1. CASE i < place
      <4>1. i < j - 1
        BY <2>2, <2>5, <3>1
      <4> QED BY <1>11, <2>1, <2>2, <2>5, <3>1, <4>1
    <3>2. CASE i = place
      BY <1>9, <1>11, <2>2, <2>5, <3>2
    <3>3. CASE ~(i < place) /\ i # place
      <4>1. i - 1 < j - 1
        BY <2>2
      <4> QED BY <1>11, <2>1, <2>2, <2>5, <3>3, <4>1
    <3> QED BY <3>1, <3>2, <3>3
  <2> QED BY <2>3, <2>4, <2>5
<1> QED BY <1>12, <1>13 DEF more, place

LEMMA AddRuleSound ==
    ASSUME IInv, NEW d \in Fields, AddRule(d)
    PROVE  IInv'
<1> DEFINE ranged == d.min < d.max /\ ~IsWildPort(d)
           exact  == ~ranged /\ ~IsWildPort(d)
           rs     == IF ranged THEN Append(ranges, PortRange(d)) ELSE ranges
           range  == IF ranged THEN Len(rs) ELSE NoRange
           new    == Rule(d, exact, d.min, range, nextId)
           kept   == Actives(rules)
           ahead  == {i \in DOMAIN kept : Before(kept[i], new, rs)}
           place  == Cardinality(ahead) + 1
           more   == InsertAt(kept, place, new)
           L      == Len(kept)
<1>1. /\ nextId' = nextId + 1 /\ ranges' = rs /\ rules' = more /\ built' = Indexed(rules')
  BY DEF AddRule
<1>2. /\ RulesOK(rules, ranges, nextId) /\ RangesOK(ranges) /\ nextId \in Nat
      /\ IsSortedRules(rules, ranges)
  BY TcamParts
<1>3. RulesOK(kept, ranges, nextId) /\ IsSortedRules(kept, ranges)
  BY <1>2, ActivesOK
<1>4. /\ RulesOK(kept, rs, nextId) /\ RangesOK(rs) /\ IsSortedRules(kept, rs)
      /\ range \in {NoRange} \cup DOMAIN rs
      /\ exact => range = NoRange
  <2>1. CASE ranged
    <3> DEFINE x == PortRange(d)
    <3>1. d.min \in Ports /\ d.max \in Ports /\ x.min = d.min /\ x.max = d.max
      BY DEF Fields, PortRange
    <3>2. x \in [min : Ports, max : Ports] /\ ~IsWildPort(x)
      BY <2>1, <3>1 DEF PortRange, IsWildPort
    <3>3. d.min # d.max
      BY <2>1, <3>1, PortAssumption DEF Ports
    <3>4. rs = Append(ranges, x)
      BY <2>1
    <3> HIDE DEF kept, x, rs
    <3>5. /\ RulesOK(kept, rs, nextId) /\ RangesOK(rs) /\ IsSortedRules(kept, rs)
          /\ Len(rs) \in DOMAIN rs
      BY <1>2, <1>3, <3>1, <3>2, <3>3, <3>4, MoreRanges
    <3> QED BY <2>1, <3>5
  <2>2. CASE ~ranged
    BY <1>2, <1>3, <2>2
  <2> QED BY <2>1, <2>2
<1> HIDE DEF kept, rs, range
<1>5. RuleOK(new, rs) /\ new.id = nextId
  <2>1. rs \in Seq([min : Ports, max : Ports]) /\ exact \in BOOLEAN
    BY <1>4 DEF RangesOK
  <2> HIDE DEF exact
  <2> QED BY <1>2, <1>4, <2>1, NewRule
<1> HIDE DEF new, exact, ranged
<1>12. RulesOK(more, rs, nextId + 1) /\ IsSortedRules(more, rs)
  BY <1>2, <1>4, <1>5, InOrder
<1> HIDE DEF more
<1>14. nextId' \in Nat
  BY <1>1, <1>2
<1>15. /\ RulesOK(rules', ranges', nextId') /\ RangesOK(ranges')
       /\ IsSortedRules(rules', ranges')
  BY <1>1, <1>4, <1>12
<1> QED BY <1>1, <1>14, <1>15, TcamPartsAfter

\* The first of some positions is one of them, and none is before it.
LEMMA FirstIsLeast ==
    ASSUME NEW T \in SUBSET Nat, 0 \notin T
    PROVE  /\ First(T) = None <=> T = {}
           /\ T # {} => First(T) \in T /\ \A i \in T : First(T) <= i
<1>1. T # {} => First(T) \in T /\ \A i \in T : First(T) <= i
  BY Least DEF First
<1>2. T = {} => First(T) = None
  BY DEF First
<1> QED BY <1>1, <1>2 DEF None

\* What an ADD of a batch does to the copies.
LEMMA ApplyAddSound ==
    ASSUME NEW copy, CopyOK(copy), NEW d \in Fields
    PROVE  /\ CopyOK(ApplyAdd(copy, d)) /\ ApplyAdd(copy, d).ok = copy.ok
<1> DEFINE ranged == d.min # d.max /\ ~IsWildPort(d)
           x      == PortRange(d)
           rs     == IF ranged /\ x \notin ToSet(copy.ranges)
                     THEN Append(copy.ranges, x) ELSE copy.ranges
           range  == IF ranged THEN First({k \in DOMAIN rs : rs[k] = x}) ELSE NoRange
           exact  == d.min = d.max /\ ~IsWildPort(d)
           new    == Rule(d, exact, d.min, range, copy.nextId)
           after  == ApplyAdd(copy, d)
<1>1. /\ after = [copy EXCEPT !.ranges = rs, !.nextId = copy.nextId + 1,
                              !.rules = Append(copy.rules, new)]
  BY DEF ApplyAdd
<1>2. /\ copy \in [rules : Seq(Rules), ranges : Seq([min : Ports, max : Ports]),
                   nextId : Nat, ok : BOOLEAN]
      /\ RulesOK(copy.rules, copy.ranges, copy.nextId) /\ RangesOK(copy.ranges)
  BY DEF CopyOK
<1>3. /\ d.min \in Ports /\ d.max \in Ports /\ x.min = d.min /\ x.max = d.max
      /\ x \in [min : Ports, max : Ports]
      /\ IsWildPort(x) <=> IsWildPort(d)
  BY DEF Fields, PortRange, IsWildPort
<1> HIDE DEF x
<1>4. /\ RulesOK(copy.rules, rs, copy.nextId) /\ RangesOK(rs)
      /\ ranged => \E k \in DOMAIN rs : rs[k] = x
  <2>1. CASE ranged /\ x \notin ToSet(copy.ranges)
    <3>1. rs = Append(copy.ranges, x)
      BY <2>1
    <3> HIDE DEF rs
    <3>2. /\ RulesOK(copy.rules, rs, copy.nextId) /\ RangesOK(rs)
          /\ Len(rs) \in DOMAIN rs /\ rs[Len(rs)] = x
      BY <1>2, <1>3, <2>1, <3>1, MoreRanges
    <3> QED BY <3>2
  <2>2. CASE ~(ranged /\ x \notin ToSet(copy.ranges))
    <3>1. rs = copy.ranges
      BY <2>2
    <3>2. ranged => \E k \in DOMAIN copy.ranges : copy.ranges[k] = x
      BY <2>2 DEF ToSet
    <3> QED BY <1>2, <3>1, <3>2
  <2> QED BY <2>1, <2>2
<1> HIDE DEF rs
<1>5. /\ range \in {NoRange} \cup DOMAIN rs
      /\ exact => range = NoRange
      /\ rs \in Seq([min : Ports, max : Ports])
  <2>1. rs \in Seq([min : Ports, max : Ports])
    BY <1>4 DEF RangesOK
  <2>2. DOMAIN rs \subseteq Nat /\ 0 \notin DOMAIN rs
    BY <2>1, LenProperties
  <2> DEFINE T == {k \in DOMAIN rs : rs[k] = x}
  <2>3. T \in SUBSET Nat /\ 0 \notin T
    BY <2>2
  <2>4. ranged => T # {}
    BY <1>4
  <2>5. ranged => First(T) \in T
    BY <2>3, <2>4, FirstIsLeast
  <2> QED BY <2>1, <2>5
<1> HIDE DEF range
<1>6. RuleOK(new, rs) /\ new.id = copy.nextId
  <2>1. exact \in BOOLEAN
    OBVIOUS
  <2> HIDE DEF exact
  <2> QED BY <1>2, <1>5, <2>1, NewRule
<1> HIDE DEF new, after
<1>7. copy.rules \in Seq(Rules) /\ IsInjective(copy.rules) /\ copy.nextId \in Nat
  BY <1>2 DEF RulesOK
<1>8. new \in Rules /\ new \notin ToSet(copy.rules)
  <2>1. \A r \in ToSet(copy.rules) : r.id < copy.nextId /\ r.id \in Nat
    BY <1>2 DEF RulesOK, RuleOK, Rules
  <2>2. \A r \in ToSet(copy.rules) : r.id # copy.nextId
    BY <1>7, <2>1
  <2> QED BY <1>6, <2>2 DEF RuleOK
<1> DEFINE more == Append(copy.rules, new)
<1>9. /\ more \in Seq(Rules) /\ IsInjective(more)
      /\ ToSet(more) = ToSet(copy.rules) \cup {new}
  BY <1>7, <1>8, Extended
<1> HIDE DEF more
<1>10. RulesOK(more, rs, copy.nextId + 1)
  BY <1>4, <1>6, <1>7, <1>9, OneMore
<1>11. /\ after.rules = more /\ after.ranges = rs /\ after.nextId = copy.nextId + 1
       /\ after.ok = copy.ok
       /\ after \in [rules : Seq(Rules), ranges : Seq([min : Ports, max : Ports]),
                     nextId : Nat, ok : BOOLEAN]
  <2>1. copy.nextId + 1 \in Nat
    BY <1>7
  <2> QED BY <1>1, <1>2, <1>5, <1>9, <2>1 DEF more
<1>12. CopyOK(after)
  BY <1>4, <1>10, <1>11 DEF CopyOK
<1> QED BY <1>11, <1>12 DEF after

LEMMA ApplySound ==
    ASSUME NEW copy, CopyOK(copy), NEW op \in Operations
    PROVE  CopyOK(Apply(copy, op))
<1>1. CASE ~copy.ok
  BY <1>1 DEF Apply
<1>2. CASE copy.ok /\ op.type = "ADD"
  <2>1. op.fields \in Fields
    BY <1>2 DEF Operations
  <2>2. Apply(copy, op) = ApplyAdd(copy, op.fields)
    BY <1>2 DEF Apply
  <2> QED BY <2>1, <2>2, ApplyAddSound
<1>3. CASE copy.ok /\ op.type # "ADD"
  <2> DEFINE found == {i \in DOMAIN copy.rules : copy.rules[i].id = op.id}
             d     == Deactivated(copy.rules, found)
             after == ApplyDelete(copy, op.id)
  <2>1. after = [copy EXCEPT !.rules = d, !.ok = (found # {})]
    BY DEF ApplyDelete
  <2>2. Apply(copy, op) = after
    BY <1>3 DEF Apply
  <2>3. (found # {}) \in BOOLEAN
    OBVIOUS
  <2> HIDE DEF found, after
  <2>4. RulesOK(d, copy.ranges, copy.nextId)
    BY DeactivatedOK DEF CopyOK
  <2>5. d \in Seq(Rules)
    BY <2>4 DEF RulesOK
  <2> HIDE DEF d
  <2>6. /\ after \in [rules : Seq(Rules), ranges : Seq([min : Ports, max : Ports]),
                     nextId : Nat, ok : BOOLEAN]
        /\ after.rules = d /\ after.ranges = copy.ranges /\ after.nextId = copy.nextId
    BY <2>1, <2>3, <2>5 DEF CopyOK
  <2> QED BY <2>2, <2>4, <2>6 DEF CopyOK
<1> QED BY <1>1, <1>2, <1>3

\* What Applied computes operation by operation.
Applying(copy, batch, g, n) ==
    g = [i \in 0 .. n |-> IF i = 0 THEN copy ELSE Apply(g[i - 1], batch[i])]

LEMMA ApplyingGoesOn ==
    ASSUME NEW copy, NEW batch
    PROVE  \A n \in Nat : \E g : Applying(copy, batch, g, n)
<1> DEFINE T == {n \in Nat : \E g : Applying(copy, batch, g, n)}
<1>1. 0 \in T
  <2>1. Applying(copy, batch, [i \in 0 .. 0 |-> copy], 0)
    BY DEF Applying
  <2> QED BY <2>1
<1>2. ASSUME NEW n \in T PROVE n + 1 \in T
  <2>1. PICK g : Applying(copy, batch, g, n)
    OBVIOUS
  <2> DEFINE h == [i \in 0 .. n + 1 |->
                      IF i <= n THEN g[i] ELSE Apply(g[n], batch[n + 1])]
  <2>2. \A i \in 0 .. n : g[i] = IF i = 0 THEN copy ELSE Apply(g[i - 1], batch[i])
    BY <2>1 DEF Applying
  <2>3. \A i \in 0 .. n + 1 : h[i] = IF i = 0 THEN copy ELSE Apply(h[i - 1], batch[i])
    <3> TAKE i \in 0 .. n + 1
    <3>1. CASE i <= n /\ i # 0
      <4>1. i \in 0 .. n /\ i - 1 \in 0 .. n + 1 /\ i - 1 <= n
        BY <3>1
      <4>2. h[i] = g[i] /\ h[i - 1] = g[i - 1]
        BY <4>1, <3>1
      <4> HIDE DEF h
      <4> QED BY <2>2, <4>1, <4>2, <3>1
    <3>2. CASE i = 0
      BY <2>2, <3>2
    <3>3. CASE i = n + 1
      BY <3>3
    <3> QED BY <3>1, <3>2, <3>3
  <2>4. h = [i \in 0 .. n + 1 |-> h[i]]
    OBVIOUS
  <2> HIDE DEF h
  <2>5. Applying(copy, batch, h, n + 1)
    BY <2>3, <2>4 DEF Applying
  <2> QED BY <2>5
<1> HIDE DEF T
<1>3. T = Nat
  <2>1. T \in SUBSET Nat
    BY DEF T
  <2> QED BY <1>1, <1>2, <2>1, Induction
<1> QED BY <1>3 DEF T

LEMMA AppliedStepwise ==
    ASSUME NEW copy, NEW batch, Len(batch) \in Nat
    PROVE  \E g : /\ Applied(copy, batch) = g[Len(batch)]
                  /\ g[0] = copy
                  /\ \A i \in 1 .. Len(batch) : g[i] = Apply(g[i - 1], batch[i])
<1> DEFINE g == CHOOSE after : Applying(copy, batch, after, Len(batch))
<1>1. Applying(copy, batch, g, Len(batch))
  BY ApplyingGoesOn
<1>2. Applied(copy, batch) = g[Len(batch)]
  BY DEF Applied, Applying
<1> HIDE DEF g
<1>3. \A i \in 0 .. Len(batch) : g[i] = IF i = 0 THEN copy ELSE Apply(g[i - 1], batch[i])
  BY <1>1 DEF Applying
<1>4. 0 \in 0 .. Len(batch) /\ \A i \in 1 .. Len(batch) : i \in 0 .. Len(batch) /\ i # 0
  OBVIOUS
<1> QED BY <1>2, <1>3, <1>4

LEMMA AppliedSound ==
    ASSUME NEW copy, CopyOK(copy), NEW batch \in Seq(Operations)
    PROVE  CopyOK(Applied(copy, batch))
<1>1. Len(batch) \in Nat /\ \A i \in 1 .. Len(batch) : batch[i] \in Operations
  BY LenProperties
<1>2. PICK g : /\ Applied(copy, batch) = g[Len(batch)]
               /\ g[0] = copy
               /\ \A i \in 1 .. Len(batch) : g[i] = Apply(g[i - 1], batch[i])
  BY <1>1, AppliedStepwise
<1> DEFINE T == {i \in Nat : i <= Len(batch) => CopyOK(g[i])}
<1>3. 0 \in T
  BY <1>2
<1>4. ASSUME NEW i \in T PROVE i + 1 \in T
  <2>1. CASE i + 1 <= Len(batch)
    <3>1. i \in Nat /\ i <= Len(batch) /\ i + 1 \in 1 .. Len(batch) /\ (i + 1) - 1 = i
      BY <1>1, <2>1
    <3>2. CopyOK(g[i])
      BY <3>1
    <3>3. g[i + 1] = Apply(g[i], batch[i + 1])
      BY <1>2, <3>1
    <3>4. CopyOK(g[i + 1])
      BY <1>1, <3>1, <3>2, <3>3, ApplySound
    <3> QED BY <3>1, <3>4
  <2>2. CASE ~(i + 1 <= Len(batch))
    BY <2>2
  <2> QED BY <2>1, <2>2
<1> HIDE DEF T
<1>5. T = Nat
  <2>1. T \in SUBSET Nat
    BY DEF T
  <2> QED BY <1>3, <1>4, <2>1, Induction
<1> QED BY <1>1, <1>2, <1>5 DEF T

LEMMA StartSound ==
    ASSUME IInv
    PROVE  CopyOK(Start)
<1>1. RulesOK(rules, ranges, nextId) /\ RangesOK(ranges) /\ nextId \in Nat
  BY TcamParts
<1>2. RulesOK(Actives(rules), ranges, nextId)
  BY <1>1, ActivesOK
<1>3. Actives(rules) \in Seq(Rules) /\ ranges \in Seq([min : Ports, max : Ports])
  BY <1>1, <1>2 DEF RulesOK, RangesOK
<1> QED BY <1>1, <1>2, <1>3 DEF CopyOK, Start

LEMMA EmptySound == CopyOK(Empty)
<1>1. RulesOK(<<>>, <<>>, 0)
  BY DEF RulesOK, IsInjective, ToSet
<1>2. RangesOK(<<>>)
  BY DEF RangesOK
<1>3. Empty \in [rules : Seq(Rules), ranges : Seq([min : Ports, max : Ports]),
                 nextId : Nat, ok : BOOLEAN]
  BY DEF Empty
<1> QED BY <1>1, <1>2, <1>3 DEF CopyOK, Empty

\* The ports of a rule.
LEMMA PortsOfRule ==
    ASSUME RangesOK(ranges), NEW r, RuleOK(r, ranges)
    PROVE  /\ EffectivePorts(r).min \in Ports /\ EffectivePorts(r).max \in Ports
           /\ r.range \in DOMAIN ranges => EffectivePorts(r) = ranges[r.range]
           /\ r.range \notin DOMAIN ranges =>
                /\ r.range = NoRange
                /\ EffectivePorts(r) = IF r.exact THEN [min |-> r.port, max |-> r.port]
                                       ELSE [min |-> 0, max |-> MaxPort]
<1>1. 0 \in Ports /\ MaxPort \in Ports
  BY PortAssumption DEF Ports
<1>2. r.port \in Ports /\ r.exact \in BOOLEAN
  BY DEF RuleOK, Rules
<1>3. CASE r.range \in DOMAIN ranges
  <2>1. ranges[r.range] \in [min : Ports, max : Ports]
    <3> DEFINE P == [min : Ports, max : Ports]
    <3>1. ranges \in Seq(P)
      BY DEF RangesOK
    <3> HIDE DEF P
    <3>2. ranges[r.range] \in P
      BY <1>3, <3>1
    <3> QED BY <3>2 DEF P
  <2>2. EffectivePorts(r) = ranges[r.range]
    BY <1>3 DEF EffectivePorts
  <2> QED BY <1>3, <2>1, <2>2
<1>4. CASE r.range \notin DOMAIN ranges
  <2>1. EffectivePorts(r) = IF r.exact THEN [min |-> r.port, max |-> r.port]
                            ELSE [min |-> 0, max |-> MaxPort]
    BY <1>4 DEF EffectivePorts
  <2>2. r.range = NoRange
    BY <1>4 DEF RuleOK
  <2> QED BY <1>1, <1>2, <1>4, <2>1, <2>2
<1> QED BY <1>3, <1>4

\* The description of a rule in a backup.
Line(r) == [value |-> r.value, mask |-> r.mask,
            min |-> EffectivePorts(r).min, max |-> EffectivePorts(r).max,
            priority |-> r.priority, action |-> r.action]

LEMMA BackupLines ==
    ASSUME IInv
    PROVE  /\ Backup \in Seq(Operations) /\ Len(Backup) = Len(Actives(rules))
           /\ \A i \in 1 .. Len(Backup) :
                 /\ Backup[i].type = "ADD" /\ Backup[i].fields = Line(Actives(rules)[i])
                 /\ Line(Actives(rules)[i]) \in Fields
<1> DEFINE kept == Actives(rules)
<1>1. RulesOK(rules, ranges, nextId) /\ RangesOK(ranges)
  BY TcamParts
<1>2. RulesOK(kept, ranges, nextId)
  BY <1>1, ActivesOK
<1>3. Backup = [i \in DOMAIN kept |-> [type |-> "ADD", fields |-> Line(kept[i])]]
  BY DEF Backup, Line
<1> HIDE DEF kept
<1>4. /\ kept \in Seq(Rules) /\ DOMAIN kept = 1 .. Len(kept) /\ Len(kept) \in Nat
      /\ \A i \in 1 .. Len(kept) : RuleOK(kept[i], ranges)
  BY <1>2, ListedRules DEF RulesOK
<1>5. ASSUME NEW i \in 1 .. Len(kept) PROVE Line(kept[i]) \in Fields
  <2>1. kept[i] \in Rules /\ RuleOK(kept[i], ranges)
    BY <1>4
  <2>2. EffectivePorts(kept[i]).min \in Ports /\ EffectivePorts(kept[i]).max \in Ports
    BY <1>1, <2>1, PortsOfRule
  <2> QED BY <2>1, <2>2 DEF Line, Fields, Rules
<1>6. \A i \in 1 .. Len(kept) : [type |-> "ADD", fields |-> Line(kept[i])] \in Operations
  BY <1>5 DEF Operations
<1>7. Backup \in Seq(Operations) /\ Len(Backup) = Len(kept)
  BY <1>3, <1>4, <1>6
<1> QED BY <1>3, <1>4, <1>5, <1>7 DEF kept

LEMMA RebuildSound ==
    ASSUME IInv, NEW bad, Rebuild(Deactivated(rules, bad)), UNCHANGED <<ranges, nextId>>
    PROVE  IInv' /\ ToSet(rules') = {r \in ToSet(Deactivated(rules, bad)) : r.active}
<1> DEFINE d == Deactivated(rules, bad)
<1>1. RulesOK(rules, ranges, nextId) /\ RangesOK(ranges) /\ nextId \in Nat
  BY TcamParts
<1>2. RulesOK(d, ranges, nextId)
  BY <1>1, DeactivatedOK
<1>3. rules' \in Sortings(Actives(d), ranges) /\ built' = Indexed(rules')
  BY DEF Rebuild
<1> HIDE DEF d
<1>4. /\ RulesOK(Actives(d), ranges, nextId)
      /\ ToSet(Actives(d)) = {r \in ToSet(d) : r.active}
  BY <1>2, ActivesOK
<1>5. /\ RulesOK(rules', ranges, nextId) /\ IsSortedRules(rules', ranges)
      /\ ToSet(rules') = ToSet(Actives(d))
  BY <1>3, <1>4, SortingsOK
<1>6. /\ RulesOK(rules', ranges', nextId') /\ RangesOK(ranges') /\ nextId' \in Nat
      /\ IsSortedRules(rules', ranges') /\ built' = Indexed(rules')
  BY <1>1, <1>3, <1>5
<1> QED BY <1>4, <1>5, <1>6, TcamPartsAfter DEF d

LEMMA SoftDeletionSound ==
    ASSUME IInv, NEW bad, rules' = Deactivated(rules, bad), UNCHANGED <<ranges, nextId, built>>
    PROVE  IInv'
<1>1. /\ RulesOK(rules, ranges, nextId) /\ RangesOK(ranges) /\ nextId \in Nat
      /\ IsSortedRules(rules, ranges) /\ built = Indexed(rules)
  BY TcamParts
<1>2. /\ RulesOK(rules', ranges, nextId) /\ IsSortedRules(rules', ranges)
      /\ Indexed(rules') = Indexed(rules)
  BY <1>1, DeactivatedOK
<1>3. /\ RulesOK(rules', ranges', nextId') /\ RangesOK(ranges') /\ nextId' \in Nat
      /\ IsSortedRules(rules', ranges') /\ built' = Indexed(rules')
  BY <1>1, <1>2
<1> QED BY <1>3, TcamPartsAfter

LEMMA TcamInitSound == Init => IInv
<1> SUFFICES ASSUME Init PROVE IInv
  OBVIOUS
<1>1. rules = <<>> /\ ranges = <<>> /\ nextId = 0 /\ built = <<>>
  BY DEF Init
<1>2. CopyOK(Empty)
  BY EmptySound
<1>3. RulesOK(rules, ranges, nextId) /\ RangesOK(ranges) /\ nextId \in Nat
  BY <1>1, <1>2 DEF CopyOK, Empty
<1>4. IsSortedRules(rules, ranges)
  BY <1>1 DEF IsSortedRules
<1>5. built = Indexed(rules)
  <2>1. Indexed(rules) \in Seq(Rules) /\ DOMAIN Indexed(rules) = DOMAIN rules
    BY <1>3, IndexedRules DEF RulesOK, Indexed
  <2>2. Len(Indexed(rules)) = 0
    BY <1>1, <2>1, LenProperties
  <2> QED BY <1>1, <2>1, <2>2, EmptySeq
<1> QED BY <1>3, <1>4, <1>5, TcamParts

LEMMA TcamStepSound ==
    ASSUME IInv, [Next]_vars
    PROVE  IInv'
<1>1. ASSUME NEW d \in Descriptions, AddRule(d) PROVE IInv'
  <2>1. d \in Fields
    BY InputAssumption
  <2> QED BY <1>1, <2>1, AddRuleSound
<1>2. ASSUME NEW batch \in Batches, UpdateRules(batch) PROVE IInv'
  <2>1. CopyOK(Applied(Start, batch))
    BY InputAssumption, StartSound, AppliedSound
  <2> QED BY <1>2, <2>1, CommitSound DEF UpdateRules
<1>3. ASSUME NEW id, DeleteRule(id) PROVE IInv'
  BY <1>3, SoftDeletionSound DEF DeleteRule
<1>4. CASE AgeRules
  BY <1>4, SoftDeletionSound DEF AgeRules
<1>5. CASE CompactRedundantRules
  BY <1>5, SoftDeletionSound DEF CompactRedundantRules
<1>6. CASE CompactAndRebuild
  BY <1>6, RebuildSound DEF CompactAndRebuild
<1>7. CASE EliminateShadowedRules
  BY <1>7, RebuildSound DEF EliminateShadowedRules
<1>8. CASE RestoreRules
  <2>1. CopyOK(Applied(Empty, Backup))
    BY BackupLines, EmptySound, AppliedSound
  <2> QED BY <1>8, <2>1, CommitSound DEF RestoreRules
<1>9. CASE RestoreFails
  BY <1>9, EmptySound, CommitSound DEF RestoreFails
<1>10. CASE UNCHANGED vars
  <2>1. /\ RulesOK(rules, ranges, nextId) /\ RangesOK(ranges) /\ nextId \in Nat
        /\ IsSortedRules(rules, ranges) /\ built = Indexed(rules)
    BY TcamParts
  <2>2. /\ RulesOK(rules', ranges', nextId') /\ RangesOK(ranges') /\ nextId' \in Nat
        /\ IsSortedRules(rules', ranges') /\ built' = Indexed(rules')
    BY <1>10, <2>1 DEF vars
  <2> QED BY <2>2, TcamPartsAfter
<1>11. ASSUME NEW batch \in Batches, UpdateFails(batch) PROVE IInv'
  BY <1>10, <1>11 DEF UpdateFails
<1> QED BY <1>1, <1>2, <1>3, <1>4, <1>5, <1>6, <1>7, <1>8, <1>9, <1>10, <1>11 DEF Next

\* OptimizedTCAM: in every state between two operations the list is sorted, names
\* each rule once and gives it an exact port, a range with an entry or neither,
\* and the bitmaps and the tree were built from the rules now at each position:
\* soft deletions leave positions alone and whatever filters the list rebuilds.
THEOREM TcamInductiveInvariant == Spec => []IInv
<1>1. Init => IInv
  BY TcamInitSound
<1>2. IInv /\ [Next]_vars => IInv'
  BY TcamStepSound
<1> QED BY <1>1, <1>2, PTL DEF Spec
-----------------------------------------------------------------------------
(***************************************************************************)
(* Lookups.                                                                *)
(***************************************************************************)

LEMMA FirstOf ==
    ASSUME NEW T \in SUBSET Nat, NEW i \in T, \A j \in T : i <= j
    PROVE  First(T) = i
<1>1. First(T) \in T /\ \A j \in T : First(T) <= j
  BY Least DEF First
<1>2. First(T) <= i /\ i <= First(T) /\ First(T) \in Nat /\ i \in Nat
  BY <1>1
<1> QED BY <1>2

\* The positions of the live matching rules, and what was built at them.
LEMMA LivePlaces ==
    ASSUME IInv, NEW p
    PROVE  /\ Live(p) \in SUBSET Nat /\ 0 \notin Live(p)
           /\ DOMAIN built = DOMAIN rules
           /\ \A i \in DOMAIN rules :
                 /\ rules[i] \in Rules /\ i \in Nat /\ i # 0
                 /\ built[i].mask = rules[i].mask /\ built[i].value = rules[i].value
                 /\ built[i].exact = rules[i].exact /\ built[i].port = rules[i].port
<1>1. rules \in Seq(Rules) /\ built = Indexed(rules)
  BY TcamParts DEF RulesOK
<1>2. DOMAIN rules = 1 .. Len(rules) /\ Len(rules) \in Nat /\ \A i \in DOMAIN rules : rules[i] \in Rules
  BY <1>1, ListedRules
<1>3. \A i \in DOMAIN rules : i \in Nat /\ i # 0
  BY <1>2
<1>4. \A i \in DOMAIN rules : built[i] = [rules[i] EXCEPT !.active = TRUE]
  BY <1>1 DEF Indexed
<1>5. \A i \in DOMAIN rules :
         /\ built[i].mask = rules[i].mask /\ built[i].value = rules[i].value
         /\ built[i].exact = rules[i].exact /\ built[i].port = rules[i].port
  BY <1>2, <1>4 DEF Rules
<1>6. DOMAIN built = DOMAIN rules
  BY <1>1 DEF Indexed
<1>7. Live(p) \in SUBSET Nat /\ 0 \notin Live(p)
  BY <1>3 DEF Live
<1> QED BY <1>2, <1>3, <1>5, <1>6, <1>7

\* The first live matching rule is a best one, because the list is sorted.
LEMMA LinearLookup ==
    ASSUME IInv, NEW p
    PROVE  /\ LookupLinear(p) = First(Live(p))
           /\ LookupLinear(p) = None <=> Live(p) = {}
           /\ Live(p) # {} => /\ LookupLinear(p) \in Best(p)
                              /\ LookupLinear(p) \in Live(p)
                              /\ \A i \in Live(p) : LookupLinear(p) <= i
<1>1. LookupLinear(p) = First(Live(p))
  BY DEF LookupLinear, Live
<1>2. Live(p) \in SUBSET Nat /\ 0 \notin Live(p)
  BY LivePlaces
<1>3. /\ First(Live(p)) = None <=> Live(p) = {}
      /\ Live(p) # {} => First(Live(p)) \in Live(p) /\ \A i \in Live(p) : First(Live(p)) <= i
  BY <1>2, FirstIsLeast
<1>4. ASSUME Live(p) # {} PROVE First(Live(p)) \in Best(p)
  <2> DEFINE i == First(Live(p))
  <2>1. i \in Live(p) /\ i \in Nat /\ \A j \in Live(p) : i <= j
    BY <1>2, <1>3, <1>4
  <2> HIDE DEF i
  <2>2. ASSUME NEW j \in Live(p) PROVE ~Before(rules[j], rules[i], ranges)
    <3>1. j \in DOMAIN rules /\ i \in DOMAIN rules /\ rules[i] \in Rules /\ i <= j /\ j \in Nat
      BY <1>2, <2>1, LivePlaces DEF Live
    <3>2. CASE i < j
      BY <3>1, <3>2, TcamParts DEF IsSortedRules
    <3>3. CASE i = j
      BY <3>1, <3>3, BeforeOneWay
    <3> QED BY <2>1, <3>1, <3>2, <3>3
  <2> QED BY <2>1, <2>2 DEF Best, i
<1> QED BY <1>1, <1>3, <1>4

LEMMA BitmapLookup ==
    ASSUME IInv, NEW p \in Packets
    PROVE  LookupBitmap(p) = IF p.empty \/ LookupLinear(p) > MaxIndexed THEN None
                             ELSE LookupLinear(p)
<1>0. CASE p.empty
  <2> DEFINE hits == {i \in DOMAIN built \cap DOMAIN rules \cap 1 .. MaxIndexed :
                         /\ ~p.empty
                         /\ FieldMatches(p, built[i])
                         /\ built[i].exact => p.port = built[i].port
                         /\ rules[i].active
                         /\ rules[i].range # NoRange => InRange(p.port, rules[i].range)}
  <2>1. hits = {}
    BY <1>0
  <2>2. LookupBitmap(p) = First(hits)
    BY DEF LookupBitmap
  <2> QED BY <1>0, <2>1, <2>2 DEF First
<1> SUFFICES ASSUME ~p.empty
             PROVE  LookupBitmap(p) = IF LookupLinear(p) <= MaxIndexed THEN LookupLinear(p)
                                      ELSE None
  <2>1. LookupLinear(p) \in Nat /\ MaxIndexed \in Nat
    BY LinearLookup, LivePlaces, LimitAssumption DEF None
  <2> QED BY <1>0, <2>1
<1> DEFINE known == Live(p) \cap 1 .. MaxIndexed
           line  == LookupLinear(p)
<1>1. LookupBitmap(p) = First(known)
  <2> DEFINE hits == {i \in DOMAIN built \cap DOMAIN rules \cap 1 .. MaxIndexed :
                         /\ ~p.empty
                         /\ FieldMatches(p, built[i])
                         /\ built[i].exact => p.port = built[i].port
                         /\ rules[i].active
                         /\ rules[i].range # NoRange => InRange(p.port, rules[i].range)}
  <2>1. hits = known
    BY LivePlaces DEF Live, MatchesRule, FieldMatches
  <2>2. LookupBitmap(p) = First(hits)
    BY DEF LookupBitmap
  <2> QED BY <2>1, <2>2
<1>2. MaxIndexed \in Nat /\ Live(p) \in SUBSET Nat /\ 0 \notin Live(p)
  BY LimitAssumption, LivePlaces
<1>3. /\ line = None <=> Live(p) = {}
      /\ Live(p) # {} => line \in Live(p) /\ \A i \in Live(p) : line <= i
  BY LinearLookup
<1> HIDE DEF line
<1>4. CASE Live(p) = {}
  <2>1. First(known) = None /\ line = 0 /\ 0 <= MaxIndexed
    BY <1>2, <1>3, <1>4 DEF First, None
  <2> QED BY <1>1, <2>1 DEF line, None
<1>5. CASE Live(p) # {} /\ line <= MaxIndexed
  <2>1. line \in Nat /\ line # 0
    BY <1>2, <1>3, <1>5
  <2>2. line \in known /\ known \in SUBSET Nat /\ \A i \in known : line <= i
    BY <1>2, <1>3, <1>5, <2>1
  <2> HIDE DEF known
  <2>3. First(known) = line
    BY <2>2, FirstOf
  <2> QED BY <1>1, <1>5, <2>3 DEF line
<1>6. CASE Live(p) # {} /\ ~(line <= MaxIndexed)
  <2>1. \A i \in Live(p) : ~(i <= MaxIndexed)
    BY <1>2, <1>3, <1>6
  <2>2. known = {}
    BY <2>1
  <2>3. First(known) = None
    BY <2>2 DEF First
  <2> QED BY <1>1, <1>6, <2>3 DEF line
<1> QED BY <1>4, <1>5, <1>6

\* Down the tree, step by step.
Descent(p, g, n) ==
    g = [depth \in 0 .. n |-> IF depth = 0 THEN DOMAIN built ELSE Child(g[depth - 1], p)]

LEMMA DescentGoesOn ==
    ASSUME NEW p
    PROVE  \A n \in Nat : \E g : Descent(p, g, n)
<1> DEFINE T == {n \in Nat : \E g : Descent(p, g, n)}
<1>1. 0 \in T
  <2>1. Descent(p, [i \in 0 .. 0 |-> DOMAIN built], 0)
    BY DEF Descent
  <2> QED BY <2>1
<1>2. ASSUME NEW n \in T PROVE n + 1 \in T
  <2>1. PICK g : Descent(p, g, n)
    OBVIOUS
  <2> DEFINE h == [i \in 0 .. n + 1 |-> IF i <= n THEN g[i] ELSE Child(g[n], p)]
  <2>2. \A i \in 0 .. n : g[i] = IF i = 0 THEN DOMAIN built ELSE Child(g[i - 1], p)
    BY <2>1 DEF Descent
  <2>3. \A i \in 0 .. n + 1 : h[i] = IF i = 0 THEN DOMAIN built ELSE Child(h[i - 1], p)
    <3> TAKE i \in 0 .. n + 1
    <3>1. CASE i <= n /\ i # 0
      <4>1. i \in 0 .. n /\ i - 1 \in 0 .. n + 1 /\ i - 1 <= n
        BY <3>1
      <4>2. h[i] = g[i] /\ h[i - 1] = g[i - 1]
        BY <4>1, <3>1
      <4> HIDE DEF h
      <4> QED BY <2>2, <4>1, <4>2, <3>1
    <3>2. CASE i = 0
      BY <2>2, <3>2
    <3>3. CASE i = n + 1
      BY <3>3
    <3> QED BY <3>1, <3>2, <3>3
  <2>4. h = [i \in 0 .. n + 1 |-> h[i]]
    OBVIOUS
  <2> HIDE DEF h
  <2>5. Descent(p, h, n + 1)
    BY <2>3, <2>4 DEF Descent
  <2> QED BY <2>5
<1> HIDE DEF T
<1>3. T = Nat
  <2>1. T \in SUBSET Nat
    BY DEF T
  <2> QED BY <1>1, <1>2, <2>1, Induction
<1> QED BY <1>3 DEF T

\* The first live matching rule of a node
HitIn(node, p) == First({i \in node \cap DOMAIN rules : MatchesRule(p, rules[i])})

\* A walk down the tree ends at a leaf, which is asked, or at the first node whose
\* wild rules have an answer.
LEMMA TreeWalk ==
    ASSUME NEW p
    PROVE  \E path, end :
              /\ path[0] = DOMAIN built
              /\ \A d \in 1 .. MaxDepth : path[d] = Child(path[d - 1], p)
              /\ end \in 0 .. MaxDepth
              /\ \A e \in 0 .. end - 1 : /\ ~Leaf(path[e])
                                         /\ HitIn(Wild(path[e]), p) = None
              /\ \/ LookupTree(p) = HitIn(path[end], p)
                 \/ /\ HitIn(Wild(path[end]), p) # None
                    /\ LookupTree(p) = HitIn(Wild(path[end]), p)
<1> DEFINE path      == CHOOSE g : Descent(p, g, MaxDepth)
           AtLeaf(d) == d = MaxDepth \/ Leaf(path[d])
           Ends(d)   == AtLeaf(d) \/ HitIn(Wild(path[d]), p) # None
           end       == CHOOSE d \in 0 .. MaxDepth : Ends(d) /\ \A e \in 0 .. d - 1 : ~Ends(e)
<1>1. LookupTree(p) = IF AtLeaf(end) THEN HitIn(path[end], p) ELSE HitIn(Wild(path[end]), p)
  BY DEF LookupTree, Descent, HitIn
<1>2. MaxDepth \in Nat
  BY LimitAssumption
<1>3. Descent(p, path, MaxDepth)
  BY <1>2, DescentGoesOn
<1> HIDE DEF path
<1>4. \A d \in 0 .. MaxDepth : path[d] = IF d = 0 THEN DOMAIN built ELSE Child(path[d - 1], p)
  BY <1>3 DEF Descent
<1>5. /\ path[0] = DOMAIN built
      /\ \A d \in 1 .. MaxDepth : path[d] = Child(path[d - 1], p)
  <2>1. 0 \in 0 .. MaxDepth /\ \A d \in 1 .. MaxDepth : d \in 0 .. MaxDepth /\ d # 0
    BY <1>2
  <2> QED BY <1>4, <2>1
<1>6. end \in 0 .. MaxDepth /\ Ends(end) /\ \A e \in 0 .. end - 1 : ~Ends(e)
  <2> DEFINE T == {d \in 0 .. MaxDepth : Ends(d)}
  <2>1. MaxDepth \in T /\ T \in SUBSET Nat
    BY <1>2
  <2>2. \E d \in T : \A e \in T : d <= e
    <3> HIDE DEF T
    <3> QED BY <2>1, Least
  <2>3. PICK d \in T : \A e \in T : d <= e
    BY <2>2
  <2> HIDE DEF AtLeaf, Ends
  <2>4. d \in 0 .. MaxDepth /\ Ends(d)
    OBVIOUS
  <2>5. \A e \in 0 .. d - 1 : e \in 0 .. MaxDepth /\ ~(d <= e)
    BY <1>2, <2>4
  <2>6. \A e \in 0 .. d - 1 : ~Ends(e)
    BY <2>3, <2>5
  <2> QED BY <2>4, <2>6
<1> HIDE DEF end
<1>7. \/ LookupTree(p) = HitIn(path[end], p)
      \/ /\ HitIn(Wild(path[end]), p) # None
         /\ LookupTree(p) = HitIn(Wild(path[end]), p)
  BY <1>1, <1>6
<1>8. \A e \in 0 .. end - 1 : ~Leaf(path[e]) /\ HitIn(Wild(path[e]), p) = None
  BY <1>6
<1> QED BY <1>5, <1>6, <1>7, <1>8

\* The first live matching rule of a node is live, and the first of all if the
\* node has all.
LEMMA HitsAreLive ==
    ASSUME IInv, NEW p, NEW node
    PROVE  /\ HitIn(node, p) # None => HitIn(node, p) \in Live(p)
           /\ HitIn(node, p) = None <=> node \cap Live(p) = {}
           /\ Live(p) \subseteq node => HitIn(node, p) = LookupLinear(p)
<1> DEFINE T == {i \in node \cap DOMAIN rules : MatchesRule(p, rules[i])}
<1>1. T = node \cap Live(p)
  BY DEF Live
<1>2. HitIn(node, p) = First(T)
  BY DEF HitIn
<1> HIDE DEF T
<1>3. T \in SUBSET Nat /\ 0 \notin T
  BY <1>1, LivePlaces
<1>4. (First(T) = None <=> T = {}) /\ (T # {} => First(T) \in T)
  BY <1>3, FirstIsLeast
<1>5. Live(p) \subseteq node => T = Live(p)
  BY <1>1
<1>6. LookupLinear(p) = First(Live(p))
  BY LinearLookup
<1> QED BY <1>1, <1>2, <1>4, <1>5, <1>6

\* No live matching rule is lost on the way down: at a node that is passed there
\* is none among the wild ones, and the others go to the packet's side.
LEMMA ChildKeepsLive ==
    ASSUME IInv, NEW p \in Packets, NEW node, Live(p) \subseteq node,
           \A i \in DOMAIN rules : rules[i].mask \in {{}, Bits},
           ~Leaf(node), HitIn(Wild(node), p) = None
    PROVE  Live(p) \subseteq Child(node, p)
<1> SUFFICES ASSUME NEW i \in Live(p) PROVE i \in Child(node, p)
  OBVIOUS
<1> DEFINE test == TestValue(node)
           left == Holders(node, test)
<1>1. /\ i \in node /\ i \in DOMAIN rules /\ MatchesRule(p, rules[i])
      /\ rules[i].mask = {} \/ rules[i].mask = Bits
  BY DEF Live
<1>2. /\ rules[i] \in Rules /\ built[i].mask = rules[i].mask
      /\ built[i].value = rules[i].value
  BY <1>1, LivePlaces
<1>3. i \notin Wild(node)
  BY HitsAreLive
<1>4. built[i].mask = Bits /\ ~p.empty
  <2>1. built[i].mask = Bits
    BY <1>1, <1>2, <1>3 DEF Wild
  <2> QED BY <1>1, <1>2, <2>1, FieldAssumption DEF MatchesRule, FieldMatches
<1>5. built[i].value = p.field
  <2>1. p.field \cap Bits = rules[i].value \cap Bits
    BY <1>1, <1>2, <1>4 DEF MatchesRule, FieldMatches
  <2>2. p.field \subseteq Bits /\ rules[i].value \subseteq Bits
    BY <1>2 DEF Packets, Rules
  <2> QED BY <1>2, <2>1, <2>2
<1>6. i \in left <=> p.field = test
  BY <1>1, <1>4, <1>5 DEF Holders, Fixed
<1>7. Child(node, p) = IF p.field = test THEN left ELSE node \ (Wild(node) \cup left)
  BY <1>4 DEF Child
<1> QED BY <1>1, <1>3, <1>6, <1>7

LEMMA TreeLookup ==
    ASSUME IInv, NEW p \in Packets
    PROVE  LET line == LookupLinear(p)
               tree == LookupTree(p)
           IN  /\ tree # None => tree \in Live(p)
               /\ (\A i \in DOMAIN rules : rules[i].mask \in {{}, Bits})
                     => (tree = None <=> line = None)
               /\ (\A i \in DOMAIN rules : rules[i].mask = Bits) => tree = line
<1> DEFINE line == LookupLinear(p)
           tree == LookupTree(p)
<1>1. PICK path, end :
         /\ path[0] = DOMAIN built
         /\ \A d \in 1 .. MaxDepth : path[d] = Child(path[d - 1], p)
         /\ end \in 0 .. MaxDepth
         /\ \A e \in 0 .. end - 1 : ~Leaf(path[e]) /\ HitIn(Wild(path[e]), p) = None
         /\ \/ tree = HitIn(path[end], p)
            \/ HitIn(Wild(path[end]), p) # None /\ tree = HitIn(Wild(path[end]), p)
  BY TreeWalk
<1>2. line = None <=> Live(p) = {}
  BY LinearLookup
<1> HIDE DEF line, tree
<1>3. tree # None => tree \in Live(p)
  BY <1>1, HitsAreLive
<1>4. ASSUME \A i \in DOMAIN rules : rules[i].mask \in {{}, Bits}
      PROVE  Live(p) \subseteq path[end]
  <2> DEFINE T == {d \in Nat : d <= end => Live(p) \subseteq path[d]}
  <2>1. 0 \in T
    BY <1>1, LivePlaces DEF Live
  <2>2. ASSUME NEW d \in T PROVE d + 1 \in T
    <3>1. CASE d + 1 <= end
      <4>1. /\ d \in Nat /\ d <= end /\ d \in 0 .. end - 1
            /\ d + 1 \in 1 .. MaxDepth /\ (d + 1) - 1 = d
        BY <1>1, <3>1, LimitAssumption
      <4>2. Live(p) \subseteq path[d] /\ ~Leaf(path[d]) /\ HitIn(Wild(path[d]), p) = None
        BY <1>1, <4>1
      <4>3. Live(p) \subseteq Child(path[d], p)
        BY <1>4, <4>2, ChildKeepsLive
      <4>4. path[d + 1] = Child(path[d], p)
        BY <1>1, <4>1
      <4> QED BY <4>1, <4>3, <4>4
    <3>2. CASE ~(d + 1 <= end)
      BY <3>2
    <3> QED BY <3>1, <3>2
  <2>3. T \in SUBSET Nat
    OBVIOUS
  <2> HIDE DEF T
  <2>4. T = Nat
    BY <2>1, <2>2, <2>3, Induction
  <2>5. end \in T /\ end <= end
    BY <1>1, <2>4, LimitAssumption
  <2> QED BY <2>5 DEF T
<1>5. ASSUME \A i \in DOMAIN rules : rules[i].mask \in {{}, Bits}
      PROVE  tree = None <=> line = None
  <2>1. tree = None => line = None
    <3>1. HitIn(path[end], p) = None <=> path[end] \cap Live(p) = {}
      BY HitsAreLive
    <3> QED BY <1>1, <1>2, <1>4, <1>5, <3>1
  <2>2. line = None => tree = None
    BY <1>2, <1>3
  <2> QED BY <2>1, <2>2
<1>6. ASSUME \A i \in DOMAIN rules : rules[i].mask = Bits
      PROVE  tree = line
  <2>1. HitIn(path[end], p) = line
    BY <1>4, <1>6, HitsAreLive DEF line
  <2>2. HitIn(Wild(path[end]), p) = None
    <3>1. \A i \in Live(p) : i \notin Wild(path[end])
      BY <1>6, LivePlaces, FieldAssumption DEF Wild, Live
    <3> QED BY <3>1, HitsAreLive
  <2> QED BY <1>1, <2>1, <2>2
<1> QED BY <1>3, <1>5, <1>6 DEF line, tree

LEMMA LookupsAgreeInvariant ==
    IInv => LookupsAgree
<1> SUFFICES ASSUME IInv, NEW p \in Packets
             PROVE  LET line == LookupLinear(p)
                        tree == LookupTree(p)
                    IN  /\ IF line = None THEN Live(p) = {} ELSE line \in Best(p)
                        /\ LookupBitmap(p) = IF p.empty \/ line > MaxIndexed THEN None
                                             ELSE line
                        /\ tree # None => tree \in Live(p)
                        /\ (\A i \in DOMAIN rules : rules[i].mask \in {{}, Bits})
                              => (tree = None <=> line = None)
                        /\ (\A i \in DOMAIN rules : rules[i].mask = Bits) => tree = line
  BY DEF LookupsAgree
<1>1. IF LookupLinear(p) = None THEN Live(p) = {} ELSE LookupLinear(p) \in Best(p)
  BY LinearLookup
<1>2. LookupBitmap(p) = IF p.empty \/ LookupLinear(p) > MaxIndexed THEN None
                        ELSE LookupLinear(p)
  BY BitmapLookup
<1> QED BY <1>1, <1>2, TreeLookup

\* lookup_single, which takes any of the three: the linear and the bitmap lookup
\* find the same rule, one no live matching rule beats, the bitmaps up to MAX_RULES
\* and only for a packet that has bytes; the tree finds a live matching rule, one whenever there is one if each rule
\* fixes or ignores the field, and the same if each fixes it.
THEOREM TcamLookupsAgree == Spec => []LookupsAgree
BY TcamInductiveInvariant, LookupsAgreeInvariant, PTL
-----------------------------------------------------------------------------
(***************************************************************************)
(* Answers.                                                                *)
(***************************************************************************)

\* What a set of active rules answers.
Fits(p, r, rs) == /\ FieldMatches(p, r)
                  /\ r.exact => p.port = r.port
                  /\ r.range # NoRange => /\ r.range \in DOMAIN rs
                                          /\ rs[r.range].min <= p.port
                                          /\ p.port <= rs[r.range].max

Fitting(A, rs, p)   == {r \in A : Fits(p, r, rs)}
BestOf(A, rs, p)    == {r \in Fitting(A, rs, p) :
                           \A q \in Fitting(A, rs, p) : ~Before(q, r, rs)}
AnswersOf(A, rs, p) == {r.action : r \in BestOf(A, rs, p)}
ActiveOnes(s)       == {r \in ToSet(s) : r.active}

LEMMA AnswersBySet ==
    \A p \in Packets : Answers(p) = AnswersOf(ActiveOnes(rules), ranges, p)
<1> SUFFICES ASSUME NEW p \in Packets
             PROVE  Answers(p) = AnswersOf(ActiveOnes(rules), ranges, p)
  OBVIOUS
<1> DEFINE F == Fitting(ActiveOnes(rules), ranges, p)
           B == BestOf(ActiveOnes(rules), ranges, p)
<1>1. \A r : MatchesRule(p, r) <=> r.active /\ Fits(p, r, ranges)
  BY DEF MatchesRule, InRange, Fits
<1>2. \A i \in DOMAIN rules : i \in Live(p) <=> rules[i] \in F
  BY <1>1 DEF Live, Fitting, ActiveOnes, ToSet
<1>3. \A r \in F : \E i \in Live(p) : rules[i] = r
  BY <1>1 DEF Live, Fitting, ActiveOnes, ToSet
<1>4. B = {r \in F : \A q \in F : ~Before(q, r, ranges)}
  BY DEF BestOf
<1>5. Live(p) \subseteq DOMAIN rules
  BY DEF Live
<1> HIDE DEF F, B
<1>6. \A i \in Best(p) : rules[i] \in B
  BY <1>2, <1>3, <1>4, <1>5 DEF Best
<1>7. \A r \in B : \E i \in Best(p) : rules[i] = r
  BY <1>2, <1>3, <1>4, <1>5 DEF Best
<1>8. Answers(p) = {r.action : r \in B}
  BY <1>6, <1>7 DEF Answers
<1> QED BY <1>8 DEF AnswersOf, B

LEMMA AnswersBySetAfter ==
    (\A p \in Packets : Answers(p) = AnswersOf(ActiveOnes(rules), ranges, p))'
BY AnswersBySet, PTL

\* Whatever packet a rule fits, a rule it is a subset of fits too.
LEMMA SubsetFits ==
    ASSUME RangesOK(ranges), NEW a, RuleOK(a, ranges), NEW b, RuleOK(b, ranges),
           IsSubset(a, b), NEW p \in Packets, Fits(p, a, ranges)
    PROVE  Fits(p, b, ranges)
<1>1. FieldMatches(p, b)
  BY DEF Fits, FieldMatches, IsSubset
<1>2. /\ EffectivePorts(a).min >= EffectivePorts(b).min
      /\ EffectivePorts(a).max <= EffectivePorts(b).max
  BY DEF IsSubset
<1>3. \A r : RuleOK(r, ranges) =>
         /\ EffectivePorts(r).min \in Ports /\ EffectivePorts(r).max \in Ports
         /\ r.range \in DOMAIN ranges => EffectivePorts(r) = ranges[r.range]
         /\ r.range \notin DOMAIN ranges =>
              /\ r.range = NoRange
              /\ EffectivePorts(r) = IF r.exact THEN [min |-> r.port, max |-> r.port]
                                     ELSE [min |-> 0, max |-> MaxPort]
  BY PortsOfRule
<1>4. NoRange \notin DOMAIN ranges
  BY LenProperties DEF RangesOK, NoRange
<1> DEFINE ea == EffectivePorts(a)
           eb == EffectivePorts(b)
<1>5. ea.min \in Ports /\ ea.max \in Ports /\ eb.min \in Ports /\ eb.max \in Ports
  BY <1>3
<1>6. a.port \in Ports /\ b.port \in Ports
  BY DEF RuleOK, Rules
<1>7. (p.port \in Ports \/ p.port = NoPort) /\ MaxPort \in Nat /\ MaxPort # 0
      /\ NoPort \in Int /\ NoPort < 0
  BY PortAssumption, NoPortAssumption DEF Packets
<1>8. /\ b.range \in DOMAIN ranges => ranges[b.range] = eb /\ ~b.exact
                                      /\ ~(eb.min = 0 /\ eb.max = MaxPort)
      /\ b.range \notin DOMAIN ranges => b.range = NoRange
      /\ b.range \notin DOMAIN ranges /\ b.exact => eb.min = b.port /\ eb.max = b.port
  <2>1. b.range \in DOMAIN ranges => ~IsWildPort(ranges[b.range]) /\ b.range # NoRange
    BY <1>4 DEF RangesOK
  <2> QED BY <1>3, <2>1 DEF RuleOK, IsWildPort
<1>9. CASE a.range \in DOMAIN ranges \/ a.exact
  <2>1. ea.min <= p.port /\ p.port <= ea.max /\ p.port \in Ports
    <3>1. CASE a.range \in DOMAIN ranges
      <4>1. ea = ranges[a.range] /\ ea.min <= p.port /\ p.port <= ea.max
        BY <1>3, <1>4, <3>1 DEF Fits
      <4> HIDE DEF ea
      <4> QED BY <1>5, <1>7, <4>1 DEF Ports
    <3>2. CASE a.range \notin DOMAIN ranges /\ a.exact
      <4>1. ea.min = a.port /\ ea.max = a.port /\ p.port = a.port
        BY <1>3, <3>2 DEF Fits
      <4> HIDE DEF ea
      <4> QED BY <1>6, <4>1 DEF Ports
    <3> QED BY <1>9, <3>1, <3>2
  <2> HIDE DEF ea, eb
  <2>2. ea.min >= eb.min /\ ea.max <= eb.max
    BY <1>2 DEF ea, eb
  <2>3. eb.min <= p.port /\ p.port <= eb.max
    BY <1>5, <2>1, <2>2 DEF Ports
  <2>4. b.range \notin DOMAIN ranges /\ b.exact => p.port = b.port
    BY <1>6, <1>8, <2>1, <2>3 DEF Ports
  <2> QED BY <1>1, <1>8, <2>3, <2>4 DEF Fits
<1>10. CASE a.range \notin DOMAIN ranges /\ ~a.exact
  <2>1. ea.min = 0 /\ ea.max = MaxPort
    BY <1>3, <1>10
  <2> HIDE DEF ea, eb
  <2>2. ea.min >= eb.min /\ ea.max <= eb.max
    BY <1>2 DEF ea, eb
  <2>3. eb.min = 0 /\ eb.max = MaxPort
    BY <1>5, <1>7, <2>1, <2>2 DEF Ports
  <2>4. b.range \notin DOMAIN ranges /\ ~b.exact /\ b.range = NoRange
    BY <1>7, <1>8, <2>3
  <2> QED BY <1>1, <2>4 DEF Fits
<1> QED BY <1>9, <1>10

\* Rules dropped each for an earlier active one that fits whatever they fit.
LEMMA DroppingKeepsAnswers ==
    ASSUME IInv, NEW bad, NEW p \in Packets,
           \A i \in bad \cap DOMAIN rules :
              \E j \in 1 .. i - 1 : rules[j].active /\ IsSubset(rules[i], rules[j])
    PROVE  LET A == ActiveOnes(rules)
               B == {rules[i] : i \in {k \in DOMAIN rules : rules[k].active /\ k \notin bad}}
           IN  /\ AnswersOf(B, ranges, p) \subseteq AnswersOf(A, ranges, p)
               /\ AnswersOf(B, ranges, p) = {} => AnswersOf(A, ranges, p) = {}
<1> DEFINE A == ActiveOnes(rules)
           K == {k \in DOMAIN rules : rules[k].active /\ k \notin bad}
           B == {rules[i] : i \in K}
           L == {i \in DOMAIN rules : rules[i].active /\ Fits(p, rules[i], ranges)}
           M == L \ bad
<1>1. RulesOK(rules, ranges, nextId) /\ RangesOK(ranges) /\ IsSortedRules(rules, ranges)
  BY TcamParts
<1>2. /\ DOMAIN rules = 1 .. Len(rules) /\ Len(rules) \in Nat
      /\ \A i \in DOMAIN rules : rules[i] \in Rules /\ rules[i] \in ToSet(rules)
      /\ \A i \in DOMAIN rules : RuleOK(rules[i], ranges)
  BY <1>1, ListedRules DEF RulesOK
<1>3. L \subseteq DOMAIN rules /\ L \in SUBSET Nat
  BY <1>2
\* each live rule has a rule that stays at its place or before it
<1>4. ASSUME NEW i \in L PROVE \E j \in M : j <= i
  <2> DEFINE T == {j \in L : j <= i}
  <2>1. T \in SUBSET Nat /\ i \in T
    BY <1>3
  <2>2. PICK j \in T : \A k \in T : j <= k
    <3> HIDE DEF T
    <3> QED BY <2>1, Least
  <2>3. j \in L /\ j <= i /\ j \in Nat /\ i \in Nat
    BY <1>3
  <2>4. j \notin bad
    <3> SUFFICES ASSUME j \in bad PROVE FALSE
      OBVIOUS
    <3>1. PICK k \in 1 .. j - 1 : rules[k].active /\ IsSubset(rules[j], rules[k])
      BY <1>3, <2>3
    <3>2. k \in DOMAIN rules /\ k < j /\ k <= i /\ j \in DOMAIN rules /\ k \in Nat
      BY <1>2, <1>3, <2>3
    <3>3. Fits(p, rules[k], ranges)
      BY <1>1, <1>2, <2>3, <3>1, <3>2, SubsetFits
    <3>4. k \in T
      BY <3>1, <3>2, <3>3
    <3>5. j <= k
      BY <2>2, <3>4
    <3> QED BY <2>3, <3>2, <3>5
  <2> QED BY <2>3, <2>4
<1>5. \A i, j \in DOMAIN rules : j <= i => ~Before(rules[i], rules[j], ranges)
  <2> SUFFICES ASSUME NEW i \in DOMAIN rules, NEW j \in DOMAIN rules, j <= i
               PROVE  ~Before(rules[i], rules[j], ranges)
    OBVIOUS
  <2>1. j < i \/ j = i
    BY <1>2
  <2>2. CASE j < i
    BY <1>1, <2>2 DEF IsSortedRules
  <2>3. CASE j = i
    BY <1>2, <2>3, BeforeOneWay
  <2> QED BY <2>1, <2>2, <2>3
<1> DEFINE FA == Fitting(A, ranges, p)
           FB == Fitting(B, ranges, p)
<1>6. /\ \A r \in FA : \E i \in L : rules[i] = r
      /\ \A i \in L : rules[i] \in FA
      /\ \A r \in FB : \E i \in M : rules[i] = r
      /\ \A i \in M : rules[i] \in FB
      /\ FB \subseteq FA /\ FA \subseteq Rules
  <2>1. A = {rules[i] : i \in {k \in DOMAIN rules : rules[k].active}}
    BY DEF ActiveOnes, ToSet
  <2> HIDE DEF A
  <2> QED BY <1>2, <2>1 DEF Fitting
<1>7. /\ BestOf(A, ranges, p) = {r \in FA : \A q \in FA : ~Before(q, r, ranges)}
      /\ BestOf(B, ranges, p) = {r \in FB : \A q \in FB : ~Before(q, r, ranges)}
  BY DEF BestOf
<1> HIDE DEF A, B, FA, FB
<1>8. BestOf(B, ranges, p) \subseteq BestOf(A, ranges, p)
  <2> SUFFICES ASSUME NEW r \in FB, \A q \in FB : ~Before(q, r, ranges),
                      NEW q \in FA, Before(q, r, ranges)
               PROVE  FALSE
    BY <1>6, <1>7
  <2>1. PICK i \in L : rules[i] = q
    BY <1>6
  <2>2. PICK j \in M : j <= i
    BY <1>4
  <2>3. ~Before(q, rules[j], ranges) /\ rules[j] \in FB
    BY <1>3, <1>5, <1>6, <2>1, <2>2
  <2>4. q \in Rules /\ r \in Rules /\ rules[j] \in Rules
    BY <1>6, <2>3
  <2>5. Before(rules[j], r, ranges)
    BY <2>3, <2>4, BeforeThrough
  <2> QED BY <2>3, <2>5
<1>9. ASSUME BestOf(A, ranges, p) # {} PROVE BestOf(B, ranges, p) # {}
  <2>1. M \in SUBSET Nat /\ M # {}
    BY <1>3, <1>4, <1>6, <1>7, <1>9
  <2>2. PICK j \in M : \A k \in M : j <= k
    BY <2>1, Least
  <2>3. \A q \in FB : ~Before(q, rules[j], ranges)
    BY <1>3, <1>5, <1>6, <2>2
  <2>4. rules[j] \in BestOf(B, ranges, p)
    BY <1>6, <1>7, <2>3
  <2> QED BY <2>4
<1> QED BY <1>8, <1>9 DEF AnswersOf, A, B

LEMMA DroppingSame ==
    ASSUME IInv, NEW bad, ranges' = ranges,
           \A i \in bad \cap DOMAIN rules :
              \E j \in 1 .. i - 1 : rules[j].active /\ IsSubset(rules[i], rules[j]),
           ActiveOnes(rules') = ActiveOnes(Deactivated(rules, bad))
    PROVE  SameAnswers
<1> DEFINE B == {rules[i] : i \in {k \in DOMAIN rules : rules[k].active /\ k \notin bad}}
           d == Deactivated(rules, bad)
<1>1. RulesOK(rules, ranges, nextId) /\ \A i \in DOMAIN rules : rules[i] \in Rules
  BY TcamParts, ListedRules DEF RulesOK
<1>2. /\ DOMAIN d = DOMAIN rules
      /\ \A i \in DOMAIN rules : d[i] = [rules[i] EXCEPT !.active = rules[i].active /\ i \notin bad]
  BY <1>1, DeactivatedOK
<1> HIDE DEF d
<1>3. ASSUME NEW i \in DOMAIN rules
      PROVE  /\ d[i].active <=> rules[i].active /\ i \notin bad
             /\ d[i].active => d[i] = rules[i]
  <2>1. rules[i] \in Rules /\ rules[i].active \in BOOLEAN
    BY <1>1 DEF Rules
  <2>2. d[i].active = (rules[i].active /\ i \notin bad)
    BY <1>2, <2>1 DEF Rules
  <2>3. ASSUME rules[i].active, i \notin bad PROVE d[i] = rules[i]
    <3>1. d[i] = [rules[i] EXCEPT !.active = TRUE] /\ rules[i].active = TRUE
      BY <1>2, <2>1, <2>3
    <3> QED BY <2>1, <3>1 DEF Rules
  <2> QED BY <2>2, <2>3
<1>4. ActiveOnes(d) = B
  <2>1. \A r \in ActiveOnes(d) : r \in B
    BY <1>2, <1>3 DEF ActiveOnes, ToSet
  <2>2. \A r \in B : r \in ActiveOnes(d)
    BY <1>2, <1>3 DEF ActiveOnes, ToSet
  <2> QED BY <2>1, <2>2
<1>5. ActiveOnes(rules') = B
  BY <1>4 DEF d
<1> HIDE DEF B
<1> SUFFICES ASSUME NEW p \in Packets
             PROVE  Answers(p)' \subseteq Answers(p) /\ (Answers(p)' = {} => Answers(p) = {})
  BY DEF SameAnswers
<1>6. Answers(p) = AnswersOf(ActiveOnes(rules), ranges, p)
  BY AnswersBySet
<1>7. Answers(p)' = AnswersOf(ActiveOnes(rules'), ranges', p)
  BY AnswersBySetAfter
<1>8. /\ AnswersOf(B, ranges, p) \subseteq AnswersOf(ActiveOnes(rules), ranges, p)
      /\ AnswersOf(B, ranges, p) = {} => AnswersOf(ActiveOnes(rules), ranges, p) = {}
  BY DroppingKeepsAnswers DEF B
<1>9. Answers(p)' = AnswersOf(B, ranges, p)
  BY <1>5, <1>7
<1> QED BY <1>6, <1>8, <1>9

\* What a rule answers, and for what, but not its id.
Alike(r, rs, q, qs) ==
    /\ r \in Rules /\ q \in Rules /\ r.active /\ q.active
    /\ r.value = q.value /\ r.mask = q.mask /\ r.exact = q.exact
    /\ r.exact => r.port = q.port
    /\ r.priority = q.priority /\ r.action = q.action
    /\ r.range \in DOMAIN rs \cup {NoRange} /\ q.range \in DOMAIN qs \cup {NoRange}
    /\ r.range = NoRange <=> q.range = NoRange
    /\ q.range # NoRange => rs[r.range] = qs[q.range]

\* Two lists of rules that are alike answer alike.
LEMMA AlikeAnswers ==
    ASSUME NEW s, NEW t, DOMAIN s = DOMAIN t, NEW rs, NEW ts,
           NoRange \notin DOMAIN rs, NoRange \notin DOMAIN ts,
           \A i \in DOMAIN s : Alike(s[i], rs, t[i], ts), NEW p
    PROVE  AnswersOf(ToSet(s), rs, p) = AnswersOf(ToSet(t), ts, p)
<1> DEFINE FS == Fitting(ToSet(s), rs, p)
           FT == Fitting(ToSet(t), ts, p)
           BS == BestOf(ToSet(s), rs, p)
           BT == BestOf(ToSet(t), ts, p)
<1>1. \A i \in DOMAIN s : Fits(p, s[i], rs) <=> Fits(p, t[i], ts)
  BY DEF Alike, Fits, FieldMatches
<1>2. \A i \in DOMAIN s : Specificity(s[i], rs) = Specificity(t[i], ts)
  <2> TAKE i \in DOMAIN s
  <2>1. /\ s[i].mask = t[i].mask /\ s[i].exact = t[i].exact
        /\ t[i].range \in DOMAIN ts <=> s[i].range \in DOMAIN rs
        /\ t[i].range \in DOMAIN ts => rs[s[i].range] = ts[t[i].range]
    BY DEF Alike
  <2> QED BY <2>1, SameSpecificity
<1>3. \A i, j \in DOMAIN s : Before(s[i], s[j], rs) <=> Before(t[i], t[j], ts)
  BY <1>2 DEF Alike, Before
<1>4. /\ \A i \in DOMAIN s : s[i] \in FS <=> t[i] \in FT
      /\ \A r \in FS : \E i \in DOMAIN s : r = s[i]
      /\ \A r \in FT : \E i \in DOMAIN s : r = t[i]
  <2>1. \A i \in DOMAIN s : s[i] \in ToSet(s) /\ t[i] \in ToSet(t)
    BY DEF ToSet
  <2> QED BY <1>1, <2>1 DEF Fitting, ToSet
<1>5. /\ BS = {r \in FS : \A q \in FS : ~Before(q, r, rs)}
      /\ BT = {r \in FT : \A q \in FT : ~Before(q, r, ts)}
  BY DEF BestOf
<1> HIDE DEF FS, FT, BS, BT
<1>6. \A i \in DOMAIN s : s[i] \in BS <=> t[i] \in BT
  <2> TAKE i \in DOMAIN s
  <2>1. s[i] \in BS => t[i] \in BT
    BY <1>3, <1>4, <1>5
  <2>2. t[i] \in BT => s[i] \in BS
    BY <1>3, <1>4, <1>5
  <2> QED BY <2>1, <2>2
<1>7. \A i \in DOMAIN s : s[i].action = t[i].action
  BY DEF Alike
<1>8. /\ \A r \in BS : \E i \in DOMAIN s : r = s[i]
      /\ \A r \in BT : \E i \in DOMAIN s : r = t[i]
  BY <1>4, <1>5
<1>9. {r.action : r \in BS} = {r.action : r \in BT}
  <2>1. \A r \in BS : \E q \in BT : r.action = q.action
    BY <1>6, <1>7, <1>8
  <2>2. \A r \in BT : \E q \in BS : r.action = q.action
    BY <1>6, <1>7, <1>8
  <2> QED BY <2>1, <2>2
<1> QED BY <1>9 DEF AnswersOf, BS, BT

\* Adding a rule's line of a backup gives a rule that is alike.
LEMMA LineAlike ==
    ASSUME IInv, NEW r, RuleOK(r, ranges), r.active, Line(r) \in Fields,
           NEW copy, CopyOK(copy), copy.ok
    PROVE  LET after == Apply(copy, [type |-> "ADD", fields |-> Line(r)])
           IN  /\ after.ok
               /\ \E new : /\ after.rules = Append(copy.rules, new)
                           /\ Alike(new, after.ranges, r, ranges)
               /\ \A k \in DOMAIN copy.ranges : /\ k \in DOMAIN after.ranges
                                                /\ after.ranges[k] = copy.ranges[k]
<1> DEFINE d      == Line(r)
           op     == [type |-> "ADD", fields |-> d]
           after  == Apply(copy, op)
           ranged == d.min # d.max /\ ~IsWildPort(d)
           x      == PortRange(d)
           rs     == IF ranged /\ x \notin ToSet(copy.ranges)
                     THEN Append(copy.ranges, x) ELSE copy.ranges
           range  == IF ranged THEN First({k \in DOMAIN rs : rs[k] = x}) ELSE NoRange
           exact  == d.min = d.max /\ ~IsWildPort(d)
           new    == Rule(d, exact, d.min, range, copy.nextId)
<1>1. after = ApplyAdd(copy, d)
  BY DEF Apply
<1>2. CopyOK(after) /\ after.ok
  BY <1>1, ApplyAddSound
<1>3. after = [copy EXCEPT !.ranges = rs, !.nextId = copy.nextId + 1,
                           !.rules = Append(copy.rules, new)]
  BY <1>1 DEF ApplyAdd
<1>4. after.rules = Append(copy.rules, new) /\ after.ranges = rs
  BY <1>3 DEF CopyOK
<1> HIDE DEF after
<1>5. /\ RangesOK(ranges) /\ RangesOK(copy.ranges) /\ RangesOK(rs)
      /\ RulesOK(after.rules, rs, after.nextId)
  BY <1>2, <1>4, TcamParts DEF CopyOK
<1>6. /\ d.value = r.value /\ d.mask = r.mask /\ d.priority = r.priority
      /\ d.action = r.action
      /\ d.min = EffectivePorts(r).min /\ d.max = EffectivePorts(r).max
  BY DEF Line
<1>7. /\ r.range \in DOMAIN ranges => EffectivePorts(r) = ranges[r.range]
      /\ r.range \notin DOMAIN ranges =>
           /\ r.range = NoRange
           /\ EffectivePorts(r) = IF r.exact THEN [min |-> r.port, max |-> r.port]
                                  ELSE [min |-> 0, max |-> MaxPort]
  BY <1>5, PortsOfRule
<1>8. NoRange \notin DOMAIN ranges /\ NoRange \notin DOMAIN copy.ranges
      /\ NoRange \notin DOMAIN rs
  BY <1>5, LenProperties DEF RangesOK, NoRange
<1>9. r \in Rules /\ r.port \in Ports /\ r.exact \in BOOLEAN
      /\ (r.exact => r.range = NoRange) /\ (r.mask = {} => r.value = {})
  BY DEF RuleOK, Rules
<1>10. x = [min |-> d.min, max |-> d.max]
  BY DEF PortRange
<1> HIDE DEF d, op, x
<1>11. \A k \in DOMAIN copy.ranges : k \in DOMAIN rs /\ rs[k] = copy.ranges[k]
  <2>1. CASE rs = Append(copy.ranges, x)
    BY <1>5, <2>1, AppendProperties, LenProperties DEF RangesOK
  <2>2. CASE rs = copy.ranges
    BY <2>2
  <2> QED BY <2>1, <2>2
<1>12. ranged => \E k \in DOMAIN rs : rs[k] = x
  <2>1. CASE ranged /\ x \notin ToSet(copy.ranges)
    <3>1. rs = Append(copy.ranges, x)
      BY <2>1
    <3> DEFINE L == Len(copy.ranges)
    <3>2. L + 1 \in DOMAIN rs /\ rs[L + 1] = x
      BY <1>5, <3>1, AppendProperties, LenProperties DEF RangesOK
    <3> QED BY <3>2
  <2>2. CASE ranged /\ x \in ToSet(copy.ranges)
    BY <2>2 DEF ToSet
  <2> QED BY <2>1, <2>2
<1> HIDE DEF rs
<1>13. ranged => range \in DOMAIN rs /\ rs[range] = x
  <2> DEFINE T == {k \in DOMAIN rs : rs[k] = x}
  <2>1. T \in SUBSET Nat /\ 0 \notin T
    BY <1>5, LenProperties DEF RangesOK
  <2>2. ranged => T # {}
    BY <1>12
  <2>3. ranged => First(T) \in T
    BY <2>1, <2>2, FirstIsLeast
  <2> QED BY <2>3
<1>14. /\ ranged <=> r.range \in DOMAIN ranges
       /\ exact <=> r.exact
       /\ r.range \in DOMAIN ranges => x = ranges[r.range]
       /\ exact => d.min = r.port
  <2>1. MaxPort # 0
    BY PortAssumption
  <2>2. CASE r.range \in DOMAIN ranges
    <3>1. /\ ranges[r.range].min # ranges[r.range].max /\ ~IsWildPort(ranges[r.range])
          /\ d.min = ranges[r.range].min /\ d.max = ranges[r.range].max
      BY <1>5, <1>6, <1>7, <2>2 DEF RangesOK
    <3>2. ranged /\ ~exact /\ ~r.exact
      BY <1>8, <1>9, <2>2, <3>1 DEF IsWildPort
    <3>3. x = ranges[r.range]
      <4> DEFINE P == [min : Ports, max : Ports]
      <4>1. ranges \in Seq(P)
        BY <1>5 DEF RangesOK
      <4> HIDE DEF P
      <4>2. ranges[r.range] \in P
        BY <2>2, <4>1
      <4> QED BY <1>10, <3>1, <4>2 DEF P
    <3> QED BY <2>2, <3>2, <3>3
  <2>3. CASE r.range \notin DOMAIN ranges /\ r.exact
    <3>1. d.min = r.port /\ d.max = r.port
      BY <1>6, <1>7, <2>3
    <3> QED BY <2>1, <2>3, <3>1 DEF IsWildPort
  <2>4. CASE r.range \notin DOMAIN ranges /\ ~r.exact
    <3>1. d.min = 0 /\ d.max = MaxPort
      BY <1>6, <1>7, <2>4
    <3> QED BY <2>1, <2>4, <3>1 DEF IsWildPort
  <2> QED BY <2>2, <2>3, <2>4
<1> HIDE DEF ranged, exact
<1>15. new \in Rules
  <2>1. /\ Append(copy.rules, new) \in Seq(Rules)
        /\ copy.rules \in Seq(Rules)
    BY <1>4, <1>5 DEF RulesOK, CopyOK
  <2> HIDE DEF new
  <2> DEFINE more == Append(copy.rules, new)
  <2>2. Len(copy.rules) + 1 \in DOMAIN more /\ more[Len(copy.rules) + 1] = new
    BY <2>1, LenProperties
  <2> HIDE DEF more
  <2>3. more \in Seq(Rules)
    BY <2>1 DEF more
  <2> QED BY <2>2, <2>3
<1>16. /\ new.mask = d.mask /\ new.value = IF d.mask = {} THEN {} ELSE d.value
       /\ new.exact = exact /\ new.port = IF exact THEN d.min ELSE 0
       /\ new.range = range /\ new.priority = d.priority /\ new.action = d.action
       /\ new.active
  BY DEF Rule
<1> HIDE DEF new
<1>17. range = IF ranged THEN First({k \in DOMAIN rs : rs[k] = x}) ELSE NoRange
  OBVIOUS
<1>18. exact \in BOOLEAN
  BY DEF exact
<1> HIDE DEF range
<1>19. r.range \in DOMAIN ranges \cup {NoRange}
  BY DEF RuleOK
<1>20. Alike(new, rs, r, ranges)
  <2>1. /\ new.range \in DOMAIN rs \cup {NoRange}
        /\ new.range = NoRange <=> r.range = NoRange
        /\ r.range # NoRange => rs[new.range] = ranges[r.range]
    BY <1>8, <1>13, <1>14, <1>16, <1>17, <1>19
  <2>2. new.value = r.value /\ new.mask = r.mask /\ new.exact = r.exact
        /\ (new.exact => new.port = r.port)
        /\ new.priority = r.priority /\ new.action = r.action
    BY <1>6, <1>9, <1>14, <1>16, <1>18
  <2> QED BY <1>9, <1>15, <1>16, <1>19, <2>1, <2>2 DEF Alike
<1> QED BY <1>2, <1>4, <1>11, <1>20 DEF after, op, d

\* A backup restored gives, rule by rule, the active rules of the list.
LEMMA RestoredAlike ==
    ASSUME IInv
    PROVE  LET copy == Applied(Empty, Backup)
           IN  /\ CopyOK(copy)
               /\ DOMAIN copy.rules = DOMAIN Actives(rules)
               /\ \A k \in DOMAIN copy.rules :
                     Alike(copy.rules[k], copy.ranges, Actives(rules)[k], ranges)
<1> DEFINE kept == Actives(rules)
           n    == Len(kept)
<1>1. RulesOK(kept, ranges, nextId) /\ ToSet(kept) = {r \in ToSet(rules) : r.active}
  BY TcamParts, ActivesOK
<1>2. /\ Backup \in Seq(Operations) /\ Len(Backup) = n
      /\ \A i \in 1 .. n : /\ Backup[i].type = "ADD" /\ Backup[i].fields = Line(kept[i])
                           /\ Line(kept[i]) \in Fields
                           /\ Backup[i] = [type |-> "ADD", fields |-> Line(kept[i])]
  <2>1. /\ Backup \in Seq(Operations) /\ Len(Backup) = n
        /\ \A i \in 1 .. n : /\ Backup[i].type = "ADD" /\ Backup[i].fields = Line(kept[i])
                             /\ Line(kept[i]) \in Fields
    BY BackupLines
  <2>2. Backup = [i \in DOMAIN kept |-> [type |-> "ADD", fields |-> Line(kept[i])]]
    BY DEF Backup, Line
  <2> HIDE DEF kept
  <2>3. DOMAIN kept = 1 .. n
    BY <1>1, ListedRules DEF RulesOK
  <2> QED BY <2>1, <2>2, <2>3
<1> HIDE DEF kept
<1>3. /\ DOMAIN kept = 1 .. n /\ n \in Nat
      /\ \A i \in 1 .. n : RuleOK(kept[i], ranges) /\ kept[i].active
  BY <1>1, ListedRules DEF RulesOK
<1>4. PICK g : /\ Applied(Empty, Backup) = g[n]
               /\ g[0] = Empty
               /\ \A i \in 1 .. n : g[i] = Apply(g[i - 1], Backup[i])
  BY <1>2, <1>3, AppliedStepwise
<1> HIDE DEF n
<1> DEFINE Restored(i) == /\ CopyOK(g[i]) /\ g[i].ok /\ Len(g[i].rules) = i
                          /\ \A k \in 1 .. i : Alike(g[i].rules[k], g[i].ranges, kept[k], ranges)
           T == {i \in Nat : i <= n => Restored(i)}
<1>5. Restored(0)
  <2>1. CopyOK(Empty) /\ Empty.ok /\ Empty.rules = <<>>
    BY EmptySound DEF Empty
  <2> QED BY <1>4, <2>1
<1>6. ASSUME NEW i \in Nat, i + 1 <= n, Restored(i) PROVE Restored(i + 1)
  <2> DEFINE copy  == g[i]
             after == g[i + 1]
             r     == kept[i + 1]
  <2>1. i + 1 \in 1 .. n /\ (i + 1) - 1 = i
    BY <1>3, <1>6
  <2>2. after = Apply(copy, [type |-> "ADD", fields |-> Line(r)])
    BY <1>2, <1>4, <2>1
  <2>3. RuleOK(r, ranges) /\ r.active /\ Line(r) \in Fields
    BY <1>2, <1>3, <2>1
  <2>4. /\ CopyOK(copy) /\ copy.ok /\ Len(copy.rules) = i
        /\ \A k \in 1 .. i : Alike(copy.rules[k], copy.ranges, kept[k], ranges)
    BY <1>6
  <2>5. [type |-> "ADD", fields |-> Line(r)] \in Operations
    BY <2>3 DEF Operations
  <2> HIDE DEF copy, after, r
  <2>6. CopyOK(after)
    BY <2>2, <2>4, <2>5, ApplySound
  <2>7. after.ok
    BY <2>2, <2>3, <2>4, LineAlike
  <2>8. PICK new : after.rules = Append(copy.rules, new) /\ Alike(new, after.ranges, r, ranges)
    BY <2>2, <2>3, <2>4, LineAlike
  <2>9. \A k \in DOMAIN copy.ranges : /\ k \in DOMAIN after.ranges
                                      /\ after.ranges[k] = copy.ranges[k]
    BY <2>2, <2>3, <2>4, LineAlike
  <2>10. copy.rules \in Seq(Rules) /\ new \in Rules
    BY <2>4, <2>8 DEF CopyOK, RulesOK, Alike
  <2>11. /\ Len(after.rules) = i + 1
         /\ \A k \in 1 .. i : after.rules[k] = copy.rules[k]
         /\ after.rules[i + 1] = new
    BY <2>4, <2>8, <2>10, AppendProperties
  <2>12. \A k \in 1 .. i : Alike(after.rules[k], after.ranges, kept[k], ranges)
    BY <2>4, <2>9, <2>11 DEF Alike
  <2>13. Alike(after.rules[i + 1], after.ranges, kept[i + 1], ranges)
    BY <2>8, <2>11 DEF r
  <2>14. \A k \in 1 .. i + 1 : k \in 1 .. i \/ k = i + 1
    OBVIOUS
  <2> QED BY <2>6, <2>7, <2>11, <2>12, <2>13, <2>14 DEF after
<1> HIDE DEF Restored
<1>7. T = Nat
  <2>1. 0 \in T
    BY <1>5
  <2>2. ASSUME NEW i \in T PROVE i + 1 \in T
    <3>1. CASE i + 1 <= n
      <4>1. i \in Nat /\ i <= n
        BY <1>3, <3>1
      <4> QED BY <1>6, <3>1, <4>1
    <3>2. CASE ~(i + 1 <= n)
      BY <3>2
    <3> QED BY <3>1, <3>2
  <2>3. T \in SUBSET Nat
    OBVIOUS
  <2> HIDE DEF T
  <2> QED BY <2>1, <2>2, <2>3, Induction
<1>8. Restored(n)
  <2>1. n \in T
    BY <1>3, <1>7
  <2> QED BY <1>3, <2>1
<1>9. /\ CopyOK(g[n]) /\ Len(g[n].rules) = n
      /\ \A k \in 1 .. n : Alike(g[n].rules[k], g[n].ranges, kept[k], ranges)
  BY <1>8 DEF Restored
<1>10. DOMAIN g[n].rules = 1 .. n
  BY <1>9, ListedRules DEF CopyOK, RulesOK
<1> QED BY <1>3, <1>4, <1>9, <1>10 DEF kept

LEMMA RestoreSame ==
    ASSUME IInv, RestoreRules
    PROVE  SameAnswers
<1> DEFINE copy == Applied(Empty, Backup)
           kept == Actives(rules)
<1>1. /\ CopyOK(copy) /\ DOMAIN copy.rules = DOMAIN kept
      /\ \A k \in DOMAIN copy.rules : Alike(copy.rules[k], copy.ranges, kept[k], ranges)
  BY RestoredAlike
<1>2. Commit(copy)
  BY DEF RestoreRules
<1>3. ToSet(kept) = ActiveOnes(rules) /\ RangesOK(ranges)
  BY TcamParts, ActivesOK DEF ActiveOnes
<1> HIDE DEF copy, kept
<1>4. ToSet(rules') = {r \in ToSet(copy.rules) : r.active} /\ ranges' = copy.ranges
  BY <1>1, <1>2, CommitSound DEF Commit
<1>5. \A r \in ToSet(copy.rules) : r.active
  BY <1>1 DEF ToSet, Alike
<1>6. ActiveOnes(rules') = ToSet(copy.rules)
  BY <1>4, <1>5 DEF ActiveOnes
<1>7. NoRange \notin DOMAIN ranges /\ NoRange \notin DOMAIN copy.ranges
  BY <1>1, <1>3, LenProperties DEF RangesOK, CopyOK, NoRange
<1>8. \A p : AnswersOf(ToSet(copy.rules), copy.ranges, p) = AnswersOf(ToSet(kept), ranges, p)
  BY <1>1, <1>7, AlikeAnswers
<1> SUFFICES ASSUME NEW p \in Packets
             PROVE  Answers(p)' \subseteq Answers(p) /\ (Answers(p)' = {} => Answers(p) = {})
  BY DEF SameAnswers
<1>9. Answers(p) = AnswersOf(ActiveOnes(rules), ranges, p)
  BY AnswersBySet
<1>10. Answers(p)' = AnswersOf(ActiveOnes(rules'), ranges', p)
  BY AnswersBySetAfter
<1>11. Answers(p)' = Answers(p)
  BY <1>3, <1>4, <1>6, <1>8, <1>9, <1>10
<1> QED BY <1>11

LEMMA CleanupSame ==
    ASSUME IInv, Cleanup
    PROVE  SameAnswers
<1>1. ASSUME NEW bad, ranges' = ranges, nextId' = nextId, Rebuild(Deactivated(rules, bad))
      PROVE  ActiveOnes(rules') = ActiveOnes(Deactivated(rules, bad))
  <2>1. ToSet(rules') = ActiveOnes(Deactivated(rules, bad))
    BY <1>1, RebuildSound DEF ActiveOnes
  <2> QED BY <2>1 DEF ActiveOnes
<1>2. \A i \in Redundant \cap DOMAIN rules :
         \E j \in 1 .. i - 1 : rules[j].active /\ IsSubset(rules[i], rules[j])
  BY DEF Redundant
<1>3. CASE CompactRedundantRules
  <2>1. ranges' = ranges /\ ActiveOnes(rules') = ActiveOnes(Deactivated(rules, Redundant))
    BY <1>3 DEF CompactRedundantRules
  <2> QED BY <1>2, <2>1, DroppingSame
<1>4. CASE CompactAndRebuild
  <2>1. ranges' = ranges /\ ActiveOnes(rules') = ActiveOnes(Deactivated(rules, Redundant))
    BY <1>1, <1>4 DEF CompactAndRebuild
  <2> QED BY <1>2, <2>1, DroppingSame
<1>5. CASE EliminateShadowedRules /\ \A i \in DOMAIN rules : rules[i].active
  <2>1. ranges' = ranges /\ ActiveOnes(rules') = ActiveOnes(Deactivated(rules, Shadowed))
    BY <1>1, <1>5 DEF EliminateShadowedRules
  <2>2. DOMAIN rules = 1 .. Len(rules) /\ Len(rules) \in Nat
    BY TcamParts, ListedRules DEF RulesOK
  <2>3. \A i \in DOMAIN rules : \A j \in 1 .. i - 1 : j \in DOMAIN rules
    BY <2>2
  <2>4. \A i \in Shadowed \cap DOMAIN rules :
           \E j \in 1 .. i - 1 : rules[j].active /\ IsSubset(rules[i], rules[j])
    BY <1>5, <2>3 DEF Shadowed
  <2> QED BY <2>1, <2>4, DroppingSame
<1>6. CASE RestoreRules
  BY <1>6, RestoreSame
<1> QED BY <1>3, <1>4, <1>5, <1>6 DEF Cleanup

\* Dropping redundant rules, dropping shadowed rules when all are active, and
\* restoring a backup neither lose the answer to any packet nor make a new one:
\* whatever is dropped, an earlier active rule fits all it fits, and a restored
\* rule differs from the one backed up in its id and its range entry only.
THEOREM TcamCleanupKeepsAnswers == Spec => CleanupKeepsAnswers
<1>1. IInv /\ [Next]_vars => [Cleanup => SameAnswers]_vars
  BY CleanupSame
<1> QED BY <1>1, TcamInductiveInvariant, PTL DEF Spec, CleanupKeepsAnswers
===============================================================================
