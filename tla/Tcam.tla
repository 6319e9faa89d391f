--------------------------------- MODULE Tcam ---------------------------------
(***************************************************************************)
(* OptimizedTCAM of src/include/tcam.h: a list of ternary rules, best      *)
(* first, and two structures built from it that hold positions of the      *)
(* list: a bitmap per packet byte and a decision tree.                     *)
(*                                                                         *)
(* A rule constrains one ternary field, a value and the mask of the bits   *)
(* that count, both as sets of bits, which stands for the bytes of the     *)
(* addresses, the protocol and the EtherType; and one port, which stands   *)
(* for the source and the destination port.  A deletion, an ageing or a    *)
(* compaction only clears is_active; the positions of the list change when *)
(* the list is filtered, and every such operation must rebuild the two     *)
(* structures.  Hit counts, times and latencies are left out.  The class   *)
(* has no lock: every operation is one step.                               *)
(***************************************************************************)
EXTENDS Integers, Sequences, FiniteSets, SequencesExt, Lists

CONSTANTS
    Bits,          \* the bits of the field
    PortBits,      \* the width of a port, 16 in the code
    MaxPort,       \* 0xFFFF
    NoPort,        \* a packet that ends before the port
    MaxIndexed,    \* BitmapTCAM::MAX_RULES, 1024 in the code
    LeafSize,      \* LEAF_NODE_RULE_THRESHOLD, 4 in the code
    MaxDepth,      \* MAX_TREE_DEPTH, 8 in the code
    Descriptions,  \* the rules callers add: WildcardFields, priority, action
    Batches,       \* the batches callers apply: sequences of operations
    MaxId          \* bound: no operation lets next_rule_id pass this

Ports  == 0 .. MaxPort
Fields == [value : SUBSET Bits, mask : SUBSET Bits, min : Ports, max : Ports,
           priority : Int, action : Nat]
Operations == [type : {"ADD"}, fields : Fields] \cup [type : {"DELETE"}, id : Nat]

ASSUME FieldAssumption == Bits \subseteq Nat /\ IsFiniteSet(Bits) /\ Bits # {}
ASSUME PortAssumption  == /\ PortBits \in Nat \ {0}
                          /\ MaxPort \in Nat \ {0} /\ MaxPort = 2^PortBits - 1
ASSUME NoPortAssumption == NoPort \in Int /\ NoPort < 0
ASSUME LimitAssumption == /\ MaxIndexed \in Nat /\ LeafSize \in Nat
                          /\ MaxDepth \in Nat /\ MaxId \in Nat
ASSUME InputAssumption == Descriptions \subseteq Fields /\ Batches \subseteq Seq(Operations)

VARIABLES
    rules,    \* rules
    ranges,   \* port_ranges: range_id is the place in it, counted from 1 here
    nextId,   \* next_rule_id
    built     \* what field_bitmaps and decision_tree were built from

vars == <<rules, ranges, nextId, built>>

NoRange == 0      \* a rule without a range id
None    == 0      \* no position: -1 in the code

Init == rules = <<>> /\ ranges = <<>> /\ nextId = 0 /\ built = <<>>
-----------------------------------------------------------------------------
(***************************************************************************)
(* Rules as they are kept.                                                 *)
(***************************************************************************)

\* normalize_rule_fields: a field that is wild has no value.
Rule(d, exact, port, range, id) ==
    [value |-> IF d.mask = {} THEN {} ELSE d.value, mask |-> d.mask,
     exact |-> exact, port |-> IF exact THEN port ELSE 0, range |-> range,
     priority |-> d.priority, action |-> d.action, id |-> id, active |-> TRUE]

IsWildPort(d) == d.min = 0 /\ d.max = MaxPort
PortRange(d)  == [min |-> d.min, max |-> d.max]

\* round(log2(n)) for n > 0: how many powers of two, from the first on, are no
\* further from it than the one before
Log2(n) == Cardinality({k \in 1 .. 2 * PortBits : 2^(2*k) <= 2 * n^2})

\* The size of a range is computed in 32 bits, twice the width of a port.
RangeScore(r) == LET size == (r.max - r.min + 1) % 2^(2 * PortBits)
                 IN  PortBits - Log2(IF size > 0 THEN size ELSE 1)

\* calculate_specificity
Specificity(r, rs) == Cardinality(r.mask)
                      + (IF r.exact THEN PortBits
                         ELSE IF r.range \in DOMAIN rs THEN RangeScore(rs[r.range])
                         ELSE 0)

Before(a, b, rs) == \/ a.priority > b.priority
                    \/ /\ a.priority = b.priority
                       /\ Specificity(a, rs) > Specificity(b, rs)

IsSortedRules(s, rs) == \A i, j \in DOMAIN s : i < j => ~Before(s[j], s[i], rs)

\* std::sort leaves the order of equals open.  No rule is in the list twice.
Sortings(s, rs) == {t \in SetToSeqs(ToSet(s)) : IsSortedRules(t, rs)}

Actives(s)          == Skipping(s, {r \in ToSet(s) : ~r.active})
Deactivated(s, bad) == [i \in DOMAIN s |-> [s[i] EXCEPT !.active = @ /\ i \notin bad]]

\* rebuild_optimized_structures_from_sorted_rules
Indexed(s) == [i \in DOMAIN s |-> [s[i] EXCEPT !.active = TRUE]]
-----------------------------------------------------------------------------
(***************************************************************************)
(* Lookups.  Each yields a position of the list, or None.                  *)
(***************************************************************************)
\* A packet has the bytes of the field, or no bytes at all.  (Where it ends inside
\* them, each byte it lacks is met as if it had none.)
Packets == {p \in [empty : BOOLEAN, field : SUBSET Bits, port : Ports \cup {NoPort}] :
               p.empty => p.field = {} /\ p.port = NoPort}

\* A byte that the packet lacks matches only a rule that ignores it.
FieldMatches(p, r) == IF p.empty THEN r.mask = {}
                      ELSE p.field \cap r.mask = r.value \cap r.mask

InRange(port, range) == /\ range \in DOMAIN ranges
                        /\ ranges[range].min <= port /\ port <= ranges[range].max

\* matches_rule
MatchesRule(p, r) == /\ r.active
                     /\ FieldMatches(p, r)
                     /\ r.exact => p.port = r.port
                     /\ r.range # NoRange => InRange(p.port, r.range)

First(positions) == IF positions = {} THEN None
                    ELSE CHOOSE i \in positions : \A j \in positions : i <= j

LookupLinear(p) == First({i \in DOMAIN rules : MatchesRule(p, rules[i])})

\* A mutant: the bitmaps find a rule that has been deleted.
BitmapSeesDeleted(p) ==
    First({i \in DOMAIN built \cap 1 .. MaxIndexed :
              /\ ~p.empty
              /\ FieldMatches(p, built[i])
              /\ built[i].exact => p.port = built[i].port
              /\ rules[i].range # NoRange => InRange(p.port, rules[i].range)})

\* lookup_bitmap_idx: a packet without bytes is turned away; the bytes are compared
\* with what the bitmaps hold, the flag and the ranges are the rule's.
LookupBitmap(p) ==
    First({i \in DOMAIN built \cap DOMAIN rules \cap 1 .. MaxIndexed :
              /\ ~p.empty
              /\ FieldMatches(p, built[i])
              /\ built[i].exact => p.port = built[i].port
              /\ rules[i].active
              /\ rules[i].range # NoRange => InRange(p.port, rules[i].range)})

\* build_tree_recursive, the choice of test_value: the most frequent value of
\* the rules that fix the whole field, the smallest of equals.
Number(value)       == MapThenSumSet(LAMBDA b : 2^b, value)
Fixed(node)         == {i \in node : built[i].mask = Bits}
Holders(node, v)    == {i \in Fixed(node) : built[i].value = v}
Values(node)        == {built[i].value : i \in Fixed(node)}
TestValue(node)     ==
    CHOOSE v \in Values(node) : \A w \in Values(node) \ {v} :
        LET n == Cardinality(Holders(node, v))
            m == Cardinality(Holders(node, w))
        IN  n > m \/ (n = m /\ Number(v) < Number(w))

\* build_tree_recursive: a node with few rules, or nothing to split them by, is a
\* leaf.  Else the rules that are wild in the field stay, and the others are in
\* the children.
Leaf(node) == Cardinality(node) <= LeafSize \/ Cardinality(Values(node)) < 2
Wild(node) == {i \in node : built[i].mask = {}}

\* traverse_decision_tree: the child on the packet's side, and none for a packet
\* that lacks the byte
Child(node, p) ==
    IF Leaf(node) THEN node
    ELSE IF p.empty THEN {}
    ELSE LET test == TestValue(node)
             left == Holders(node, test)
         IN  IF p.field = test THEN left ELSE node \ (Wild(node) \cup left)

\* traverse_decision_tree: down to a leaf, which is asked, or to the first node
\* whose wild rules have an answer
LookupTree(p) ==
    LET Hit(node) == First({i \in node \cap DOMAIN rules : MatchesRule(p, rules[i])})
        path[depth \in 0 .. MaxDepth] ==
            IF depth = 0 THEN DOMAIN built ELSE Child(path[depth - 1], p)
        AtLeaf(depth) == depth = MaxDepth \/ Leaf(path[depth])
        Ends(depth)   == AtLeaf(depth) \/ Hit(Wild(path[depth])) # None
        end == CHOOSE d \in 0 .. MaxDepth : Ends(d) /\ \A e \in 0 .. d - 1 : ~Ends(e)
    IN  IF AtLeaf(end) THEN Hit(path[end]) ELSE Hit(Wild(path[end]))
-----------------------------------------------------------------------------
(***************************************************************************)
(* Subsumption.                                                            *)
(***************************************************************************)

\* get_effective_port_range
EffectivePorts(r) == IF r.range \in DOMAIN ranges THEN ranges[r.range]
                     ELSE IF r.exact THEN [min |-> r.port, max |-> r.port]
                     ELSE [min |-> 0, max |-> MaxPort]

\* A mutant: the comparison of the masks is turned round.
MaskTurned(sub, super) ==
    /\ sub.value \cap super.mask = super.value \cap super.mask
    /\ sub.mask \subseteq super.mask
    /\ EffectivePorts(sub).min >= EffectivePorts(super).min
    /\ EffectivePorts(sub).max <= EffectivePorts(super).max

\* is_subset
IsSubset(sub, super) ==
    /\ sub.value \cap super.mask = super.value \cap super.mask
    /\ super.mask \subseteq sub.mask
    /\ EffectivePorts(sub).min >= EffectivePorts(super).min
    /\ EffectivePorts(sub).max <= EffectivePorts(super).max

\* detect_redundant_rules
Redundant ==
    {i \in DOMAIN rules :
        /\ rules[i].active
        /\ \E j \in 1 .. i - 1 : /\ rules[j].active
                                 /\ rules[i].action = rules[j].action
                                 /\ IsSubset(rules[i], rules[j])}

\* detect_shadowed_rules: is_active is not asked.
Shadowed ==
    {i \in DOMAIN rules :
        \E j \in 1 .. i - 1 : /\ rules[i].action # rules[j].action
                              /\ IsSubset(rules[i], rules[j])}
-----------------------------------------------------------------------------
(***************************************************************************)
(* The operations.                                                         *)
(***************************************************************************)

\* rebuild_optimized_structures of the list s
Rebuild(s) == /\ rules' \in Sortings(Actives(s), ranges)
              /\ built' = Indexed(rules')

\* add_rule_with_ranges: a range whose ends are swapped stays the exact port
\* min; every range gets an entry of its own.
AddRule(d) ==
    LET ranged == d.min < d.max /\ ~IsWildPort(d)
        rs     == IF ranged THEN Append(ranges, PortRange(d)) ELSE ranges
        new    == Rule(d, ~ranged /\ ~IsWildPort(d), d.min,
                       IF ranged THEN Len(rs) ELSE NoRange, nextId)
        kept   == Actives(rules)
        place  == Cardinality({i \in DOMAIN kept : Before(kept[i], new, rs)}) + 1
    IN  /\ nextId < MaxId
        /\ nextId' = nextId + 1
        /\ ranges' = rs
        /\ rules' = InsertAt(kept, place, new)
        /\ built' = Indexed(rules')

\* update_rules_atomic: what an operation does to the copies.  An ADD shares
\* the entry of an equal range, and a range whose ends are swapped is a range.
ApplyAdd(copy, d) ==
    LET ranged == d.min # d.max /\ ~IsWildPort(d)
        rs     == IF ranged /\ PortRange(d) \notin ToSet(copy.ranges)
                  THEN Append(copy.ranges, PortRange(d)) ELSE copy.ranges
        range  == IF ranged THEN First({k \in DOMAIN rs : rs[k] = PortRange(d)}) ELSE NoRange
    IN  [copy EXCEPT !.ranges = rs, !.nextId = @ + 1,
             !.rules = Append(@, Rule(d, d.min = d.max /\ ~IsWildPort(d), d.min,
                                      range, copy.nextId))]

ApplyDelete(copy, id) ==
    LET found == {i \in DOMAIN copy.rules : copy.rules[i].id = id}
    IN  [copy EXCEPT !.rules = Deactivated(@, found), !.ok = found # {}]

Apply(copy, op) == IF ~copy.ok THEN copy
                   ELSE IF op.type = "ADD" THEN ApplyAdd(copy, op.fields)
                   ELSE ApplyDelete(copy, op.id)

Start == [rules |-> Actives(rules), ranges |-> ranges, nextId |-> nextId, ok |-> TRUE]
Empty == [rules |-> <<>>, ranges |-> <<>>, nextId |-> 0, ok |-> TRUE]

Commit(copy) == /\ ranges' = copy.ranges
                /\ nextId' = copy.nextId
                /\ rules' \in Sortings(Actives(copy.rules), copy.ranges)
                /\ built' = Indexed(rules')

\* The operations of a batch, one after the other
Applied(copy, batch) ==
    LET after[n \in 0 .. Len(batch)] ==
            IF n = 0 THEN copy ELSE Apply(after[n - 1], batch[n])
    IN  after[Len(batch)]

\* update_rules_atomic; a batch that fails changes nothing.
UpdateRules(batch) ==
    LET copy == Applied(Start, batch)
    IN  copy.ok /\ copy.nextId <= MaxId /\ Commit(copy)

UpdateFails(batch) == ~Applied(Start, batch).ok /\ UNCHANGED vars

\* A mutant: the rule leaves the list at once, and the structures stay.
DeleteAtOnce(id) ==
    /\ \E i \in DOMAIN rules : rules[i].id = id
    /\ rules' = Skipping(rules, {r \in ToSet(rules) : r.id = id})
    /\ UNCHANGED <<ranges, nextId, built>>

\* delete_rule of a rule that is in the list
DeleteRule(id) ==
    LET found == {i \in DOMAIN rules : rules[i].id = id}
    IN  /\ found # {}
        /\ rules' = Deactivated(rules, found)
        /\ UNCHANGED <<ranges, nextId, built>>

\* age_rules: which rules are older than max_age is the clock's choice.
AgeRules == /\ \E old \in SUBSET {i \in DOMAIN rules : rules[i].active} :
                   rules' = Deactivated(rules, old)
            /\ UNCHANGED <<ranges, nextId, built>>

\* compact_redundant_rules(FALSE)
CompactRedundantRules == /\ Redundant # {}
                         /\ rules' = Deactivated(rules, Redundant)
                         /\ UNCHANGED <<ranges, nextId, built>>

\* compact_redundant_rules(TRUE)
CompactAndRebuild == /\ UNCHANGED <<ranges, nextId>>
                     /\ Redundant # {}
                     /\ Rebuild(Deactivated(rules, Redundant))

\* eliminate_shadowed_rules(FALSE)
EliminateShadowedRules == /\ UNCHANGED <<ranges, nextId>>
                          /\ Shadowed # {}
                          /\ Rebuild(Deactivated(rules, Shadowed))

\* backup_rules: the active rules in their order, as descriptions
Backup ==
    LET Line(r) == [value |-> r.value, mask |-> r.mask,
                    min |-> EffectivePorts(r).min, max |-> EffectivePorts(r).max,
                    priority |-> r.priority, action |-> r.action]
    IN  [i \in DOMAIN Actives(rules) |->
            [type |-> "ADD", fields |-> Line(Actives(rules)[i])]]

\* restore_rules of the backup of the present rules
RestoreRules == Commit(Applied(Empty, Backup))

\* restore_rules of a stream with a bad line
RestoreFails == Commit(Empty)

Next == \/ \E d \in Descriptions : AddRule(d)
        \/ \E batch \in Batches : UpdateRules(batch) \/ UpdateFails(batch)
        \/ \E id \in 0 .. MaxId - 1 : DeleteRule(id)
        \/ AgeRules
        \/ CompactRedundantRules
        \/ CompactAndRebuild
        \/ EliminateShadowedRules
        \/ RestoreRules
        \/ RestoreFails

Spec == Init /\ [][Next]_vars
-----------------------------------------------------------------------------
(***************************************************************************)
(* Properties.                                                             *)
(***************************************************************************)
Rules == [value : SUBSET Bits, mask : SUBSET Bits, exact : BOOLEAN, port : Ports,
          range : Nat, priority : Int, action : Nat, id : Nat, active : BOOLEAN]

TypeOK == /\ rules \in Seq(Rules)
          /\ ranges \in Seq([min : Ports, max : Ports])
          /\ nextId \in Nat
          /\ built \in Seq(Rules)

IdsUnique    == \A i, j \in DOMAIN rules : rules[i].id = rules[j].id => i = j
IdsGiven     == \A i \in DOMAIN rules : rules[i].id < nextId
RangesKnown  == /\ \A i \in DOMAIN rules :
                      /\ rules[i].range \in {NoRange} \cup DOMAIN ranges
                      /\ rules[i].exact => rules[i].range = NoRange
                /\ \A k \in DOMAIN ranges :
                      ranges[k].min # ranges[k].max /\ ~IsWildPort(ranges[k])
WildNormal   == \A i \in DOMAIN rules : rules[i].mask = {} => rules[i].value = {}

\* The list is sorted and names each rule once, a rule has an exact port, a range
\* with an entry that is one, or neither, and the bitmaps and the tree were built
\* from the rules now at each position.  Soft deletions leave positions alone, and
\* whatever filters the list rebuilds.
IInv == /\ TypeOK /\ IdsUnique /\ IdsGiven /\ RangesKnown /\ WildNormal
        /\ IsSortedRules(rules, ranges)
        /\ built = Indexed(rules)

Live(p) == {i \in DOMAIN rules : MatchesRule(p, rules[i])}
Best(p) == {i \in Live(p) : \A j \in Live(p) : ~Before(rules[j], rules[i], ranges)}

\* The linear and the bitmap lookup answer with the same rule, one that no live
\* matching rule beats in priority and specificity, except that the bitmaps do
\* not know the rules past MAX_RULES and answer no packet without bytes, which the
\* linear lookup and the tree match with a rule that ignores all.  The tree answers with a live matching
\* rule, finds one whenever there is one unless some rule masks part of a field,
\* and agrees with the linear lookup when every rule fixes the field whole.
\* lookup_single takes any of the three.
LookupsAgree ==
    \A p \in Packets :
        LET line == LookupLinear(p)
            tree == LookupTree(p)
        IN  /\ IF line = None THEN Live(p) = {} ELSE line \in Best(p)
            /\ LookupBitmap(p) = IF p.empty \/ line > MaxIndexed THEN None ELSE line
            /\ tree # None => tree \in Live(p)
            /\ (\A i \in DOMAIN rules : rules[i].mask \in {{}, Bits})
                  => (tree = None <=> line = None)
            /\ (\A i \in DOMAIN rules : rules[i].mask = Bits) => tree = line

\* What lookups may answer: the actions of the best live matching rules, which
\* are several only when rules tie.
Answers(p) == {rules[i].action : i \in Best(p)}
SameAnswers == \A p \in Packets : /\ Answers(p)' \subseteq Answers(p)
                                  /\ Answers(p)' = {} => Answers(p) = {}

Cleanup == \/ CompactRedundantRules
           \/ CompactAndRebuild
           \/ EliminateShadowedRules /\ \A i \in DOMAIN rules : rules[i].active
           \/ RestoreRules

\* Dropping redundant rules, dropping shadowed rules when none is inactive, and
\* restoring a backup of the present rules lose no answer and make no new one:
\* each only drops rules that an earlier rule answers for.
CleanupKeepsAnswers == [][Cleanup => SameAnswers]_vars
==============================================================================
