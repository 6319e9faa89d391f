-------------------------------- MODULE MCTcam --------------------------------
(* A field of two bits and ports of two bits; rules that fix, mask or ignore  *)
(* the field, with an exact port, a range, a range whose ends are swapped or  *)
(* any port; up to three of them, of which the bitmaps know the first two.    *)
EXTENDS Tcam

D(value, mask, min, max, priority, action) ==
    [value |-> value, mask |-> mask, min |-> min, max |-> max,
     priority |-> priority, action |-> action]

SwappedEnds == D({0, 1}, {0, 1}, 2, 1, 1, 1)

SomeDescriptions ==
    {D({1}, {}, 0, 3, 1, 0),           \* everything, with bits to normalise
     D({0}, {0, 1}, 0, 3, 2, 1),       \* one address, any port
     D({0}, {0}, 1, 2, 2, 0),          \* half the addresses, two ports: a tie
     D({0}, {0, 1}, 2, 2, 2, 0),       \* one address, one port
     D({1}, {0, 1}, 0, 3, 1, 1),       \* another address
     SwappedEnds}                      \* a third one, swapped ends: shadowed

Add(d)     == [type |-> "ADD", fields |-> d]
Delete(id) == [type |-> "DELETE", id |-> id]

SomeBatches ==
    {<<>>, <<Delete(0), Delete(0)>>, <<Delete(1), Add(SwappedEnds)>>}
    \cup {<<Add(d), Add(d), Delete(2)>> : d \in SomeDescriptions}

NegativeOne == -1
==============================================================================
