------------------------------ MODULE SpscRing -------------------------------
(***************************************************************************)
(* concurrent::ring_buffer of src/include/spsc.h: one producer thread, one *)
(* consumer thread, two atomic indices and a ready flag per slot.          *)
(*                                                                         *)
(* Each thread knows its own index exactly.  A load of the other's index   *)
(* returns, under the acquire/release order the class defaults to, that    *)
(* index or an older value of it, but none older than the thread has seen  *)
(* before: seenHead and seenTail are those views.                          *)
(*                                                                         *)
(* Capacity is a power of two in the code, whose & mask_ is then the       *)
(* wrap-around written here as Wrap; nothing else depends on the power.    *)
(***************************************************************************)
EXTENDS Integers, Sequences

CONSTANTS Capacity, Values, NoValue

ASSUME CapacityAssumption == Capacity \in Nat \ {0}
ASSUME NoValueAssumption  == NoValue \notin Values

VARIABLES
    head, tail,   \* head_, tail_
    data,         \* what is constructed in each slot, or NoValue
    slotReady,    \* slot::ready
    pp,           \* where the producer is
    item,         \* the value it is pushing
    blocking,     \* whether it is in push(), which retries for ever
    seenHead,     \* the last value it loaded from head_
    cp,           \* where the consumer is
    result,       \* the value it has moved out of the slot
    waiting,      \* whether it is in pop(), which retries for ever
    seenTail,     \* the last value it loaded from tail_
    popped        \* the value the last completed pop returned

prodVars == <<tail, pp, item, blocking, seenHead>>
consVars == <<head, cp, result, waiting, seenTail, popped>>
ringVars == <<prodVars, consVars, data, slotReady>>

Slots == 0 .. Capacity - 1
Wrap(i) == IF i < Capacity THEN i ELSE i - Capacity
Succ(i) == Wrap(i + 1)

\* How many steps forward lead from index i to index j, and the indices on
\* the way, both ends included.
Dist(i, j) == IF i <= j THEN j - i ELSE j - i + Capacity
Between(i, j) == {k \in Slots : Dist(i, k) <= Dist(i, j)}

Full    == Succ(tail) = head
IsEmpty == head = tail

RingInit == /\ head = 0 /\ tail = 0 /\ seenHead = 0 /\ seenTail = 0
        /\ data = [i \in Slots |-> NoValue]
        /\ slotReady = [i \in Slots |-> FALSE]
        /\ pp = "idle" /\ item = NoValue /\ blocking = FALSE
        /\ cp = "idle" /\ result = NoValue /\ waiting = FALSE
        /\ popped = NoValue
-----------------------------------------------------------------------------
(***************************************************************************)
(* The producer: try_push, try_emplace, push_for (which gives up at its    *)
(* deadline) and push.                                                     *)
(***************************************************************************)

StartPush(v, b) ==
    /\ pp = "idle"
    /\ pp' = "check" /\ item' = v /\ blocking' = b
    /\ UNCHANGED <<tail, seenHead, consVars, data, slotReady>>

\* A mutant: the full check keeps to the head index it saw first.
FindRoomCached(h) ==
    /\ pp = "check" /\ h = seenHead /\ Succ(tail) # h
    /\ pp' = "construct" /\ seenHead' = h
    /\ UNCHANGED <<tail, item, blocking, consVars, data, slotReady>>

\* A mutant: the full check compares the tail itself, so no slot stays free.
FindRoomOffByOne(h) ==
    /\ pp = "check" /\ h \in Between(seenHead, head)
    /\ pp' = "construct" /\ seenHead' = h
    /\ UNCHANGED <<tail, item, blocking, consVars, data, slotReady>>

\* The full check of try_push finds a free slot.
FindRoom(h) ==
    /\ pp = "check" /\ h \in Between(seenHead, head) /\ Succ(tail) # h
    /\ pp' = "construct" /\ seenHead' = h
    /\ UNCHANGED <<tail, item, blocking, consVars, data, slotReady>>

\* It finds none: push tries again, the others may return false.
FindFull(h) ==
    /\ pp = "check" /\ h \in Between(seenHead, head) /\ Succ(tail) = h
    /\ pp' \in IF blocking THEN {"check"} ELSE {"check", "idle"}
    /\ seenHead' = h
    /\ UNCHANGED <<tail, item, blocking, consVars, data, slotReady>>

Construct ==
    /\ pp = "construct"
    /\ data' = [data EXCEPT ![tail] = item]
    /\ pp' = "flag"
    /\ UNCHANGED <<tail, item, blocking, seenHead, consVars, slotReady>>

\* The constructor throws: try_push returns false, and push tries again.
ConstructThrows ==
    /\ pp = "construct"
    /\ pp' \in IF blocking THEN {"check"} ELSE {"check", "idle"}
    /\ UNCHANGED <<tail, item, blocking, seenHead, consVars, data, slotReady>>

\* A mutant: the slot is published without its ready flag.
SetReadyForgotten ==
    /\ pp = "flag"
    /\ pp' = "publish"
    /\ UNCHANGED <<tail, item, blocking, seenHead, consVars, data, slotReady>>

SetReady ==
    /\ pp = "flag"
    /\ slotReady' = [slotReady EXCEPT ![tail] = TRUE]
    /\ pp' = "publish"
    /\ UNCHANGED <<tail, item, blocking, seenHead, consVars, data>>

Publish ==
    /\ pp = "publish"
    /\ tail' = Succ(tail)
    /\ pp' = "idle"
    /\ UNCHANGED <<item, blocking, seenHead, consVars, data, slotReady>>

\* full, size and empty, called by the producer between two pushes.
ObserveHead(h) ==
    /\ pp = "idle" /\ h \in Between(seenHead, head)
    /\ seenHead' = h
    /\ UNCHANGED <<tail, pp, item, blocking, consVars, data, slotReady>>
-----------------------------------------------------------------------------
(***************************************************************************)
(* The consumer: try_pop, try_pop_into, pop_for and pop.                   *)
(***************************************************************************)

StartPop(b) ==
    /\ cp = "idle"
    /\ cp' = "check" /\ waiting' = b
    /\ UNCHANGED <<prodVars, head, result, seenTail, popped, data, slotReady>>

FindItem(t) ==
    /\ cp = "check" /\ t \in Between(seenTail, tail) /\ head # t
    /\ cp' = "spin" /\ seenTail' = t
    /\ UNCHANGED <<prodVars, head, result, waiting, popped, data, slotReady>>

FindEmpty(t) ==
    /\ cp = "check" /\ t \in Between(seenTail, tail) /\ head = t
    /\ cp' \in IF waiting THEN {"check"} ELSE {"check", "idle"}
    /\ seenTail' = t
    /\ UNCHANGED <<prodVars, head, result, waiting, popped, data, slotReady>>

\* The spin on slot.ready ends.
SeeReady ==
    /\ cp = "spin" /\ slotReady[head]
    /\ cp' = "take"
    /\ UNCHANGED <<prodVars, head, result, waiting, seenTail, popped, data, slotReady>>

\* The value is moved or copied out and the object in the slot destroyed.
TakeItem ==
    /\ cp = "take"
    /\ result' = data[head]
    /\ data' = [data EXCEPT ![head] = NoValue]
    /\ cp' = "unflag"
    /\ UNCHANGED <<prodVars, head, waiting, seenTail, popped, slotReady>>

\* Copying a T without a noexcept move throws out of the pop.
TakeThrows ==
    /\ cp = "take"
    /\ cp' = "idle"
    /\ UNCHANGED <<prodVars, head, result, waiting, seenTail, popped, data, slotReady>>

ClearReady ==
    /\ cp = "unflag"
    /\ slotReady' = [slotReady EXCEPT ![head] = FALSE]
    /\ cp' = "advance"
    /\ UNCHANGED <<prodVars, head, result, waiting, seenTail, popped, data>>

Advance ==
    /\ cp = "advance"
    /\ head' = Succ(head)
    /\ popped' = result
    /\ cp' = "idle"
    /\ UNCHANGED <<prodVars, result, waiting, seenTail, data, slotReady>>

\* empty, size and peek, called by the consumer between two pops.
ObserveTail(t) ==
    /\ cp = "idle" /\ t \in Between(seenTail, tail)
    /\ seenTail' = t
    /\ UNCHANGED <<prodVars, head, cp, result, waiting, popped, data, slotReady>>

\* clear(): pops until empty, "use only when no concurrent access".  Whoever
\* calls it has synchronised with both threads.
RingClear ==
    /\ pp = "idle" /\ cp = "idle"
    /\ head' = tail /\ seenHead' = tail /\ seenTail' = tail
    /\ data' = [i \in Slots |-> NoValue]
    /\ slotReady' = [i \in Slots |-> FALSE]
    /\ UNCHANGED <<tail, pp, item, blocking, cp, result, waiting, popped>>
-----------------------------------------------------------------------------
Producer ==
    \/ \E v \in Values, b \in BOOLEAN : StartPush(v, b)
    \/ \E h \in Slots : FindRoom(h) \/ FindFull(h) \/ ObserveHead(h)
    \/ Construct \/ ConstructThrows \/ SetReady \/ Publish

Consumer ==
    \/ \E b \in BOOLEAN : StartPop(b)
    \/ \E t \in Slots : FindItem(t) \/ FindEmpty(t) \/ ObserveTail(t)
    \/ SeeReady \/ TakeItem \/ TakeThrows \/ ClearReady \/ Advance

RingNext == Producer \/ Consumer \/ RingClear

RingSpec == RingInit /\ [][RingNext]_ringVars

(***************************************************************************)
(* A thread inside an operation goes on, the newest index becomes visible  *)
(* to it in the end, and neither a constructor nor a copy throws for ever. *)
(* No caller is obliged to push or to pop again.                           *)
(***************************************************************************)
Fairness ==
    /\ WF_ringVars(FindRoom(head)) /\ SF_ringVars(Construct)
    /\ WF_ringVars(SetReady) /\ WF_ringVars(Publish)
    /\ WF_ringVars(FindItem(tail)) /\ WF_ringVars(SeeReady)
    /\ WF_ringVars(TakeItem \/ TakeThrows)
    /\ WF_ringVars(ClearReady) /\ WF_ringVars(Advance)

FairSpec == RingSpec /\ Fairness
-----------------------------------------------------------------------------
RingTypeOK ==
    /\ head \in Slots /\ tail \in Slots /\ seenHead \in Slots /\ seenTail \in Slots
    /\ data \in [Slots -> Values \cup {NoValue}]
    /\ slotReady \in [Slots -> BOOLEAN]
    /\ pp \in {"idle", "check", "construct", "flag", "publish"}
    /\ cp \in {"idle", "check", "spin", "take", "unflag", "advance"}
    /\ item \in Values \cup {NoValue} /\ (pp # "idle" => item \in Values)
    /\ result \in Values \cup {NoValue}
    /\ popped \in Values \cup {NoValue}
    /\ blocking \in BOOLEAN /\ waiting \in BOOLEAN

\* However stale the views are, they never cross: going forward from what the
\* producer thinks the head is, one meets the head, what the consumer thinks
\* the tail is, and the tail, in less than one turn of the ring.
ViewsOrdered ==
    Dist(seenHead, head) + Dist(head, seenTail) + Dist(seenTail, tail) < Capacity

\* A thread past its check has seen the room, or the item, that it uses, and
\* what the consumer has moved out is a value.
ChecksHold ==
    /\ pp \in {"construct", "flag", "publish"} => Succ(tail) # seenHead
    /\ cp \in {"spin", "take", "unflag", "advance"} => head # seenTail
    /\ cp \in {"unflag", "advance"} => result \in Values

\* Which slots hold an object: those from head to tail, and the one being
\* pushed, without the one being popped.
Filled(i) ==
    \/ Dist(head, i) < Dist(head, tail) /\ ~(i = head /\ cp \in {"unflag", "advance"})
    \/ i = tail /\ pp \in {"flag", "publish"}

\* Which slots are flagged ready.
Flagged(i) ==
    \/ Dist(head, i) < Dist(head, tail) /\ ~(i = head /\ cp = "advance")
    \/ i = tail /\ pp = "publish"

\* No object is lost, overwritten, destroyed twice or flagged without being
\* there: the flags the destructor of the slots goes by are exact whenever
\* neither thread is inside an operation.
SlotsExact == \A i \in Slots :
    /\ data[i] \in Values <=> Filled(i)
    /\ slotReady[i] <=> Flagged(i)

\* The value being pushed is the one in the slot.
ItemWritten == pp \in {"flag", "publish"} => data[tail] = item

RingIInv == RingTypeOK /\ ViewsOrdered /\ ChecksHold /\ SlotsExact /\ ItemWritten

\* The producer never constructs in, or flags, a slot the consumer is reading
\* from, destroying or unflagging: slot contents need no atomics.
NoSlotRace ==
    ~ /\ pp \in {"construct", "flag", "publish"}
      /\ cp \in {"spin", "take", "unflag", "advance"}
      /\ tail = head

\* The contents, oldest first; the value just moved out still counts until
\* the head passes its slot.
Contents == [n \in 1 .. Dist(head, tail) |->
                IF n = 1 /\ cp \in {"unflag", "advance"}
                THEN result ELSE data[Wrap(head + n - 1)]]

Fifo == INSTANCE BoundedFifo
            WITH q <- Contents, out <- popped, Bound <- Capacity - 1

\* The ring is a first-in first-out buffer of Capacity - 1 places: values come
\* out once, in the order they went in, whatever the two threads interleave
\* and however stale the indices are that they see.
ImplementsFifo == Fifo!Spec

\* A push under way finishes once there is room, and with it the busy waiting
\* of push(); one slot stays free, so with room means fewer than Capacity - 1.
\* A pop under way finishes once there is an item: the spin on slot.ready
\* always ends.
OperationsComplete ==
    /\ (pp # "idle" /\ ~Full) ~> (pp = "idle")
    /\ (cp # "idle" /\ ~IsEmpty) ~> (cp = "idle")
==============================================================================
