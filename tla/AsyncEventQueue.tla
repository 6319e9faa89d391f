--------------------------- MODULE AsyncEventQueue ----------------------------
(***************************************************************************)
(* AsyncEventQueue of src/include/AsyncEventQueue.h, bounded: a deque      *)
(* under one mutex, cv_can_put_ and cv_can_get_.                           *)
(*                                                                         *)
(* A critical section is one step.  What put and get do after they unlock  *)
(* is not: notify_one, and in put the read of callback_registered_ and the *)
(* call of callback_, are steps of their own, and other threads run in     *)
(* between.  A thread in "waiting" is in the wait set of the condition     *)
(* variable of its role; notify_one picks any of them, and a wait may also *)
(* wake for no reason.  A woken thread locks again and looks again.        *)
(*                                                                         *)
(* An unbounded queue (maxsize 0) is this one without PutWaits.            *)
(***************************************************************************)
EXTENDS Integers, Sequences, FiniteSets

CONSTANTS Producers, Consumers, Values, NoValue,
          MaxSize      \* maxsize_

ASSUME MaxSizeAssumption == MaxSize \in Nat \ {0}
ASSUME ThreadsAssumption == /\ IsFiniteSet(Producers) /\ IsFiniteSet(Consumers)
                            /\ Producers \cap Consumers = {}
ASSUME NoValueAssumption == NoValue \notin Values

VARIABLES
    queue,        \* queue_
    out,          \* the value taken last
    pc,           \* where each thread is
    item,         \* what each producer is putting
    wasEmpty,     \* was_empty_on_arrival of each producer
    registered,   \* callback_registered_, and that callback_ is not empty
    threw         \* history: an item's copy or move has thrown

vars == <<queue, out, pc, item, wasEmpty, registered, threw>>

Threads == Producers \cup Consumers

Init == /\ queue = <<>> /\ out = NoValue
        /\ pc = [t \in Threads |-> "idle"]
        /\ item = [p \in Producers |-> NoValue]
        /\ wasEmpty = [p \in Producers |-> FALSE]
        /\ registered = FALSE /\ threw = FALSE

GoTo(t, place) == pc' = [pc EXCEPT ![t] = place]

Waiting(role) == {t \in role : pc[t] = "waiting"}
Awake(role)   == {t \in role : pc[t] = "locking"}
Telling(role) == {t \in role : pc[t] = "notify"}

\* notify_one by thread t, which goes on to place: some waiter locks again.
NotifyOne(t, role, place) ==
    \/ /\ Waiting(role) = {} /\ GoTo(t, place)
    \/ \E w \in Waiting(role) : pc' = [pc EXCEPT ![t] = place, ![w] = "locking"]
-----------------------------------------------------------------------------
\* put, both overloads.
StartPut(p, v) ==
    /\ pc[p] = "idle"
    /\ GoTo(p, "locking") /\ item' = [item EXCEPT ![p] = v]
    /\ UNCHANGED <<queue, out, wasEmpty, registered, threw>>

PutWaits(p) ==
    /\ pc[p] = "locking" /\ Len(queue) >= MaxSize
    /\ GoTo(p, "waiting")
    /\ UNCHANGED <<queue, out, item, wasEmpty, registered, threw>>

\* A mutant: a woken put does not look whether there is room.
PutItemUnchecked(p) ==
    /\ pc[p] = "locking"
    /\ queue' = Append(queue, item[p])
    /\ wasEmpty' = [wasEmpty EXCEPT ![p] = queue = <<>>]
    /\ GoTo(p, "notify")
    /\ UNCHANGED <<out, item, registered, threw>>

PutItem(p) ==
    /\ pc[p] = "locking" /\ Len(queue) < MaxSize
    /\ queue' = Append(queue, item[p])
    /\ wasEmpty' = [wasEmpty EXCEPT ![p] = queue = <<>>]
    /\ GoTo(p, "notify")
    /\ UNCHANGED <<out, item, registered, threw>>

\* A mutant: put notifies only when it found the queue empty.
NotifyGetterIfEmpty(p) ==
    /\ pc[p] = "notify"
    /\ IF wasEmpty[p] THEN NotifyOne(p, Consumers, "check") ELSE GoTo(p, "check")
    /\ UNCHANGED <<queue, out, item, wasEmpty, registered, threw>>

NotifyGetter(p) ==
    /\ pc[p] = "notify"
    /\ NotifyOne(p, Consumers, "check")
    /\ UNCHANGED <<queue, out, item, wasEmpty, registered, threw>>

\* The test before the callback, made without the mutex.
CheckCallback(p) ==
    /\ pc[p] = "check"
    /\ GoTo(p, IF registered /\ wasEmpty[p] THEN "call" ELSE "idle")
    /\ UNCHANGED <<queue, out, item, wasEmpty, registered, threw>>

\* callback_(): it returns, or throws bad_function_call if it is empty by now,
\* or throws what it likes.  The put is over.
Call(p) ==
    /\ pc[p] = "call"
    /\ GoTo(p, "idle")
    /\ UNCHANGED <<queue, out, item, wasEmpty, registered, threw>>
-----------------------------------------------------------------------------
\* get, and try_get, which takes an item only if it finds one at once.
StartGet(c) ==
    /\ pc[c] = "idle"
    /\ GoTo(c, "locking")
    /\ UNCHANGED <<queue, out, item, wasEmpty, registered, threw>>

GetWaits(c) ==
    /\ pc[c] = "locking" /\ queue = <<>>
    /\ GoTo(c, "waiting")
    /\ UNCHANGED <<queue, out, item, wasEmpty, registered, threw>>

Take(c) ==
    /\ queue # <<>>
    /\ out' = Head(queue) /\ queue' = Tail(queue)
    /\ GoTo(c, "notify")
    /\ UNCHANGED <<item, wasEmpty, registered, threw>>

TakeItem(c) == pc[c] = "locking" /\ Take(c)

\* A mutant: try_get returns without a notification.
TryGetSilent(c) ==
    /\ pc[c] = "idle" /\ queue # <<>>
    /\ out' = Head(queue) /\ queue' = Tail(queue)
    /\ UNCHANGED <<pc, item, wasEmpty, registered, threw>>

TryGet(c) == pc[c] = "idle" /\ Take(c)

NotifyPutter(c) ==
    /\ pc[c] = "notify"
    /\ NotifyOne(c, Producers, "idle")
    /\ UNCHANGED <<queue, out, item, wasEmpty, registered, threw>>
-----------------------------------------------------------------------------
\* A wait that ends without a notification.
WakeSpuriously(t) ==
    /\ pc[t] = "waiting"
    /\ GoTo(t, "locking")
    /\ UNCHANGED <<queue, out, item, wasEmpty, registered, threw>>

\* The copy or move of the item throws, out of put or get: the mutex is let
\* go, nothing has changed, and nobody is notified.
Throw(t) ==
    /\ pc[t] = "locking"
    /\ IF t \in Producers THEN Len(queue) < MaxSize ELSE queue # <<>>
    /\ GoTo(t, "idle") /\ threw' = TRUE
    /\ UNCHANGED <<queue, out, item, wasEmpty, registered>>

\* register_callback: both members under the mutex, which put does not hold
\* when it reads them.
Register(b) ==
    /\ registered' = b
    /\ UNCHANGED <<queue, out, pc, item, wasEmpty, threw>>
-----------------------------------------------------------------------------
PutSteps(p) == PutWaits(p) \/ PutItem(p) \/ NotifyGetter(p) \/ CheckCallback(p) \/ Call(p)
GetSteps(c) == GetWaits(c) \/ TakeItem(c) \/ NotifyPutter(c)

Next == \/ \E p \in Producers : PutSteps(p) \/ \E v \in Values : StartPut(p, v)
        \/ \E c \in Consumers : GetSteps(c) \/ StartGet(c) \/ TryGet(c)
        \/ \E t \in Threads : WakeSpuriously(t) \/ Throw(t)
        \/ \E b \in BOOLEAN : Register(b)

\* A thread inside put or get runs on and gets the mutex it asks for.  Nobody
\* has to start a call, and no wait has to wake for no reason.
Fairness == /\ \A p \in Producers : WF_vars(PutSteps(p))
            /\ \A c \in Consumers : WF_vars(GetSteps(c))

Spec     == Init /\ [][Next]_vars
FairSpec == Spec /\ Fairness
-----------------------------------------------------------------------------
TypeOK ==
    /\ queue \in Seq(Values) /\ Len(queue) <= MaxSize
    /\ out \in Values \cup {NoValue}
    /\ pc \in [Threads -> {"idle", "locking", "waiting", "notify", "check", "call"}]
    /\ \A c \in Consumers : pc[c] \notin {"check", "call"}
    /\ item \in [Producers -> Values \cup {NoValue}]
    /\ \A p \in Producers : pc[p] # "idle" => item[p] \in Values
    /\ wasEmpty \in [Producers -> BOOLEAN]
    /\ registered \in BOOLEAN /\ threw \in BOOLEAN

\* No wake-up is lost: while a get waits, every item in the queue has a thread
\* that will act on it, a put still to notify or a get already awake; and
\* while a put waits, so has every free place.  A woken thread whose copy
\* throws is no longer one, and then this ends.
GettersTold ==
    ~threw /\ Waiting(Consumers) # {} =>
        Len(queue) <= Cardinality(Telling(Producers)) + Cardinality(Awake(Consumers))
PuttersTold ==
    ~threw /\ Waiting(Producers) # {} =>
        MaxSize - Len(queue) <= Cardinality(Telling(Consumers)) + Cardinality(Awake(Producers))

IInv == TypeOK /\ GettersTold /\ PuttersTold

Fifo == INSTANCE BoundedFifo WITH q <- queue, Bound <- MaxSize

\* Whatever the threads do, the queue is a bounded first-in first-out buffer:
\* each item is taken once, in order, and the bound holds.
ImplementsFifo == Fifo!Spec

\* A get does not sleep for ever beside items: the queue empties, or no get is
\* left waiting.  Likewise puts beside free places.  Both as long as no copy
\* throws.
SleepersServed ==
    /\ (~threw /\ Waiting(Consumers) # {} /\ queue # <<>>)
           ~> (threw \/ Waiting(Consumers) = {} \/ queue = <<>>)
    /\ (~threw /\ Waiting(Producers) # {} /\ Len(queue) < MaxSize)
           ~> (threw \/ Waiting(Producers) = {} \/ Len(queue) = MaxSize)
==============================================================================
