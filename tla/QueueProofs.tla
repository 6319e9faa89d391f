----------------------------- MODULE QueueProofs ------------------------------
(***************************************************************************)
(* Proofs about AsyncEventQueue for any number of producers, consumers and *)
(* places: no wake-up is lost (IInv), and the queue is a bounded first-in  *)
(* first-out buffer.  And about CallQueue for any keys, any drainers, any  *)
(* size limit and any number of tasks: the index map follows the deque, no *)
(* task is lost or run twice, and each drainer runs its tasks in order.    *)
(***************************************************************************)
EXTENDS AsyncEventQueue, CallQueue, SequenceTheorems, FiniteSetTheorems, TLAPS

(***************************************************************************)
(* The event queue.                                                        *)
(***************************************************************************)

\* Counts of the threads of a role in some place are numbers.
LEMMA Counts ==
    ASSUME NEW role \in {Producers, Consumers}, NEW S \in SUBSET role
    PROVE  IsFiniteSet(S) /\ Cardinality(S) \in Nat
BY ThreadsAssumption, FS_Subset, FS_CardinalityType

\* A thread that comes to a place is one more there.
LEMMA OneMore ==
    ASSUME NEW role \in {Producers, Consumers}, NEW S \in SUBSET role,
           NEW t \in role, t \notin S
    PROVE  Cardinality(S \cup {t}) = Cardinality(S) + 1
BY Counts, FS_AddElement

\* A thread that leaves a place is one fewer there.
LEMMA OneLess ==
    ASSUME NEW role \in {Producers, Consumers}, NEW S \in SUBSET role, NEW t \in S
    PROVE  Cardinality(S \ {t}) = Cardinality(S) - 1
BY Counts, FS_RemoveElement

\* notify_one moves the notifier on, and wakes a waiter if there is one.
LEMMA NotifyOneMoves ==
    ASSUME TypeOK, NEW t \in Threads, NEW role \in {Producers, Consumers}, t \notin role,
           NEW place \in {"idle", "check"}, pc[t] = "notify", NotifyOne(t, role, place)
    PROVE  /\ pc' \in [Threads -> {"idle", "locking", "waiting", "notify", "check", "call"}]
           /\ \/ Waiting(role) = {} /\ pc' = [pc EXCEPT ![t] = place]
              \/ \E w \in Waiting(role) : pc' = [pc EXCEPT ![t] = place, ![w] = "locking"]
           /\ pc'[t] = place
           /\ \A u \in Threads \ role : u # t => pc'[u] = pc[u]
           /\ \A u \in role : pc'[u] # pc[u] => pc[u] = "waiting" /\ pc'[u] = "locking"
BY DEF NotifyOne, GoTo, Waiting, TypeOK, Threads

\* Every step keeps the types, and the bound of the queue among them.
LEMMA TypeInv == ASSUME TypeOK, [Next]_vars PROVE TypeOK'
<1> USE MaxSizeAssumption, ThreadsAssumption, NoValueAssumption
<1>1. ASSUME NEW p \in Producers, PutItem(p) PROVE TypeOK'
  <2>1. item[p] \in Values /\ p \in Threads
    BY <1>1 DEF PutItem, TypeOK, Threads
  <2>2. queue' \in Seq(Values) /\ Len(queue') = Len(queue) + 1
    BY <1>1, <2>1, AppendProperties DEF PutItem, TypeOK
  <2> QED BY <1>1, <2>1, <2>2 DEF PutItem, TypeOK, GoTo, Threads
<1>2. ASSUME NEW c \in Consumers, Take(c) PROVE TypeOK'
  <2>1. /\ queue' \in Seq(Values) /\ Len(queue') = Len(queue) - 1
        /\ out' \in Values /\ c \in Threads
    BY <1>2, HeadTailProperties DEF Take, TypeOK, Threads
  <2> QED BY <1>2, <2>1 DEF Take, TypeOK, GoTo, Threads
<1>3. ASSUME NEW p \in Producers, NotifyGetter(p) PROVE TypeOK'
  BY <1>3, NotifyOneMoves DEF NotifyGetter, TypeOK, Threads
<1>4. ASSUME NEW c \in Consumers, NotifyPutter(c) PROVE TypeOK'
  <2>1. c \notin Producers /\ c \in Threads
    BY DEF Threads
  <2>2. pc[c] = "notify" /\ NotifyOne(c, Producers, "idle")
    BY <1>4 DEF NotifyPutter
  <2>3. \A p \in Producers : pc'[p] # "idle" => item[p] \in Values
    BY <2>1, <2>2, NotifyOneMoves DEF TypeOK
  <2> QED BY <1>4, <2>1, <2>2, <2>3, NotifyOneMoves DEF NotifyPutter, TypeOK, Threads
<1>5. ASSUME NEW p \in Producers,
             \/ PutWaits(p) \/ CheckCallback(p) \/ Call(p)
             \/ \E v \in Values : StartPut(p, v)
      PROVE  TypeOK'
  BY <1>5 DEF PutWaits, CheckCallback, Call, StartPut, GoTo, TypeOK, Threads
<1>6. ASSUME NEW c \in Consumers, GetWaits(c) \/ StartGet(c) PROVE TypeOK'
  BY <1>6 DEF GetWaits, StartGet, GoTo, TypeOK, Threads
<1>7. ASSUME NEW t \in Threads, WakeSpuriously(t) \/ Throw(t) PROVE TypeOK'
  BY <1>7 DEF WakeSpuriously, Throw, GoTo, TypeOK, Threads
<1>8. ASSUME NEW b \in BOOLEAN, Register(b) PROVE TypeOK'
  BY <1>8 DEF Register, TypeOK
<1>9. CASE UNCHANGED vars
  BY <1>9 DEF vars, TypeOK
<1> QED BY <1>1, <1>2, <1>3, <1>4, <1>5, <1>6, <1>7, <1>8, <1>9
        DEF Next, PutSteps, GetSteps, TakeItem, TryGet

One(condition) == IF condition THEN 1 ELSE 0

\* A thread that goes to another place leaves the one and is counted in the other.
LEMMA GoToCounts ==
    ASSUME TypeOK, NEW role \in {Producers, Consumers}, NEW t \in role, NEW place,
           GoTo(t, place)
    PROVE  /\ Cardinality(Awake(role)') =
                 Cardinality(Awake(role)) - One(pc[t] = "locking") + One(place = "locking")
           /\ Cardinality(Telling(role)') =
                 Cardinality(Telling(role)) - One(pc[t] = "notify") + One(place = "notify")
           /\ Waiting(role)' \subseteq
                 Waiting(role) \cup (IF place = "waiting" THEN {t} ELSE {})
<1>1. pc' = [pc EXCEPT ![t] = place] /\ role \subseteq Threads
  BY DEF GoTo, Threads
<1>2. /\ Awake(role)' = IF place = "locking" THEN Awake(role) \cup {t} ELSE Awake(role) \ {t}
      /\ Telling(role)' = IF place = "notify" THEN Telling(role) \cup {t} ELSE Telling(role) \ {t}
      /\ Waiting(role)' \subseteq Waiting(role) \cup (IF place = "waiting" THEN {t} ELSE {})
  BY <1>1 DEF Awake, Telling, Waiting, TypeOK
<1>3. /\ t \in Awake(role) <=> pc[t] = "locking"
      /\ t \in Telling(role) <=> pc[t] = "notify"
      /\ Awake(role) \in SUBSET role /\ Telling(role) \in SUBSET role
  BY DEF Awake, Telling
<1>4. Cardinality(Awake(role)) \in Nat /\ Cardinality(Telling(role)) \in Nat
  BY <1>3, Counts
<1>5. ASSUME NEW S \in SUBSET role, NEW b \in BOOLEAN, Cardinality(S) \in Nat
      PROVE  Cardinality(IF b THEN S \cup {t} ELSE S \ {t}) = Cardinality(S) - One(t \in S) + One(b)
  <2>1. CASE t \in S
    <3>1. S \cup {t} = S /\ Cardinality(S \ {t}) = Cardinality(S) - 1
      BY <2>1, OneLess
    <3> QED BY <2>1, <3>1, <1>5 DEF One
  <2>2. CASE t \notin S
    <3>1. S \ {t} = S /\ Cardinality(S \cup {t}) = Cardinality(S) + 1
      BY <2>2, OneMore
    <3> QED BY <2>2, <3>1, <1>5 DEF One
  <2> QED BY <2>1, <2>2
<1>6. Cardinality(Awake(role)') =
        Cardinality(Awake(role)) - One(t \in Awake(role)) + One(place = "locking")
  BY <1>2, <1>3, <1>4, <1>5
<1>7. Cardinality(Telling(role)') =
        Cardinality(Telling(role)) - One(t \in Telling(role)) + One(place = "notify")
  BY <1>2, <1>3, <1>4, <1>5
<1> QED BY <1>2, <1>3, <1>6, <1>7 DEF One

\* It changes nothing for the threads of the other role.
LEMMA GoToElsewhere ==
    ASSUME TypeOK, NEW role \in {Producers, Consumers}, NEW t \in Threads \ role, NEW place,
           GoTo(t, place)
    PROVE  UNCHANGED <<Awake(role), Telling(role), Waiting(role)>>
BY DEF GoTo, Awake, Telling, Waiting, TypeOK, Threads

\* notify_one: the notifier is done, and another thread is awake in its place,
\* unless nobody waits.
LEMMA NotifyCounts ==
    ASSUME TypeOK, NEW role \in {Producers, Consumers}, NEW other \in {Producers, Consumers},
           role \cap other = {}, NEW t \in other, NEW place \in {"idle", "check"},
           pc[t] = "notify", NotifyOne(t, role, place)
    PROVE  /\ Cardinality(Telling(other)') = Cardinality(Telling(other)) - 1
           /\ Awake(other)' = Awake(other) /\ Waiting(other)' = Waiting(other)
           /\ Telling(role)' = Telling(role)
           /\ \/ Waiting(role)' = {} /\ Awake(role)' = Awake(role)
              \/ /\ Cardinality(Awake(role)') = Cardinality(Awake(role)) + 1
                 /\ Waiting(role) # {}
<1>0. t \in Threads /\ t \notin role /\ role \subseteq Threads /\ other \subseteq Threads
  BY DEF Threads
<1>1. /\ \/ Waiting(role) = {} /\ pc' = [pc EXCEPT ![t] = place]
         \/ \E w \in Waiting(role) : pc' = [pc EXCEPT ![t] = place, ![w] = "locking"]
      /\ pc'[t] = place
      /\ \A u \in Threads \ role : u # t => pc'[u] = pc[u]
      /\ \A u \in role : pc'[u] # pc[u] => pc[u] = "waiting" /\ pc'[u] = "locking"
  BY <1>0, NotifyOneMoves
<1>2. /\ Telling(other)' = Telling(other) \ {t} /\ t \in Telling(other)
      /\ Awake(other)' = Awake(other) /\ Waiting(other)' = Waiting(other)
  BY <1>0, <1>1 DEF Telling, Awake, Waiting
<1>3. Cardinality(Telling(other)') = Cardinality(Telling(other)) - 1
  <2>1. Telling(other) \in SUBSET other
    BY DEF Telling
  <2> QED BY <1>2, <2>1, OneLess
<1>4. Telling(role)' = Telling(role)
  BY <1>0, <1>1 DEF Telling
<1>5. CASE Waiting(role) = {} /\ pc' = [pc EXCEPT ![t] = place]
  BY <1>0, <1>2, <1>3, <1>4, <1>5 DEF Waiting, Awake, TypeOK
<1>6. CASE \E w \in Waiting(role) : pc' = [pc EXCEPT ![t] = place, ![w] = "locking"]
  <2>1. PICK w \in Waiting(role) : pc' = [pc EXCEPT ![t] = place, ![w] = "locking"]
    BY <1>6
  <2>2. /\ w \in role /\ w \notin Awake(role) /\ Awake(role) \in SUBSET role
        /\ Awake(role)' = Awake(role) \cup {w}
    BY <1>0, <2>1 DEF Waiting, Awake, TypeOK
  <2>3. Cardinality(Awake(role)') = Cardinality(Awake(role)) + 1
    BY <2>2, OneMore
  <2> QED BY <1>2, <1>3, <1>4, <2>1, <2>3
<1> QED BY <1>1, <1>5, <1>6

\* The counts are numbers before and after a step.
LEMMA CountsOfThreads ==
    ASSUME TypeOK, TypeOK'
    PROVE  /\ Len(queue) \in Nat /\ Len(queue') \in Nat
           /\ \A role \in {Producers, Consumers} :
                 /\ Cardinality(Telling(role)) \in Nat /\ Cardinality(Telling(role)') \in Nat
                 /\ Cardinality(Awake(role)) \in Nat /\ Cardinality(Awake(role)') \in Nat
<1>1. Len(queue) \in Nat /\ Len(queue') \in Nat
  BY LenProperties DEF TypeOK
<1>2. ASSUME NEW role \in {Producers, Consumers}
      PROVE  /\ Cardinality(Telling(role)) \in Nat /\ Cardinality(Telling(role)') \in Nat
             /\ Cardinality(Awake(role)) \in Nat /\ Cardinality(Awake(role)') \in Nat
  <2>1. /\ Telling(role) \in SUBSET role /\ Telling(role)' \in SUBSET role
        /\ Awake(role) \in SUBSET role /\ Awake(role)' \in SUBSET role
    BY DEF Telling, Awake
  <2> QED BY <2>1, Counts
<1> QED BY <1>1, <1>2

\* No step of a put loses a wake-up: an item put is one more item, and its put
\* one more thread that will notify.
LEMMA PutKeepsTold ==
    ASSUME IInv, TypeOK', NEW p \in Producers, ~threw',
           PutSteps(p) \/ \E v \in Values : StartPut(p, v)
    PROVE  GettersTold' /\ PuttersTold'
<1> USE DEF GettersTold, PuttersTold, One
<1>1. /\ TypeOK /\ ~threw /\ p \in Threads \ Consumers /\ p \in Threads
      /\ threw' = threw
  BY ThreadsAssumption DEF IInv, Threads, PutSteps, PutWaits, PutItem, NotifyGetter,
     CheckCallback, Call, StartPut
<1>2. /\ Len(queue) \in Nat /\ Len(queue') \in Nat /\ Len(queue) <= MaxSize /\ MaxSize \in Nat
      /\ Cardinality(Telling(Producers)) \in Nat /\ Cardinality(Telling(Consumers)) \in Nat
      /\ Cardinality(Awake(Producers)) \in Nat /\ Cardinality(Awake(Consumers)) \in Nat
  BY <1>1, CountsOfThreads, MaxSizeAssumption DEF TypeOK
<1>3. CASE \E v \in Values : StartPut(p, v)
  <2>1. GoTo(p, "locking") /\ pc[p] = "idle" /\ queue' = queue
    BY <1>3 DEF StartPut
  <2> QED BY <1>1, <1>2, <2>1, GoToCounts, GoToElsewhere DEF IInv
<1>4. CASE PutWaits(p)
  <2>1. GoTo(p, "waiting") /\ pc[p] = "locking" /\ queue' = queue /\ Len(queue) >= MaxSize
    BY <1>4 DEF PutWaits
  <2>2. UNCHANGED <<Awake(Consumers), Telling(Consumers), Waiting(Consumers)>>
    BY <1>1, <2>1, GoToElsewhere
  <2>3. Cardinality(Telling(Producers)') = Cardinality(Telling(Producers))
    BY <1>1, <1>2, <2>1, GoToCounts
  <2>4. Cardinality(Awake(Producers)') \in Nat
    BY <1>1, CountsOfThreads
  <2> QED BY <1>1, <1>2, <2>1, <2>2, <2>3, <2>4 DEF IInv
<1>5. CASE PutItem(p)
  <2>1. GoTo(p, "notify") /\ pc[p] = "locking" /\ Len(queue') = Len(queue) + 1
    BY <1>1, <1>5, AppendProperties DEF PutItem, TypeOK
  <2> QED BY <1>1, <1>2, <2>1, GoToCounts, GoToElsewhere DEF IInv
<1>6. CASE NotifyGetter(p)
  <2>1. pc[p] = "notify" /\ NotifyOne(p, Consumers, "check") /\ queue' = queue
    BY <1>6 DEF NotifyGetter
  <2> QED BY <1>1, <1>2, <2>1, NotifyCounts, ThreadsAssumption DEF IInv
<1>7. CASE CheckCallback(p) \/ Call(p)
  <2>1. PICK place \in {"call", "idle"} : GoTo(p, place)
    BY <1>7 DEF CheckCallback, Call
  <2>2. pc[p] \in {"check", "call"} /\ queue' = queue
    BY <1>7 DEF CheckCallback, Call
  <2> QED BY <1>1, <1>2, <2>1, <2>2, GoToCounts, GoToElsewhere DEF IInv
<1> QED BY <1>3, <1>4, <1>5, <1>6, <1>7 DEF PutSteps

\* Nor does a step of a get or a try_get: a place that comes free has a get
\* that will notify.
LEMMA GetKeepsTold ==
    ASSUME IInv, TypeOK', NEW c \in Consumers, ~threw',
           GetSteps(c) \/ StartGet(c) \/ TryGet(c)
    PROVE  GettersTold' /\ PuttersTold'
<1> USE DEF GettersTold, PuttersTold, One
<1>1. /\ TypeOK /\ ~threw /\ c \in Threads \ Producers /\ c \in Threads
      /\ threw' = threw
  BY ThreadsAssumption DEF IInv, Threads, GetSteps, GetWaits, TakeItem, NotifyPutter,
     StartGet, TryGet, Take
<1>2. /\ Len(queue) \in Nat /\ Len(queue') \in Nat /\ Len(queue) <= MaxSize /\ MaxSize \in Nat
      /\ Cardinality(Telling(Producers)) \in Nat /\ Cardinality(Telling(Consumers)) \in Nat
      /\ Cardinality(Awake(Producers)) \in Nat /\ Cardinality(Awake(Consumers)) \in Nat
  BY <1>1, CountsOfThreads, MaxSizeAssumption DEF TypeOK
<1>3. CASE StartGet(c)
  <2>1. GoTo(c, "locking") /\ pc[c] = "idle" /\ queue' = queue
    BY <1>3 DEF StartGet
  <2>2. UNCHANGED <<Awake(Producers), Telling(Producers), Waiting(Producers)>>
    BY <1>1, <2>1, GoToElsewhere
  <2>3. /\ Cardinality(Telling(Consumers)') = Cardinality(Telling(Consumers))
        /\ Cardinality(Awake(Consumers)') = Cardinality(Awake(Consumers)) + 1
        /\ Waiting(Consumers)' \subseteq Waiting(Consumers)
    BY <1>1, <1>2, <2>1, GoToCounts
  <2> QED BY <1>1, <1>2, <2>1, <2>2, <2>3 DEF IInv
<1>4. CASE GetWaits(c)
  <2>1. GoTo(c, "waiting") /\ pc[c] = "locking" /\ queue' = queue /\ Len(queue) = 0
    BY <1>4, EmptySeq DEF GetWaits
  <2>2. UNCHANGED <<Awake(Producers), Telling(Producers), Waiting(Producers)>>
    BY <1>1, <2>1, GoToElsewhere
  <2>3. Cardinality(Telling(Consumers)') = Cardinality(Telling(Consumers))
    BY <1>1, <1>2, <2>1, GoToCounts
  <2>4. Cardinality(Awake(Consumers)') \in Nat
    BY <1>1, CountsOfThreads
  <2>5. GettersTold'
    BY <1>2, <2>1, <2>2, <2>4
  <2>6. PuttersTold'
    BY <1>1, <2>1, <2>2, <2>3 DEF IInv
  <2> QED BY <2>5, <2>6
<1>5. CASE TakeItem(c) \/ TryGet(c)
  <2>1. GoTo(c, "notify") /\ pc[c] \in {"locking", "idle"} /\ Len(queue') = Len(queue) - 1
    BY <1>1, <1>5, HeadTailProperties DEF TakeItem, TryGet, Take, TypeOK
  <2>2. UNCHANGED <<Awake(Producers), Telling(Producers), Waiting(Producers)>>
    BY <1>1, <2>1, GoToElsewhere
  <2>3. /\ Cardinality(Telling(Consumers)') = Cardinality(Telling(Consumers)) + 1
        /\ Cardinality(Awake(Consumers)') >= Cardinality(Awake(Consumers)) - 1
        /\ Waiting(Consumers)' \subseteq Waiting(Consumers)
    BY <1>1, <1>2, <2>1, GoToCounts
  <2>4. Cardinality(Awake(Consumers)') \in Nat
    BY <1>1, CountsOfThreads
  <2>5. GettersTold'
    BY <1>1, <1>2, <2>1, <2>2, <2>3, <2>4 DEF IInv
  <2>6. PuttersTold'
    BY <1>1, <1>2, <2>1, <2>2, <2>3 DEF IInv
  <2> QED BY <2>5, <2>6
<1>6. CASE NotifyPutter(c)
  <2>1. pc[c] = "notify" /\ NotifyOne(c, Producers, "idle") /\ queue' = queue
    BY <1>6 DEF NotifyPutter
  <2> QED BY <1>1, <1>2, <2>1, NotifyCounts, ThreadsAssumption DEF IInv
<1> QED BY <1>3, <1>4, <1>5, <1>6 DEF GetSteps

\* A spurious wake-up makes one more awake thread; a throw ends the promise.
LEMMA WakeKeepsTold ==
    ASSUME IInv, TypeOK', NEW t \in Threads, ~threw', WakeSpuriously(t) \/ Throw(t)
    PROVE  GettersTold' /\ PuttersTold'
<1> USE DEF GettersTold, PuttersTold, One
<1>1. TypeOK /\ GoTo(t, "locking") /\ pc[t] = "waiting" /\ UNCHANGED <<queue, threw>>
  BY DEF WakeSpuriously, Throw, IInv
<1>2. /\ Len(queue) \in Nat /\ MaxSize \in Nat
      /\ Cardinality(Telling(Producers)) \in Nat /\ Cardinality(Telling(Consumers)) \in Nat
      /\ Cardinality(Awake(Producers)) \in Nat /\ Cardinality(Awake(Consumers)) \in Nat
  BY <1>1, CountsOfThreads, MaxSizeAssumption
<1>3. ASSUME NEW role \in {Producers, Consumers}, t \in role,
             NEW other \in {Producers, Consumers}, t \notin other
      PROVE  /\ Cardinality(Telling(role)') = Cardinality(Telling(role))
             /\ Cardinality(Awake(role)') = Cardinality(Awake(role)) + 1
             /\ Waiting(role)' \subseteq Waiting(role)
             /\ UNCHANGED <<Awake(other), Telling(other), Waiting(other)>>
  <2>1. /\ Cardinality(Telling(role)') = Cardinality(Telling(role))
        /\ Cardinality(Awake(role)') = Cardinality(Awake(role)) + 1
        /\ Waiting(role)' \subseteq Waiting(role)
    BY <1>1, <1>2, <1>3, GoToCounts
  <2>2. UNCHANGED <<Awake(other), Telling(other), Waiting(other)>>
    BY <1>1, <1>3, GoToElsewhere
  <2> QED BY <2>1, <2>2
<1>4. CASE t \in Producers
  <2>1. t \notin Consumers
    BY <1>4, ThreadsAssumption
  <2> QED BY <1>1, <1>2, <1>3, <1>4, <2>1 DEF IInv
<1>5. CASE t \in Consumers
  <2>1. t \notin Producers
    BY <1>5, ThreadsAssumption
  <2> QED BY <1>1, <1>2, <1>3, <1>5, <2>1 DEF IInv
<1> QED BY <1>4, <1>5 DEF Threads

\* Every step keeps the invariant.
LEMMA StepInv == ASSUME IInv, [Next]_vars PROVE IInv'
<1>1. TypeOK'
  BY TypeInv DEF IInv
<1>2. CASE threw'
  BY <1>1, <1>2 DEF IInv, GettersTold, PuttersTold
<1>3. CASE ~threw'
  <2>1. CASE \E b \in BOOLEAN : Register(b)
    BY <1>1, <2>1 DEF IInv, GettersTold, PuttersTold, Register, Waiting, Awake, Telling
  <2>2. CASE UNCHANGED vars
    BY <1>1, <2>2 DEF IInv, GettersTold, PuttersTold, vars, Waiting, Awake, Telling
  <2> QED BY <1>1, <1>3, <2>1, <2>2, PutKeepsTold, GetKeepsTold, WakeKeepsTold DEF Next, IInv
<1> QED BY <1>2, <1>3

\* The queue begins empty and nobody waits.
LEMMA InitInv == Init => IInv
<1> SUFFICES ASSUME Init PROVE IInv
  OBVIOUS
<1>1. TypeOK
  <2>1. queue \in Seq(Values) /\ Len(queue) <= MaxSize
    BY EmptySeq, MaxSizeAssumption DEF Init
  <2>2. /\ pc \in [Threads -> {"idle", "locking", "waiting", "notify", "check", "call"}]
        /\ \A t \in Threads : pc[t] = "idle"
        /\ item \in [Producers -> Values \cup {NoValue}]
    BY DEF Init
  <2>3. /\ out \in Values \cup {NoValue} /\ wasEmpty \in [Producers -> BOOLEAN]
        /\ registered \in BOOLEAN /\ threw \in BOOLEAN
    BY DEF Init
  <2> QED BY <2>1, <2>2, <2>3 DEF TypeOK, Threads
<1>2. Waiting(Consumers) = {} /\ Waiting(Producers) = {}
  BY DEF Init, Waiting, Threads
<1> QED BY <1>1, <1>2 DEF IInv, GettersTold, PuttersTold

\* No wake-up is lost, for any number of producers, consumers and places: while
\* a get waits, every item has a thread that will act on it, and while a put
\* waits, every free place has.
THEOREM InductiveInvariant == Spec => []IInv
BY InitInv, StepInv, PTL DEF Spec
-----------------------------------------------------------------------------
\* A step of the queue is one of the buffer, or leaves the buffer alone.
LEMMA StepRefines ==
    ASSUME IInv, [Next]_vars PROVE [Fifo!Next]_<<queue, out>>
<1> USE DEF Fifo!Next, Fifo!Put, Fifo!Get
<1>1. ASSUME NEW p \in Producers, PutItem(p) PROVE Fifo!Next
  BY <1>1 DEF PutItem, IInv, TypeOK
<1>2. ASSUME NEW c \in Consumers, Take(c) PROVE Fifo!Next
  BY <1>2 DEF Take
<1>3. CASE UNCHANGED <<queue, out>>
  BY <1>3
<1>4. ASSUME NEW p \in Producers, PutSteps(p) \/ \E v \in Values : StartPut(p, v)
      PROVE  PutItem(p) \/ UNCHANGED <<queue, out>>
  BY <1>4 DEF PutSteps, PutWaits, NotifyGetter, CheckCallback, Call, StartPut
<1>5. ASSUME NEW c \in Consumers, GetSteps(c) \/ StartGet(c) \/ TryGet(c)
      PROVE  Take(c) \/ UNCHANGED <<queue, out>>
  BY <1>5 DEF GetSteps, GetWaits, TakeItem, NotifyPutter, StartGet, TryGet
<1>6. CASE \/ \E t \in Threads : WakeSpuriously(t) \/ Throw(t)
           \/ \E b \in BOOLEAN : Register(b)
           \/ UNCHANGED vars
  BY <1>6 DEF WakeSpuriously, Throw, Register, vars
<1> QED BY <1>1, <1>2, <1>3, <1>4, <1>5, <1>6 DEF Next

\* The queue of AsyncEventQueue.h implements the bounded first-in first-out
\* buffer, whatever its bound and however many threads use it.
THEOREM QueueImplementsFifo == Spec => ImplementsFifo
<1>1. Init => Fifo!Init
  BY DEF Init, Fifo!Init
<1>2. IInv /\ [Next]_vars => [Fifo!Next]_<<queue, out>>
  BY StepRefines
<1> QED BY <1>1, <1>2, InductiveInvariant, PTL DEF Spec, ImplementsFifo, Fifo!Spec
-------------------------------------------------------------------------------
(***************************************************************************)
(* The call queue.                                                         *)
(***************************************************************************)

(***************************************************************************)
(* The operators on sequences of tasks.                                    *)
(***************************************************************************)

\* The numbers of a sequence that grows at the end.
LEMMA NumsOfAppend ==
    ASSUME NEW s \in Seq(Tasks), NEW x \in Tasks
    PROVE  Nums(Append(s, x)) = Nums(s) \cup {x.num}
<1>1. /\ DOMAIN s = 1 .. Len(s) /\ Len(s) \in Nat
      /\ DOMAIN Append(s, x) = 1 .. Len(s) + 1
      /\ \A n \in 1 .. Len(s) : Append(s, x)[n] = s[n]
      /\ Append(s, x)[Len(s) + 1] = x
  BY AppendProperties, LenProperties
<1> QED BY <1>1 DEF Nums

\* The numbers of one sequence after another.
LEMMA NumsOfConcat ==
    ASSUME NEW s \in Seq(Tasks), NEW t \in Seq(Tasks)
    PROVE  Nums(s \o t) = Nums(s) \cup Nums(t)
<1>1. /\ DOMAIN s = 1 .. Len(s) /\ Len(s) \in Nat
      /\ DOMAIN t = 1 .. Len(t) /\ Len(t) \in Nat
      /\ DOMAIN (s \o t) = 1 .. Len(s) + Len(t)
      /\ \A n \in 1 .. Len(s) + Len(t) :
            (s \o t)[n] = IF n <= Len(s) THEN s[n] ELSE t[n - Len(s)]
  BY ConcatProperties, LenProperties
<1>2. \A n \in 1 .. Len(s) : n \in 1 .. Len(s) + Len(t) /\ (s \o t)[n] = s[n]
  BY <1>1
<1>3. \A n \in 1 .. Len(t) : Len(s) + n \in 1 .. Len(s) + Len(t) /\ (s \o t)[Len(s) + n] = t[n]
  BY <1>1
<1>4. \A n \in 1 .. Len(s) + Len(t) : \/ n \in 1 .. Len(s) /\ (s \o t)[n] = s[n]
                                      \/ n - Len(s) \in 1 .. Len(t) /\ (s \o t)[n] = t[n - Len(s)]
  BY <1>1
<1>5. Nums(s) \subseteq Nums(s \o t) /\ Nums(t) \subseteq Nums(s \o t)
  <2>1. ASSUME NEW n \in 1 .. Len(s) PROVE s[n].num \in Nums(s \o t)
    BY <1>1, <1>2 DEF Nums
  <2>2. ASSUME NEW n \in 1 .. Len(t) PROVE t[n].num \in Nums(s \o t)
    BY <1>1, <1>3 DEF Nums
  <2> QED BY <1>1, <2>1, <2>2 DEF Nums
<1>6. ASSUME NEW n \in 1 .. Len(s) + Len(t) PROVE (s \o t)[n].num \in Nums(s) \cup Nums(t)
  BY <1>1, <1>4 DEF Nums
<1> QED BY <1>1, <1>5, <1>6 DEF Nums

\* A sequence is in order when both its parts are, one before the other.
LEMMA InOrderConcat ==
    ASSUME NEW s \in Seq(Tasks), NEW t \in Seq(Tasks)
    PROVE  InOrder(s \o t) <=> InOrder(s) /\ InOrder(t) /\ Before(s, t)
<1>1. /\ DOMAIN s = 1 .. Len(s) /\ Len(s) \in Nat
      /\ DOMAIN t = 1 .. Len(t) /\ Len(t) \in Nat
      /\ DOMAIN (s \o t) = 1 .. Len(s) + Len(t)
      /\ \A n \in 1 .. Len(s) + Len(t) :
            (s \o t)[n] = IF n <= Len(s) THEN s[n] ELSE t[n - Len(s)]
  BY ConcatProperties, LenProperties
<1> DEFINE st == s \o t
<1>2. \A n \in 1 .. Len(s) : n \in DOMAIN st /\ st[n] = s[n]
  BY <1>1
<1>3. \A n \in 1 .. Len(t) : Len(s) + n \in DOMAIN st /\ st[Len(s) + n] = t[n]
  BY <1>1
<1>4. \A n \in DOMAIN st : \/ n \in 1 .. Len(s) /\ st[n] = s[n]
                           \/ n - Len(s) \in 1 .. Len(t) /\ st[n] = t[n - Len(s)]
  BY <1>1
<1>5. DOMAIN st = 1 .. Len(s) + Len(t)
  BY <1>1
<1> HIDE DEF st
<1>6. ASSUME InOrder(st) PROVE InOrder(s) /\ InOrder(t) /\ Before(s, t)
  <2>1. InOrder(s)
    BY <1>1, <1>2, <1>6 DEF InOrder
  <2>2. InOrder(t)
    <3> SUFFICES ASSUME NEW m \in 1 .. Len(t), NEW n \in 1 .. Len(t), m < n
                 PROVE  t[m].place < t[n].place /\ t[m].num # t[n].num
      BY <1>1 DEF InOrder
    <3>1. Len(s) + m < Len(s) + n
      BY <1>1
    <3> QED BY <1>3, <1>6, <3>1 DEF InOrder
  <2>3. Before(s, t)
    <3> SUFFICES ASSUME NEW m \in 1 .. Len(s), NEW n \in 1 .. Len(t)
                 PROVE  s[m].place < t[n].place /\ s[m].num # t[n].num
      BY <1>1 DEF Before
    <3>1. m < Len(s) + n
      BY <1>1
    <3> QED BY <1>2, <1>3, <1>6, <3>1 DEF InOrder
  <2> QED BY <2>1, <2>2, <2>3
<1>7. ASSUME InOrder(s), InOrder(t), Before(s, t) PROVE InOrder(st)
  <2> SUFFICES ASSUME NEW m \in DOMAIN st, NEW n \in DOMAIN st, m < n
               PROVE  st[m].place < st[n].place /\ st[m].num # st[n].num
    BY DEF InOrder
  <2>1. CASE n <= Len(s)
    <3>1. m \in 1 .. Len(s) /\ n \in 1 .. Len(s)
      BY <1>1, <1>5, <2>1
    <3> QED BY <1>1, <1>2, <1>7, <3>1 DEF InOrder
  <2>2. CASE m <= Len(s) /\ ~(n <= Len(s))
    <3>1. m \in 1 .. Len(s) /\ n - Len(s) \in 1 .. Len(t) /\ st[n] = t[n - Len(s)]
      BY <1>1, <1>4, <1>5, <2>2
    <3> QED BY <1>1, <1>2, <1>7, <3>1 DEF Before
  <2>3. CASE ~(m <= Len(s)) /\ ~(n <= Len(s))
    <3>1. /\ m - Len(s) \in 1 .. Len(t) /\ st[m] = t[m - Len(s)]
          /\ n - Len(s) \in 1 .. Len(t) /\ st[n] = t[n - Len(s)]
          /\ m - Len(s) < n - Len(s)
      BY <1>1, <1>4, <1>5, <2>3
    <3> QED BY <1>1, <1>7, <3>1 DEF InOrder
  <2> QED BY <1>1, <1>5, <2>1, <2>2, <2>3
<1> QED BY <1>6, <1>7 DEF st

\* No number stands twice in a sequence in order.
LEMMA InOrderDistinct ==
    ASSUME NEW s \in Seq(Tasks), InOrder(s), NEW m \in DOMAIN s, NEW n \in DOMAIN s,
           s[m].num = s[n].num
    PROVE  m = n
BY LenProperties DEF InOrder

\* Taking the head of one sequence to the end of another leaves the line as
\* it was.
LEMMA LineOfHead ==
    ASSUME NEW s \in Seq(Tasks), NEW t \in Seq(Tasks), t # <<>>
    PROVE  /\ Append(s, Head(t)) \o Tail(t) = s \o t
           /\ Append(s, Head(t)) \in Seq(Tasks) /\ Tail(t) \in Seq(Tasks)
           /\ Nums(t) = {Head(t).num} \cup Nums(Tail(t))
<1>1. /\ Head(t) \in Tasks /\ Tail(t) \in Seq(Tasks) /\ Len(t) \in Nat \ {0}
      /\ Len(Tail(t)) = Len(t) - 1
      /\ \A i \in 1 .. Len(Tail(t)) : Tail(t)[i] = t[i + 1]
      /\ Head(t) = t[1]
  BY HeadTailProperties, EmptySeq
<1>2. /\ <<Head(t)>> \in Seq(Tasks) /\ Len(<<Head(t)>>) = 1 /\ <<Head(t)>>[1] = Head(t)
  BY <1>1
<1>3. <<Head(t)>> \o Tail(t) = t
  <2> DEFINE u == <<Head(t)>> \o Tail(t)
  <2>1. u \in Seq(Tasks) /\ Len(u) = Len(t)
        /\ \A i \in 1 .. Len(t) : u[i] = IF i <= 1 THEN <<Head(t)>>[i] ELSE Tail(t)[i - 1]
    BY <1>1, <1>2, ConcatProperties
  <2>2. \A i \in 1 .. Len(t) : u[i] = t[i]
    <3> SUFFICES ASSUME NEW i \in 1 .. Len(t) PROVE u[i] = t[i]
      OBVIOUS
    <3>1. CASE i = 1
      BY <1>1, <1>2, <2>1, <3>1
    <3>2. CASE i # 1
      BY <1>1, <2>1, <3>2
    <3> QED BY <3>1, <3>2
  <2> HIDE DEF u
  <2> QED BY <2>1, <2>2, SeqEqual DEF u
<1>4. Append(s, Head(t)) = s \o <<Head(t)>> /\ Append(s, Head(t)) \in Seq(Tasks)
  BY <1>1, AppendIsConcat, AppendProperties
<1>5. Append(s, Head(t)) \o Tail(t) = s \o t
  BY <1>1, <1>2, <1>3, <1>4, ConcatAssociative
<1>6. Nums(<<Head(t)>>) = {Head(t).num}
  BY DEF Nums
<1> QED BY <1>1, <1>2, <1>3, <1>4, <1>5, <1>6, NumsOfConcat

\* What is left of a sequence when one element is erased.
LEMMA Removed ==
    ASSUME NEW s \in Seq(Tasks), NEW i \in 1 .. Len(s)
    PROVE  /\ RemoveAt(s, i) \in Seq(Tasks)
           /\ Len(RemoveAt(s, i)) = Len(s) - 1
           /\ \A n \in 1 .. Len(s) - 1 : RemoveAt(s, i)[n] = IF n < i THEN s[n] ELSE s[n + 1]
<1> DEFINE a == SubSeq(s, 1, i - 1)
           b == SubSeq(s, i + 1, Len(s))
<1>1. Len(s) \in Nat /\ \A n \in 1 .. Len(s) : s[n] \in Tasks
  BY LenProperties, ElementOfSeq
<1>2. a \in Seq(Tasks) /\ Len(a) = i - 1 /\ \A n \in 1 .. i - 1 : a[n] = s[n]
  <2>1. \A n \in 1 .. i - 1 : s[n] \in Tasks
    BY <1>1
  <2>2. /\ a \in Seq(Tasks) /\ Len(a) = IF 1 <= i - 1 THEN (i - 1) - 1 + 1 ELSE 0
        /\ \A n \in 1 .. (i - 1) - 1 + 1 : a[n] = s[1 + n - 1]
    BY <2>1, SubSeqProperties
  <2> HIDE DEF a
  <2> QED BY <1>1, <2>2
<1>3. /\ b \in Seq(Tasks) /\ Len(b) = Len(s) - i
      /\ \A n \in 1 .. Len(s) - i : b[n] = s[i + n]
  <2>1. \A n \in i + 1 .. Len(s) : s[n] \in Tasks
    BY <1>1
  <2>2. /\ b \in Seq(Tasks) /\ Len(b) = IF i + 1 <= Len(s) THEN Len(s) - (i + 1) + 1 ELSE 0
        /\ \A n \in 1 .. Len(s) - (i + 1) + 1 : b[n] = s[(i + 1) + n - 1]
    BY <1>1, <2>1, SubSeqProperties
  <2> HIDE DEF b
  <2> QED BY <1>1, <2>2
<1> HIDE DEF a, b
<1>4. /\ a \o b \in Seq(Tasks) /\ Len(a \o b) = Len(s) - 1
      /\ \A n \in 1 .. Len(s) - 1 : (a \o b)[n] = IF n <= i - 1 THEN a[n] ELSE b[n - (i - 1)]
  <2>1. /\ a \o b \in Seq(Tasks) /\ Len(a \o b) = Len(a) + Len(b)
        /\ \A n \in 1 .. Len(a) + Len(b) : (a \o b)[n] = IF n <= Len(a) THEN a[n] ELSE b[n - Len(a)]
    BY <1>2, <1>3, ConcatProperties
  <2>2. Len(a) + Len(b) = Len(s) - 1
    BY <1>1, <1>2, <1>3
  <2> QED BY <1>2, <2>1, <2>2
<1>5. RemoveAt(s, i) = a \o b
  BY DEF RemoveAt, a, b
<1> QED BY <1>1, <1>2, <1>3, <1>4, <1>5

\* What stays of a sequence when tasks are taken out of it keeps its order.
LEMMA Thinned ==
    ASSUME NEW s, NEW t, NEW f \in [DOMAIN t -> DOMAIN s],
           \A n \in DOMAIN t : t[n] = s[f[n]],
           \A m, n \in DOMAIN t : m < n => f[m] < f[n]
    PROVE  /\ InOrder(s) => InOrder(t)
           /\ Placed(s) => Placed(t)
           /\ \A r : Before(r, s) => Before(r, t)
<1>1. InOrder(s) => InOrder(t)
  BY DEF InOrder
<1>2. Placed(s) => Placed(t)
  BY DEF Placed
<1>3. \A r : Before(r, s) => Before(r, t)
  BY DEF Before
<1> QED BY <1>1, <1>2, <1>3
-----------------------------------------------------------------------------
(***************************************************************************)
(* The inductive invariant, step by step.                                  *)
(***************************************************************************)

LEMMA CallsInitInv == CallsInit => CallsIInv
<1> SUFFICES ASSUME CallsInit PROVE CallsIInv
  OBVIOUS
<1> USE NoKeyAssumption, BoundsAssumption DEF CallsInit
<1>1. <<>> \in Seq(Tasks) /\ Len(<<>>) = 0 /\ DOMAIN <<>> = {}
  BY EmptySeq
<1>2. \A d \in Drainers : Work(d) = <<>>
  BY ConcatEmptySeq, <<>> \in Seq(Tasks) DEF Work
<1>3. CallsTypeOK
  <2>1. batch \in [Drainers -> Seq(Tasks)] /\ ran \in [Drainers -> Seq(Tasks)]
    BY <1>1
  <2>2. keyAt \in [Keys -> 0 .. MaxTasks] /\ gone \subseteq 1 .. MaxTasks
    BY DEF NoKeys
  <2>3. deferred \in Seq(Tasks)
    BY <1>1
  <2>4. tasks \in 0 .. MaxTasks /\ places \in 0 .. tasks
    OBVIOUS
  <2>5. bound \in {0, MaxQueued} /\ stale \in BOOLEAN
    OBVIOUS
  <2> QED BY ONLY <2>1, <2>2, <2>3, <2>4, <2>5 DEF CallsTypeOK
<1>4. KeysExact
  BY <1>1 DEF KeysExact, NoKeys
<1>5. LinesInOrder
  BY <1>1, <1>2 DEF LinesInOrder, InOrder, Before, Placed
<1>6. WorkApart /\ HeldOrGone
  <2>1. Nums(<<>>) = {}
    BY DEF Nums
  <2>2. Held = {}
    BY <1>2, <2>1 DEF Held
  <2> QED BY <1>2, <2>1, <2>2 DEF WorkApart, HeldOrGone
<1> QED BY <1>3, <1>4, <1>5, <1>6 DEF CallsIInv

\* The invariant, spelled out: the types of the sequences, and who holds what.
LEMMA Known ==
    ASSUME CallsIInv
    PROVE  /\ \A d \in Drainers : /\ ran[d] \in Seq(Tasks) /\ batch[d] \in Seq(Tasks)
                                  /\ Work(d) \in Seq(Tasks)
           /\ deferred \in Seq(Tasks) /\ DOMAIN deferred = 1 .. Len(deferred)
           /\ Len(deferred) \in Nat
           /\ \A n \in DOMAIN deferred : deferred[n] \in Tasks
           /\ tasks \in Nat /\ places \in Nat /\ places <= tasks /\ tasks <= MaxTasks
           /\ \A n : n \in Held <=> \/ n \in Nums(deferred)
                                    \/ \E d \in Drainers : n \in Nums(Work(d))
<1>1. CallsTypeOK
  BY DEF CallsIInv
<1>2. \A d \in Drainers : ran[d] \in Seq(Tasks) /\ batch[d] \in Seq(Tasks)
  BY <1>1 DEF CallsTypeOK
<1>3. \A d \in Drainers : Work(d) \in Seq(Tasks)
  BY <1>2, ConcatProperties DEF Work
<1>4. deferred \in Seq(Tasks) /\ tasks \in 0 .. MaxTasks /\ places \in 0 .. tasks
  BY <1>1 DEF CallsTypeOK
<1>5. /\ DOMAIN deferred = 1 .. Len(deferred) /\ Len(deferred) \in Nat
      /\ \A n \in DOMAIN deferred : deferred[n] \in Tasks
  BY <1>4, LenProperties, ElementOfSeq
<1>6. \A n : n \in Held <=> \/ n \in Nums(deferred)
                            \/ \E d \in Drainers : n \in Nums(Work(d))
  BY DEF Held
<1> QED BY <1>2, <1>3, <1>4, <1>5, <1>6, BoundsAssumption

\* A task that is accepted at the end: it is a new one, in a new place.
LEMMA AcceptedLast ==
    ASSUME CallsIInv, tasks < MaxTasks, NEW k \in Keys \cup {NoKey},
           deferred' = Append(deferred, Task(k, places + 1)),
           tasks' = tasks + 1, places' = places + 1, UNCHANGED <<batch, ran, gone>>
    PROVE  /\ deferred' \in Seq(Tasks) /\ tasks' \in 0 .. MaxTasks /\ places' \in 0 .. tasks'
           /\ Len(deferred') = Len(deferred) + 1
           /\ \A n \in DOMAIN deferred : deferred'[n] = deferred[n]
           /\ deferred'[Len(deferred) + 1].key = k
           /\ LinesInOrder' /\ WorkApart' /\ HeldOrGone'
<1> DEFINE x == Task(k, places + 1)
<1> USE BoundsAssumption
<1>1. x \in Tasks /\ x.num = tasks + 1 /\ x.place = places + 1 /\ x.key = k
  BY Known DEF Task, Tasks
<1>2. /\ deferred' \in Seq(Tasks) /\ Len(deferred') = Len(deferred) + 1
      /\ \A n \in 1 .. Len(deferred) : deferred'[n] = deferred[n]
      /\ deferred'[Len(deferred) + 1] = x
      /\ DOMAIN deferred' = 1 .. Len(deferred) + 1
  BY <1>1, Known, AppendProperties, LenProperties
<1>3. Nums(deferred') = Nums(deferred) \cup {x.num}
  BY <1>1, Known, NumsOfAppend
<1> HIDE DEF x
<1>4. \A d \in Drainers : Work(d)' = Work(d)
  BY DEF Work
<1>5. LinesInOrder /\ WorkApart /\ HeldOrGone
  BY DEF CallsIInv
<1>6. HeldOrGone'
  <2>1. Held' = Held \cup {tasks + 1}
    BY <1>1, <1>3, <1>4 DEF Held
  <2> QED BY <1>5, <2>1, Known DEF HeldOrGone
<1>7. WorkApart'
  BY <1>4, <1>5 DEF WorkApart
<1>8. /\ \A n \in DOMAIN deferred : deferred[n].num # x.num /\ deferred[n].place < x.place
      /\ \A d \in Drainers : \A n \in DOMAIN Work(d) :
            Work(d)[n].num # x.num /\ Work(d)[n].place < x.place
  <2>1. \A n \in Held : n # x.num
    BY <1>1, <1>5, Known DEF HeldOrGone
  <2>2. /\ \A n \in DOMAIN deferred : deferred[n].num \in Held
        /\ \A d \in Drainers : \A n \in DOMAIN Work(d) : Work(d)[n].num \in Held
    BY Known DEF Nums
  <2>3. \A n \in DOMAIN deferred : deferred[n].place < x.place
    BY <1>1, <1>5, Known DEF LinesInOrder, Placed, Tasks
  <2>4. ASSUME NEW d \in Drainers, NEW n \in DOMAIN Work(d) PROVE Work(d)[n].place < x.place
    <3>1. Work(d)[n] \in Tasks
      BY Known, LenProperties, ElementOfSeq
    <3> QED BY <1>1, <1>5, <3>1, Known DEF LinesInOrder, Placed, Tasks
  <2> QED BY <2>1, <2>2, <2>3, <2>4
<1>9. LinesInOrder'
  <2>1. InOrder(deferred')
    BY <1>2, <1>5, <1>8, Known DEF LinesInOrder, InOrder
  <2>2. Placed(deferred)' /\ Len(deferred') <= places'
    BY <1>1, <1>2, <1>5, Known DEF LinesInOrder, Placed, Tasks
  <2>3. ASSUME NEW d \in Drainers
        PROVE  InOrder(Work(d)') /\ Placed(Work(d))' /\ Before(Work(d)', deferred')
    <3>1. InOrder(Work(d)')
      BY <1>4, <1>5 DEF LinesInOrder
    <3>2. Placed(Work(d))'
      <4>1. \A n \in DOMAIN Work(d) : Work(d)[n] \in Tasks
        BY Known, LenProperties, ElementOfSeq
      <4> QED BY <1>4, <1>5, <4>1, Known DEF LinesInOrder, Placed, Tasks
    <3>3. Before(Work(d), deferred')
      BY <1>2, <1>5, <1>8, Known DEF LinesInOrder, Before
    <3> QED BY <1>4, <3>1, <3>2, <3>3
  <2> QED BY <2>1, <2>2, <2>3 DEF LinesInOrder
<1>10. tasks' \in 0 .. MaxTasks /\ places' \in 0 .. tasks'
  BY Known
<1> QED BY <1>1, <1>2, <1>6, <1>7, <1>9, <1>10, Known

\* A task that replaces another in its place.
LEMMA ReplaceInv ==
    ASSUME CallsIInv, NEW k \in Keys, CoalesceReplace(k)
    PROVE  CallsIInv'
<1> DEFINE i == keyAt[k]
           x == Task(k, deferred[i].place)
<1> USE BoundsAssumption, NoKeyAssumption
<1>1. i \in DOMAIN deferred /\ i \in 1 .. Len(deferred)
  BY Known DEF CoalesceReplace, CallsIInv, CallsTypeOK
<1>2. /\ x \in Tasks /\ x.num = tasks + 1 /\ x.key = k
      /\ x.place = deferred[i].place /\ x.place <= places
  <2>1. deferred[i] \in Tasks /\ deferred[i].place <= places
    BY <1>1, Known DEF CallsIInv, LinesInOrder, Placed
  <2> QED BY <2>1, Known DEF CoalesceReplace, Task, Tasks
<1>3. deferred' = [deferred EXCEPT ![i] = x] /\ tasks' = tasks + 1
      /\ gone' = gone \cup {deferred[i].num}
      /\ UNCHANGED <<keyAt, bound, batch, ran, places, stale>>
  BY DEF CoalesceReplace
<1> HIDE DEF i, x
<1>4. /\ deferred' \in Seq(Tasks) /\ Len(deferred') = Len(deferred)
      /\ DOMAIN deferred' = DOMAIN deferred
      /\ \A n \in DOMAIN deferred : deferred'[n] = IF n = i THEN x ELSE deferred[n]
  BY <1>1, <1>2, <1>3, Known, ExceptSeq
<1>5. CallsTypeOK /\ KeysExact /\ LinesInOrder /\ WorkApart /\ HeldOrGone
  BY DEF CallsIInv
<1>6. \A d \in Drainers : Work(d)' = Work(d)
  BY <1>3 DEF Work
<1>7. /\ \A n \in DOMAIN deferred : deferred[n].num \in 1 .. tasks
      /\ \A d \in Drainers : \A n \in DOMAIN Work(d) : Work(d)[n].num \in 1 .. tasks
  BY <1>5, Known DEF HeldOrGone, Nums
<1>8. CallsTypeOK'
  <2>1. tasks' \in 0 .. MaxTasks /\ places' \in 0 .. tasks'
    BY <1>3, Known DEF CoalesceReplace
  <2>2. gone' \subseteq 1 .. MaxTasks
    BY <1>1, <1>3, <1>5, Known, <1>7 DEF CallsTypeOK
  <2> QED BY <1>3, <1>4, <1>5, <2>1, <2>2 DEF CallsTypeOK
<1>9. KeysExact'
  <2> SUFFICES ASSUME ~stale PROVE KeysExact'
    BY <1>3 DEF KeysExact
  <2>1. deferred[i].key = k
    BY <1>1, <1>5 DEF KeysExact, i
  <2>2. \A n \in DOMAIN deferred : deferred'[n].key = deferred[n].key
    BY <1>2, <1>4, <2>1
  <2> QED BY <1>3, <1>4, <1>5, <2>2, Known DEF KeysExact, CallsTypeOK
<1>10. LinesInOrder'
  <2>1. InOrder(deferred')
    BY <1>2, <1>4, <1>5, <1>7, Known DEF LinesInOrder, InOrder
  <2>2. Placed(deferred)' /\ Len(deferred') <= places'
    BY <1>2, <1>3, <1>4, <1>5 DEF LinesInOrder, Placed
  <2>3. ASSUME NEW d \in Drainers
        PROVE  InOrder(Work(d)') /\ Placed(Work(d))' /\ Before(Work(d)', deferred')
    <3>1. Before(Work(d), deferred')
      BY <1>1, <1>2, <1>4, <1>5, <1>7, Known DEF LinesInOrder, Before
    <3>2. Placed(Work(d))'
      BY <1>3, <1>5, <1>6 DEF LinesInOrder, Placed
    <3> QED BY <1>5, <1>6, <3>1, <3>2 DEF LinesInOrder
  <2> QED BY <2>1, <2>2, <2>3 DEF LinesInOrder
<1>11. WorkApart'
  BY <1>5, <1>6 DEF WorkApart
<1>12. HeldOrGone'
  <2>1. Nums(deferred') = (Nums(deferred) \ {deferred[i].num}) \cup {tasks + 1}
    <3>1. \A n \in DOMAIN deferred : n # i => deferred[n].num # deferred[i].num
      BY <1>1, <1>5, Known, InOrderDistinct DEF LinesInOrder
    <3>2. ASSUME NEW n \in DOMAIN deferred
          PROVE  deferred'[n].num = IF n = i THEN tasks + 1 ELSE deferred[n].num
      BY <1>2, <1>4
    <3> QED BY <1>1, <1>4, <3>1, <3>2 DEF Nums
  <2>2. \A d \in Drainers : deferred[i].num \notin Nums(Work(d))
    BY <1>1, <1>5 DEF LinesInOrder, Before, Nums
  <2>3. deferred[i].num \in Nums(deferred)
    BY <1>1 DEF Nums
  <2>4. Held' = (Held \ {deferred[i].num}) \cup {tasks + 1}
    BY <1>6, <2>1, <2>2 DEF Held
  <2>5. deferred[i].num \in Held /\ tasks \in Nat
    BY <2>3, Known
  <2> QED BY <1>3, <1>5, <2>4, <2>5 DEF HeldOrGone
<1> QED BY <1>8, <1>9, <1>10, <1>11, <1>12 DEF CallsIInv

\* cancel: the task is gone, and every index behind it moves up.
LEMMA CancelInv ==
    ASSUME CallsIInv, NEW k \in Keys, Cancel(k)
    PROVE  CallsIInv'
<1> DEFINE i == keyAt[k]
<1> USE BoundsAssumption, NoKeyAssumption
<1>1. i \in DOMAIN deferred /\ i \in 1 .. Len(deferred)
  BY Known DEF Cancel, CallsIInv, CallsTypeOK
<1>2. /\ deferred' = RemoveAt(deferred, i) /\ gone' = gone \cup {deferred[i].num}
      /\ keyAt' = [j \in Keys |-> IF j = k THEN 0
                                  ELSE IF keyAt[j] > i THEN keyAt[j] - 1 ELSE keyAt[j]]
      /\ UNCHANGED <<bound, batch, ran, tasks, places, stale>>
  BY DEF Cancel
<1>3. /\ deferred' \in Seq(Tasks) /\ Len(deferred') = Len(deferred) - 1
      /\ DOMAIN deferred' = 1 .. Len(deferred) - 1
      /\ \A n \in 1 .. Len(deferred) - 1 :
            deferred'[n] = IF n < i THEN deferred[n] ELSE deferred[n + 1]
  BY <1>1, <1>2, Known, Removed, LenProperties
<1>4. keyAt[k] = i
  OBVIOUS
<1> HIDE DEF i
<1>5. CallsTypeOK /\ KeysExact /\ LinesInOrder /\ WorkApart /\ HeldOrGone
  BY DEF CallsIInv
<1>6. \A d \in Drainers : Work(d)' = Work(d)
  BY <1>2 DEF Work
<1> DEFINE f == [n \in 1 .. Len(deferred) - 1 |-> IF n < i THEN n ELSE n + 1]
<1>7. /\ f \in [DOMAIN deferred' -> DOMAIN deferred \ {i}]
      /\ \A n \in DOMAIN deferred' : f[n] = IF n < i THEN n ELSE n + 1
      /\ \A n \in DOMAIN deferred' : deferred'[n] = deferred[f[n]]
      /\ \A m, n \in DOMAIN deferred' : m < n => f[m] < f[n]
  BY <1>1, <1>3, Known
<1> HIDE DEF f
<1>8. CallsTypeOK'
  <2>1. keyAt' \in [Keys -> 0 .. MaxTasks]
    BY <1>1, <1>2, <1>5 DEF CallsTypeOK
  <2>2. gone' \subseteq 1 .. MaxTasks
    <3>1. deferred[i] \in Tasks
      BY <1>1, Known
    <3> QED BY <1>2, <1>5, <3>1 DEF CallsTypeOK, Tasks
  <2> QED BY <1>2, <1>3, <1>5, <2>1, <2>2 DEF CallsTypeOK
<1>9. KeysExact'
  <2> SUFFICES ASSUME ~stale PROVE KeysExact'
    BY <1>2 DEF KeysExact
  <2>1. /\ \A j \in Keys : keyAt[j] # 0 =>
              keyAt[j] <= Len(deferred) /\ deferred[keyAt[j]].key = j
        /\ \A n \in DOMAIN deferred : deferred[n].key # NoKey => keyAt[deferred[n].key] = n
    BY <1>5 DEF KeysExact
  <2>2. keyAt \in [Keys -> 0 .. MaxTasks]
    BY <1>5 DEF CallsTypeOK
  <2>3. ASSUME NEW j \in Keys, keyAt'[j] # 0
        PROVE  keyAt'[j] <= Len(deferred') /\ deferred'[keyAt'[j]].key = j
    <3>1. j # k /\ keyAt[j] # 0 /\ keyAt[j] # i
      BY <1>1, <1>2, <1>4, <2>1, <2>2, <2>3
    <3>2. CASE keyAt[j] > i
      <4>1. keyAt'[j] = keyAt[j] - 1 /\ keyAt[j] - 1 \in 1 .. Len(deferred) - 1
        BY <1>1, <1>2, <2>1, <2>2, <3>1, <3>2, Known
      <4>2. deferred'[keyAt[j] - 1] = deferred[keyAt[j]]
        BY <1>1, <1>3, <2>2, <3>2, <4>1
      <4> QED BY <1>3, <2>1, <3>1, <4>1, <4>2, Known
    <3>3. CASE keyAt[j] < i
      <4>1. keyAt'[j] = keyAt[j] /\ keyAt[j] \in 1 .. Len(deferred) - 1
        BY <1>1, <1>2, <2>1, <2>2, <3>1, <3>3, Known
      <4> QED BY <1>1, <1>3, <2>1, <3>1, <3>3, <4>1, Known
    <3> QED BY <1>1, <2>2, <3>1, <3>2, <3>3, Known
  <2>4. ASSUME NEW n \in DOMAIN deferred', deferred'[n].key # NoKey
        PROVE  keyAt'[deferred'[n].key] = n
    <3>1. /\ deferred'[n] \in Tasks /\ deferred'[n].key \in Keys
          /\ n \in 1 .. Len(deferred) - 1
      <4>1. deferred'[n] \in Tasks /\ n \in 1 .. Len(deferred) - 1
      BY <1>3, ElementOfSeq
    <4> QED BY <2>4, <4>1 DEF Tasks
    <3>2. CASE n < i
      BY <1>1, <1>2, <1>4, <1>7, <2>1, <2>2, <2>4, <3>1, <3>2
    <3>3. CASE ~(n < i)
      <4>1. deferred'[n] = deferred[n + 1] /\ keyAt[deferred'[n].key] = n + 1
        BY <1>7, <2>1, <2>4, <3>1, <3>3
      <4> QED BY <1>1, <1>2, <1>4, <3>1, <3>3, <4>1, Known
    <3> QED BY <3>2, <3>3
  <2> QED BY <2>3, <2>4 DEF KeysExact
<1>10. LinesInOrder'
  <2>1. /\ InOrder(deferred') /\ Placed(deferred')
        /\ \A d \in Drainers : Before(Work(d), deferred')
    BY <1>5, <1>7, Thinned DEF LinesInOrder
  <2>2. Placed(deferred)' /\ Len(deferred') <= places'
    BY <1>2, <1>3, <1>5, <2>1, Known DEF LinesInOrder, Placed
  <2>3. ASSUME NEW d \in Drainers
        PROVE  InOrder(Work(d)') /\ Placed(Work(d))' /\ Before(Work(d)', deferred')
    <3>1. Before(Work(d), deferred')
      BY <2>1
    <3>2. Placed(Work(d))'
      BY <1>2, <1>5, <1>6 DEF LinesInOrder, Placed
    <3> QED BY <1>5, <1>6, <3>1, <3>2 DEF LinesInOrder
  <2> QED BY <2>1, <2>2, <2>3 DEF LinesInOrder
<1>11. WorkApart'
  BY <1>5, <1>6 DEF WorkApart
<1>12. HeldOrGone'
  <2>1. Nums(deferred') = Nums(deferred) \ {deferred[i].num}
    <3>1. \A n \in DOMAIN deferred : n # i => deferred[n].num # deferred[i].num
      BY <1>1, <1>5, Known, InOrderDistinct DEF LinesInOrder
    <3>2. ASSUME NEW n \in DOMAIN deferred'
          PROVE  deferred'[n].num \in Nums(deferred) \ {deferred[i].num}
      BY <1>7, <3>1 DEF Nums
    <3>3. ASSUME NEW n \in DOMAIN deferred, n # i PROVE deferred[n].num \in Nums(deferred')
      <4>1. CASE n < i
        BY <1>1, <1>3, <3>3, <4>1, Known DEF Nums
      <4>2. CASE n > i
        <5>1. n - 1 \in DOMAIN deferred' /\ deferred'[n - 1] = deferred[n]
          BY <1>1, <1>3, <4>2, Known
        <5> QED BY <5>1 DEF Nums
      <4> QED BY <1>1, <3>3, <4>1, <4>2, Known
    <3>4. Nums(deferred') \subseteq Nums(deferred) \ {deferred[i].num}
      BY <3>2 DEF Nums
    <3>5. Nums(deferred) \ {deferred[i].num} \subseteq Nums(deferred')
      BY <3>3 DEF Nums
    <3> QED BY <3>4, <3>5
  <2>2. \A d \in Drainers : deferred[i].num \notin Nums(Work(d))
    BY <1>1, <1>5 DEF LinesInOrder, Before, Nums
  <2>3. deferred[i].num \in Nums(deferred)
    BY <1>1 DEF Nums
  <2>4. Held' = Held \ {deferred[i].num} /\ deferred[i].num \in Held
    BY <1>6, <2>1, <2>2, <2>3 DEF Held
  <2> QED BY <1>2, <1>5, <2>4 DEF HeldOrGone
<1> QED BY <1>8, <1>9, <1>10, <1>11, <1>12 DEF CallsIInv

\* push: nothing leads to a task without a key.
LEMMA PushInv == ASSUME CallsIInv, Push PROVE CallsIInv'
<1>1. CallsTypeOK /\ KeysExact
  BY DEF CallsIInv
<1>2. /\ deferred' \in Seq(Tasks) /\ tasks' \in 0 .. MaxTasks /\ places' \in 0 .. tasks'
      /\ Len(deferred') = Len(deferred) + 1
      /\ \A n \in DOMAIN deferred : deferred'[n] = deferred[n]
      /\ deferred'[Len(deferred) + 1].key = NoKey
      /\ LinesInOrder' /\ WorkApart' /\ HeldOrGone'
  BY AcceptedLast DEF Push
<1>3. CallsTypeOK'
  BY <1>1, <1>2 DEF CallsTypeOK, Push
<1>4. DOMAIN deferred' = 1 .. Len(deferred) + 1
  BY <1>2, LenProperties
<1>5. KeysExact'
  BY <1>1, <1>2, <1>4, Known DEF KeysExact, CallsTypeOK, Push
<1> QED BY <1>2, <1>3, <1>5 DEF CallsIInv

\* coalesce of a new key: the key leads to the new last task.
LEMMA CoalesceInv == ASSUME CallsIInv, NEW k \in Keys, CoalesceNew(k) PROVE CallsIInv'
<1>1. CallsTypeOK /\ KeysExact /\ LinesInOrder
  BY DEF CallsIInv
<1>2. /\ deferred' \in Seq(Tasks) /\ tasks' \in 0 .. MaxTasks /\ places' \in 0 .. tasks'
      /\ Len(deferred') = Len(deferred) + 1
      /\ \A n \in DOMAIN deferred : deferred'[n] = deferred[n]
      /\ deferred'[Len(deferred) + 1].key = k
      /\ LinesInOrder' /\ WorkApart' /\ HeldOrGone'
  BY AcceptedLast DEF CoalesceNew
<1>3. /\ keyAt' = [keyAt EXCEPT ![k] = Len(deferred) + 1] /\ keyAt[k] = 0
      /\ UNCHANGED <<bound, batch, ran, gone, stale>>
  BY DEF CoalesceNew
<1>4. CallsTypeOK'
  <2>1. Len(deferred) + 1 \in 0 .. MaxTasks
    BY <1>1, Known, BoundsAssumption DEF CoalesceNew, LinesInOrder
  <2>2. keyAt' \in [Keys -> 0 .. MaxTasks]
    BY <1>1, <1>3, <2>1 DEF CallsTypeOK
  <2> QED BY <1>1, <1>2, <1>3, <2>2 DEF CallsTypeOK
<1>5. DOMAIN deferred' = 1 .. Len(deferred) + 1
  BY <1>2, LenProperties
<1>6. KeysExact'
  <2> SUFFICES ASSUME ~stale PROVE KeysExact'
    BY <1>3 DEF KeysExact
  <2>1. /\ \A j \in Keys : keyAt[j] # 0 =>
              keyAt[j] <= Len(deferred) /\ deferred[keyAt[j]].key = j
        /\ \A n \in DOMAIN deferred : deferred[n].key # NoKey => keyAt[deferred[n].key] = n
    BY <1>1 DEF KeysExact
  <2>2. /\ keyAt \in [Keys -> 0 .. MaxTasks]
        /\ \A j \in Keys \ {k} : keyAt'[j] = keyAt[j]
        /\ keyAt'[k] = Len(deferred) + 1
    BY <1>1, <1>3 DEF CallsTypeOK
  <2>3. ASSUME NEW j \in Keys, keyAt'[j] # 0
        PROVE  keyAt'[j] <= Len(deferred') /\ deferred'[keyAt'[j]].key = j
    <3>1. CASE j = k
      <4>1. keyAt'[j] = Len(deferred) + 1
        BY <2>2, <3>1
      <4> QED BY <1>2, <3>1, <4>1, Known
    <3>2. CASE j # k
      <4>1. keyAt'[j] = keyAt[j] /\ keyAt[j] \in DOMAIN deferred
        BY <2>1, <2>2, <2>3, <3>2, Known
      <4> QED BY <1>2, <2>1, <2>3, <4>1, Known
    <3> QED BY <3>1, <3>2
  <2>4. ASSUME NEW n \in DOMAIN deferred', deferred'[n].key # NoKey
        PROVE  keyAt'[deferred'[n].key] = n
    <3>1. CASE n = Len(deferred) + 1
      BY <1>2, <2>2, <3>1
    <3>2. CASE n # Len(deferred) + 1
      <4>1. n \in DOMAIN deferred /\ deferred'[n] = deferred[n]
        BY <1>2, <1>5, <3>2, Known
      <4>2. deferred[n].key \in Keys /\ keyAt[deferred[n].key] = n /\ n # 0
        BY <2>1, <2>4, <4>1, Known DEF Tasks
      <4> QED BY <1>3, <2>2, <4>1, <4>2
    <3> QED BY <3>1, <3>2
  <2> QED BY <2>3, <2>4 DEF KeysExact
<1> QED BY <1>2, <1>4, <1>6 DEF CallsIInv

\* clear: what was queued is gone.
LEMMA ClearInv == ASSUME CallsIInv, Clear PROVE CallsIInv'
<1>1. CallsTypeOK /\ LinesInOrder /\ WorkApart /\ HeldOrGone
  BY DEF CallsIInv
<1>2. /\ deferred' = <<>> /\ keyAt' = NoKeys /\ gone' = gone \cup Nums(deferred)
      /\ stale' = FALSE /\ UNCHANGED <<bound, batch, ran, tasks, places>>
  BY DEF Clear
<1>3. /\ deferred' \in Seq(Tasks) /\ Len(deferred') = 0 /\ DOMAIN deferred' = {}
      /\ Nums(deferred') = {}
  BY <1>2, EmptySeq DEF Nums
<1>4. \A d \in Drainers : Work(d)' = Work(d)
  BY <1>2 DEF Work
<1>5. CallsTypeOK'
  <2>1. keyAt' \in [Keys -> 0 .. MaxTasks]
    BY <1>2, BoundsAssumption DEF NoKeys
  <2>2. gone' \subseteq 1 .. MaxTasks
    BY <1>1, <1>2, Known DEF CallsTypeOK, Nums, Tasks
  <2> QED BY <1>1, <1>2, <1>3, <2>1, <2>2 DEF CallsTypeOK
<1>6. KeysExact'
  BY <1>2, <1>3 DEF KeysExact, NoKeys
<1>7. LinesInOrder'
  BY <1>1, <1>2, <1>3, <1>4, Known DEF LinesInOrder, InOrder, Placed, Before
<1>8. WorkApart'
  BY <1>1, <1>4 DEF WorkApart
<1>9. HeldOrGone'
  <2>1. ASSUME NEW n \in Nums(deferred), NEW d \in Drainers PROVE n \notin Nums(Work(d))
    BY <1>1 DEF LinesInOrder, Before, Nums
  <2>2. Held' = Held \ Nums(deferred) /\ Nums(deferred) \subseteq Held
    BY <1>3, <1>4, <2>1 DEF Held
  <2> QED BY <1>1, <1>2, <2>2 DEF HeldOrGone
<1> QED BY <1>5, <1>6, <1>7, <1>8, <1>9 DEF CallsIInv

\* Places of a line are those of its parts.
LEMMA PlacedConcat ==
    ASSUME NEW s \in Seq(Tasks), NEW t \in Seq(Tasks)
    PROVE  Placed(s \o t) <=> Placed(s) /\ Placed(t)
<1>1. /\ DOMAIN s = 1 .. Len(s) /\ Len(s) \in Nat
      /\ DOMAIN t = 1 .. Len(t) /\ Len(t) \in Nat
      /\ DOMAIN (s \o t) = 1 .. Len(s) + Len(t)
      /\ \A n \in 1 .. Len(s) + Len(t) :
            (s \o t)[n] = IF n <= Len(s) THEN s[n] ELSE t[n - Len(s)]
  BY ConcatProperties, LenProperties
<1>2. \A n \in 1 .. Len(s) : n \in 1 .. Len(s) + Len(t) /\ (s \o t)[n] = s[n]
  BY <1>1
<1>3. \A n \in 1 .. Len(t) : Len(s) + n \in 1 .. Len(s) + Len(t) /\ (s \o t)[Len(s) + n] = t[n]
  BY <1>1
<1>4. \A n \in 1 .. Len(s) + Len(t) : \/ n \in 1 .. Len(s) /\ (s \o t)[n] = s[n]
                                      \/ n - Len(s) \in 1 .. Len(t) /\ (s \o t)[n] = t[n - Len(s)]
  BY <1>1
<1>5. Placed(s \o t) => Placed(s)
  BY <1>1, <1>2 DEF Placed
<1>6. Placed(s \o t) => Placed(t)
  <2> SUFFICES ASSUME Placed(s \o t), NEW n \in 1 .. Len(t) PROVE t[n].place <= places
    BY <1>1 DEF Placed
  <2> QED BY <1>1, <1>3 DEF Placed
<1>7. Placed(s) /\ Placed(t) => Placed(s \o t)
  BY <1>1, <1>4 DEF Placed
<1> QED BY <1>5, <1>6, <1>7

\* drain_all: the queue becomes what the drainer has to run.
LEMMA TakeAllInv == ASSUME CallsIInv, NEW d \in Drainers, TakeAll(d) PROVE CallsIInv'
<1>1. CallsTypeOK /\ LinesInOrder /\ WorkApart /\ HeldOrGone
  BY DEF CallsIInv
<1>2. /\ batch[d] = <<>> /\ batch' = [batch EXCEPT ![d] = deferred]
      /\ deferred' = <<>> /\ keyAt' = NoKeys /\ bound' = 0 /\ stale' = FALSE
      /\ UNCHANGED <<ran, gone, tasks, places>>
  BY DEF TakeAll
<1>3. /\ deferred' \in Seq(Tasks) /\ Len(deferred') = 0 /\ DOMAIN deferred' = {}
      /\ Nums(deferred') = {}
  BY <1>2, EmptySeq DEF Nums
<1>4. \A c \in Drainers \ {d} : Work(c)' = Work(c)
  BY <1>1, <1>2 DEF Work, CallsTypeOK
<1>5. Work(d)' = Work(d) \o deferred
  <2>1. Work(d) = ran[d]
    BY <1>2, Known, ConcatEmptySeq DEF Work
  <2> QED BY <1>1, <1>2, <2>1 DEF Work, CallsTypeOK
<1>6. Nums(Work(d)') = Nums(Work(d)) \cup Nums(deferred)
  BY <1>5, Known, NumsOfConcat
<1>7. CallsTypeOK'
  <2>1. keyAt' \in [Keys -> 0 .. MaxTasks]
    BY <1>2, BoundsAssumption DEF NoKeys
  <2>2. batch' \in [Drainers -> Seq(Tasks)]
    BY <1>1, <1>2 DEF CallsTypeOK
  <2> QED BY <1>1, <1>2, <1>3, <2>1, <2>2 DEF CallsTypeOK
<1>8. KeysExact'
  BY <1>2, <1>3 DEF KeysExact, NoKeys
<1>9. LinesInOrder'
  <2>1. InOrder(deferred') /\ Placed(deferred)' /\ Len(deferred') <= places'
    BY <1>2, <1>3, Known DEF InOrder, Placed
  <2>2. InOrder(Work(d)') /\ Placed(Work(d)')
    BY <1>1, <1>5, Known, InOrderConcat, PlacedConcat DEF LinesInOrder
  <2>3. ASSUME NEW c \in Drainers
        PROVE  InOrder(Work(c)') /\ Placed(Work(c))' /\ Before(Work(c)', deferred')
    <3>1. InOrder(Work(c)') /\ Placed(Work(c)')
      BY <1>1, <1>4, <2>2 DEF LinesInOrder
    <3> QED BY <1>2, <1>3, <3>1 DEF Placed, Before
  <2> QED BY <2>1, <2>3 DEF LinesInOrder
<1>10. \A c \in Drainers : Nums(Work(c)) \cap Nums(deferred) = {}
  BY <1>1 DEF LinesInOrder, Before, Nums
<1>11. WorkApart'
  BY <1>1, <1>4, <1>6, <1>10 DEF WorkApart
<1>12. HeldOrGone'
  <2>1. Held' = Held
    BY <1>3, <1>4, <1>6 DEF Held
  <2> QED BY <1>1, <1>2, <2>1 DEF HeldOrGone
<1> QED BY <1>7, <1>8, <1>9, <1>11, <1>12 DEF CallsIInv

\* Running the next task of a batch moves it within the drainer's work.
LEMMA RunNextInv == ASSUME CallsIInv, NEW d \in Drainers, RunNext(d) PROVE CallsIInv'
<1>1. CallsTypeOK /\ KeysExact /\ LinesInOrder /\ WorkApart /\ HeldOrGone
  BY DEF CallsIInv
<1>2. /\ ran' = [ran EXCEPT ![d] = Append(ran[d], Head(batch[d]))] /\ batch[d] # <<>>
      /\ batch' = [batch EXCEPT ![d] = Tail(batch[d])]
      /\ UNCHANGED <<deferred, keyAt, bound, gone, tasks, places, stale>>
  BY DEF RunNext
<1>3. /\ Append(ran[d], Head(batch[d])) \o Tail(batch[d]) = Work(d)
      /\ Append(ran[d], Head(batch[d])) \in Seq(Tasks) /\ Tail(batch[d]) \in Seq(Tasks)
  BY <1>2, Known, LineOfHead DEF Work
<1>4. \A c \in Drainers : Work(c)' = Work(c)
  BY <1>1, <1>2, <1>3 DEF Work, CallsTypeOK
<1>5. CallsTypeOK'
  BY <1>1, <1>2, <1>3 DEF CallsTypeOK
<1>6. KeysExact'
  BY <1>1, <1>2 DEF KeysExact
<1>7. LinesInOrder' /\ WorkApart'
  BY <1>1, <1>2, <1>4 DEF LinesInOrder, WorkApart, Placed
<1>8. HeldOrGone'
  BY <1>1, <1>2, <1>4 DEF HeldOrGone, Held
<1> QED BY <1>5, <1>6, <1>7, <1>8 DEF CallsIInv

\* A task that throws ends its drain: the rest of the batch is gone.
LEMMA RunThrowsInv == ASSUME CallsIInv, NEW d \in Drainers, RunThrows(d) PROVE CallsIInv'
<1> DEFINE first == Append(ran[d], Head(batch[d]))
           rest  == Tail(batch[d])
<1>1. CallsTypeOK /\ KeysExact /\ LinesInOrder /\ WorkApart /\ HeldOrGone
  BY DEF CallsIInv
<1>2. /\ ran' = [ran EXCEPT ![d] = first] /\ batch[d] # <<>>
      /\ batch' = [batch EXCEPT ![d] = <<>>] /\ gone' = gone \cup Nums(rest)
      /\ UNCHANGED <<deferred, keyAt, bound, tasks, places, stale>>
  BY DEF RunThrows
<1>3. first \o rest = Work(d) /\ first \in Seq(Tasks) /\ rest \in Seq(Tasks)
  BY <1>2, Known, LineOfHead DEF Work
<1> HIDE DEF first, rest
<1>4. \A c \in Drainers \ {d} : Work(c)' = Work(c)
  BY <1>1, <1>2 DEF Work, CallsTypeOK
<1>5. Work(d)' = first
  <2>1. first \o <<>> = first
    BY <1>3, ConcatEmptySeq
  <2> QED BY <1>1, <1>2, <2>1 DEF Work, CallsTypeOK
<1>6. /\ InOrder(first) /\ Before(first, rest) /\ Placed(first)
      /\ Nums(Work(d)) = Nums(first) \cup Nums(rest)
      /\ Before(first, deferred)
  <2>1. /\ InOrder(first) /\ Before(first, rest) /\ Placed(first)
        /\ Nums(Work(d)) = Nums(first) \cup Nums(rest)
    BY <1>1, <1>3, InOrderConcat, PlacedConcat, NumsOfConcat DEF LinesInOrder
  <2>2. \A n \in DOMAIN first : n \in DOMAIN Work(d) /\ Work(d)[n] = first[n]
    <3>1. /\ DOMAIN first = 1 .. Len(first) /\ Len(first) \in Nat /\ Len(rest) \in Nat
          /\ Len(Work(d)) = Len(first) + Len(rest)
          /\ \A n \in 1 .. Len(first) + Len(rest) :
                Work(d)[n] = IF n <= Len(first) THEN first[n] ELSE rest[n - Len(first)]
      BY <1>3, ConcatProperties, LenProperties
    <3>2. DOMAIN Work(d) = 1 .. Len(Work(d))
      BY Known, LenProperties
    <3> QED BY <3>1, <3>2
  <2>3. Before(first, deferred)
    BY <1>1, <2>2 DEF LinesInOrder, Before
  <2> QED BY <2>1, <2>3
<1>7. CallsTypeOK'
  <2>1. /\ ran' \in [Drainers -> Seq(Tasks)] /\ batch' \in [Drainers -> Seq(Tasks)]
    BY <1>1, <1>2, <1>3, EmptySeq DEF CallsTypeOK
  <2>2. gone' \subseteq 1 .. MaxTasks
    <3>1. Nums(rest) \subseteq Held
      BY <1>6, Known
    <3>2. Nums(rest) \subseteq 1 .. tasks /\ gone \subseteq 1 .. MaxTasks
      BY <1>1, <3>1 DEF HeldOrGone, CallsTypeOK
    <3>3. 1 .. tasks \subseteq 1 .. MaxTasks
      BY Known, BoundsAssumption
    <3> QED BY <1>2, <3>2, <3>3
  <2> QED BY <1>1, <1>2, <2>1, <2>2 DEF CallsTypeOK
<1>8. KeysExact'
  BY <1>1, <1>2 DEF KeysExact
<1>9. LinesInOrder'
  <2>1. ASSUME NEW c \in Drainers
        PROVE  InOrder(Work(c)') /\ Placed(Work(c))' /\ Before(Work(c)', deferred)
    <3>1. InOrder(Work(c)') /\ Placed(Work(c)') /\ Before(Work(c)', deferred)
      BY <1>1, <1>4, <1>5, <1>6 DEF LinesInOrder
    <3> QED BY <1>2, <3>1 DEF Placed
  <2> QED BY <1>1, <1>2, <2>1 DEF LinesInOrder, Placed
<1>10. WorkApart'
  BY <1>1, <1>4, <1>5, <1>6 DEF WorkApart
<1>11. HeldOrGone'
  <2>1. Nums(first) \cap Nums(rest) = {}
    BY <1>6 DEF Before, Nums
  <2>2. Nums(deferred) \cap Nums(rest) = {}
    <3>1. Nums(deferred) \cap Nums(Work(d)) = {}
      BY <1>1 DEF LinesInOrder, Before, Nums
    <3> QED BY <1>6, <3>1
  <2>3. \A c \in Drainers \ {d} : Nums(Work(c)) \cap Nums(rest) = {}
    BY <1>1, <1>6 DEF WorkApart
  <2>4. Held' = Held \ Nums(rest) /\ Nums(rest) \subseteq Held
    BY <1>2, <1>4, <1>5, <1>6, <2>1, <2>2, <2>3 DEF Held
  <2> QED BY <1>1, <1>2, <2>4 DEF HeldOrGone
<1> QED BY <1>7, <1>8, <1>9, <1>10, <1>11 DEF CallsIInv

\* drain_one: the first task goes to the drainer, every index moves up, and
\* the map stays exact unless it has a key for the task that was taken.
LEMMA DrainOneInv == ASSUME CallsIInv, NEW d \in Drainers, DrainOne(d) PROVE CallsIInv'
<1> DEFINE first == Append(ran[d], Head(deferred))
           rest  == Tail(deferred)
<1>1. CallsTypeOK /\ KeysExact /\ LinesInOrder /\ WorkApart /\ HeldOrGone
  BY DEF CallsIInv
<1>2. /\ ran' = [ran EXCEPT ![d] = first] /\ batch[d] = <<>> /\ deferred # <<>>
      /\ deferred' = rest
      /\ keyAt' = [k \in Keys |-> IF keyAt[k] > 1 THEN keyAt[k] - 1 ELSE keyAt[k]]
      /\ stale' = (stale \/ \E k \in Keys : keyAt[k] = 1)
      /\ UNCHANGED <<bound, batch, gone, tasks, places>>
  BY DEF DrainOne
<1>3. /\ first \o rest = ran[d] \o deferred /\ first \in Seq(Tasks) /\ rest \in Seq(Tasks)
      /\ Nums(deferred) = {Head(deferred).num} \cup Nums(rest)
      /\ Head(deferred) \in Tasks
  BY <1>2, Known, LineOfHead, HeadTailProperties
<1>4. Nums(first) = Nums(ran[d]) \cup {Head(deferred).num}
  BY <1>3, Known, NumsOfAppend
<1>5. /\ Len(rest) = Len(deferred) - 1 /\ Len(deferred) \in Nat \ {0}
      /\ DOMAIN rest = 1 .. Len(deferred) - 1
      /\ \A n \in 1 .. Len(deferred) - 1 : rest[n] = deferred[n + 1]
  <2>1. /\ Len(rest) = Len(deferred) - 1 /\ rest \in Seq(Tasks)
        /\ \A n \in 1 .. Len(rest) : rest[n] = deferred[n + 1]
    BY <1>2, Known, HeadTailProperties
  <2>2. DOMAIN rest = 1 .. Len(rest)
    BY <2>1, LenProperties
  <2> QED BY <1>2, <2>1, <2>2, Known, EmptySeq
<1> HIDE DEF first, rest
<1>6. \A c \in Drainers \ {d} : Work(c)' = Work(c)
  BY <1>1, <1>2 DEF Work, CallsTypeOK
<1>7. Work(d)' = first /\ Work(d) = ran[d]
  <2>1. first \o <<>> = first /\ ran[d] \o <<>> = ran[d]
    BY <1>3, Known, ConcatEmptySeq
  <2> QED BY <1>1, <1>2, <2>1 DEF Work, CallsTypeOK
<1>8. /\ InOrder(first) /\ InOrder(rest) /\ Before(first, rest)
      /\ Placed(first) /\ Placed(rest)
  <2>1. InOrder(ran[d] \o deferred) /\ Placed(ran[d] \o deferred)
    BY <1>1, <1>7, Known, InOrderConcat, PlacedConcat DEF LinesInOrder
  <2> QED BY <1>3, <2>1, InOrderConcat, PlacedConcat
<1>9. \A c \in Drainers : Before(Work(c), rest)
  <2> DEFINE f == [n \in 1 .. Len(deferred) - 1 |-> n + 1]
  <2>1. /\ f \in [DOMAIN rest -> DOMAIN deferred]
        /\ \A n \in DOMAIN rest : rest[n] = deferred[f[n]]
        /\ \A m, n \in DOMAIN rest : m < n => f[m] < f[n]
    BY <1>5, Known
  <2> HIDE DEF f
  <2> QED BY <1>1, <2>1, Thinned DEF LinesInOrder
<1>10. CallsTypeOK'
  <2>1. keyAt' \in [Keys -> 0 .. MaxTasks]
    BY <1>1, <1>2, BoundsAssumption DEF CallsTypeOK
  <2>2. ran' \in [Drainers -> Seq(Tasks)]
    BY <1>1, <1>2, <1>3 DEF CallsTypeOK
  <2>3. stale' \in BOOLEAN
    BY <1>2
  <2> QED BY <1>1, <1>2, <1>3, <2>1, <2>2, <2>3 DEF CallsTypeOK
<1>11. KeysExact'
  <2> SUFFICES ASSUME ~stale' PROVE KeysExact'
    BY DEF KeysExact
  <2>1. ~stale /\ \A k \in Keys : keyAt[k] # 1
    BY <1>2
  <2>2. /\ \A k \in Keys : keyAt[k] # 0 =>
              keyAt[k] <= Len(deferred) /\ deferred[keyAt[k]].key = k
        /\ \A n \in DOMAIN deferred : deferred[n].key # NoKey => keyAt[deferred[n].key] = n
    BY <1>1, <2>1 DEF KeysExact
  <2>3. keyAt \in [Keys -> 0 .. MaxTasks]
    BY <1>1 DEF CallsTypeOK
  <2>4. ASSUME NEW k \in Keys, keyAt'[k] # 0
        PROVE  keyAt'[k] <= Len(deferred') /\ deferred'[keyAt'[k]].key = k
    <3>1. keyAt[k] > 1 /\ keyAt'[k] = keyAt[k] - 1
      BY <1>2, <2>1, <2>3, <2>4, BoundsAssumption
    <3>2. keyAt[k] - 1 \in 1 .. Len(deferred) - 1
      BY <1>5, <2>2, <2>3, <3>1
    <3>3. deferred'[keyAt[k] - 1] = deferred[keyAt[k]]
      BY <1>2, <1>5, <2>3, <3>1, <3>2
    <3> QED BY <1>2, <1>5, <2>2, <3>1, <3>2, <3>3
  <2>5. ASSUME NEW n \in DOMAIN deferred', deferred'[n].key # NoKey
        PROVE  keyAt'[deferred'[n].key] = n
    <3>1. n \in 1 .. Len(deferred) - 1 /\ n + 1 \in DOMAIN deferred /\ deferred'[n] = deferred[n + 1]
      BY <1>2, <1>5, Known
    <3>2. deferred[n + 1].key \in Keys /\ keyAt[deferred[n + 1].key] = n + 1
      BY <2>2, <2>5, <3>1, Known DEF Tasks
    <3> QED BY <1>2, <1>5, <3>1, <3>2
  <2> QED BY <2>4, <2>5 DEF KeysExact
<1>12. LinesInOrder'
  <2>1. InOrder(deferred') /\ Placed(deferred)' /\ Len(deferred') <= places'
    <3>1. Len(rest) <= places
      BY <1>1, <1>5, Known DEF LinesInOrder
    <3> QED BY <1>2, <1>8, <3>1 DEF Placed
  <2>2. ASSUME NEW c \in Drainers
        PROVE  InOrder(Work(c)') /\ Placed(Work(c))' /\ Before(Work(c)', deferred')
    <3>1. InOrder(Work(c)') /\ Placed(Work(c)') /\ Before(Work(c)', deferred')
      BY <1>1, <1>2, <1>6, <1>7, <1>8, <1>9 DEF LinesInOrder
    <3> QED BY <1>2, <3>1 DEF Placed
  <2> QED BY <2>1, <2>2 DEF LinesInOrder
<1>13. \A c \in Drainers : Nums(Work(c)) \cap Nums(deferred) = {}
  BY <1>1 DEF LinesInOrder, Before, Nums
<1>14. WorkApart'
  BY <1>1, <1>3, <1>4, <1>6, <1>7, <1>13 DEF WorkApart
<1>15. HeldOrGone'
  <2>1. Nums(Work(d)') \cup Nums(deferred') = Nums(Work(d)) \cup Nums(deferred)
    BY <1>2, <1>3, <1>4, <1>7
  <2>2. \A c \in Drainers \ {d} : Nums(Work(c)') = Nums(Work(c))
    BY <1>6
  <2>3. /\ Held = Nums(deferred) \cup UNION {Nums(Work(c)) : c \in Drainers}
        /\ Held' = Nums(deferred') \cup UNION {Nums(Work(c)') : c \in Drainers}
    BY DEF Held
  <2>4. /\ Held = Nums(deferred) \cup Nums(Work(d))
                    \cup UNION {Nums(Work(c)) : c \in Drainers \ {d}}
        /\ Held' = Nums(deferred') \cup Nums(Work(d)')
                     \cup UNION {Nums(Work(c)') : c \in Drainers \ {d}}
    BY <2>3
  <2>5. Held' = Held
    BY <2>1, <2>2, <2>4
  <2> QED BY <1>1, <1>2, <2>5 DEF HeldOrGone
<1> QED BY <1>10, <1>11, <1>12, <1>14, <1>15 DEF CallsIInv

LEMMA NextInv == CallsIInv /\ [CallsNext]_callVars => CallsIInv'
<1> SUFFICES ASSUME CallsIInv, [CallsNext]_callVars PROVE CallsIInv'
  OBVIOUS
<1>1. CASE UNCHANGED callVars
  <2>1. \A d \in Drainers : Work(d)' = Work(d)
    BY <1>1 DEF Work, callVars
  <2>2. Held' = Held
    BY <1>1, <2>1 DEF Held, callVars
  <2> QED BY <1>1, <2>1, <2>2 DEF callVars, CallsIInv, CallsTypeOK, KeysExact,
                                  LinesInOrder, Placed, WorkApart, HeldOrGone
<1>2. CASE Push \/ Clear
  BY <1>2, PushInv, ClearInv
<1>3. ASSUME NEW k \in Keys, CoalesceNew(k) \/ CoalesceReplace(k) \/ Cancel(k)
      PROVE  CallsIInv'
  BY <1>3, CoalesceInv, ReplaceInv, CancelInv
<1>4. ASSUME NEW d \in Drainers, TakeAll(d) \/ RunNext(d) \/ RunThrows(d) \/ DrainOne(d)
      PROVE  CallsIInv'
  BY <1>4, TakeAllInv, RunNextInv, RunThrowsInv, DrainOneInv
<1> QED BY <1>1, <1>2, <1>3, <1>4 DEF CallsNext
-----------------------------------------------------------------------------
\* The coalesce map leads every key to its own task and every keyed task has
\* its key in the map, and the lines of tasks stay in order and apart.
THEOREM CallsInvariant == CallsSpec => []CallsIInv
BY CallsInitInv, NextInv, PTL DEF CallsSpec

\* No task given to the queue is lost or run twice: it waits, was run by one
\* drainer, or was cancelled, replaced, cleared or dropped by a throwing task.
THEOREM NoTaskLost == CallsSpec => []Accounted
<1>1. ASSUME CallsIInv PROVE Accounted
  <2> DEFINE waiting == Nums(deferred) \cup UNION {Nums(batch[d]) : d \in Drainers}
             done    == UNION {Nums(ran[d]) : d \in Drainers}
  <2>1. LinesInOrder /\ WorkApart /\ HeldOrGone
    BY <1>1 DEF CallsIInv
  <2>2. ASSUME NEW d \in Drainers
        PROVE  /\ Nums(Work(d)) = Nums(ran[d]) \cup Nums(batch[d])
               /\ InOrder(ran[d]) /\ Before(ran[d], batch[d])
               /\ Nums(Work(d)) \cap Nums(deferred) = {}
    <3>1. /\ Nums(Work(d)) = Nums(ran[d]) \cup Nums(batch[d])
          /\ InOrder(ran[d]) /\ Before(ran[d], batch[d])
      BY <1>1, <2>1, Known, NumsOfConcat, InOrderConcat DEF Work, LinesInOrder
    <3>2. Nums(Work(d)) \cap Nums(deferred) = {}
      BY <2>1 DEF LinesInOrder, Before, Nums
    <3> QED BY <3>1, <3>2
  <2>3. waiting \cup done = Held
    BY <2>2 DEF Held
  <2>4. ASSUME NEW c \in Drainers, NEW d \in Drainers PROVE Nums(ran[c]) \cap Nums(batch[d]) = {}
    <3>1. CASE c = d
      BY <2>2, <3>1 DEF Before, Nums
    <3>2. CASE c # d
      BY <2>1, <2>2, <3>2 DEF WorkApart
    <3> QED BY <3>1, <3>2
  <2>5. waiting \cap done = {}
    BY <2>2, <2>4
  <2>6. \A c, d \in Drainers : c # d => Nums(ran[c]) \cap Nums(ran[d]) = {}
    BY <2>1, <2>2 DEF WorkApart
  <2>7. ASSUME NEW d \in Drainers PROVE IsInjective(ran[d])
    BY <1>1, <2>2, Known, InOrderDistinct DEF IsInjective
  <2> QED BY <2>1, <2>3, <2>5, <2>6, <2>7 DEF Accounted, HeldOrGone
<1> QED BY <1>1, CallsInvariant, PTL

\* Tasks run first in, first out: a drainer never runs a task whose place was
\* given out before that of a task it has run.
THEOREM FirstInFirstRun == CallsSpec => []RunInOrder
<1>1. ASSUME CallsIInv PROVE RunInOrder
  <2>1. \A d \in Drainers : InOrder(ran[d])
    BY <1>1, Known, InOrderConcat DEF CallsIInv, LinesInOrder, Work
  <2> QED BY <2>1 DEF RunInOrder, InOrder
<1> QED BY <1>1, CallsInvariant, PTL
===============================================================================
