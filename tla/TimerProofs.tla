----------------------------- MODULE TimerProofs ------------------------------
(***************************************************************************)
(* Proofs about TimerWheel, for wheels of any size and any delays: its     *)
(* slots are exact, and a timer fires in the tick it is due in.  And about *)
(* DelayedCall for any number of callers, objects and tasks: IInv is       *)
(* inductive, and from it, that no timer thread is replaced before it is   *)
(* joined, that a cancel in time holds, and that a task starts once unless *)
(* a reschedule missed that it fired.                                      *)
(***************************************************************************)
EXTENDS DelayedCall, TimerWheel, ListProofs

(***************************************************************************)
(* The timer wheel: whole turns, and what is left over.                    *)
(***************************************************************************)

\* Whole turns and what is left over.
LEMMA Divided ==
    ASSUME NEW a \in Nat, NEW n \in Nat \ {0}
    PROVE  /\ a \div n \in Nat /\ a % n \in 0 .. n - 1
           /\ a = (a \div n) * n + (a % n)
OBVIOUS

\* They are the only ones.
LEMMA Turned ==
    ASSUME NEW q \in Nat, NEW n \in Nat \ {0}, NEW r \in 0 .. n - 1
    PROVE  (q * n + r) % n = r
OBVIOUS

\* What the provers have to be told about products.
LEMMA Products ==
    ASSUME NEW a \in Nat, NEW b \in Nat, NEW n \in Nat \ {0}
    PROVE  /\ a * n \in Nat /\ (a + b) * n = a * n + b * n
           /\ (a + 1) * n = a * n + n
           /\ a < b => a * n + n <= b * n
OBVIOUS

\* Whole turns more leave the same over.
LEMMA WholeTurns ==
    ASSUME NEW c \in Nat, NEW k \in Nat, NEW n \in Nat \ {0}
    PROVE  (c + k * n) % n = c % n
<1> DEFINE q == c \div n
           r == c % n
<1>1. q \in Nat /\ r \in 0 .. n - 1 /\ c = q * n + r
  BY Divided
<1> HIDE DEF q, r
<1>2. (q + k) * n = q * n + k * n /\ q * n \in Nat /\ k * n \in Nat
  BY <1>1, Products
<1>3. c + k * n = (q + k) * n + r
  BY <1>1, <1>2
<1>4. ((q + k) * n + r) % n = r
  BY <1>1, Turned
<1> QED
  BY <1>3, <1>4 DEF r

\* The remainder of a sum.
LEMMA SumLeft ==
    ASSUME NEW a \in Nat, NEW b \in Nat, NEW n \in Nat \ {0}
    PROVE  (a + b) % n = ((a % n) + (b % n)) % n
<1> DEFINE q == a \div n
           r == a % n
           p == b \div n
           s == b % n
<1>1. q \in Nat /\ r \in 0 .. n - 1 /\ a = q * n + r
  BY Divided
<1>2. p \in Nat /\ s \in 0 .. n - 1 /\ b = p * n + s
  BY Divided
<1> HIDE DEF q, r, p, s
<1>3. (q + p) * n = q * n + p * n /\ q * n \in Nat /\ p * n \in Nat
  BY <1>1, <1>2, Products
<1>4. a + b = (r + s) + (q + p) * n
  BY <1>1, <1>2, <1>3
<1>5. ((r + s) + (q + p) * n) % n = (r + s) % n
  <2>1. r + s \in Nat /\ q + p \in Nat
    BY <1>1, <1>2
  <2> QED
    BY <2>1, WholeTurns
<1> QED
  BY <1>4, <1>5 DEF r, s

\* Tick d is in the slot of tick c, and k turns of n slots after it.
TurnsLater(k, c, d, n) == d % n = c % n /\ c + k * n <= d /\ d < c + (k + 1) * n

\* Two ticks of the same slot are whole turns apart.
LEMMA SameSlot ==
    ASSUME NEW c \in Nat, NEW d \in Nat, NEW k \in Nat, NEW n \in Nat \ {0},
           TurnsLater(k, c, d, n)
    PROVE  d = c + k * n
<1> USE DEF TurnsLater
<1> DEFINE q == c \div n
           r == c % n
           p == d \div n
<1>1. q \in Nat /\ r \in 0 .. n - 1 /\ c = q * n + r
  BY Divided
<1>2. p \in Nat /\ d = p * n + r
  BY Divided
<1> HIDE DEF q, r, p
<1>3. /\ (q + k) * n = q * n + k * n
      /\ (q + k + 1) * n = q * n + (k + 1) * n
  BY <1>1, <1>2, Products
<1>4. /\ q * n \in Nat /\ p * n \in Nat /\ k * n \in Nat /\ (k + 1) * n \in Nat
  BY <1>1, <1>2, Products
<1>5. (q + k) * n <= p * n /\ p * n < (q + k + 1) * n
  BY <1>1, <1>2, <1>3, <1>4
<1>6. ~(p < q + k) /\ ~(q + k < p)
  <2>1. p < q + k => p * n + n <= (q + k) * n
    BY <1>1, <1>2, Products
  <2>2. q + k < p => (q + k) * n + n <= p * n
    BY <1>1, <1>2, Products
  <2>3. (q + k + 1) * n = (q + k) * n + n
    BY <1>1, Products
  <2> QED
    BY <2>1, <2>2, <2>3, <1>1, <1>2, <1>3, <1>4, <1>5
<1>7. p = q + k
  BY <1>1, <1>2, <1>6
<1> QED
  BY <1>1, <1>2, <1>3, <1>4, <1>7

-------------------------------------------------------------------------------
\* TicksToWait is at least one.
LEMMA Waits ==
    ASSUME NEW delay \in Nat
    PROVE  TicksToWait(delay) - 1 \in Nat
<1> DEFINE a == delay + Resolution - 1
<1>1. CASE delay = 0
  BY <1>1 DEF TicksToWait
<1>2. CASE delay # 0
  <2>1. Resolution \in Nat \ {0} /\ a \in Nat /\ a >= Resolution
    BY <1>2, WheelAssumption
  <2>2. a = (a \div Resolution) * Resolution + (a % Resolution)
    BY <2>1, Divided
  <2>3. a \div Resolution \in Nat /\ a % Resolution \in 0 .. Resolution - 1
    BY <2>1, Divided
  <2> HIDE DEF a
  <2>4. a \div Resolution # 0
    <3>1. SUFFICES ASSUME a \div Resolution = 0 PROVE FALSE
      OBVIOUS
    <3>2. a = a % Resolution
      BY <2>1, <2>2, <2>3, <3>1
    <3> QED
      BY <2>1, <2>3, <3>2
  <2>5. (a \div Resolution) - 1 \in Nat
    BY <2>3, <2>4
  <2>6. TicksToWait(delay) = a \div Resolution
    BY <1>2 DEF TicksToWait, a
  <2> QED
    BY <2>5, <2>6
<1> QED
  BY <1>1, <1>2

\* Where calculatePlacement puts a timer leads to the tick it is to fire in.
LEMMA Placed ==
    ASSUME NEW delay \in Nat, current \in Nat, ticking \in BOOLEAN
    PROVE  LET turns == RoundsFor(delay)
                          + IF ticking /\ SlotFor(delay) = Slot THEN 1 ELSE 0
           IN  /\ SlotFor(delay) \in Slots /\ RoundsFor(delay) \in Nat
               /\ DueFor(delay) \in Nat /\ turns \in Nat
               /\ DueFor(delay) % Size = SlotFor(delay)
               /\ current + turns * Size <= DueFor(delay)
               /\ DueFor(delay) < current + (turns + 1) * Size
<1> DEFINE n     == TicksToWait(delay) - 1
           q     == n \div Size
           r     == n % Size
           again == ticking /\ r = 0
           turns == q + IF again THEN 1 ELSE 0
<1>1. Size \in Nat \ {0} /\ n \in Nat
  BY WheelAssumption, Waits
<1>2. q \in Nat /\ r \in 0 .. Size - 1 /\ n = q * Size + r
  BY <1>1, Divided
<1>3. Slot \in 0 .. Size - 1
  BY <1>1, Divided DEF Slot
<1>4. /\ SlotFor(delay) = (Slot + r) % Size
      /\ RoundsFor(delay) = q
      /\ DueFor(delay) = current + n + (IF again THEN Size ELSE 0)
  BY DEF SlotFor, RoundsFor, DueFor, Slot
<1> HIDE DEF n, q, r
<1>5. (Slot + r) % Size \in Slots
  <2>1. Slot + r \in Nat
    BY <1>2, <1>3
  <2> QED
    BY <1>1, <2>1, Divided DEF Slots
<1>6. DueFor(delay) \in Nat
  BY <1>1, <1>4
<1>7. (current + n) % Size = (Slot + r) % Size
  BY <1>1, SumLeft DEF Slot, r
<1>8. DueFor(delay) % Size = SlotFor(delay)
  <2>1. CASE ~again
    BY <1>1, <1>4, <1>7, <2>1
  <2>2. CASE again
    <3>1. current + n \in Nat /\ 1 * Size = Size
      BY <1>1
    <3>2. (current + n + 1 * Size) % Size = (current + n) % Size
      BY <1>1, <3>1, WholeTurns
    <3>3. DueFor(delay) = current + n + 1 * Size
      BY <1>4, <2>2, <3>1
    <3> QED
      BY <1>4, <1>7, <3>2, <3>3
  <2> QED
    BY <2>1, <2>2
<1>9. (SlotFor(delay) = Slot) <=> (r = 0)
  <2>1. Slot < Size /\ Slot \in Nat /\ r \in Nat /\ r < Size /\ Size \in Nat
    BY <1>1, <1>2, <1>3
  <2>2. CASE Slot + r < Size
    <3>1. (0 * Size + (Slot + r)) % Size = Slot + r
      BY <1>1, <2>1, <2>2, Turned
    <3>2. 0 * Size + (Slot + r) = Slot + r
      BY <2>1
    <3>3. (Slot + r) % Size = Slot + r
      BY <3>1, <3>2
    <3> QED
      BY <1>4, <2>1, <3>3
  <2>3. CASE Slot + r >= Size
    <3> DEFINE x == Slot + r - Size
    <3>1. x \in 0 .. Size - 1
      BY <2>1, <2>3
    <3>2. (1 * Size + x) % Size = x
      BY <1>1, <3>1, Turned
    <3>3. 1 * Size + x = Slot + r
      BY <2>1, <2>3
    <3>4. (Slot + r) % Size = Slot + r - Size
      BY <3>2, <3>3
    <3> HIDE DEF x
    <3> QED
      BY <1>4, <2>1, <2>3, <3>4
  <2> QED
    BY <2>1, <2>2, <2>3
<1>10. /\ turns \in Nat
       /\ current + turns * Size <= DueFor(delay)
       /\ DueFor(delay) < current + (turns + 1) * Size
  <2>1. /\ (q + 1) * Size = q * Size + Size
        /\ (q + 1 + 1) * Size = (q + 1) * Size + Size
        /\ q * Size \in Nat
    BY <1>1, <1>2, Products
  <2>2. CASE ~again
    <3>1. turns = q /\ DueFor(delay) = current + n
      BY <1>1, <1>2, <1>4, <2>2
    <3> HIDE DEF turns
    <3> QED
      BY <1>1, <1>2, <2>1, <3>1
  <2>3. CASE again
    <3>1. turns = q + 1 /\ DueFor(delay) = current + n + Size
      BY <1>1, <1>2, <1>4, <2>3
    <3> HIDE DEF turns
    <3> QED
      BY <1>1, <1>2, <2>1, <3>1
  <2> QED
    BY <2>2, <2>3
<1>11. turns = RoundsFor(delay) + IF ticking /\ SlotFor(delay) = Slot THEN 1 ELSE 0
  BY <1>4, <1>9
<1> HIDE DEF turns
<1> QED
  BY <1>2, <1>4, <1>5, <1>6, <1>8, <1>10, <1>11
-------------------------------------------------------------------------------
(***************************************************************************)
(* The slots.                                                              *)
(***************************************************************************)

\* Every slot lists members of S, none twice.
Lined(w, S) == w \in [Slots -> Seq(S)] /\ \A t \in Slots : IsInjective(w[t])

LEMMA LinedWidened ==
    ASSUME NEW S, NEW T, S \subseteq T, NEW w, Lined(w, S)
    PROVE  Lined(w, T)
<1>1. \A t \in Slots : w[t] \in Seq(T)
  BY Widened DEF Lined
<1> QED
  BY <1>1 DEF Lined

Gain(w, s, id) == [w EXCEPT ![s] = <<id>> \o @]
Lose(w, s, id) == [w EXCEPT ![s] = Skipping(@, {id})]

\* A timer put into one slot, and one taken out of a slot.
LEMMA SlotGains ==
    ASSUME NEW S, NEW w, Lined(w, S), NEW s \in Slots, NEW id \in S, id \notin ToSet(w[s])
    PROVE  /\ Lined(Gain(w, s, id), S)
           /\ \A t \in Slots : ToSet(Gain(w, s, id)[t]) = ToSet(w[t]) \cup (IF t = s THEN {id} ELSE {})
<1> DEFINE longer == <<id>> \o w[s]
           w2     == [w EXCEPT ![s] = longer]
<1>1. w \in [Slots -> Seq(S)] /\ w[s] \in Seq(S) /\ IsInjective(w[s])
  BY DEF Lined
<1>2. /\ longer \in Seq(S) /\ IsInjective(longer)
      /\ ToSet(longer) = ToSet(w[s]) \cup {id}
  BY <1>1, Prepended
<1> HIDE DEF longer
<1>3. /\ Lined(w2, S)
      /\ \A t \in Slots : ToSet(w2[t]) = ToSet(w[t]) \cup (IF t = s THEN {id} ELSE {})
  BY <1>1, <1>2 DEF Lined
<1> QED
  BY <1>3 DEF longer, Gain

LEMMA SlotLoses ==
    ASSUME NEW S, NEW w, Lined(w, S), NEW s \in Slots, NEW id
    PROVE  /\ Lined(Lose(w, s, id), S)
           /\ \A t \in Slots : ToSet(Lose(w, s, id)[t]) = ToSet(w[t]) \ (IF t = s THEN {id} ELSE {})
<1> DEFINE shorter == Skipping(w[s], {id})
           w2      == [w EXCEPT ![s] = shorter]
<1>1. w \in [Slots -> Seq(S)] /\ w[s] \in Seq(S) /\ IsInjective(w[s])
  BY DEF Lined
<1>2. /\ shorter \in Seq(S) /\ IsInjective(shorter)
      /\ ToSet(shorter) = ToSet(w[s]) \ {id}
  BY <1>1, Skipped
<1> HIDE DEF shorter
<1>3. /\ Lined(w2, S)
      /\ \A t \in Slots : ToSet(w2[t]) = ToSet(w[t]) \ (IF t = s THEN {id} ELSE {})
  BY <1>1, <1>2 DEF Lined
<1> QED
  BY <1>3 DEF shorter, Lose

\* The slot under way is a slot.
LEMMA SlotType == current \in Nat => Slot \in Slots
<1> SUFFICES ASSUME current \in Nat PROVE Slot \in Slots
  OBVIOUS
<1> QED
  BY WheelAssumption, Divided DEF Slot, Slots
-------------------------------------------------------------------------------
(***************************************************************************)
(* The invariant, an action at a time.                                     *)
(***************************************************************************)

LEMMA WheelInitInv == WheelInit => WheelExact
<1> SUFFICES ASSUME WheelInit PROVE WheelExact
  OBVIOUS
<1>1. Scheduled = {} /\ Waiting = {}
  BY DEF WheelInit, Scheduled, Waiting, Drop
<1>2. \A s \in Slots : wheel[s] = <<>>
  BY DEF WheelInit
<1>3. IsInjective(<<>>) /\ ToSet(<<>>) = {}
  BY DEF IsInjective, ToSet
<1>4. WheelTypeOK
  <2>1. timers \in [Scheduled -> Timers] /\ due \in [Scheduled -> Nat]
    BY <1>1 DEF WheelInit, Scheduled, Drop
  <2>2. wheel \in [Slots -> Seq(0 .. nextId - 1)] /\ copy \in Seq(0 .. nextId - 1)
    BY DEF WheelInit
  <2> QED
    BY <1>1, <2>1, <2>2, BoundAssumption DEF WheelInit, WheelTypeOK
<1>5. SlotsExact
  BY <1>1, <1>2, <1>3 DEF SlotsExact
<1>6. CopyExact
  BY <1>3 DEF WheelInit, CopyExact
<1>7. DueExact
  BY <1>1 DEF DueExact
<1> QED
  BY <1>4, <1>5, <1>6, <1>7 DEF WheelExact

\* A timer that stays as it is, in a step that neither ticks nor touches the
\* copy, is still in time.
LEMMA StaysInTime ==
    ASSUME NEW id, InTime(id), UNCHANGED <<current, ticking, copy>>,
           timers'[id] = timers[id], due'[id] = due[id]
    PROVE  InTime(id)'
BY DEF InTime, Turns, OverFor, Slot

\* One that has just been placed is, unless it is in the copy.
LEMMA PlacedInTime ==
    ASSUME NEW id, NEW delay \in Nat, current \in Nat, ticking \in BOOLEAN,
           UNCHANGED <<current, ticking, copy>>, id \notin ToSet(copy),
           timers'[id].rounds = RoundsFor(delay), timers'[id].slot = SlotFor(delay),
           due'[id] = DueFor(delay)
    PROVE  InTime(id)'
<1>1. OverFor(id)' = (ticking /\ SlotFor(delay) = Slot)
  BY DEF OverFor, Slot
<1>2. Turns(id)' = RoundsFor(delay) + IF ticking /\ SlotFor(delay) = Slot THEN 1 ELSE 0
  BY <1>1 DEF Turns
<1> QED
  BY <1>2, Placed DEF InTime

\* addTimer.
LEMMA AddInv ==
    ASSUME WheelExact, NEW delay \in Delays, NEW type \in {"OneShot", "Periodic"},
           AddTimer(delay, type)
    PROVE  WheelExact'
<1> USE DEF WheelExact
<1> DEFINE interval == IF type = "OneShot" THEN 0 ELSE IF delay = 0 THEN Resolution ELSE delay
           rec == [type |-> type, interval |-> interval,
                   rounds |-> RoundsFor(delay), slot |-> SlotFor(delay)]
<1>1. /\ timers' = Put(timers, nextId, rec)
      /\ due' = Put(due, nextId, DueFor(delay))
  BY DEF AddTimer
<1>2. /\ nextId < MaxId /\ nextId' = nextId + 1
      /\ wheel' = [wheel EXCEPT ![SlotFor(delay)] = <<nextId>> \o @]
      /\ UNCHANGED <<current, ticking, copy, firing, corrupt>>
  BY DEF AddTimer
<1>3. /\ current \in Nat /\ ticking \in BOOLEAN /\ delay \in Nat
      /\ nextId \in Nat /\ interval \in Nat
  BY WheelAssumption, BoundAssumption DEF WheelTypeOK
<1>4. /\ SlotFor(delay) \in Slots /\ RoundsFor(delay) \in Nat /\ DueFor(delay) \in Nat
  BY <1>3, Placed
<1>5. 0 .. nextId - 1 \subseteq 0 .. nextId' - 1 /\ nextId \in 0 .. nextId' - 1
  BY <1>2, <1>3
<1>6. /\ nextId \notin Scheduled /\ nextId # firing
      /\ \A s \in Slots : nextId \notin ToSet(wheel[s])
  BY <1>2, <1>3, NoTimerAssumption, BoundAssumption
     DEF WheelTypeOK, SlotsExact, Waiting
<1>7. nextId \notin ToSet(copy)
  <2>1. \A i \in DOMAIN copy : copy[i] \in 0 .. nextId - 1
    BY LenProperties DEF WheelTypeOK
  <2> QED
    BY <2>1, <1>3 DEF ToSet
<1>8. rec \in Timers
  BY <1>3, <1>4 DEF Timers
<1> HIDE DEF rec, interval
<1>9. /\ Scheduled' = Scheduled \cup {nextId}
      /\ Waiting' = Waiting \cup {nextId}
  BY <1>1, <1>2, <1>6 DEF Scheduled, Waiting, Put
<1>10. /\ timers'[nextId] = rec /\ due'[nextId] = DueFor(delay)
       /\ \A id \in Scheduled : timers'[id] = timers[id] /\ due'[id] = due[id]
  BY <1>1, <1>6 DEF Put, WheelTypeOK, Scheduled
<1>11. /\ Lined(wheel', 0 .. nextId' - 1)
       /\ \A t \in Slots : ToSet(wheel'[t]) = ToSet(wheel[t])
                              \cup (IF t = SlotFor(delay) THEN {nextId} ELSE {})
  <2> DEFINE S == 0 .. nextId - 1
             T == 0 .. nextId' - 1
             W == wheel'
  <2>1. Lined(wheel, S) /\ S \subseteq T /\ nextId \in T
    BY <1>5 DEF Lined, SlotsExact, WheelTypeOK
  <2>2. W = Gain(wheel, SlotFor(delay), nextId)
    BY <1>2 DEF Gain
  <2> HIDE DEF S, T, W
  <2>3. Lined(wheel, T)
    BY <2>1, LinedWidened
  <2>4. nextId \notin ToSet(wheel[SlotFor(delay)])
    BY <1>4, <1>6
  <2>5. /\ Lined(W, T)
        /\ \A t \in Slots : ToSet(W[t]) = ToSet(wheel[t])
                               \cup (IF t = SlotFor(delay) THEN {nextId} ELSE {})
    BY <1>4, <2>1, <2>2, <2>3, <2>4, SlotGains
  <2> QED
    BY <2>5 DEF T, W
<1>12. WheelTypeOK'
  <2>1. copy' \in Seq(0 .. nextId' - 1)
    BY <1>2, <1>5, Widened DEF WheelTypeOK
  <2>2. timers' \in [Scheduled' -> Timers]
    BY <1>1, <1>8, <1>9 DEF WheelTypeOK, Put, Scheduled
  <2>3. due' \in [Scheduled' -> Nat]
    BY <1>1, <1>4, <1>9 DEF WheelTypeOK, Put, Scheduled
  <2>4. nextId' \in 0 .. MaxId /\ Scheduled' \subseteq 0 .. nextId' - 1
    BY <1>2, <1>3, <1>5, <1>9, BoundAssumption DEF WheelTypeOK
  <2>5. firing' \in 0 .. nextId' - 1 \cup {NoTimer}
    BY <1>2, <1>5 DEF WheelTypeOK
  <2> QED
    BY <1>2, <1>11, <2>1, <2>2, <2>3, <2>4, <2>5 DEF WheelTypeOK, Lined
<1>13. SlotsExact'
  <2>1. timers'[nextId].slot = SlotFor(delay)
    BY <1>10 DEF rec
  <2>2. \A id \in Waiting : timers'[id].slot = timers[id].slot
    BY <1>10 DEF Waiting
  <2> QED
    BY <1>9, <1>11, <2>1, <2>2 DEF SlotsExact, Lined
<1>14. CopyExact'
  BY <1>2 DEF CopyExact
<1>15. DueExact'
  <2>1. ASSUME NEW id \in Waiting PROVE InTime(id)'
    BY <1>2, <1>10, <2>1, StaysInTime DEF DueExact, Waiting
  <2>2. ASSUME NEW id, id = nextId PROVE InTime(id)'
    <3>1. /\ timers'[id].rounds = RoundsFor(delay) /\ timers'[id].slot = SlotFor(delay)
          /\ due'[id] = DueFor(delay) /\ id \notin ToSet(copy)
      BY <1>7, <1>10, <2>2 DEF rec
    <3> QED
      BY <1>2, <1>3, <3>1, PlacedInTime
  <2> QED
    BY <1>9, <2>1, <2>2 DEF DueExact
<1> QED
  BY <1>12, <1>13, <1>14, <1>15

\* A timer erased from timers_ leaves the others as they are.
LEMMA Dropped ==
    ASSUME WheelTypeOK, NEW id, timers' = Drop(timers, id), due' = Drop(due, id)
    PROVE  /\ Scheduled' = Scheduled \ {id}
           /\ timers' \in [Scheduled' -> Timers] /\ due' \in [Scheduled' -> Nat]
           /\ \A i \in Scheduled' : timers'[i] = timers[i] /\ due'[i] = due[i]
<1>1. timers \in [Scheduled -> Timers] /\ due \in [Scheduled -> Nat]
  BY DEF WheelTypeOK
<1>2. /\ DOMAIN timers' = DOMAIN timers \ {id}
      /\ \A i \in DOMAIN timers \ {id} : timers'[i] = timers[i]
  BY DEF Drop
<1>3. Scheduled' = Scheduled \ {id}
  BY <1>2 DEF Scheduled
<1>4. timers' \in [Scheduled \ {id} -> Timers]
  BY <1>1 DEF Drop
<1>5. due' \in [Scheduled \ {id} -> Nat] /\ \A i \in Scheduled \ {id} : due'[i] = due[i]
  BY <1>1 DEF Drop
<1>6. \A i \in Scheduled \ {id} : timers'[i] = timers[i]
  BY <1>2 DEF Scheduled
<1> QED
  BY <1>3, <1>4, <1>5, <1>6

\* cancelTimer.
LEMMA CancelInv ==
    ASSUME WheelExact, NEW id \in Scheduled, CancelTimer(id)
    PROVE  WheelExact'
<1> USE DEF WheelExact
<1> DEFINE s == timers[id].slot
<1>1. /\ id # firing /\ s \in Slots
      /\ timers' = Drop(timers, id) /\ due' = Drop(due, id)
      /\ UNCHANGED <<current, nextId, ticking, copy, firing, corrupt>>
  BY DEF CancelTimer, WheelTypeOK, Timers
<1>2. /\ Scheduled' = Scheduled \ {id} /\ Waiting' = Waiting \ {id}
      /\ timers' \in [Scheduled' -> Timers] /\ due' \in [Scheduled' -> Nat]
      /\ \A i \in Scheduled' : timers'[i] = timers[i] /\ due'[i] = due[i]
  <2>1. /\ Scheduled' = Scheduled \ {id}
        /\ timers' \in [Scheduled' -> Timers] /\ due' \in [Scheduled' -> Nat]
        /\ \A i \in Scheduled' : timers'[i] = timers[i] /\ due'[i] = due[i]
    BY <1>1, Dropped
  <2>2. Waiting' = Waiting \ {id}
    BY <1>1, <2>1 DEF Waiting
  <2> QED
    BY <2>1, <2>2
<1>3. /\ Lined(wheel', 0 .. nextId - 1)
      /\ \A t \in Slots : ToSet(wheel'[t]) = ToSet(wheel[t]) \ (IF t = s THEN {id} ELSE {})
  <2> DEFINE S == 0 .. nextId - 1
             W == wheel'
  <2>1. Lined(wheel, S)
    BY DEF Lined, SlotsExact, WheelTypeOK
  <2>2. W = Lose(wheel, s, id)
    BY DEF CancelTimer, Lose
  <2> HIDE DEF S, W, s
  <2>3. /\ Lined(W, S)
        /\ \A t \in Slots : ToSet(W[t]) = ToSet(wheel[t]) \ (IF t = s THEN {id} ELSE {})
    BY <1>1, <2>1, <2>2, SlotLoses
  <2> QED
    BY <2>3 DEF S, W
<1>4. WheelTypeOK'
  BY <1>1, <1>2, <1>3 DEF WheelTypeOK, Lined
<1>5. SlotsExact'
  <2> SUFFICES ASSUME NEW t \in Slots
               PROVE  /\ IsInjective(wheel'[t])
                      /\ ToSet(wheel'[t]) = {i \in Waiting' : timers'[i].slot = t}
    BY DEF SlotsExact
  <2>1. ToSet(wheel[t]) = {i \in Waiting : timers[i].slot = t}
    BY DEF SlotsExact
  <2>2. \A i \in Waiting' : i \in Waiting /\ i # id /\ timers'[i].slot = timers[i].slot
    BY <1>2 DEF Waiting
  <2>3. \A i \in Waiting : i # id => i \in Waiting'
    BY <1>2
  <2>4. ToSet(wheel'[t]) = ToSet(wheel[t]) \ (IF t = s THEN {id} ELSE {})
    BY <1>3
  <2>5. {i \in Waiting' : timers'[i].slot = t} = {i \in Waiting : timers[i].slot = t} \ {id}
    BY <2>2, <2>3
  <2>6. t # s => id \notin {i \in Waiting : timers[i].slot = t}
    OBVIOUS
  <2> HIDE DEF s
  <2>7. ToSet(wheel'[t]) = ToSet(wheel[t]) \ {id}
    BY <2>1, <2>4, <2>6
  <2> QED
    BY <1>3, <2>1, <2>5, <2>7 DEF Lined
<1>6. CopyExact'
  BY <1>1 DEF CopyExact
<1>7. DueExact'
  <2>1. ASSUME NEW i \in Waiting' PROVE InTime(i)'
    <3>1. i \in Waiting /\ timers'[i] = timers[i] /\ due'[i] = due[i]
      BY <1>2, <2>1 DEF Waiting
    <3> QED
      BY <1>1, <3>1, StaysInTime DEF DueExact
  <2> QED
    BY <2>1 DEF DueExact
<1> QED
  BY <1>4, <1>5, <1>6, <1>7

\* A timer cancelled by its own callback waits in no slot.
LEMMA CancelOwnInv == ASSUME WheelExact, CancelOwn PROVE WheelExact'
<1> USE DEF WheelExact
<1>1. /\ firing \in Scheduled /\ corrupt' \in BOOLEAN
      /\ timers' = Drop(timers, firing) /\ due' = Drop(due, firing)
      /\ UNCHANGED <<current, nextId, wheel, ticking, copy, firing>>
  BY DEF CancelOwn
<1>2. /\ Scheduled' = Scheduled \ {firing} /\ Waiting' = Waiting
      /\ timers' \in [Scheduled' -> Timers] /\ due' \in [Scheduled' -> Nat]
      /\ \A i \in Scheduled' : timers'[i] = timers[i] /\ due'[i] = due[i]
  <2>1. /\ Scheduled' = Scheduled \ {firing}
        /\ timers' \in [Scheduled' -> Timers] /\ due' \in [Scheduled' -> Nat]
        /\ \A i \in Scheduled' : timers'[i] = timers[i] /\ due'[i] = due[i]
    BY <1>1, Dropped
  <2>2. Waiting' = Waiting
    BY <1>1, <2>1 DEF Waiting
  <2> QED
    BY <2>1, <2>2
<1>3. WheelTypeOK'
  BY <1>1, <1>2 DEF WheelTypeOK
<1>4. \A i \in Waiting : timers'[i] = timers[i] /\ due'[i] = due[i]
  BY <1>2 DEF Waiting
<1>5. SlotsExact'
  BY <1>1, <1>2, <1>4 DEF SlotsExact
<1>6. CopyExact'
  BY <1>1 DEF CopyExact
<1>7. DueExact'
  <2>1. ASSUME NEW i \in Waiting PROVE InTime(i)'
    BY <1>1, <1>4, StaysInTime DEF DueExact
  <2> QED
    BY <1>2, <2>1 DEF DueExact
<1> QED
  BY <1>3, <1>5, <1>6, <1>7

\* tick copies its slot, and has all of it before it.
LEMMA StartTickInv == ASSUME WheelExact, StartTick PROVE WheelExact'
<1> USE DEF WheelExact
<1>1. /\ ~ticking /\ current < MaxTick /\ ticking' = TRUE /\ copy' = wheel[Slot]
      /\ UNCHANGED <<current, nextId, wheel, timers, firing, corrupt, due>>
  BY DEF StartTick
<1>2. Slot \in Slots
  BY SlotType DEF WheelTypeOK
<1>3. Scheduled' = Scheduled /\ Waiting' = Waiting
  BY <1>1 DEF Scheduled, Waiting
<1>4. WheelTypeOK'
  BY <1>1, <1>2, <1>3 DEF WheelTypeOK
<1>5. SlotsExact'
  BY <1>1, <1>3 DEF SlotsExact
<1>6. CopyExact'
  BY <1>1, <1>2, NoTimerAssumption DEF CopyExact, SlotsExact, Waiting
<1>7. DueExact'
  <2>1. ASSUME NEW i \in Waiting PROVE InTime(i)'
    <3>1. ~OverFor(i) /\ ~OverFor(i)'
      BY <1>1, <1>2 DEF OverFor, SlotsExact, Slot
    <3>2. Turns(i)' = Turns(i)
      BY <1>1, <3>1 DEF Turns
    <3> QED
      BY <1>1, <3>2 DEF DueExact, InTime
  <2> QED
    BY <1>3, <2>1 DEF DueExact
<1> QED
  BY <1>4, <1>5, <1>6, <1>7

\* The timer tick looks at next, and the copy without it.
LEMMA NextTaken ==
    ASSUME WheelExact, NEW id, TakeNext(id)
    PROVE  /\ id \in 0 .. nextId - 1 /\ id \in ToSet(copy) /\ id # NoTimer
           /\ copy' \in Seq(0 .. nextId - 1) /\ IsInjective(copy')
           /\ ToSet(copy') = ToSet(copy) \ {id}
           /\ ticking /\ firing = NoTimer /\ Waiting = Scheduled /\ current < MaxTick
<1> DEFINE S == 0 .. nextId - 1
<1>1. copy \in Seq(S) /\ IsInjective(copy) /\ copy # <<>>
  BY DEF WheelExact, WheelTypeOK, CopyExact, TakeNext
<1> HIDE DEF S
<1>2. /\ Head(copy) \in S /\ Head(copy) \in ToSet(copy)
      /\ Tail(copy) \in Seq(S) /\ IsInjective(Tail(copy))
      /\ ToSet(Tail(copy)) = ToSet(copy) \ {Head(copy)}
  BY <1>1, Shortened
<1>3. /\ id = Head(copy) /\ copy' = Tail(copy) /\ ticking /\ firing = NoTimer
      /\ current < MaxTick
  BY DEF TakeNext, WheelExact, CopyExact
<1>4. NoTimer \notin 0 .. nextId - 1
  BY NoTimerAssumption, BoundAssumption DEF WheelExact, WheelTypeOK
<1>5. Waiting = Scheduled
  BY <1>3, <1>4 DEF WheelExact, WheelTypeOK, Waiting
<1> QED
  BY <1>2, <1>3, <1>4, <1>5 DEF S

\* It goes past one that is no longer in the slot.
LEMMA PassInv == ASSUME WheelExact, NEW id, PassOver(id) PROVE WheelExact'
<1> USE DEF WheelExact
<1>1. /\ TakeNext(id) /\ ~Here(id)
      /\ UNCHANGED <<current, nextId, wheel, timers, ticking, firing, corrupt, due>>
  BY DEF PassOver
<1>2. /\ copy' \in Seq(0 .. nextId - 1) /\ IsInjective(copy')
      /\ ToSet(copy') = ToSet(copy) \ {id} /\ ticking /\ firing = NoTimer
  BY <1>1, NextTaken
<1>3. Scheduled' = Scheduled /\ Waiting' = Waiting
  BY <1>1 DEF Scheduled, Waiting
<1>4. WheelTypeOK'
  BY <1>1, <1>2, <1>3 DEF WheelTypeOK
<1>5. SlotsExact'
  BY <1>1, <1>3 DEF SlotsExact
<1>6. CopyExact'
  BY <1>1, <1>2 DEF CopyExact
<1>7. DueExact'
  <2>1. ASSUME NEW i \in Waiting PROVE InTime(i)'
    <3>1. OverFor(i)' = OverFor(i)
      BY <1>1, <1>2 DEF OverFor, Slot, Here, Waiting
    <3>2. Turns(i)' = Turns(i)
      BY <1>1, <3>1 DEF Turns
    <3> QED
      BY <1>1, <3>2 DEF DueExact, InTime
  <2> QED
    BY <1>3, <2>1 DEF DueExact
<1> QED
  BY <1>4, <1>5, <1>6, <1>7

\* It counts down one that has turns to wait: the tick is over for it instead.
LEMMA CountDownInv == ASSUME WheelExact, NEW id, CountDown(id) PROVE WheelExact'
<1> USE DEF WheelExact
<1>1. /\ TakeNext(id) /\ id \in Scheduled /\ timers[id].slot = Slot /\ timers[id].rounds > 0
      /\ timers' = [timers EXCEPT ![id].rounds = @ - 1]
      /\ UNCHANGED <<current, nextId, wheel, ticking, firing, corrupt, due>>
  BY DEF CountDown, Here
<1>2. /\ copy' \in Seq(0 .. nextId - 1) /\ IsInjective(copy') /\ id \in ToSet(copy)
      /\ ToSet(copy') = ToSet(copy) \ {id} /\ ticking /\ firing = NoTimer
  BY <1>1, NextTaken
<1>3. /\ timers \in [Scheduled -> Timers] /\ timers[id] \in Timers
      /\ timers[id].rounds \in Nat /\ timers[id].rounds - 1 \in Nat
  BY <1>1 DEF WheelTypeOK, Timers
<1>4. /\ timers' \in [Scheduled -> Timers]
      /\ \A i \in Scheduled : timers'[i].slot = timers[i].slot
      /\ \A i \in Scheduled : i # id => timers'[i] = timers[i]
      /\ timers'[id].rounds = timers[id].rounds - 1
  BY <1>1, <1>3 DEF Timers
<1>5. Scheduled' = Scheduled /\ Waiting' = Waiting
  BY <1>1, <1>4 DEF Scheduled, Waiting
<1>6. WheelTypeOK'
  BY <1>1, <1>2, <1>4, <1>5 DEF WheelTypeOK
<1>7. SlotsExact'
  BY <1>1, <1>4, <1>5 DEF SlotsExact, Waiting
<1>8. CopyExact'
  BY <1>1, <1>2 DEF CopyExact
<1>9. DueExact'
  <2>1. ASSUME NEW i \in Waiting PROVE InTime(i)'
    <3>1. CASE i # id
      <4>1. OverFor(i)' = OverFor(i)
        BY <1>1, <1>2, <1>4, <3>1 DEF OverFor, Slot, Waiting
      <4>2. Turns(i)' = Turns(i)
        BY <1>4, <3>1, <4>1 DEF Turns, Waiting
      <4> QED
        BY <1>1, <1>4, <4>2 DEF DueExact, InTime, Waiting
    <3>2. CASE i = id
      <4>1. ~OverFor(i) /\ OverFor(i)'
        BY <1>1, <1>2, <1>4, <3>2 DEF OverFor, Slot
      <4>2. Turns(i)' = Turns(i)
        BY <1>3, <1>4, <3>2, <4>1 DEF Turns
      <4> QED
        BY <1>1, <1>4, <4>2 DEF DueExact, InTime, Waiting
    <3> QED
      BY <3>1, <3>2
  <2> QED
    BY <1>5, <2>1 DEF DueExact
<1> QED
  BY <1>6, <1>7, <1>8, <1>9

\* What is left to fire: a timer taken out of the slot under way.
LEMMA FireInv == ASSUME WheelExact, NEW id, FireTimer(id) PROVE WheelExact'
<1> USE DEF WheelExact
<1>1. /\ TakeNext(id) /\ id \in Scheduled /\ timers[id].slot = Slot
      /\ wheel' = [wheel EXCEPT ![Slot] = Skipping(@, {id})]
      /\ firing' = id
      /\ UNCHANGED <<current, nextId, ticking, corrupt>>
  BY DEF FireTimer, Here
<1>2. /\ id \in 0 .. nextId - 1 /\ Waiting = Scheduled
      /\ copy' \in Seq(0 .. nextId - 1) /\ IsInjective(copy') /\ id \in ToSet(copy)
      /\ ToSet(copy') = ToSet(copy) \ {id} /\ ticking /\ firing = NoTimer
      /\ current < MaxTick
  BY <1>1, NextTaken
<1>3. /\ Scheduled' \subseteq Scheduled /\ Waiting' = Waiting \ {id}
      /\ timers' \in [Scheduled' -> Timers] /\ due' \in [Scheduled' -> Nat]
      /\ \A i \in Scheduled' : timers'[i] = timers[i] /\ due'[i] = due[i]
  <2>1. CASE timers' = Drop(timers, id) /\ due' = Drop(due, id)
    <3>1. /\ Scheduled' = Scheduled \ {id}
          /\ timers' \in [Scheduled' -> Timers] /\ due' \in [Scheduled' -> Nat]
          /\ \A i \in Scheduled' : timers'[i] = timers[i] /\ due'[i] = due[i]
      BY <2>1, Dropped
    <3>2. Waiting' = Waiting \ {id}
      BY <1>1, <1>2, <3>1 DEF Waiting
    <3> QED
      BY <3>1, <3>2
  <2>2. CASE UNCHANGED <<timers, due>>
    <3>1. Scheduled' = Scheduled
      BY <2>2 DEF Scheduled
    <3>2. Waiting' = Waiting \ {id}
      BY <1>1, <1>2, <3>1 DEF Waiting
    <3> QED
      BY <2>2, <3>1, <3>2 DEF WheelTypeOK
  <2> QED
    BY <2>1, <2>2 DEF FireTimer
<1>4. /\ Lined(wheel', 0 .. nextId - 1)
      /\ \A t \in Slots : ToSet(wheel'[t]) = ToSet(wheel[t]) \ (IF t = Slot THEN {id} ELSE {})
  <2> DEFINE S == 0 .. nextId - 1
             W == wheel'
  <2>1. Lined(wheel, S)
    BY DEF Lined, SlotsExact, WheelTypeOK
  <2>2. W = Lose(wheel, Slot, id)
    BY <1>1 DEF Lose
  <2>3. Slot \in Slots
    BY SlotType DEF WheelTypeOK
  <2> HIDE DEF S, W
  <2>4. /\ Lined(W, S)
        /\ \A t \in Slots : ToSet(W[t]) = ToSet(wheel[t]) \ (IF t = Slot THEN {id} ELSE {})
    BY <2>1, <2>2, <2>3, SlotLoses
  <2> QED
    BY <2>4 DEF S, W
<1>5. WheelTypeOK'
  BY <1>1, <1>2, <1>3, <1>4 DEF WheelTypeOK, Lined
<1>6. SlotsExact'
  <2> SUFFICES ASSUME NEW t \in Slots
               PROVE  /\ IsInjective(wheel'[t])
                      /\ ToSet(wheel'[t]) = {i \in Waiting' : timers'[i].slot = t}
    BY DEF SlotsExact
  <2>1. ToSet(wheel[t]) = {i \in Waiting : timers[i].slot = t}
    BY DEF SlotsExact
  <2>2. \A i \in Waiting' : i \in Waiting /\ i # id /\ timers'[i].slot = timers[i].slot
    BY <1>3 DEF Waiting
  <2>3. \A i \in Waiting : i # id => i \in Waiting'
    BY <1>3
  <2>4. {i \in Waiting' : timers'[i].slot = t} = {i \in Waiting : timers[i].slot = t} \ {id}
    BY <2>2, <2>3
  <2>5. t # Slot => id \notin {i \in Waiting : timers[i].slot = t}
    BY <1>1
  <2>6. ToSet(wheel'[t]) = ToSet(wheel[t]) \ {id}
    BY <1>4, <2>1, <2>5
  <2> QED
    BY <1>4, <2>1, <2>4, <2>6 DEF Lined
<1>7. CopyExact'
  BY <1>1, <1>2 DEF CopyExact
<1>8. DueExact'
  <2>1. ASSUME NEW i \in Waiting' PROVE InTime(i)'
    <3>1. i \in Waiting /\ i # id /\ timers'[i] = timers[i] /\ due'[i] = due[i]
      BY <1>3, <2>1 DEF Waiting
    <3>2. OverFor(i)' = OverFor(i)
      BY <1>1, <1>2, <3>1 DEF OverFor, Slot
    <3>3. Turns(i)' = Turns(i)
      BY <3>1, <3>2 DEF Turns
    <3> QED
      BY <1>1, <3>1, <3>3 DEF DueExact, InTime
  <2> QED
    BY <2>1 DEF DueExact
<1> QED
  BY <1>5, <1>6, <1>7, <1>8

\* A periodic timer is placed again, in the tick its callback ran in.
LEMMA EndCallbackInv == ASSUME WheelExact, EndCallback PROVE WheelExact'
<1> USE DEF WheelExact
<1>1. /\ firing # NoTimer /\ firing' = NoTimer
      /\ UNCHANGED <<current, nextId, ticking, copy, corrupt>>
  BY DEF EndCallback
<1>2. /\ firing \in 0 .. nextId - 1 /\ NoTimer \notin 0 .. nextId - 1
      /\ current \in Nat /\ ticking \in BOOLEAN /\ Scheduled \subseteq 0 .. nextId - 1
  BY <1>1, NoTimerAssumption, BoundAssumption DEF WheelTypeOK
<1>3. CopyExact'
  <2>1. NoTimer \notin ToSet(copy)
    <3>1. \A i \in DOMAIN copy : copy[i] \in 0 .. nextId - 1
      BY LenProperties DEF WheelTypeOK
    <3> QED
      BY <1>2, <3>1 DEF ToSet
  <2> QED
    BY <1>1, <2>1 DEF CopyExact
<1>4. CASE firing \notin Scheduled
  <2>1. UNCHANGED <<wheel, timers, due>>
    BY <1>4 DEF EndCallback
  <2>2. Scheduled' = Scheduled /\ Waiting' = Waiting
    BY <1>1, <1>2, <1>4, <2>1 DEF Scheduled, Waiting
  <2>3. WheelTypeOK'
    BY <1>1, <2>1, <2>2 DEF WheelTypeOK
  <2>4. SlotsExact'
    BY <2>1, <2>2 DEF SlotsExact
  <2>5. DueExact'
    <3>1. ASSUME NEW i \in Waiting PROVE InTime(i)'
      BY <1>1, <2>1, StaysInTime DEF DueExact
    <3> QED
      BY <2>2, <3>1 DEF DueExact
  <2> QED
    BY <1>3, <2>3, <2>4, <2>5
<1>5. CASE firing \in Scheduled
  <2> DEFINE delay == timers[firing].interval
             s     == SlotFor(delay)
  <2>1. /\ wheel' = [wheel EXCEPT ![s] = <<firing>> \o @]
        /\ timers' = [timers EXCEPT ![firing].slot = s, ![firing].rounds = RoundsFor(delay)]
        /\ due' = [due EXCEPT ![firing] = DueFor(delay)]
    BY <1>5 DEF EndCallback
  <2>2. timers \in [Scheduled -> Timers] /\ timers[firing] \in Timers /\ delay \in Nat
    BY <1>5 DEF WheelTypeOK, Timers
  <2> HIDE DEF delay
  <2>3. s \in Slots /\ RoundsFor(delay) \in Nat /\ DueFor(delay) \in Nat
    BY <1>2, <2>2, Placed
  <2> HIDE DEF s
  <2>4. /\ timers' \in [Scheduled -> Timers]
        /\ timers'[firing].slot = s /\ timers'[firing].rounds = RoundsFor(delay)
        /\ \A i \in Scheduled : i # firing => timers'[i] = timers[i]
    BY <1>5, <2>1, <2>2, <2>3 DEF Timers
  <2>5. /\ due' \in [Scheduled -> Nat] /\ due'[firing] = DueFor(delay)
        /\ \A i \in Scheduled : i # firing => due'[i] = due[i]
    BY <1>5, <2>1, <2>3 DEF WheelTypeOK
  <2>6. Scheduled' = Scheduled /\ Waiting' = Waiting \cup {firing} /\ firing \notin Waiting
    BY <1>1, <1>2, <1>5, <2>4 DEF Scheduled, Waiting
  <2>7. /\ Lined(wheel', 0 .. nextId - 1)
        /\ \A t \in Slots : ToSet(wheel'[t]) = ToSet(wheel[t])
                               \cup (IF t = s THEN {firing} ELSE {})
    <3> DEFINE S == 0 .. nextId - 1
               W == wheel'
    <3>1. Lined(wheel, S) /\ firing \in S
      BY <1>2 DEF Lined, SlotsExact, WheelTypeOK
    <3>2. W = Gain(wheel, s, firing)
      BY <2>1 DEF Gain
    <3>3. firing \notin ToSet(wheel[s])
      BY <2>3, <2>6 DEF SlotsExact
    <3> HIDE DEF S, W
    <3>4. /\ Lined(W, S)
          /\ \A t \in Slots : ToSet(W[t]) = ToSet(wheel[t])
                                 \cup (IF t = s THEN {firing} ELSE {})
      BY <2>3, <3>1, <3>2, <3>3, SlotGains
    <3> QED
      BY <3>4 DEF S, W
  <2>8. WheelTypeOK'
    BY <1>1, <2>4, <2>5, <2>6, <2>7 DEF WheelTypeOK, Lined
  <2>9. SlotsExact'
    <3>1. \A i \in Waiting : timers'[i].slot = timers[i].slot
      BY <2>4 DEF Waiting
    <3> QED
      BY <2>4, <2>6, <2>7, <3>1 DEF SlotsExact, Lined
  <2>10. DueExact'
    <3>1. ASSUME NEW i \in Waiting PROVE InTime(i)'
      BY <1>1, <2>4, <2>5, StaysInTime DEF DueExact, Waiting
    <3>2. ASSUME NEW i, i = firing PROVE InTime(i)'
      <4>1. i \notin ToSet(copy)
        BY <3>2 DEF CopyExact
      <4>2. /\ timers'[i].rounds = RoundsFor(delay) /\ timers'[i].slot = SlotFor(delay)
            /\ due'[i] = DueFor(delay)
        BY <2>4, <2>5, <3>2 DEF s
      <4> QED
        BY <1>1, <1>2, <2>2, <4>1, <4>2, PlacedInTime
    <3> QED
      BY <2>6, <3>1, <3>2 DEF DueExact
  <2> QED
    BY <1>3, <2>8, <2>9, <2>10
<1> QED
  BY <1>4, <1>5

\* The tick is over: for the timers of its slot a turn is, and no other was due.
LEMMA EndTickInv == ASSUME WheelExact, EndTick PROVE WheelExact'
<1> USE DEF WheelExact
<1>1. /\ ticking /\ firing = NoTimer /\ copy = <<>> /\ ticking' = FALSE
      /\ current' = current + 1
      /\ UNCHANGED <<nextId, wheel, timers, copy, firing, corrupt, due>>
  BY DEF EndTick
<1>2. /\ current \in Nat /\ current < MaxTick /\ Size \in Nat \ {0} /\ MaxTick \in Nat
  BY <1>1, WheelAssumption, BoundAssumption DEF WheelTypeOK, CopyExact
<1>3. Scheduled' = Scheduled /\ Waiting' = Waiting
  BY <1>1 DEF Scheduled, Waiting
<1>4. WheelTypeOK'
  <2>1. current + 1 \in 0 .. MaxTick
    BY <1>2
  <2> QED
    BY <1>1, <1>3, <2>1 DEF WheelTypeOK
<1>5. SlotsExact'
  BY <1>1, <1>3 DEF SlotsExact
<1>6. CopyExact'
  BY <1>1, NoTimerAssumption DEF CopyExact
<1>7. DueExact'
  <2>1. ASSUME NEW i \in Waiting PROVE InTime(i)'
    <3> DEFINE r == timers[i].rounds
               d == due[i]
    <3>1. r \in Nat /\ d \in Nat
      BY DEF WheelTypeOK, Waiting, Timers
    <3>2. /\ d % Size = timers[i].slot /\ current + Turns(i) * Size <= d
          /\ d < current + (Turns(i) + 1) * Size
      BY DEF DueExact, InTime
    <3>3. Turns(i)' = r /\ UNCHANGED <<due[i], timers[i]>>
      BY <1>1, <3>1 DEF Turns, OverFor
    <3>4. Turns(i) = r + IF timers[i].slot = Slot THEN 1 ELSE 0
      <4>1. ToSet(copy) = {}
        BY <1>1 DEF ToSet
      <4> QED
        BY <1>1, <4>1 DEF Turns, OverFor
    <3> HIDE DEF r, d
    <3>5. /\ r * Size \in Nat /\ (r + 1) * Size = r * Size + Size
          /\ (r + 1) * Size \in Nat /\ (r + 1 + 1) * Size = (r + 1) * Size + Size
      BY <1>2, <3>1, Products
    <3>6. /\ current + 1 + r * Size <= d /\ d < current + 1 + (r + 1) * Size
      <4>1. CASE timers[i].slot = Slot
        <5>1. /\ Turns(i) = r + 1 /\ d % Size = current % Size
          BY <3>1, <3>2, <3>4, <4>1 DEF Slot
        <5> DEFINE k == r + 1
        <5>2. k \in Nat /\ TurnsLater(k, current, d, Size)
          BY <3>1, <3>2, <5>1 DEF TurnsLater
        <5> HIDE DEF k
        <5>3. d = current + k * Size
          BY <1>2, <3>1, <5>2, SameSlot
        <5> QED
          BY <1>2, <3>5, <5>3 DEF k
      <4>2. CASE timers[i].slot # Slot
        <5>1. Turns(i) = r
          BY <3>1, <3>4, <4>2
        <5>2. (current + r * Size) % Size = Slot
          BY <1>2, <3>1, WholeTurns DEF Slot
        <5>3. d # current + r * Size
          BY <3>2, <4>2, <5>2
        <5> QED
          BY <1>2, <3>1, <3>2, <3>5, <5>1, <5>3
      <4> QED
        BY <4>1, <4>2
    <3> QED
      BY <1>1, <3>2, <3>3, <3>6 DEF InTime, d
  <2> QED
    BY <1>3, <2>1 DEF DueExact
<1> QED
  BY <1>4, <1>5, <1>6, <1>7

LEMMA WheelNextInv == WheelExact /\ [WheelNext]_wheelVars => WheelExact'
<1> SUFFICES ASSUME WheelExact, [WheelNext]_wheelVars PROVE WheelExact'
  OBVIOUS
<1>1. ASSUME NEW d \in Delays, NEW t \in {"OneShot", "Periodic"}, AddTimer(d, t)
      PROVE  WheelExact'
  BY <1>1, AddInv
<1>2. ASSUME NEW id \in Scheduled, CancelTimer(id) PROVE WheelExact'
  BY <1>2, CancelInv
<1>3. CASE CancelOwn
  BY <1>3, CancelOwnInv
<1>4. CASE StartTick
  BY <1>4, StartTickInv
<1>5. CASE EndCallback
  BY <1>5, EndCallbackInv
<1>6. CASE EndTick
  BY <1>6, EndTickInv
<1>7. ASSUME NEW id, PassOver(id) \/ CountDown(id) \/ FireTimer(id) PROVE WheelExact'
  BY <1>7, PassInv, CountDownInv, FireInv
<1>8. CASE UNCHANGED wheelVars
  <2>1. \A i : InTime(i)' = InTime(i)
    BY <1>8 DEF wheelVars, InTime, Turns, OverFor, Slot
  <2> QED
    BY <1>8, <2>1 DEF WheelExact, wheelVars, WheelTypeOK, SlotsExact, CopyExact, DueExact,
                      Scheduled, Waiting
<1> QED
  BY <1>1, <1>2, <1>3, <1>4, <1>5, <1>6, <1>7, <1>8 DEF WheelNext
-------------------------------------------------------------------------------
\* WheelExact holds throughout, for wheels of any size and any delays: every
\* waiting timer is once in the slot its record names, and that slot and its
\* rounds lead to the tick it is due in, whatever callbacks do to the slots
\* while tick walks its copy of one.
THEOREM WheelInvariant == WheelSpec => []WheelExact
BY WheelInitInv, WheelNextInv, PTL DEF WheelSpec

\* A timer fires in the tick it is due in.
THEOREM TimersFireWhenDue == WheelSpec => FiresWhenDue
<1>1. ASSUME WheelExact, WheelNext, NEW id \in 0 .. MaxId, firing' = id, firing # id
      PROVE  id \in Scheduled /\ due[id] = current
  <2>1. id # NoTimer
    BY NoTimerAssumption
  <2>2. FireTimer(id)
    BY <1>1, <2>1 DEF WheelNext, AddTimer, CancelTimer, CancelOwn, StartTick, EndCallback,
                      EndTick, PassOver, CountDown, FireTimer
  <2>3. /\ TakeNext(id) /\ id \in Scheduled /\ timers[id].slot = Slot
        /\ timers[id].rounds = 0
    BY <2>2 DEF FireTimer, Here
  <2>4. id \in ToSet(copy) /\ id \in Waiting
    BY <1>1, <2>3, NextTaken
  <2>5. /\ due[id] \in Nat /\ current \in Nat /\ Size \in Nat \ {0}
    BY <1>1, <2>3, WheelAssumption DEF WheelExact, WheelTypeOK
  <2>6. Turns(id) = 0
    BY <2>3, <2>4 DEF Turns, OverFor
  <2>7. TurnsLater(0, current, due[id], Size)
    BY <1>1, <2>3, <2>4, <2>6 DEF WheelExact, DueExact, InTime, Slot, TurnsLater
  <2>8. due[id] = current + 0 * Size
    BY <2>5, <2>7, SameSlot
  <2> QED
    BY <2>3, <2>5, <2>8
<1>2. WheelExact /\ [WheelNext]_wheelVars
        => [\A id \in 0 .. MaxId : firing' = id /\ firing # id
               => id \in Scheduled /\ due[id] = current]_wheelVars
  BY <1>1
<1> QED
  BY <1>2, WheelInvariant, PTL DEF WheelSpec, FiresWhenDue
-------------------------------------------------------------------------------
(***************************************************************************)
(* The delayed call: a lemma for each action, with a step for each conjunct. *)
(***************************************************************************)

USE NoneAssumption DEF TypeOK, Sharing, Awaiting, Locked, Firing, Taken, Moving, Owning,
                       TimerPlaces, objVars, callVars, history

\* Nothing exists to begin with.
LEMMA InitKeeps == Init => IInv
<1> SUFFICES ASSUME Init PROVE IInv
  OBVIOUS
<1> USE DEF Init
<1>1. TypeOK /\ CallsExact /\ CallsApart
  BY DEF CallsExact, CallsApart
<1>2. TimerInside /\ TaskAlone
  BY DEF TimerInside, TaskAlone
<1>3. TaskThere /\ LockedPending
  BY DEF TaskThere, LockedPending
<1>4. RunsExact /\ QuietCancelled
  BY DEF RunsExact, QuietCancelled
<1> QED BY <1>1, <1>2, <1>3, <1>4 DEF IInv

\* A step that changes nothing keeps it.
LEMMA StutterKeeps == ASSUME IInv, UNCHANGED vars PROVE IInv'
<1> USE DEF vars
<1>1. TypeOK' /\ CallsExact' /\ CallsApart' /\ TimerInside' /\ TaskAlone'
  BY DEF IInv, CallsExact, CallsApart, TimerInside, TaskAlone, HandedOn
<1>2. TaskThere' /\ LockedPending'
  BY DEF IInv, TaskThere, LockedPending, EndsFired
<1>3. RunsExact' /\ QuietCancelled'
  BY DEF IInv, RunsExact, Over, EndsFired, QuietCancelled
<1> QED BY <1>1, <1>2, <1>3 DEF IInv

-------------------------------------------------------------------------------
\* The timer thread.

\* Until it fires, a timer thread moves between places where it has not, and only
\* one that is not cancelled goes past its last look.
LEMMA TimerMoves ==
    ASSUME NEW o \in Objs,
           Predicate(o) \/ Sleep(o) \/ Wake(o) \/ LastPredicate(o) \/ Check(o)
    PROVE  /\ UNCHANGED <<objVars, doing, callVars, history>>
           /\ timer[o] \in {"start", "wait", "drowsy", "asleep", "late", "check"}
           /\ \E place \in {"wait", "drowsy", "asleep", "late", "check", "fire", "done"} :
                 /\ timer' = [timer EXCEPT ![o] = place]
                 /\ place = "fire" => ~cancelled[o]
<1>1. CASE Predicate(o)
  BY <1>1 DEF Predicate, LookAt, TimerGo
<1>2. CASE Sleep(o)
  BY <1>2 DEF Sleep, TimerGo
<1>3. CASE Wake(o)
  BY <1>3 DEF Wake, TimerGo
<1>4. CASE LastPredicate(o)
  BY <1>4 DEF LastPredicate, LookAt, TimerGo
<1>5. CASE Check(o)
  BY <1>5 DEF Check, LookAt, TimerGo
<1> QED BY <1>1, <1>2, <1>3, <1>4, <1>5

LEMMA MovesKeep ==
    ASSUME IInv, NEW o \in Objs,
           Predicate(o) \/ Sleep(o) \/ Wake(o) \/ LastPredicate(o) \/ Check(o)
    PROVE  IInv'
<1>0. PICK place \in {"wait", "drowsy", "asleep", "late", "check", "fire", "done"} :
         /\ timer' = [timer EXCEPT ![o] = place]
         /\ place = "fire" => ~cancelled[o]
  BY TimerMoves
<1>00. /\ UNCHANGED <<objVars, doing, callVars, history>>
       /\ timer[o] \in {"start", "wait", "drowsy", "asleep", "late", "check"}
  BY TimerMoves
<1> USE <1>0, <1>00
<1>1. TypeOK'
  BY DEF IInv
<1>2. CallsExact' /\ CallsApart'
  BY DEF IInv, CallsExact, CallsApart
<1>3. TimerInside' /\ TaskAlone'
  BY DEF IInv, TimerInside, TaskAlone, HandedOn
<1>4. TaskThere' /\ LockedPending'
  BY DEF IInv, TaskThere, LockedPending, EndsFired
<1>5. RunsExact'
  BY DEF IInv, RunsExact, Over, EndsFired
<1>6. QuietCancelled'
  BY DEF IInv, QuietCancelled
<1> QED BY <1>1, <1>2, <1>3, <1>4, <1>5, <1>6 DEF IInv

\* has_fired_ is set before the task is called, and marks what a reschedule missed.
LEMMA FireKeeps ==
    ASSUME IInv, NEW o \in Objs, Fire(o)
    PROVE  IInv'
<1> USE DEF IInv, Fire, TimerGo
<1>1. TypeOK'
  BY DEF CallsExact, LockedPending
<1>2. CallsExact'
  BY DEF CallsExact
<1>3. CallsApart'
  BY DEF CallsApart
<1>4. TimerInside'
  BY DEF TimerInside
<1>5. TaskAlone'
  <2>1. \A q, r \in Objs : HandedOn(q, r) => HandedOn(q, r)'
    BY DEF HandedOn
  <2> QED BY <2>1 DEF TaskAlone
<1>6. TaskThere'
  BY DEF TaskThere, EndsFired
<1>7. LockedPending'
  BY DEF LockedPending, CallsExact, CallsApart, TaskThere, TaskAlone
<1>8. RunsExact'
  BY DEF RunsExact, Over, EndsFired
<1>9. QuietCancelled'
  BY DEF QuietCancelled
<1> QED BY <1>1, <1>2, <1>3, <1>4, <1>5, <1>6, <1>7, <1>8, <1>9 DEF IInv

\* A task that is called had not run, or counts as raced.
LEMMA CallTaskKeeps ==
    ASSUME IInv, NEW o \in Objs, CallTask(o)
    PROVE  IInv'
<1> USE DEF IInv, CallTask, TimerGo
<1>1. TypeOK'
  OBVIOUS
<1>2. CallsExact'
  BY DEF CallsExact
<1>3. CallsApart'
  BY DEF CallsApart
<1>4. TimerInside'
  BY DEF TimerInside
<1>5. TaskAlone'
  <2>1. \A p, q \in Objs : HandedOn(p, q)' = HandedOn(p, q)
    BY DEF HandedOn
  <2>2. fn[o] \notin {NoTask} => \A p \in Objs : p # o => fn[p] # fn[o] /\ doing[p] # fn[o]
    BY DEF TaskAlone, HandedOn, CallsExact
  <2> QED BY <2>1, <2>2 DEF TaskAlone
<1>6. TaskThere'
  BY DEF TaskThere, EndsFired
<1>7. LockedPending'
  BY DEF LockedPending
<1>8. RunsExact'
  BY SMTT(30) DEF RunsExact, Over, EndsFired, CallsExact, CallsApart, TaskAlone,
         LockedPending, TimerInside
<1>9. QuietCancelled'
  BY DEF QuietCancelled
<1> QED BY <1>1, <1>2, <1>3, <1>4, <1>5, <1>6, <1>7, <1>8, <1>9 DEF IInv

\* A task that has run is over.
LEMMA EndTaskKeeps ==
    ASSUME IInv, NEW o \in Objs, EndTask(o)
    PROVE  IInv'
<1> USE DEF IInv, EndTask, TimerGo
<1>1. TypeOK'
  OBVIOUS
<1>2. CallsExact'
  BY DEF CallsExact
<1>3. CallsApart'
  BY DEF CallsApart
<1>4. TimerInside'
  BY DEF TimerInside
<1>5. TaskAlone'
  <2>1. \A q, r \in Objs : HandedOn(q, r) => HandedOn(q, r)'
    BY DEF HandedOn
  <2> QED BY <2>1 DEF TaskAlone
<1>6. TaskThere'
  BY DEF TaskThere, EndsFired
<1>7. LockedPending'
  BY DEF LockedPending
<1>8. RunsExact'
  BY DEF RunsExact, Over, EndsFired
<1>9. QuietCancelled'
  BY DEF QuietCancelled
<1> QED BY <1>1, <1>2, <1>3, <1>4, <1>5, <1>6, <1>7, <1>8, <1>9 DEF IInv

-------------------------------------------------------------------------------
\* The constructor, cancel and the destructor.

\* A new object has a task that no other has, and is in nobody's call.
LEMMA ConstructKeeps ==
    ASSUME IInv, NEW o \in Objs, NEW t \in Tasks, Construct(o, t)
    PROVE  IInv'
<1> USE DEF IInv, Construct, Owned
<1>1. TypeOK'
  OBVIOUS
<1>2. CallsExact'
  BY DEF CallsExact
<1>3. CallsApart'
  BY DEF CallsApart
<1>4. TimerInside'
  BY DEF TimerInside, CallsExact, CallsApart
<1>5. TaskAlone'
  <2>1. \A q, r \in Objs : HandedOn(q, r) => HandedOn(q, r)'
    BY DEF HandedOn
  <2> QED BY <2>1 DEF TaskAlone
<1>6. TaskThere'
  BY DEF TaskThere, EndsFired
<1>7. LockedPending'
  BY DEF LockedPending
<1>8. RunsExact'
  <2>1. fn[o] = NoTask /\ runs[t] = 0
    BY DEF RunsExact, TimerInside
  <2>2. ASSUME NEW p \in Objs, Over(p), p # o PROVE Over(p)'
    BY <2>2 DEF Over, EndsFired
  <2>3. fn'[o] = t /\ \A p \in Objs : p # o => fn'[p] = fn[p]
    OBVIOUS
  <2> QED BY <2>1, <2>2, <2>3 DEF RunsExact
<1>9. QuietCancelled'
  BY DEF QuietCancelled
<1> QED BY <1>1, <1>2, <1>3, <1>4, <1>5, <1>6, <1>7, <1>8, <1>9 DEF IInv

\* A cancel disturbs nobody in a move, and only takes pending calls away.
LEMMA StartCancelKeeps ==
    ASSUME IInv, NEW c \in Callers, NEW o \in Objs, StartCancel(c, o)
    PROVE  IInv'
<1> USE DEF IInv, StartCancel, Shared, Cancel, Enter, At, Go
<1>1. TypeOK'
  OBVIOUS
<1>2. CallsExact'
  BY DEF CallsExact
<1>3. CallsApart'
  BY DEF CallsApart
<1>4. TimerInside'
  BY DEF TimerInside
<1>5. TaskAlone'
  <2>1. \A q, r \in Objs : HandedOn(q, r) => HandedOn(q, r)'
    BY DEF HandedOn
  <2> QED BY <2>1 DEF TaskAlone
<1>6. TaskThere'
  BY DEF TaskThere, EndsFired
<1>7. LockedPending'
  BY DEF LockedPending
<1>8. RunsExact'
  BY DEF RunsExact, Over, EndsFired
<1>9. QuietCancelled'
  BY DEF QuietCancelled
<1> QED BY <1>1, <1>2, <1>3, <1>4, <1>5, <1>6, <1>7, <1>8, <1>9 DEF IInv

\* What counts as cancelled in time is cancelled, and its thread looks again.
LEMMA EndCancelKeeps ==
    ASSUME IInv, NEW c \in Callers, EndCancel(c)
    PROVE  IInv'
<1> USE DEF IInv, EndCancel, At, Notify, Return, Go
<1>1. TypeOK'
  BY DEF CallsExact, LockedPending
<1>2. CallsExact'
  BY DEF CallsExact
<1>3. CallsApart'
  BY DEF CallsApart
<1>4. TimerInside'
  BY DEF TimerInside
<1>5. TaskAlone'
  <2>1. \A q, r \in Objs : HandedOn(q, r) => HandedOn(q, r)'
    BY DEF HandedOn
  <2> QED BY <2>1 DEF TaskAlone
<1>6. TaskThere'
  BY DEF TaskThere, EndsFired
<1>7. LockedPending'
  BY DEF LockedPending
<1>8. RunsExact'
  BY DEF RunsExact, Over, EndsFired
<1>9. QuietCancelled'
  BY DEF QuietCancelled, CallsExact, CallsApart
<1> QED BY <1>1, <1>2, <1>3, <1>4, <1>5, <1>6, <1>7, <1>8, <1>9 DEF IInv

\* The destructor begins with the object to itself.
LEMMA StartDestroyKeeps ==
    ASSUME IInv, NEW c \in Callers, NEW o \in Objs, StartDestroy(c, o)
    PROVE  IInv'
<1> USE DEF IInv, StartDestroy, Owned, Cancel, Enter, At, Go
<1>1. TypeOK'
  OBVIOUS
<1>2. CallsExact'
  BY DEF CallsExact
<1>3. CallsApart'
  BY DEF CallsApart
<1>4. TimerInside'
  BY DEF TimerInside
<1>5. TaskAlone'
  <2>1. \A q, r \in Objs : HandedOn(q, r) => HandedOn(q, r)'
    BY DEF HandedOn
  <2> QED BY <2>1 DEF TaskAlone
<1>6. TaskThere'
  BY DEF TaskThere, EndsFired
<1>7. LockedPending'
  BY DEF LockedPending
<1>8. RunsExact'
  BY DEF RunsExact, Over, EndsFired
<1>9. QuietCancelled'
  BY DEF QuietCancelled
<1> QED BY <1>1, <1>2, <1>3, <1>4, <1>5, <1>6, <1>7, <1>8, <1>9 DEF IInv

\* A notification sends a sleeping timer thread to look again.
LEMMA NotifyThenJoinKeeps ==
    ASSUME IInv, NEW c \in Callers, NEW place, NEW next,
           <<place, next>> \in {<<"destroy", "destroyjoin">>, <<"halted", "rejoin">>,
                                <<"assign", "assignjoin">>},
           NotifyThenJoin(c, place, next)
    PROVE  IInv'
<1> USE DEF IInv, NotifyThenJoin, At, Notify, Go
<1>1. TypeOK'
  OBVIOUS
<1>2. CallsExact'
  BY DEF CallsExact
<1>3. CallsApart'
  BY DEF CallsApart
<1>4. TimerInside'
  BY DEF TimerInside
<1>5. TaskAlone'
  <2>1. \A q, r \in Objs : HandedOn(q, r) => HandedOn(q, r)'
    BY DEF HandedOn
  <2> QED BY <2>1 DEF TaskAlone
<1>6. TaskThere'
  BY DEF TaskThere, EndsFired
<1>7. LockedPending'
  BY DEF LockedPending
<1>8. RunsExact'
  BY DEF RunsExact, Over, EndsFired
<1>9. QuietCancelled'
  BY DEF QuietCancelled
<1> QED BY <1>1, <1>2, <1>3, <1>4, <1>5, <1>6, <1>7, <1>8, <1>9 DEF IInv

\* The destructor's object has no timer thread left, and leaves nothing of its task.
LEMMA DestroyKeeps ==
    ASSUME IInv, NEW c \in Callers, Destroy(c)
    PROVE  IInv'
<1> USE DEF IInv, Destroy, At, Join, End, Forget, Return, Go
<1>1. TypeOK'
  BY DEF CallsExact, LockedPending
<1>2. CallsExact'
  BY DEF CallsExact, CallsApart, TimerInside
<1>3. CallsApart'
  BY DEF CallsApart
<1>4. TimerInside'
  BY DEF TimerInside
<1>5. TaskAlone'
  <2>1. \A q, r \in Objs : HandedOn(q, r) => HandedOn(q, r)'
    BY DEF HandedOn
  <2> QED BY <2>1 DEF TaskAlone, CallsApart, TimerInside
<1>6. TaskThere'
  BY SMTT(30) DEF TaskThere, EndsFired, CallsExact, CallsApart
<1>7. LockedPending'
  BY DEF LockedPending, CallsExact, CallsApart, TaskThere, TaskAlone
<1>8. RunsExact'
  BY SMTT(30) DEF RunsExact, Over, EndsFired, CallsExact, CallsApart, TaskAlone,
         LockedPending, TimerInside
<1>9. QuietCancelled'
  BY DEF QuietCancelled
<1> QED BY <1>1, <1>2, <1>3, <1>4, <1>5, <1>6, <1>7, <1>8, <1>9 DEF IInv

-------------------------------------------------------------------------------
\* reschedule.

\* A reschedule may enter beside others.
LEMMA StartRescheduleKeeps ==
    ASSUME IInv, NEW c \in Callers, NEW o \in Objs, StartReschedule(c, o)
    PROVE  IInv'
<1> USE DEF IInv, StartReschedule, Shared, Enter, At, Go
<1>1. TypeOK'
  OBVIOUS
<1>2. CallsExact'
  BY DEF CallsExact
<1>3. CallsApart'
  BY DEF CallsApart
<1>4. TimerInside'
  BY DEF TimerInside
<1>5. TaskAlone'
  <2>1. \A q, r \in Objs : HandedOn(q, r) => HandedOn(q, r)'
    BY DEF HandedOn
  <2> QED BY <2>1 DEF TaskAlone
<1>6. TaskThere'
  BY DEF TaskThere, EndsFired
<1>7. LockedPending'
  BY DEF LockedPending
<1>8. RunsExact'
  BY DEF RunsExact, Over, EndsFired
<1>9. QuietCancelled'
  BY DEF QuietCancelled
<1> QED BY <1>1, <1>2, <1>3, <1>4, <1>5, <1>6, <1>7, <1>8, <1>9 DEF IInv

\* One that finds has_fired_ false has the mutex alone and a task to postpone; what
\* was cancelled in time is forgotten.
LEMMA LookKeeps ==
    ASSUME IInv, NEW c \in Callers, Look(c)
    PROVE  IInv'
<1> USE DEF IInv, Look, At, Return, Go
<1>1. TypeOK'
  <2>1. CASE fired[obj[c]]
    BY <2>1
  <2>2. CASE ~fired[obj[c]]
    BY <2>2
  <2> QED BY <2>1, <2>2
<1>2. CallsExact'
  BY DEF CallsExact
<1>3. CallsApart'
  BY DEF CallsApart
<1>4. TimerInside'
  BY DEF TimerInside
<1>5. TaskAlone'
  <2>1. \A q, r \in Objs : HandedOn(q, r) => HandedOn(q, r)'
    BY DEF HandedOn
  <2> QED BY <2>1 DEF TaskAlone
<1>6. TaskThere'
  BY DEF TaskThere, EndsFired
<1>7. LockedPending'
  BY DEF LockedPending, CallsExact, CallsApart, TaskThere, TaskAlone
<1>8. RunsExact'
  <2>1. ASSUME NEW p \in Objs, Over(p) PROVE Over(p)'
    BY <2>1 DEF Over, EndsFired, CallsExact, CallsApart
  <2> QED BY <2>1 DEF RunsExact
<1>9. QuietCancelled'
  BY DEF QuietCancelled
<1> QED BY <1>1, <1>2, <1>3, <1>4, <1>5, <1>6, <1>7, <1>8, <1>9 DEF IInv

\* To halt the old timer thread changes two flags only.
LEMMA HaltKeeps ==
    ASSUME IInv, NEW c \in Callers, Halt(c)
    PROVE  IInv'
<1> USE DEF IInv, Halt, At, Go
<1>1. TypeOK'
  OBVIOUS
<1>2. CallsExact'
  BY DEF CallsExact
<1>3. CallsApart'
  BY DEF CallsApart
<1>4. TimerInside'
  BY DEF TimerInside
<1>5. TaskAlone'
  <2>1. \A q, r \in Objs : HandedOn(q, r) => HandedOn(q, r)'
    BY DEF HandedOn
  <2> QED BY <2>1 DEF TaskAlone
<1>6. TaskThere'
  BY DEF TaskThere, EndsFired
<1>7. LockedPending'
  BY DEF LockedPending
<1>8. RunsExact'
  BY DEF RunsExact, Over, EndsFired
<1>9. QuietCancelled'
  BY DEF QuietCancelled
<1> QED BY <1>1, <1>2, <1>3, <1>4, <1>5, <1>6, <1>7, <1>8, <1>9 DEF IInv

\* Past its join, a reschedule has no timer thread beside it.
LEMMA RejoinKeeps ==
    ASSUME IInv, NEW c \in Callers, Rejoin(c)
    PROVE  IInv'
<1> USE DEF IInv, Rejoin, At, Join, Go
<1>1. TypeOK'
  OBVIOUS
<1>2. CallsExact'
  BY DEF CallsExact
<1>3. CallsApart'
  BY DEF CallsApart
<1>4. TimerInside'
  BY DEF TimerInside
<1>5. TaskAlone'
  <2>1. \A q, r \in Objs : HandedOn(q, r) => HandedOn(q, r)'
    BY DEF HandedOn
  <2> QED BY <2>1 DEF TaskAlone
<1>6. TaskThere'
  BY DEF TaskThere, EndsFired
<1>7. LockedPending'
  BY DEF LockedPending
<1>8. RunsExact'
  BY DEF RunsExact, Over, EndsFired
<1>9. QuietCancelled'
  BY DEF QuietCancelled
<1> QED BY <1>1, <1>2, <1>3, <1>4, <1>5, <1>6, <1>7, <1>8, <1>9 DEF IInv

\* A new thread for a task that has not started, or counts as raced.
LEMMA RestartKeeps ==
    ASSUME IInv, NEW c \in Callers, Restart(c)
    PROVE  IInv'
<1> USE DEF IInv, Restart, At, Return, Go
<1>1. TypeOK'
  OBVIOUS
<1>2. CallsExact'
  BY DEF CallsExact, CallsApart, TimerInside
<1>3. CallsApart'
  BY DEF CallsApart
<1>4. TimerInside'
  BY DEF TimerInside, CallsExact, CallsApart
<1>5. TaskAlone'
  <2>1. \A q, r \in Objs : HandedOn(q, r) => HandedOn(q, r)'
    BY DEF HandedOn
  <2> QED BY <2>1 DEF TaskAlone
<1>6. TaskThere'
  BY DEF TaskThere, EndsFired
<1>7. LockedPending'
  BY DEF LockedPending
<1>8. RunsExact'
  BY DEF RunsExact, Over, EndsFired
<1>9. QuietCancelled'
  BY DEF QuietCancelled
<1> QED BY <1>1, <1>2, <1>3, <1>4, <1>5, <1>6, <1>7, <1>8, <1>9 DEF IInv

-------------------------------------------------------------------------------
\* The move constructor and assignment.

\* A move assignment begins with both objects to itself.
LEMMA StartAssignKeeps ==
    ASSUME IInv, NEW c \in Callers, NEW o \in Objs, NEW p \in Objs, StartAssign(c, o, p)
    PROVE  IInv'
<1> USE DEF IInv, StartAssign, Owned, Cancel, Enter, At, Go
<1>1. TypeOK'
  OBVIOUS
<1>2. CallsExact'
  BY DEF CallsExact
<1>3. CallsApart'
  BY DEF CallsApart
<1>4. TimerInside'
  BY DEF TimerInside
<1>5. TaskAlone'
  <2>1. \A q, r \in Objs : HandedOn(q, r) => HandedOn(q, r)'
    BY DEF HandedOn
  <2> QED BY <2>1 DEF TaskAlone
<1>6. TaskThere'
  BY DEF TaskThere, EndsFired
<1>7. LockedPending'
  BY DEF LockedPending
<1>8. RunsExact'
  BY DEF RunsExact, Over, EndsFired
<1>9. QuietCancelled'
  BY DEF QuietCancelled
<1> QED BY <1>1, <1>2, <1>3, <1>4, <1>5, <1>6, <1>7, <1>8, <1>9 DEF IInv

\* So does a move construction, whose object does not exist yet.
LEMMA StartMoveKeeps ==
    ASSUME IInv, NEW c \in Callers, NEW o \in Objs, NEW p \in Objs, StartMove(c, o, p)
    PROVE  IInv'
<1> USE DEF IInv, StartMove, Owned, Enter, At, Go
<1>1. TypeOK'
  OBVIOUS
<1>2. CallsExact'
  BY DEF CallsExact, CallsApart, TimerInside
<1>3. CallsApart'
  BY DEF CallsApart
<1>4. TimerInside'
  BY DEF TimerInside
<1>5. TaskAlone'
  <2>1. \A q, r \in Objs : HandedOn(q, r) => HandedOn(q, r)'
    BY DEF HandedOn
  <2> QED BY <2>1 DEF TaskAlone
<1>6. TaskThere'
  BY DEF TaskThere, EndsFired
<1>7. LockedPending'
  BY DEF LockedPending
<1>8. RunsExact'
  BY DEF RunsExact, Over, EndsFired
<1>9. QuietCancelled'
  BY DEF QuietCancelled
<1> QED BY <1>1, <1>2, <1>3, <1>4, <1>5, <1>6, <1>7, <1>8, <1>9 DEF IInv

\* The object that is assigned to has no timer thread any more.
LEMMA AssignJoinKeeps ==
    ASSUME IInv, NEW c \in Callers, AssignJoin(c)
    PROVE  IInv'
<1> USE DEF IInv, AssignJoin, At, Join, Go
<1>1. TypeOK'
  OBVIOUS
<1>2. CallsExact'
  BY DEF CallsExact
<1>3. CallsApart'
  BY DEF CallsApart
<1>4. TimerInside'
  BY DEF TimerInside
<1>5. TaskAlone'
  <2>1. \A q, r \in Objs : HandedOn(q, r) => HandedOn(q, r)'
    BY DEF HandedOn
  <2> QED BY <2>1 DEF TaskAlone
<1>6. TaskThere'
  BY DEF TaskThere, EndsFired
<1>7. LockedPending'
  BY DEF LockedPending
<1>8. RunsExact'
  BY DEF RunsExact, Over, EndsFired
<1>9. QuietCancelled'
  BY DEF QuietCancelled
<1> QED BY <1>1, <1>2, <1>3, <1>4, <1>5, <1>6, <1>7, <1>8, <1>9 DEF IInv

\* The task changes hands; the thread of the other object may still run it.
LEMMA TakeTaskKeeps ==
    ASSUME IInv, NEW c \in Callers, TakeTask(c)
    PROVE  IInv'
<1> USE DEF IInv, TakeTask, At, Go, Forget
<1>1. TypeOK'
  BY DEF CallsExact, LockedPending
<1>2. CallsExact'
  BY DEF CallsExact
<1>3. CallsApart'
  BY DEF CallsApart
<1>4. TimerInside'
  BY DEF TimerInside
<1>5. TaskAlone'
  <2>1. HandedOn(obj[c], src[c])' /\ obj[c] # src[c]
    BY DEF HandedOn, CallsExact
  <2>2. \A p, q \in Objs : HandedOn(p, q) => HandedOn(p, q)' /\ p \notin {obj[c], src[c]}
    BY DEF HandedOn, CallsExact, CallsApart
  <2>3. \A p \in Objs : p # obj[c] => fn'[p] = IF p = src[c] THEN NoTask ELSE fn[p]
    BY <2>1
  <2>4. /\ fn'[obj[c]] = fn[src[c]] /\ {obj[c], src[c]} \subseteq Objs
        /\ UNCHANGED <<doing, obj, src>>
    BY <2>1 DEF CallsExact
  <2> HIDE DEF IInv, TypeOK, TakeTask, At, Go, Forget
  <2> USE <2>1, <2>2, <2>3, <2>4
  <2>5. ASSUME NEW p \in Objs, NEW q \in Objs, p # q
        PROVE  (fn[p] = NoTask \/ fn[p] # fn[q])'
    BY <2>5 DEF TaskAlone, IInv
  <2>6. ASSUME NEW p \in Objs, NEW q \in Objs, p # q, (doing[q] # NoTask /\ fn[p] = doing[q])'
        PROVE  HandedOn(p, q)'
    <3>1. fn'[p] = doing[q] /\ doing[q] # NoTask
      BY <2>6
    <3>2. \A r \in Objs : r # q /\ fn[r] = doing[q] => HandedOn(r, q)
      BY <3>1 DEF TaskAlone, IInv
    <3>3. CASE p = obj[c]
      BY <3>1, <3>2, <3>3
    <3>4. CASE p # obj[c]
      BY <2>6, <3>1, <3>2, <3>4
    <3> QED BY <3>3, <3>4
  <2> QED BY <2>5, <2>6 DEF TaskAlone, IInv
<1>6. TaskThere'
  BY SMTT(30) DEF TaskThere, EndsFired, CallsExact, CallsApart
<1>7. LockedPending'
  BY DEF LockedPending, CallsExact, CallsApart, TaskThere, TaskAlone
<1>8. RunsExact'
  BY SMTT(30) DEF RunsExact, Over, EndsFired, CallsExact, CallsApart, TaskAlone,
         LockedPending, TimerInside
<1>9. QuietCancelled'
  BY DEF QuietCancelled
<1> QED BY <1>1, <1>2, <1>3, <1>4, <1>5, <1>6, <1>7, <1>8, <1>9 DEF IInv

\* What the other object is found to be, pending or not, is remembered: once it has
\* fired the task is over for good.
LEMMA AskPendingKeeps ==
    ASSUME IInv, NEW c \in Callers, AskPending(c)
    PROVE  IInv'
<1> USE DEF IInv, AskPending, At, Go
<1>1. TypeOK'
  OBVIOUS
<1>2. CallsExact'
  BY DEF CallsExact
<1>3. CallsApart'
  BY DEF CallsApart
<1>4. TimerInside'
  BY DEF TimerInside
<1>5. TaskAlone'
  <2>1. \A q, r \in Objs : HandedOn(q, r) => HandedOn(q, r)'
    BY DEF HandedOn
  <2> QED BY <2>1 DEF TaskAlone
<1>6. TaskThere'
  BY DEF TaskThere, EndsFired
<1>7. LockedPending'
  BY DEF LockedPending
<1>8. RunsExact'
  <2>1. EndsFired(c) => EndsFired(c)'
    BY DEF EndsFired
  <2>2. \A d \in Callers : d # c => EndsFired(d)' = EndsFired(d)
    BY DEF EndsFired
  <2>3. ASSUME NEW p \in Objs, Over(p) PROVE Over(p)'
    BY <2>1, <2>2, <2>3 DEF Over
  <2> QED BY <2>3 DEF RunsExact
<1>9. QuietCancelled'
  BY DEF QuietCancelled
<1> QED BY <1>1, <1>2, <1>3, <1>4, <1>5, <1>6, <1>7, <1>8, <1>9 DEF IInv

\* To stop the other object changes one flag only.
LEMMA StopOtherKeeps ==
    ASSUME IInv, NEW c \in Callers, StopOther(c)
    PROVE  IInv'
<1> USE DEF IInv, StopOther, At, Go
<1>1. TypeOK'
  OBVIOUS
<1>2. CallsExact'
  BY DEF CallsExact
<1>3. CallsApart'
  BY DEF CallsApart
<1>4. TimerInside'
  BY DEF TimerInside
<1>5. TaskAlone'
  <2>1. \A q, r \in Objs : HandedOn(q, r) => HandedOn(q, r)'
    BY DEF HandedOn
  <2> QED BY <2>1 DEF TaskAlone
<1>6. TaskThere'
  BY DEF TaskThere, EndsFired
<1>7. LockedPending'
  BY DEF LockedPending
<1>8. RunsExact'
  BY DEF RunsExact, Over, EndsFired
<1>9. QuietCancelled'
  BY DEF QuietCancelled
<1> QED BY <1>1, <1>2, <1>3, <1>4, <1>5, <1>6, <1>7, <1>8, <1>9 DEF IInv

\* Its timer thread looks again.
LEMMA NotifyOtherKeeps ==
    ASSUME IInv, NEW c \in Callers, NotifyOther(c)
    PROVE  IInv'
<1> USE DEF IInv, NotifyOther, At, Notify, Go
<1>1. TypeOK'
  OBVIOUS
<1>2. CallsExact'
  BY DEF CallsExact
<1>3. CallsApart'
  BY DEF CallsApart
<1>4. TimerInside'
  BY DEF TimerInside
<1>5. TaskAlone'
  <2>1. \A q, r \in Objs : HandedOn(q, r) => HandedOn(q, r)'
    BY DEF HandedOn
  <2> QED BY <2>1 DEF TaskAlone
<1>6. TaskThere'
  BY DEF TaskThere, EndsFired
<1>7. LockedPending'
  BY DEF LockedPending
<1>8. RunsExact'
  BY DEF RunsExact, Over, EndsFired
<1>9. QuietCancelled'
  BY DEF QuietCancelled
<1> QED BY <1>1, <1>2, <1>3, <1>4, <1>5, <1>6, <1>7, <1>8, <1>9 DEF IInv

\* And is joined.
LEMMA JoinOtherKeeps ==
    ASSUME IInv, NEW c \in Callers, JoinOther(c)
    PROVE  IInv'
<1> USE DEF IInv, JoinOther, At, Join, Go
<1>1. TypeOK'
  OBVIOUS
<1>2. CallsExact'
  BY DEF CallsExact
<1>3. CallsApart'
  BY DEF CallsApart
<1>4. TimerInside'
  BY DEF TimerInside
<1>5. TaskAlone'
  <2>1. \A q, r \in Objs : HandedOn(q, r) => HandedOn(q, r)'
    BY DEF HandedOn
  <2> QED BY <2>1 DEF TaskAlone
<1>6. TaskThere'
  BY DEF TaskThere, EndsFired
<1>7. LockedPending'
  BY DEF LockedPending
<1>8. RunsExact'
  BY DEF RunsExact, Over, EndsFired
<1>9. QuietCancelled'
  BY DEF QuietCancelled
<1> QED BY <1>1, <1>2, <1>3, <1>4, <1>5, <1>6, <1>7, <1>8, <1>9 DEF IInv

\* The task starts anew only if it had not been fired.
LEMMA AdoptKeeps ==
    ASSUME IInv, NEW c \in Callers, Adopt(c)
    PROVE  IInv'
<1> USE DEF IInv, Adopt, At, Return, Go
<1>1. TypeOK'
  OBVIOUS
<1>2. CallsExact'
  BY DEF CallsExact, CallsApart, TimerInside
<1>3. CallsApart'
  BY DEF CallsApart
<1>4. TimerInside'
  BY DEF TimerInside, CallsExact, CallsApart
<1>5. TaskAlone'
  BY DEF TaskAlone, HandedOn, CallsExact, CallsApart, TimerInside
<1>6. TaskThere'
  BY SMTT(30) DEF TaskThere, EndsFired, CallsExact, CallsApart
<1>7. LockedPending'
  BY DEF LockedPending, CallsExact, CallsApart, TaskThere, TaskAlone
<1>8. RunsExact'
  BY SMTT(30) DEF RunsExact, Over, EndsFired, CallsExact, CallsApart, TaskAlone,
         LockedPending, TimerInside
<1>9. QuietCancelled'
  BY DEF QuietCancelled
<1> QED BY <1>1, <1>2, <1>3, <1>4, <1>5, <1>6, <1>7, <1>8, <1>9 DEF IInv

-------------------------------------------------------------------------------
\* Every step of a caller or of a timer thread keeps IInv.
LEMMA NextKeeps == ASSUME IInv, [Next]_vars PROVE IInv'
<1>1. ASSUME NEW o \in Objs, TimerSteps(o) \/ Wake(o) PROVE IInv'
  BY <1>1, MovesKeep, FireKeeps, CallTaskKeeps, EndTaskKeeps DEF TimerSteps
<1>2. ASSUME NEW o \in Objs, NEW t \in Tasks, Construct(o, t) PROVE IInv'
  BY <1>2, ConstructKeeps
<1>3. ASSUME NEW c \in Callers, CallSteps(c) PROVE IInv'
  <2>1. CASE EndCancel(c) \/ Destroy(c)
    BY <2>1, EndCancelKeeps, DestroyKeeps
  <2>2. CASE Look(c) \/ Halt(c) \/ Rejoin(c) \/ Restart(c)
    BY <2>2, LookKeeps, HaltKeeps, RejoinKeeps, RestartKeeps
  <2>3. CASE \/ NotifyThenJoin(c, "destroy", "destroyjoin")
             \/ NotifyThenJoin(c, "halted", "rejoin")
             \/ NotifyThenJoin(c, "assign", "assignjoin")
    BY <2>3, NotifyThenJoinKeeps
  <2>4. CASE AssignJoin(c) \/ TakeTask(c) \/ AskPending(c) \/ StopOther(c)
    BY <2>4, AssignJoinKeeps, TakeTaskKeeps, AskPendingKeeps, StopOtherKeeps
  <2>5. CASE NotifyOther(c) \/ JoinOther(c) \/ Adopt(c)
    BY <2>5, NotifyOtherKeeps, JoinOtherKeeps, AdoptKeeps
  <2> QED BY <1>3, <2>1, <2>2, <2>3, <2>4, <2>5 DEF CallSteps
<1>4. ASSUME NEW c \in Callers, NEW o \in Objs,
             StartCancel(c, o) \/ StartDestroy(c, o) \/ StartReschedule(c, o)
      PROVE  IInv'
  BY <1>4, StartCancelKeeps, StartDestroyKeeps, StartRescheduleKeeps
<1>5. ASSUME NEW c \in Callers, NEW o \in Objs, NEW p \in Objs,
             StartAssign(c, o, p) \/ StartMove(c, o, p)
      PROVE  IInv'
  BY <1>5, StartAssignKeeps, StartMoveKeeps
<1>6. CASE UNCHANGED vars
  BY <1>6, StutterKeeps
<1> QED BY <1>1, <1>2, <1>3, <1>4, <1>5, <1>6 DEF Next

\* The invariant of the whole class: types, the calls' claims on their objects, and
\* what has become of each task.
THEOREM InductiveInvariant == Spec => []IInv
<1>1. Init => IInv
  BY InitKeeps
<1>2. IInv /\ [Next]_vars => IInv'
  BY NextKeeps
<1> QED BY <1>1, <1>2, PTL DEF Spec

\* A cancel that returns before the timer thread's last look is never undone by
\* anything but a reschedule or a move to the object: the task does not start.
THEOREM CancelsHold == Spec => []CancelHolds
<1>1. IInv => CancelHolds
  BY DEF IInv, QuietCancelled, CancelHolds
<1> QED BY <1>1, InductiveInvariant, PTL

\* Through cancels, moves and reschedules a task starts at most once, unless
\* has_fired_ was set while a reschedule that had found it false was under way.
THEOREM RunsOnce == Spec => []RunsOnceUnlessRaced
<1>1. IInv => RunsOnceUnlessRaced
  BY DEF IInv, RunsExact, RunsOnceUnlessRaced
<1> QED BY <1>1, InductiveInvariant, PTL

\* std::thread's assignment never meets a thread that is still joinable.
THEOREM SchedulesJoined == Spec => ScheduleJoined
<1> DEFINE Started(o) == timer'[o] = "start" /\ timer[o] # "start"
           Joined == \A o \in Objs : Started(o) => timer[o] = "none"
<1>1. ASSUME IInv, Next PROVE Joined
  <2>1. ASSUME NEW o \in Objs, TimerSteps(o) \/ Wake(o), NEW p \in Objs PROVE ~Started(p)
    <3>1. CASE Fire(o) \/ CallTask(o) \/ EndTask(o)
      BY <1>1, <3>1 DEF IInv, Fire, CallTask, EndTask, TimerGo
    <3>2. CASE Predicate(o) \/ Sleep(o) \/ Wake(o) \/ LastPredicate(o) \/ Check(o)
      BY <1>1, <3>2, TimerMoves DEF IInv
    <3> QED BY <2>1, <3>1, <3>2 DEF TimerSteps
  <2>2. ASSUME NEW o \in Objs, NEW t \in Tasks, Construct(o, t) PROVE Joined
    BY <1>1, <2>2 DEF IInv, TimerInside, Construct
  <2>3. ASSUME NEW c \in Callers, Restart(c) \/ Adopt(c) PROVE Joined
    <3>1. timer[obj[c]] = "none" /\ timer \in [Objs -> TimerPlaces]
      BY <1>1, <2>3 DEF IInv, CallsExact, Restart, Adopt, At
    <3>2. timer' = [timer EXCEPT ![obj[c]] = "start"] \/ timer' = timer
      BY <2>3 DEF Restart, Adopt
    <3> QED BY <3>1, <3>2
  <2>4. ASSUME NEW c \in Callers, CallSteps(c), ~Restart(c), ~Adopt(c), NEW p \in Objs
        PROVE  ~Started(p)
    BY <1>1, <2>4 DEF IInv, CallSteps, EndCancel, Destroy, Look, Halt, Rejoin,
       NotifyThenJoin, AssignJoin, TakeTask, AskPending, StopOther, NotifyOther,
       JoinOther, Notify, Join
  <2>5. ASSUME NEW c \in Callers, NEW o \in Objs,
               StartCancel(c, o) \/ StartDestroy(c, o) \/ StartReschedule(c, o),
               NEW p \in Objs
        PROVE  ~Started(p)
    BY <2>5 DEF StartCancel, StartDestroy, StartReschedule, Cancel
  <2>6. ASSUME NEW c \in Callers, NEW o \in Objs, NEW q \in Objs,
               StartAssign(c, o, q) \/ StartMove(c, o, q), NEW p \in Objs
        PROVE  ~Started(p)
    BY <2>6 DEF StartAssign, StartMove, Cancel
  <2> QED BY <1>1, <2>1, <2>2, <2>3, <2>4, <2>5, <2>6 DEF Next
<1>2. IInv /\ [Next]_vars => [Joined]_vars
  BY <1>1
<1> QED BY <1>2, InductiveInvariant, PTL DEF Spec, ScheduleJoined
===============================================================================
