------------------------------ MODULE TimerWheel ------------------------------
(***************************************************************************)
(* TimerWheel of src/include/timer_wheel.h: timers wait in the slots of a  *)
(* wheel, and the n-th call of tick fires those of slot n mod wheel_size_  *)
(* whose rounds are used up.                                               *)
(*                                                                         *)
(* The class has no lock: one thread calls it.  A callback runs in the     *)
(* middle of tick and may itself add and cancel timers, its own included,  *)
(* so tick is a step per timer, and one more for the end of a callback.    *)
(* A callback does not call tick.                                          *)
(***************************************************************************)
EXTENDS Naturals, Sequences, SequencesExt, Lists

CONSTANTS
    Resolution,   \* resolution_ms_
    Size,         \* wheel_size_
    Delays,       \* the delays callers ask for, in ms
    NoTimer,
    MaxId,        \* bound: no more timers are added than this
    MaxTick       \* bound: no more ticks than this

\* What the constants must be.
ASSUME WheelAssumption   == /\ Resolution \in Nat \ {0} /\ Size \in Nat \ {0}
                            /\ Delays \subseteq Nat
ASSUME BoundAssumption   == MaxId \in Nat /\ MaxTick \in Nat
ASSUME NoTimerAssumption == NoTimer \notin 0 .. MaxId

VARIABLES
    current,   \* current_tick_absolute_
    nextId,    \* next_timer_id_
    wheel,     \* wheel_: the ids in each slot, front first
    timers,    \* timers_
    ticking,   \* a call of tick is under way
    copy,      \* what is left of ids_in_slot_copy
    firing,    \* the timer whose callback runs, or NoTimer
    corrupt,   \* a list node has been erased twice
    due        \* history: the number of the tick in which each timer must fire

wheelVars == <<current, nextId, wheel, timers, ticking, copy, firing, corrupt, due>>

Slots   == 0 .. Size - 1
Scheduled == DOMAIN timers
Put(f, i, x)  == [j \in DOMAIN f \cup {i} |-> IF j = i THEN x ELSE f[j]]
Drop(f, i)    == [j \in DOMAIN f \ {i} |-> f[j]]

WheelInit == /\ current = 0 /\ nextId = 0
             /\ wheel = [s \in Slots |-> <<>>]
             /\ timers = Drop([i \in {0} |-> 0], 0)
             /\ ticking = FALSE /\ copy = <<>> /\ firing = NoTimer
             /\ corrupt = FALSE
             /\ due = Drop([i \in {0} |-> 0], 0)
-----------------------------------------------------------------------------
(***************************************************************************)
(* calculatePlacement.                                                     *)
(***************************************************************************)

TicksToWait(delay) == IF delay = 0 THEN 1
                      ELSE (delay + Resolution - 1) \div Resolution

\* A mutant: the slot is counted from the tick to come.
SlotFromNext(delay) == (current + TicksToWait(delay)) % Size

SlotFor(delay)   == ((current % Size) + ((TicksToWait(delay) - 1) % Size)) % Size

RoundsFor(delay) == (TicksToWait(delay) - 1) \div Size

\* The tick in which a timer placed now must fire.  Between two calls of tick
\* it is the TicksToWait-th call from now.  Within a tick the same sum counts
\* the tick under way as the first, so that the timer comes one tick early;
\* and if the sum names this very slot, whose timers tick has copied before,
\* the timer comes with the next turn of the wheel.
DueFor(delay) ==
    LET n == TicksToWait(delay) - 1
    IN  current + n + (IF ticking /\ n % Size = 0 THEN Size ELSE 0)
-----------------------------------------------------------------------------
(***************************************************************************)
(* addTimer and cancelTimer, called by the program or by a callback.       *)
(***************************************************************************)

CallerRuns == (ticking => firing # NoTimer) /\ ~corrupt

AddTimer(delay, type) ==
    LET interval == CASE type = "OneShot" -> 0
                      [] type = "Periodic" -> IF delay = 0 THEN Resolution ELSE delay
    IN  /\ CallerRuns
        /\ nextId < MaxId
        /\ nextId' = nextId + 1
        /\ wheel' = [wheel EXCEPT ![SlotFor(delay)] = <<nextId>> \o @]
        /\ timers' = Put(timers, nextId,
                         [type |-> type, interval |-> interval,
                          rounds |-> RoundsFor(delay), slot |-> SlotFor(delay)])
        /\ due' = Put(due, nextId, DueFor(delay))
        /\ UNCHANGED <<current, ticking, copy, firing, corrupt>>

\* A mutant: cancelTimer leaves the id in its slot.
CancelInMapOnly(id) ==
    /\ CallerRuns
    /\ id \in Scheduled /\ id # firing
    /\ timers' = Drop(timers, id) /\ due' = Drop(due, id)
    /\ UNCHANGED <<current, nextId, wheel, ticking, copy, firing, corrupt>>

CancelTimer(id) ==
    /\ CallerRuns
    /\ id \in Scheduled
    /\ id # firing
    /\ wheel' = [wheel EXCEPT ![timers[id].slot] = Skipping(@, {id})]
    /\ timers' = Drop(timers, id)
    /\ due' = Drop(due, id)
    /\ UNCHANGED <<current, nextId, ticking, copy, firing, corrupt>>

\* A periodic timer cancelled by its own callback: tick has erased its list
\* node already.  With other timers in the slot cancelTimer erases it again,
\* and what becomes of the program is undefined.
CancelOwn ==
    /\ CallerRuns
    /\ firing \in Scheduled
    /\ corrupt' = (wheel[timers[firing].slot] # <<>>)
    /\ timers' = Drop(timers, firing)
    /\ due' = Drop(due, firing)
    /\ UNCHANGED <<current, nextId, wheel, ticking, copy, firing>>
-----------------------------------------------------------------------------
(***************************************************************************)
(* tick.                                                                   *)
(***************************************************************************)

Slot == current % Size

StartTick == /\ ~ticking /\ ~corrupt /\ current < MaxTick
             /\ ticking' = TRUE
             /\ copy' = wheel[Slot]
             /\ UNCHANGED <<current, nextId, wheel, timers, firing, corrupt, due>>

Here(id) == id \in Scheduled /\ timers[id].slot = Slot

\* The loop of tick looks at the next timer of its copy.
TakeNext(id) == /\ ticking /\ firing = NoTimer /\ ~corrupt
                /\ copy # <<>> /\ id = Head(copy)
                /\ copy' = Tail(copy)

PassOver(id) == /\ TakeNext(id)
                /\ ~Here(id)
                /\ UNCHANGED <<current, nextId, wheel, timers, ticking, firing, corrupt, due>>

CountDown(id) == /\ TakeNext(id)
                 /\ Here(id) /\ timers[id].rounds > 0
                 /\ timers' = [timers EXCEPT ![id].rounds = @ - 1]
                 /\ UNCHANGED <<current, nextId, wheel, ticking, firing, corrupt, due>>

FireTimer(id) == /\ TakeNext(id)
                 /\ Here(id) /\ timers[id].rounds = 0
                 /\ wheel' = [wheel EXCEPT ![Slot] = Skipping(@, {id})]
                 /\ firing' = id
                 /\ IF timers[id].type = "OneShot"
                    THEN timers' = Drop(timers, id) /\ due' = Drop(due, id)
                    ELSE UNCHANGED <<timers, due>>
                 /\ UNCHANGED <<current, nextId, ticking, corrupt>>

\* The callback returns; a periodic timer is placed again, unless cancelled.
EndCallback ==
    /\ firing # NoTimer /\ ~corrupt
    /\ firing' = NoTimer
    /\ \/ /\ firing \in Scheduled
          /\ LET delay == timers[firing].interval
             IN /\ wheel' = [wheel EXCEPT ![SlotFor(delay)] = <<firing>> \o @]
                /\ timers' = [timers EXCEPT ![firing].slot = SlotFor(delay),
                                            ![firing].rounds = RoundsFor(delay)]
                /\ due' = [due EXCEPT ![firing] = DueFor(delay)]
       \/ firing \notin Scheduled /\ UNCHANGED <<wheel, timers, due>>
    /\ UNCHANGED <<current, nextId, ticking, copy, corrupt>>

EndTick == /\ ticking /\ firing = NoTimer /\ copy = <<>>
           /\ ticking' = FALSE
           /\ current' = current + 1
           /\ UNCHANGED <<nextId, wheel, timers, copy, firing, corrupt, due>>

WheelNext == \/ \E d \in Delays, t \in {"OneShot", "Periodic"} : AddTimer(d, t)
             \/ \E id \in Scheduled : CancelTimer(id)
             \/ CancelOwn
             \/ StartTick \/ EndCallback \/ EndTick
             \/ \E id \in ToSet(copy) : PassOver(id) \/ CountDown(id) \/ FireTimer(id)

WheelSpec == WheelInit /\ [][WheelNext]_wheelVars
-----------------------------------------------------------------------------
(***************************************************************************)
(* Properties.                                                             *)
(***************************************************************************)

Waiting == Scheduled \ {firing}

Timers == [type : {"OneShot", "Periodic"}, interval : Nat, rounds : Nat, slot : Slots]

WheelTypeOK ==
    /\ current \in 0 .. MaxTick /\ nextId \in 0 .. MaxId
    /\ ticking \in BOOLEAN /\ corrupt \in BOOLEAN
    /\ Scheduled \subseteq 0 .. nextId - 1
    /\ timers \in [Scheduled -> Timers] /\ due \in [Scheduled -> Nat]
    /\ wheel \in [Slots -> Seq(0 .. nextId - 1)]
    /\ copy \in Seq(0 .. nextId - 1)
    /\ firing \in 0 .. nextId - 1 \cup {NoTimer}

SlotsExact == \A s \in Slots : /\ IsInjective(wheel[s])
                              /\ ToSet(wheel[s]) = {id \in Waiting : timers[id].slot = s}

\* The copy names no timer twice, nor the one that fires.
CopyExact == /\ ticking => current < MaxTick
             /\ firing # NoTimer => ticking
             /\ ~ticking => copy = <<>>
             /\ IsInjective(copy) /\ firing \notin ToSet(copy)

\* The tick under way is over for a timer that waits in its slot but is not, or
\* no longer, in its copy.
OverFor(id) == ticking /\ timers[id].slot = Slot /\ id \notin ToSet(copy)

\* The whole turns a timer has to wait, after this tick if it is over for it.
Turns(id) == timers[id].rounds + IF OverFor(id) THEN 1 ELSE 0

\* Slot and rounds of a timer lead to the tick it is due in.
InTime(id) == /\ due[id] % Size = timers[id].slot
              /\ current + Turns(id) * Size <= due[id]
              /\ due[id] < current + (Turns(id) + 1) * Size

DueExact == \A id \in Waiting : InTime(id)

\* The slots hold exactly the timers that wait, each once and in the slot its
\* record names, so that cancelTimer erases the right node and tick, which
\* works on a copy, finds every timer; ids are never given out again.  And no
\* timer is passed over: whatever callbacks add and cancel while the wheel
\* turns, slot and rounds say when a timer is due, and that is not over yet.
WheelExact == WheelTypeOK /\ SlotsExact /\ CopyExact /\ DueExact

\* A timer fires in the tick it is due in, and a cancelled one never.
FiresWhenDue ==
    [][\A id \in 0 .. MaxId : firing' = id /\ firing # id
          => id \in Scheduled /\ due[id] = current]_wheelVars
=============================================================================
