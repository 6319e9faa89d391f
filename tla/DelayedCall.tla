----------------------------- MODULE DelayedCall ------------------------------
(***************************************************************************)
(* DelayedCall of src/include/delayed_call.h: an object with a task and a  *)
(* timer thread of its own, which sleeps until the delay is over or the    *)
(* object is cancelled, and then runs the task.                            *)
(*                                                                         *)
(* cancel and reschedule may be called by several threads at once.  Moves  *)
(* and the destructor belong to one owner, whom no other call disturbs;    *)
(* the timer threads go on beside all of them.  The flags are atomics and  *)
(* are written without wait_mutex_, so each access is a step.              *)
(*                                                                         *)
(* A delay may be over at any time.  Two data races of the code keep their *)
(* usual outcome here: a task that is moved while it runs, runs on; one    *)
(* that is moved before it is called is found there or gone.               *)
(***************************************************************************)
EXTENDS Integers

CONSTANTS Callers, Objs, Tasks, NoObj, NoTask

ASSUME NoneAssumption == NoObj \notin Objs /\ NoTask \notin Tasks

VARIABLES
    alive,         \* which objects exist
    fn,            \* task_fn_ of each object; NoTask when moved from
    cancelled,     \* is_cancelled_
    fired,         \* has_fired_
    rescheduling,  \* is_rescheduling_
    timer,         \* where timer_thread_ is; "none" when it is not joinable
    doing,         \* the task the timer thread runs
    pc, obj, src,  \* each caller: where it is, *this, and a move's other
    pending,       \* other_was_pending of a caller's move
    runs,          \* history: how often each task was started, up to 2
    raced,         \* history: tasks fired while a reschedule was under way
    quiet          \* history: objects cancelled in time, and left so

objVars  == <<alive, fn, cancelled, fired, rescheduling>>
callVars == <<pc, obj, src, pending>>
history  == <<runs, raced, quiet>>
vars     == <<objVars, timer, doing, callVars, history>>

Init == /\ alive = [o \in Objs |-> FALSE] /\ fn = [o \in Objs |-> NoTask]
        /\ cancelled = [o \in Objs |-> FALSE] /\ fired = [o \in Objs |-> FALSE]
        /\ rescheduling = [o \in Objs |-> FALSE]
        /\ timer = [o \in Objs |-> "none"] /\ doing = [o \in Objs |-> NoTask]
        /\ pc = [c \in Callers |-> "idle"]
        /\ obj = [c \in Callers |-> NoObj] /\ src = [c \in Callers |-> NoObj]
        /\ pending = [c \in Callers |-> FALSE]
        /\ runs = [t \in Tasks |-> 0] /\ raced = {} /\ quiet = {}

Sharing  == {"idle", "cancelled", "reschedule", "halt", "halted", "rejoin", "restart"}
Awaiting == {"halted", "rejoin", "halt"}      \* reschedule, past its has_fired_ test
Locked   == Awaiting \cup {"restart"}         \* inside reschedule_mutex_
Firing   == {"fire", "call", "running"}       \* the timer thread will not look again

At(c, place)   == pc[c] = place
Go(c, place)   == pc' = [pc EXCEPT ![c] = place]
Return(c)      == /\ Go(c, "idle")
                  /\ obj' = [obj EXCEPT ![c] = NoObj] /\ src' = [src EXCEPT ![c] = NoObj]
                  /\ pending' = [pending EXCEPT ![c] = FALSE]
Enter(c, o, p, place) == /\ At(c, "idle") /\ Go(c, place)
                         /\ obj' = [obj EXCEPT ![c] = o] /\ src' = [src EXCEPT ![c] = p]
                         /\ UNCHANGED pending

\* Nobody moves or destroys o; nobody at all is in a call on o.
Shared(o) == alive[o] /\ \A d \in Callers : o \in {obj[d], src[d]} => pc[d] \in Sharing
Owned(o)  == \A d \in Callers : o \notin {obj[d], src[d]}

\* cv_.notify_all() wakes the timer thread if it sleeps.
Notify(o) == timer' = [timer EXCEPT ![o] = IF @ = "asleep" THEN "wait" ELSE @]

\* timer_thread_.join(), if joinable.
Join(o) == /\ timer[o] \in {"none", "done"}
           /\ timer' = [timer EXCEPT ![o] = "none"]

\* The histories of a task end with it.
Forget(t) == /\ runs' = [u \in Tasks |-> IF u = t THEN 0 ELSE runs[u]]
             /\ raced' = raced \ {t}
-----------------------------------------------------------------------------
(***************************************************************************)
(* The constructor, cancel and the destructor.                             *)
(***************************************************************************)

Construct(o, t) ==
    /\ ~alive[o] /\ Owned(o)
    /\ \A p \in Objs : fn[p] # t /\ doing[p] # t
    /\ alive' = [alive EXCEPT ![o] = TRUE] /\ fn' = [fn EXCEPT ![o] = t]
    /\ cancelled' = [cancelled EXCEPT ![o] = FALSE] /\ fired' = [fired EXCEPT ![o] = FALSE]
    /\ rescheduling' = [rescheduling EXCEPT ![o] = FALSE]
    /\ timer' = [timer EXCEPT ![o] = "start"]
    /\ UNCHANGED <<doing, callVars, history>>

\* The first half of cancel, called directly, by the destructor or by a move
\* assignment to the object.
Cancel(c, o, p, place) ==
    /\ Enter(c, o, p, place)
    /\ cancelled' = [cancelled EXCEPT ![o] = TRUE]
    /\ UNCHANGED <<alive, fn, fired, rescheduling, timer, doing, history>>

StartCancel(c, o)    == Shared(o) /\ Cancel(c, o, NoObj, "cancelled")
StartDestroy(c, o)   == alive[o] /\ Owned(o) /\ Cancel(c, o, NoObj, "destroy")
StartAssign(c, o, p) == /\ o # p /\ alive[o] /\ alive[p] /\ Owned(o) /\ Owned(p)
                        /\ Cancel(c, o, p, "assign")

\* Its second half.  quiet records that the call came in time: the timer
\* thread is not past its last look at the flag, nor is a reschedule under way.
EndCancel(c) ==
    /\ At(c, "cancelled") /\ Notify(obj[c]) /\ Return(c)
    /\ quiet' = IF /\ timer[obj[c]] \notin Firing /\ cancelled[obj[c]]
                   /\ \A d \in Callers : obj[d] = obj[c] => pc[d] \notin Locked
                THEN quiet \cup {obj[c]} ELSE quiet
    /\ UNCHANGED <<objVars, doing, runs, raced>>

NotifyThenJoin(c, place, next) ==
    /\ At(c, place) /\ Notify(obj[c]) /\ Go(c, next)
    /\ UNCHANGED <<objVars, doing, obj, src, pending, history>>

\* The object is gone, its task with it.
End(o) ==
    /\ alive' = [alive EXCEPT ![o] = FALSE] /\ fn' = [fn EXCEPT ![o] = NoTask]
    /\ fired' = [fired EXCEPT ![o] = FALSE] /\ quiet' = quiet \ {o} /\ Forget(fn[o])
    /\ UNCHANGED <<cancelled, rescheduling, doing>>

\* A mutant: the destructor does not wait for the timer thread.
DestroyUnjoined(c) ==
    /\ At(c, "destroyjoin") /\ End(obj[c]) /\ Return(c) /\ UNCHANGED timer

Destroy(c) == /\ At(c, "destroyjoin") /\ Join(obj[c]) /\ End(obj[c]) /\ Return(c)
-----------------------------------------------------------------------------
(***************************************************************************)
(* reschedule.                                                             *)
(***************************************************************************)

StartReschedule(c, o) ==
    /\ Shared(o) /\ Enter(c, o, NoObj, "reschedule")
    /\ UNCHANGED <<objVars, timer, doing, history>>

\* A mutant: reschedule without reschedule_mutex_.
LookUnlocked(c) ==
    /\ At(c, "reschedule")
    /\ IF fired[obj[c]] THEN Return(c) /\ UNCHANGED quiet
       ELSE /\ Go(c, "halt") /\ quiet' = quiet \ {obj[c]}
            /\ UNCHANGED <<obj, src, pending>>
    /\ UNCHANGED <<objVars, timer, doing, runs, raced>>

\* reschedule_mutex_ is taken, and has_fired_ looked at.
Look(c) ==
    /\ At(c, "reschedule")
    /\ \A d \in Callers : obj[d] = obj[c] => pc[d] \notin Locked
    /\ IF fired[obj[c]] THEN Return(c) /\ UNCHANGED quiet
       ELSE /\ Go(c, "halt") /\ quiet' = quiet \ {obj[c]}
            /\ UNCHANGED <<obj, src, pending>>
    /\ UNCHANGED <<objVars, timer, doing, runs, raced>>

Halt(c) ==
    /\ At(c, "halt") /\ Go(c, "halted")
    /\ rescheduling' = [rescheduling EXCEPT ![obj[c]] = TRUE]
    /\ cancelled' = [cancelled EXCEPT ![obj[c]] = TRUE]
    /\ UNCHANGED <<alive, fn, fired, timer, doing, obj, src, pending, history>>

Rejoin(c) ==
    /\ At(c, "rejoin") /\ Join(obj[c]) /\ Go(c, "restart")
    /\ UNCHANGED <<objVars, doing, obj, src, pending, history>>

\* A mutant: the object is left cancelled until its new timer has started.
RestartCancelled(c) ==
    /\ At(c, "restart")
    /\ rescheduling' = [rescheduling EXCEPT ![obj[c]] = FALSE]
    /\ cancelled' = [cancelled EXCEPT ![obj[c]] = FALSE]
    /\ timer' = [timer EXCEPT ![obj[c]] = IF cancelled[obj[c]] THEN "done" ELSE "start"]
    /\ Return(c)
    /\ UNCHANGED <<alive, fn, fired, doing, history>>

\* The flags are cleared, a cancel meanwhile included, and a timer started.
Restart(c) ==
    /\ At(c, "restart")
    /\ rescheduling' = [rescheduling EXCEPT ![obj[c]] = FALSE]
    /\ cancelled' = [cancelled EXCEPT ![obj[c]] = FALSE]
    /\ timer' = [timer EXCEPT ![obj[c]] = "start"]
    /\ Return(c)
    /\ UNCHANGED <<alive, fn, fired, doing, history>>
-----------------------------------------------------------------------------
(***************************************************************************)
(* The move constructor and assignment, from src[c] to obj[c].             *)
(***************************************************************************)

StartMove(c, o, p) ==
    /\ ~alive[o] /\ alive[p] /\ Owned(o) /\ Owned(p)
    /\ Enter(c, o, p, "take")
    /\ UNCHANGED <<objVars, timer, doing, history>>

AssignJoin(c) ==
    /\ At(c, "assignjoin") /\ Join(obj[c]) /\ Go(c, "take")
    /\ UNCHANGED <<objVars, doing, obj, src, pending, history>>

\* A mutant: the task is copied, so that the other may still run it.
TakeCopy(c) ==
    /\ At(c, "take") /\ Go(c, "ask") /\ Forget(fn[obj[c]])
    /\ alive' = [alive EXCEPT ![obj[c]] = TRUE]
    /\ fn' = [fn EXCEPT ![obj[c]] = fn[src[c]]]
    /\ UNCHANGED <<cancelled, fired, rescheduling, timer, doing, obj, src, pending, quiet>>

TakeTask(c) ==
    /\ At(c, "take") /\ Go(c, "ask") /\ Forget(fn[obj[c]])
    /\ alive' = [alive EXCEPT ![obj[c]] = TRUE]
    /\ fn' = [fn EXCEPT ![obj[c]] = fn[src[c]], ![src[c]] = NoTask]
    /\ UNCHANGED <<cancelled, fired, rescheduling, timer, doing, obj, src, pending, quiet>>

AskPending(c) ==
    /\ At(c, "ask") /\ Go(c, "stop")
    /\ pending' = [pending EXCEPT ![c] = ~fired[src[c]] /\ ~cancelled[src[c]]]
    /\ UNCHANGED <<objVars, timer, doing, obj, src, history>>

StopOther(c) ==
    /\ At(c, "stop") /\ Go(c, "stopped")
    /\ cancelled' = [cancelled EXCEPT ![src[c]] = TRUE]
    /\ UNCHANGED <<alive, fn, fired, rescheduling, timer, doing, obj, src, pending, history>>

NotifyOther(c) ==
    /\ At(c, "stopped") /\ Notify(src[c]) /\ Go(c, "joinother")
    /\ UNCHANGED <<objVars, doing, obj, src, pending, history>>

JoinOther(c) ==
    /\ At(c, "joinother") /\ Join(src[c]) /\ Go(c, "adopt")
    /\ UNCHANGED <<objVars, doing, obj, src, pending, history>>

\* The other counts as fired, and so does this one unless it was pending.
Adopt(c) ==
    /\ At(c, "adopt")
    /\ fired' = [fired EXCEPT ![src[c]] = TRUE, ![obj[c]] = ~pending[c]]
    /\ cancelled' = [cancelled EXCEPT ![obj[c]] = FALSE]
    /\ rescheduling' = [rescheduling EXCEPT ![obj[c]] = FALSE]
    /\ timer' = IF pending[c] THEN [timer EXCEPT ![obj[c]] = "start"] ELSE timer
    /\ quiet' = quiet \ {obj[c]}
    /\ Return(c)
    /\ UNCHANGED <<alive, fn, doing, runs, raced>>
-----------------------------------------------------------------------------
(***************************************************************************)
(* The timer thread of an object.                                          *)
(***************************************************************************)
TimerGo(o, place) == timer' = [timer EXCEPT ![o] = place]

\* A look at is_cancelled_: it returns, or goes on to place.
LookAt(o, place) ==
    /\ TimerGo(o, IF cancelled[o] THEN "done" ELSE place)
    /\ UNCHANGED <<objVars, doing, callVars, history>>

\* wait_until evaluates its predicate; only then does it sleep, and a
\* notification in between is lost.
Predicate(o) == timer[o] \in {"start", "wait"} /\ LookAt(o, "drowsy")
Sleep(o)     == /\ timer[o] = "drowsy" /\ TimerGo(o, "asleep")
                /\ UNCHANGED <<objVars, doing, callVars, history>>

\* The delay is over; or the thread wakes for no reason.
Wake(o) == /\ timer[o] = "asleep"
           /\ TimerGo(o, "late") \/ TimerGo(o, "wait")
           /\ UNCHANGED <<objVars, doing, callVars, history>>

TimeOut(o) == Wake(o) /\ timer'[o] = "late"

\* The predicate once more, and the test "to handle race conditions".
LastPredicate(o) == timer[o] = "late" /\ LookAt(o, "check")

\* A mutant: without the test after the wait.
CheckSkipped(o) == /\ timer[o] = "check" /\ TimerGo(o, "fire")
                   /\ UNCHANGED <<objVars, doing, callVars, history>>

Check(o)         == timer[o] = "check" /\ LookAt(o, "fire")

Fire(o) ==
    /\ timer[o] = "fire" /\ TimerGo(o, "call")
    /\ fired' = [fired EXCEPT ![o] = TRUE]
    /\ raced' = IF \E d \in Callers : obj[d] = o /\ pc[d] \in Awaiting
                THEN raced \cup {fn[o]} ELSE raced
    /\ UNCHANGED <<alive, fn, cancelled, rescheduling, doing, callVars, runs, quiet>>

\* task_fn_(): empty, it throws, and that is swallowed like all it throws.
CallTask(o) ==
    /\ timer[o] = "call"
    /\ IF fn[o] = NoTask
       THEN TimerGo(o, "done") /\ UNCHANGED <<doing, runs>>
       ELSE /\ TimerGo(o, "running")
            /\ doing' = [doing EXCEPT ![o] = fn[o]]
            /\ runs' = [runs EXCEPT ![fn[o]] = IF @ = 2 THEN 2 ELSE @ + 1]
    /\ UNCHANGED <<objVars, callVars, raced, quiet>>

EndTask(o) ==
    /\ timer[o] = "running" /\ TimerGo(o, "done")
    /\ doing' = [doing EXCEPT ![o] = NoTask]
    /\ UNCHANGED <<objVars, callVars, history>>
-----------------------------------------------------------------------------
CallSteps(c) ==
    \/ EndCancel(c) \/ Destroy(c) \/ Look(c) \/ Halt(c) \/ Rejoin(c) \/ Restart(c)
    \/ NotifyThenJoin(c, "destroy", "destroyjoin") \/ NotifyThenJoin(c, "halted", "rejoin")
    \/ NotifyThenJoin(c, "assign", "assignjoin") \/ AssignJoin(c)
    \/ TakeTask(c) \/ AskPending(c) \/ StopOther(c) \/ NotifyOther(c) \/ JoinOther(c)
    \/ Adopt(c)

TimerSteps(o) == \/ Predicate(o) \/ Sleep(o) \/ LastPredicate(o) \/ Check(o)
                 \/ Fire(o) \/ CallTask(o) \/ EndTask(o)

Next == \/ \E o \in Objs : TimerSteps(o) \/ Wake(o)
        \/ \E o \in Objs, t \in Tasks : Construct(o, t)
        \/ \E c \in Callers :
              \/ CallSteps(c)
              \/ \E o \in Objs : \/ StartCancel(c, o) \/ StartDestroy(c, o)
                                 \/ StartReschedule(c, o)
              \/ \E o, p \in Objs : StartAssign(c, o, p) \/ StartMove(c, o, p)

\* Calls and timer threads that have begun go on, and delays end, however often
\* a sleeping thread is woken before.  Each of these steps changes the place its
\* own thread is at, so that the subscripts may name just that.
Fairness == /\ \A c \in Callers : WF_<<pc[c]>>(CallSteps(c))
            /\ \A o \in Objs : WF_<<timer[o]>>(TimerSteps(o)) /\ SF_<<timer[o]>>(TimeOut(o))

Spec     == Init /\ [][Next]_vars
FairSpec == Spec /\ Fairness
-----------------------------------------------------------------------------
TimerPlaces == {"none", "start", "wait", "drowsy", "asleep", "late", "check", "done"} \cup Firing
Taken  == {"ask", "stop", "stopped", "joinother", "adopt"}     \* a move that has the task
Moving == {"assign", "assignjoin", "take"} \cup Taken
Owning == {"destroy", "destroyjoin"} \cup Moving

TypeOK ==
    /\ alive \in [Objs -> BOOLEAN] /\ fn \in [Objs -> Tasks \cup {NoTask}]
    /\ cancelled \in [Objs -> BOOLEAN] /\ fired \in [Objs -> BOOLEAN]
    /\ rescheduling \in [Objs -> BOOLEAN] /\ timer \in [Objs -> TimerPlaces]
    /\ doing \in [Objs -> Tasks \cup {NoTask}]
    /\ pc \in [Callers -> Sharing \cup Owning]
    /\ obj \in [Callers -> Objs \cup {NoObj}] /\ src \in [Callers -> Objs \cup {NoObj}]
    /\ pending \in [Callers -> BOOLEAN]
    /\ runs \in [Tasks -> 0 .. 2] /\ raced \subseteq Tasks /\ quiet \subseteq Objs

\* A call is about objects that exist, and has joined the timer thread of the
\* object whose thread it is about to start or whose task it takes.
CallsExact ==
    \A c \in Callers :
        /\ pc[c] = "idle" <=> obj[c] = NoObj
        /\ pc[c] \in Moving <=> src[c] # NoObj
        /\ pc[c] \in Moving => src[c] # obj[c] /\ alive[src[c]]
        /\ pc[c] \notin {"idle", "take"} => alive[obj[c]]
        /\ pc[c] \in Taken \cup {"take", "restart"} => timer[obj[c]] = "none"
        /\ pc[c] = "adopt" => timer[src[c]] = "none"

\* Owners have their objects to themselves, and one reschedule at a time is past
\* the lock of its object.
CallsApart ==
    \A c, d \in Callers : c # d =>
        /\ pc[c] \in Owning => \A o \in Objs : o \in {obj[c], src[c]} => o \notin {obj[d], src[d]}
        /\ pc[c] \in Locked /\ pc[d] \in Locked => obj[c] # obj[d]

\* No timer thread and no task outlives its object, and a timer thread that calls its task
\* has marked it as fired.
TimerInside ==
    \A o \in Objs : /\ timer[o] # "none" \/ fn[o] # NoTask => alive[o]
                    /\ timer[o] \in {"call", "running"} => fired[o]
                    /\ doing[o] # NoTask => timer[o] = "running"

\* A move from p to o has the task already.
HandedOn(o, p) == \E c \in Callers : pc[c] \in Taken /\ obj[c] = o /\ src[c] = p

\* A task belongs to one object, and never runs in two threads at once, however
\* it is moved and rescheduled: it may run on in the thread of the object it has
\* been moved from, and then the move is still under way.
TaskAlone ==
    \A o, p \in Objs : o # p =>
        /\ fn[o] = NoTask \/ fn[o] # fn[p]
        /\ doing[o] = NoTask \/ doing[o] # doing[p]
        /\ doing[p] # NoTask /\ fn[o] = doing[p] => HandedOn(o, p)

\* What a move under way will leave in its object is marked as fired.
EndsFired(c) == IF pc[c] = "ask" THEN fired[src[c]] ELSE ~pending[c]

\* Only an object that has fired, or a party to a move, may be without a task.
TaskThere ==
    /\ \A o \in Objs : alive[o] /\ fn[o] = NoTask =>
          fired[o] \/ \E c \in Callers : pc[c] \in Taken /\ o \in {obj[c], src[c]}
    /\ \A c \in Callers : pc[c] \in Taken /\ fn[obj[c]] = NoTask => EndsFired(c)

\* A reschedule past its test has found a task that has not fired, or one that
\* has fired since and counts as raced.
LockedPending ==
    \A c \in Callers : pc[c] \in Locked =>
        /\ fn[obj[c]] # NoTask
        /\ fired[obj[c]] => fn[obj[c]] \in raced

\* Nothing will run the task of o again.
Over(o) ==
    /\ timer[o] \in {"none", "running", "done"}
    /\ \A c \in Callers : obj[c] = o => pc[c] \notin Locked /\ (pc[c] \in Taken => EndsFired(c))
    /\ fired[o] \/ \E c \in Callers : obj[c] = o /\ pc[c] \in Taken

\* A task without an object has no history, and one that has run without being
\* raced is over.
RunsExact ==
    \A t \in Tasks :
        /\ (\A o \in Objs : fn[o] # t) => runs[t] = 0
        /\ t \notin raced => runs[t] <= 1
        /\ t \notin raced /\ runs[t] = 1 => \A o \in Objs : fn[o] = t => Over(o)

\* Whoever was cancelled in time is still cancelled.
QuietCancelled ==
    \A o \in quiet : /\ alive[o] /\ cancelled[o] /\ timer[o] \notin Firing
                     /\ \A c \in Callers : obj[c] = o => pc[c] \notin Locked

IInv == /\ TypeOK /\ CallsExact /\ CallsApart /\ TimerInside /\ TaskAlone /\ TaskThere
        /\ LockedPending /\ RunsExact /\ QuietCancelled

\* A new timer thread never replaces one that was not joined, which would end
\* the program (std::terminate): not with two reschedules at once, nor after
\* a move.
ScheduleJoined == [][\A o \in Objs : timer'[o] = "start" /\ timer[o] # "start"
                                        => timer[o] = "none"]_vars

\* A task starts at most once, through cancels, moves and reschedules, unless
\* it fired while a reschedule that had found it pending was under way.
RunsOnceUnlessRaced == \A t \in Tasks : t \notin raced => runs[t] <= 1

\* A cancel that comes before the timer thread's last look holds, until the
\* object is rescheduled or another task is moved to it.
CancelHolds == \A o \in quiet : timer[o] \notin Firing

\* A pending call is never forgotten, as a lost notification or a flag left set
\* would have it: it fires, or the object is cancelled, moved from or destroyed.
Pending(o) == alive[o] /\ ~cancelled[o] /\ ~fired[o]
PendingFires == \A o \in Objs : []<>~Pending(o)
==============================================================================
