------------------------------- MODULE MCTimers -------------------------------
(* The two ways to run something later, each on its own: two DelayedCalls with *)
(* two threads that call them, one of which only cancels and reschedules, or a *)
(* TimerWheel of three slots of two milliseconds, with delays of one, two,     *)
(* four and six ticks, some of them more than a turn of the wheel.             *)
EXTENDS DelayedCall, TimerWheel

CONSTANT c2           \* the thread that only cancels and reschedules

VARIABLE subject      \* which timer this behaviour is about

\* The callers are alike, a move needs both objects and a destruction its own, so
\* that leaving these two to one thread leaves out only two destructions at once.
\* A wheel that has come to its bounds rests; a delayed call that has stopped
\* where it may not is a deadlock.
TimersNext ==
    \/ subject = "call"  /\ Next /\ pc'[c2] \in Sharing /\ UNCHANGED <<wheelVars, subject>>
    \/ subject = "wheel" /\ WheelNext /\ UNCHANGED <<vars, subject>>
    \/ subject = "wheel" /\ UNCHANGED <<vars, wheelVars, subject>>

TimersInit == Init /\ WheelInit /\ subject \in {"call", "wheel"}

TimersSpec == /\ TimersInit
              /\ [][TimersNext]_<<vars, wheelVars, subject>>
              /\ Fairness
==============================================================================
