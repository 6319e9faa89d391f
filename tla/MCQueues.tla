------------------------------- MODULE MCQueues -------------------------------
(* The two queues of work, each on its own: an AsyncEventQueue of two places   *)
(* with two producers and two consumers, or a CallQueue of three tasks with    *)
(* two keys and two threads that drain it.                                     *)
EXTENDS AsyncEventQueue, CallQueue

VARIABLE subject      \* which queue this behaviour is about

QueuesNext == \/ subject = "events" /\ Next      /\ UNCHANGED <<callVars, subject>>
              \/ subject = "calls"  /\ CallsNext /\ UNCHANGED <<vars, subject>>

QueuesInit == Init /\ CallsInit /\ subject \in {"events", "calls"}

\* The threads of AsyncEventQueue are idle in behaviours about the other queue.
QueuesSpec == /\ QueuesInit
              /\ [][QueuesNext]_<<vars, callVars, subject>>
              /\ Fairness
===============================================================================
