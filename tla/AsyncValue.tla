------------------------------ MODULE AsyncValue ------------------------------
(***************************************************************************)
(* AsyncValue<T> ("value") and AsyncValue<void> ("void") of                *)
(* src/include/async_value.h: a value set by one thread, and callbacks     *)
(* that any thread registers for it.                                       *)
(*                                                                         *)
(* mutex_ is never held while a callback runs, so what a callback does to  *)
(* its AsyncValue is what another thread may do at that moment.  The       *)
(* notifying loop reads m_value without the mutex.  get and get_if, which  *)
(* take another mutex than reset, are safe only while nobody resets, and   *)
(* change nothing: they are left out.                                      *)
(***************************************************************************)
EXTENDS Naturals, Sequences, SequencesExt

CONSTANTS Setters, Callbacks

VARIABLES
    type,          \* which of the two classes
    ready,         \* m_ready
    engaged,       \* m_value.has_value()
    callbacks,     \* m_callbacks
    pc,            \* where each setter is
    todo,          \* what is left of callbacks_copy
    immediate,     \* callbacks that on_ready has found ready and not yet run
    runs,          \* history: how often each callback was run, up to 2
    registered,    \* history: the callbacks given to on_ready
    dropped,       \* history: callbacks a reset discarded, or crossed
    late           \* history: setters whose notification a reset has crossed

cellVars == <<type, ready, engaged, callbacks>>
asyncVars == <<cellVars, pc, todo, immediate, runs, registered, dropped, late>>

AsyncInit ==
    /\ type \in {"value", "void"}
    /\ ready = FALSE /\ engaged = FALSE /\ callbacks = <<>>
    /\ pc = [s \in Setters |-> "idle"]
    /\ todo = [s \in Setters |-> <<>>]
    /\ immediate = {}
    /\ runs = [c \in Callbacks |-> 0]
    /\ registered = {} /\ dropped = {} /\ late = {}

Notifying == {s \in Setters : pc[s] = "notify"}
Ran(c) == runs' = [runs EXCEPT ![c] = IF @ < 2 THEN @ + 1 ELSE @]
-----------------------------------------------------------------------------
(***************************************************************************)
(* set_value and set.  A second call without a reset in between is refused *)
(* by an assertion, and returns where assertions are off.                  *)
(***************************************************************************)

Set(s) ==
    /\ pc[s] = "idle"
    /\ ~ready
    /\ ready' = TRUE /\ engaged' = (type = "value")
    /\ pc' = [pc EXCEPT ![s] = "notify"]
    /\ todo' = [todo EXCEPT ![s] = callbacks]
    /\ UNCHANGED <<type, callbacks, immediate, runs, registered, dropped, late>>

\* The loop of set_value skips the callbacks of a value that was reset.
Notify(s) ==
    /\ pc[s] = "notify" /\ todo[s] # <<>>
    /\ todo' = [todo EXCEPT ![s] = Tail(@)]
    /\ \/ (type = "void" \/ engaged) /\ Ran(Head(todo[s]))
       \/ type = "value" /\ ~engaged /\ UNCHANGED runs
    /\ UNCHANGED <<cellVars, pc, immediate, registered, dropped, late>>

EndSet(s) ==
    /\ pc[s] = "notify" /\ todo[s] = <<>>
    /\ pc' = [pc EXCEPT ![s] = "idle"]
    /\ callbacks' = <<>>
    /\ late' = late \ {s}
    /\ UNCHANGED <<type, ready, engaged, todo, immediate, runs, registered, dropped>>
-----------------------------------------------------------------------------
(***************************************************************************)
(* on_ready and reset.                                                     *)
(***************************************************************************)

Register(c) == /\ c \notin registered
               /\ registered' = registered \cup {c}

\* A mutant: on_ready does not look whether the value is set.
QueueAlways(c) ==
    /\ Register(c)
    /\ callbacks' = Append(callbacks, c)
    /\ dropped' = IF late = {} THEN dropped ELSE dropped \cup {c}
    /\ UNCHANGED <<type, ready, engaged, pc, todo, immediate, runs, late>>

\* A callback registered after a reset is lost if a notification from before
\* the reset is still under way and clears the list at its end.
Queue(c) ==
    /\ Register(c)
    /\ ~ready
    /\ callbacks' = Append(callbacks, c)
    /\ dropped' = IF late = {} THEN dropped ELSE dropped \cup {c}
    /\ UNCHANGED <<type, ready, engaged, pc, todo, immediate, runs, late>>

FindReady(c) ==
    /\ Register(c)
    /\ ready
    /\ immediate' = immediate \cup {c}
    /\ UNCHANGED <<cellVars, pc, todo, runs, dropped, late>>

RunNow(c) ==
    /\ c \in immediate
    /\ immediate' = immediate \ {c}
    /\ Ran(c)
    /\ UNCHANGED <<cellVars, pc, todo, registered, dropped, late>>

Reset ==
    /\ ready' = FALSE /\ engaged' = FALSE
    /\ callbacks' = <<>>
    /\ dropped' = dropped \cup {c \in registered : runs[c] = 0}
    /\ late' = Notifying
    /\ UNCHANGED <<type, pc, todo, immediate, runs, registered>>

AsyncNext ==
    \/ \E s \in Setters : Set(s) \/ Notify(s) \/ EndSet(s)
    \/ \E c \in Callbacks : Queue(c) \/ FindReady(c) \/ RunNow(c)
    \/ Reset

AsyncSpec == AsyncInit /\ [][AsyncNext]_asyncVars
-----------------------------------------------------------------------------
(***************************************************************************)
(* Properties.                                                             *)
(***************************************************************************)

AsyncTypeOK ==
    /\ type \in {"value", "void"} /\ ready \in BOOLEAN /\ engaged \in BOOLEAN
    /\ callbacks \in Seq(Callbacks)
    /\ pc \in [Setters -> {"idle", "notify"}]
    /\ todo \in [Setters -> Seq(Callbacks)]
    /\ runs \in [Callbacks -> 0 .. 2]
    /\ immediate \subseteq Callbacks /\ registered \subseteq Callbacks
    /\ dropped \subseteq Callbacks /\ late \subseteq Notifying

RunAtMostOnce ==
    /\ \A c \in Callbacks : runs[c] <= 1
    /\ \A c \in immediate : runs[c] = 0
    /\ IsInjective(callbacks)

NoneForgotten ==
    ready /\ Notifying = {} =>
        \A c \in registered : runs[c] = 1 \/ c \in immediate \cup dropped

\* What waits to be run stands in one place only and has not been run.  In the
\* list that is so until the value is set; then a setter has a copy of it.
WaitsOnce ==
    /\ \A s \in Setters : IsInjective(todo[s])
    /\ \A s \in Setters : \A c \in Range(todo[s]) :
          /\ c \in registered \ immediate /\ runs[c] = 0
          /\ \A u \in Setters \ {s} : c \notin Range(todo[u])
          /\ ~ready => c \notin Range(callbacks)
    /\ \A c \in Range(callbacks) :
          c \in registered \ immediate /\ (~ready => runs[c] = 0)
    /\ immediate \subseteq registered
    /\ \A c \in Callbacks \ registered : runs[c] = 0

\* A notification that no reset has crossed has its value, and one that a reset
\* has crossed will clear a list of callbacks that count as dropped.
LateKnown ==
    /\ \A s \in Notifying \ late : ready /\ (type = "value" => engaged)
    /\ late # {} => Range(callbacks) \subseteq dropped

\* Every callback has been run, is about to be, or was dropped.
Tracked == \A c \in registered :
    \/ runs[c] = 1 \/ c \in immediate \cup dropped
    \/ ~ready /\ c \in Range(callbacks)
    \/ \E s \in Notifying \ late : c \in Range(todo[s])

\* The inductive invariant.
AsyncIInv == AsyncTypeOK /\ RunAtMostOnce /\ WaitsOnce /\ LateKnown /\ Tracked

\* A callback is run at most once, whatever sets, resets and registrations
\* come together: it is never both in the list, or in a setter's copy, and run.
\* And once the value is set and the callbacks of that set have been run, every
\* registered callback has run, whether it came before the value or after; the
\* exceptions are callbacks a reset discarded, and those registered between a
\* reset and the end of a notification from before it.
RunExactlyOnce == RunAtMostOnce /\ NoneForgotten
=============================================================================
