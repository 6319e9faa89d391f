------------------------------ MODULE CallQueue -------------------------------
(***************************************************************************)
(* ThreadSafeCallQueue of src/include/call_queue.h and the CallQueue under *)
(* its mutex: deferred tasks in first-in first-out order, with at most one *)
(* queued task per coalescing key.                                         *)
(*                                                                         *)
(* Every operation but drain_all is one critical section.  drain_all takes *)
(* the whole queue under the mutex and runs the tasks outside it, so tasks *)
(* may push, coalesce and cancel while a batch runs: any caller may, at    *)
(* any time.  drain_one runs its task under the mutex; a task that calls   *)
(* queue from there blocks on its own thread, and callers avoid it.  A     *)
(* drainer is one caller of drain_all or drain_one: a task that drains     *)
(* stands as another drainer beside the one that runs it.                  *)
(***************************************************************************)
EXTENDS Integers, Sequences, SequencesExt

CONSTANTS Keys, NoKey, Drainers,
          MaxQueued,    \* the constructor's max_size, 0 for unlimited
          MaxTasks      \* bound: how many tasks are ever submitted

ASSUME NoKeyAssumption  == NoKey \notin Keys
ASSUME BoundsAssumption == MaxQueued \in Nat /\ MaxTasks \in Nat

VARIABLES
    deferred, \* queue_: tasks, each with its key, its number and its place
    keyAt,    \* coalesce_map_: key -> index, from 1; 0 when absent
    bound,    \* max_size_
    batch,    \* the tasks each drain_all still has to run
    ran,      \* history: what each drainer has run, in order
    gone,     \* history: numbers of tasks cancelled, replaced or dropped
    tasks,    \* history: how many tasks were accepted
    places,   \* history: how many places were given out
    stale     \* history: the map still has a key whose task drain_one took

callVars == <<deferred, keyAt, bound, batch, ran, gone, tasks, places, stale>>

NoKeys == [k \in Keys |-> 0]
Room   == bound = 0 \/ Len(deferred) < bound
Task(k, place) == [key |-> k, num |-> tasks + 1, place |-> place]
Nums(s) == {s[n].num : n \in DOMAIN s}

CallsInit ==
    /\ deferred = <<>> /\ keyAt = NoKeys /\ bound = MaxQueued
    /\ batch = [d \in Drainers |-> <<>>]
    /\ ran = [d \in Drainers |-> <<>>]
    /\ gone = {} /\ tasks = 0 /\ places = 0 /\ stale = FALSE
-----------------------------------------------------------------------------
\* push, both overloads; it changes nothing when the queue is full.
Push ==
    /\ tasks < MaxTasks /\ Room
    /\ deferred' = Append(deferred, Task(NoKey, places + 1))
    /\ tasks' = tasks + 1 /\ places' = places + 1
    /\ UNCHANGED <<keyAt, bound, batch, ran, gone, stale>>

\* coalesce of a key that is not in the map.
CoalesceNew(k) ==
    /\ tasks < MaxTasks /\ keyAt[k] = 0 /\ Room
    /\ keyAt' = [keyAt EXCEPT ![k] = Len(deferred) + 1]
    /\ deferred' = Append(deferred, Task(k, places + 1))
    /\ tasks' = tasks + 1 /\ places' = places + 1
    /\ UNCHANGED <<bound, batch, ran, gone, stale>>

\* coalesce of a key in the map: the task at its index is replaced in place.
\* An index past the end, which a stale key can have, is undefined behaviour
\* and not followed further.
CoalesceReplace(k) ==
    /\ tasks < MaxTasks /\ keyAt[k] # 0 /\ keyAt[k] <= Len(deferred)
    /\ deferred' = [deferred EXCEPT ![keyAt[k]] = Task(k, @.place)]
    /\ gone' = gone \cup {deferred[keyAt[k]].num}
    /\ tasks' = tasks + 1
    /\ UNCHANGED <<keyAt, bound, batch, ran, places, stale>>

\* A mutant: a second drain_all of the thread forgets what the first had left.
TakeAllOver(d) ==
    /\ batch' = [batch EXCEPT ![d] = deferred]
    /\ deferred' = <<>> /\ keyAt' = NoKeys /\ bound' = 0 /\ stale' = FALSE
    /\ UNCHANGED <<ran, gone, tasks, places>>

\* drain_all swaps the queue with an empty local one, which is unlimited: the
\* bound goes with the old queue.
TakeAll(d) ==
    /\ batch[d] = <<>>
    /\ batch' = [batch EXCEPT ![d] = deferred]
    /\ deferred' = <<>> /\ keyAt' = NoKeys /\ bound' = 0 /\ stale' = FALSE
    /\ UNCHANGED <<ran, gone, tasks, places>>

\* drain_all runs the next task of its batch, outside the mutex.
RunNext(d) ==
    /\ batch[d] # <<>>
    /\ ran' = [ran EXCEPT ![d] = Append(@, Head(batch[d]))]
    /\ batch' = [batch EXCEPT ![d] = Tail(@)]
    /\ UNCHANGED <<deferred, keyAt, bound, gone, tasks, places, stale>>

\* The task throws: the exception leaves drain_all and the rest is dropped.
RunThrows(d) ==
    /\ batch[d] # <<>>
    /\ ran' = [ran EXCEPT ![d] = Append(@, Head(batch[d]))]
    /\ batch' = [batch EXCEPT ![d] = <<>>]
    /\ gone' = gone \cup Nums(Tail(batch[d]))
    /\ UNCHANGED <<deferred, keyAt, bound, tasks, places, stale>>

\* A mutant: drain_one takes the newest task.
DrainNewest(d) ==
    /\ batch[d] = <<>> /\ deferred # <<>>
    /\ ran' = [ran EXCEPT ![d] = Append(@, Last(deferred))]
    /\ deferred' = Front(deferred)
    /\ stale' = TRUE
    /\ UNCHANGED <<keyAt, bound, batch, gone, tasks, places>>

\* drain_one pops the front and lowers every index, but an index at the front
\* stays there: it keeps the key of the task that was just taken.
DrainOne(d) ==
    /\ batch[d] = <<>> /\ deferred # <<>>
    /\ ran' = [ran EXCEPT ![d] = Append(@, Head(deferred))]
    /\ deferred' = Tail(deferred)
    /\ keyAt' = [k \in Keys |-> IF keyAt[k] > 1 THEN keyAt[k] - 1 ELSE keyAt[k]]
    /\ stale' = (stale \/ \E k \in Keys : keyAt[k] = 1)
    /\ UNCHANGED <<bound, batch, gone, tasks, places>>

\* A mutant: cancel does not move the indices behind the erased task.
CancelNoShift(k) ==
    /\ keyAt[k] # 0 /\ keyAt[k] <= Len(deferred)
    /\ deferred' = RemoveAt(deferred, keyAt[k])
    /\ gone' = gone \cup {deferred[keyAt[k]].num}
    /\ keyAt' = [keyAt EXCEPT ![k] = 0]
    /\ UNCHANGED <<bound, batch, ran, tasks, places, stale>>

\* cancel erases the task at the key's index and moves the others up.
Cancel(k) ==
    /\ keyAt[k] # 0 /\ keyAt[k] <= Len(deferred)
    /\ deferred' = RemoveAt(deferred, keyAt[k])
    /\ gone' = gone \cup {deferred[keyAt[k]].num}
    /\ keyAt' = [j \in Keys |-> IF j = k THEN 0
                                ELSE IF keyAt[j] > keyAt[k] THEN keyAt[j] - 1 ELSE keyAt[j]]
    /\ UNCHANGED <<bound, batch, ran, tasks, places, stale>>

Clear ==
    /\ deferred' = <<>> /\ keyAt' = NoKeys /\ stale' = FALSE
    /\ gone' = gone \cup Nums(deferred)
    /\ UNCHANGED <<bound, batch, ran, tasks, places>>
-----------------------------------------------------------------------------
CallsNext ==
    \/ Push \/ Clear
    \/ \E k \in Keys : CoalesceNew(k) \/ CoalesceReplace(k) \/ Cancel(k)
    \/ \E d \in Drainers : TakeAll(d) \/ RunNext(d) \/ RunThrows(d) \/ DrainOne(d)

CallsSpec == CallsInit /\ [][CallsNext]_callVars
-----------------------------------------------------------------------------
Tasks == [key : Keys \cup {NoKey}, num : 1 .. MaxTasks, place : 1 .. MaxTasks]

CallsTypeOK ==
    /\ deferred \in Seq(Tasks)
    /\ keyAt \in [Keys -> 0 .. MaxTasks]
    /\ bound \in {0, MaxQueued}
    /\ batch \in [Drainers -> Seq(Tasks)] /\ ran \in [Drainers -> Seq(Tasks)]
    /\ gone \subseteq 1 .. MaxTasks
    /\ tasks \in 0 .. MaxTasks /\ places \in 0 .. tasks
    /\ stale \in BOOLEAN

\* Through coalesces, cancels and drains the map of indices stays the map of
\* the queue: a key leads to its own task, and a queued task with a key is the
\* one its key leads to.  (drain_one of a coalesced task ends that.)
KeysExact == ~stale =>
    /\ \A k \in Keys : keyAt[k] # 0 => keyAt[k] <= Len(deferred) /\ deferred[keyAt[k]].key = k
    /\ \A n \in DOMAIN deferred : deferred[n].key # NoKey => keyAt[deferred[n].key] = n

\* What a drainer has run and what it has still to run, as one sequence.
Work(d) == ran[d] \o batch[d]

\* Tasks in the order of their places, no two with one number.
InOrder(s) == \A m, n \in DOMAIN s :
    m < n => s[m].place < s[n].place /\ s[m].num # s[n].num

\* Every task of s stands before every task of t, and is another task.
Before(s, t) == \A m \in DOMAIN s, n \in DOMAIN t :
    s[m].place < t[n].place /\ s[m].num # t[n].num

\* The places of s were given out.
Placed(s) == \A n \in DOMAIN s : s[n].place <= places

\* A drainer's work stands in order, all of it before what is still queued.
LinesInOrder ==
    /\ InOrder(deferred) /\ Placed(deferred) /\ Len(deferred) <= places
    /\ \A d \in Drainers :
          InOrder(Work(d)) /\ Placed(Work(d)) /\ Before(Work(d), deferred)

\* No task is the work of two drainers.
WorkApart == \A c, d \in Drainers : c # d => Nums(Work(c)) \cap Nums(Work(d)) = {}

\* Every number that was given out is queued, somebody's work or taken back.
Held == Nums(deferred) \cup UNION {Nums(Work(d)) : d \in Drainers}
HeldOrGone == Held \cup gone = 1 .. tasks /\ Held \cap gone = {}

\* The inductive invariant: the index map follows the deque through every
\* coalesce, cancel and drain, and the lines of tasks stay in order and apart.
CallsIInv == CallsTypeOK /\ KeysExact /\ LinesInOrder /\ WorkApart /\ HeldOrGone

\* Everything accepted is queued, in a batch, run, or was taken back, and only
\* one of these: no task is lost or run twice, whoever drains.
Accounted ==
    LET waiting == Nums(deferred) \cup UNION {Nums(batch[d]) : d \in Drainers}
        done    == UNION {Nums(ran[d]) : d \in Drainers}
    IN  /\ waiting \cup done \cup gone = 1 .. tasks
        /\ waiting \cap done = {} /\ (waiting \cup done) \cap gone = {}
        /\ \A c, d \in Drainers : c # d => Nums(ran[c]) \cap Nums(ran[d]) = {}
        /\ \A d \in Drainers : IsInjective(ran[d])

\* Each drainer runs its tasks in the order in which their places were given
\* out, and a replaced task keeps its place.
RunInOrder == \A d \in Drainers :
    \A m, n \in DOMAIN ran[d] : m < n => ran[d][m].place < ran[d][n].place
==============================================================================
