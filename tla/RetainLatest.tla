----------------------------- MODULE RetainLatest -----------------------------
(***************************************************************************)
(* RetainLatest ("plain") and VersionedRetainLatest ("versioned") of       *)
(* src/include/retain_latest.h: a cell that keeps the last value stored.   *)
(*                                                                         *)
(* A value lives in an object of its own, held by shared_ptr, with its     *)
(* version; the object is named by that version here, and in a plain cell  *)
(* by a count of the objects made.  The mutex guards the pointer only:     *)
(* what a thread does with the object it got, and the callback, come after *)
(* the unlock.  A thread copies or moves from an object in one step, which *)
(* finds the value whole or moved away; a copy torn by a concurrent move   *)
(* is not told from these.  The same holds of callback_, which the         *)
(* updates read without the mutex.                                         *)
(***************************************************************************)
EXTENDS Naturals

CONSTANTS
    Threads, NoThread,
    Nothing,       \* the null pointer
    MaxVersion     \* bound: no more values are stored than this

ASSUME BoundAssumption == MaxVersion \in Nat
ASSUME NoneAssumption  == NoThread \notin Threads /\ Nothing \notin 0 .. MaxVersion

VARIABLES
    kind,       \* which of the two classes
    holder,     \* the thread that holds mutex_ while a callback runs
    cell,       \* value_ptr_
    next,       \* next_version_
    callback,   \* whether callback_ is set
    whole,      \* whether each object still has its value
    at,         \* where each thread is
    box,        \* the object a thread has a pointer to
    lent,       \* whether an update passes its caller's value to the callback
    newest,     \* history: the highest version stored
    before      \* history: the highest version stored when an update began

object == <<kind, holder, cell, next, callback, whole>>
local  == <<at, box, lent>>
vars   == <<object, local, newest, before>>

Versions == 0 .. MaxVersion - 1
Stored == newest # Nothing

Init == /\ kind \in {"plain", "versioned"}
        /\ holder = NoThread /\ cell = Nothing /\ next = 0
        /\ callback = FALSE
        /\ whole = [v \in Versions |-> TRUE]
        /\ at = [t \in Threads |-> "idle"]
        /\ box = [t \in Threads |-> Nothing]
        /\ lent = [t \in Threads |-> FALSE]
        /\ newest = Nothing
        /\ before = [t \in Threads |-> Nothing]

Go(t, place, b) == /\ at' = [at EXCEPT ![t] = place]
                   /\ box' = [box EXCEPT ![t] = b]
                   /\ UNCHANGED lent
Return(t)       == /\ at' = [at EXCEPT ![t] = "idle"]
                   /\ box' = [box EXCEPT ![t] = Nothing]
                   /\ lent' = [lent EXCEPT ![t] = FALSE]
                   /\ before' = [before EXCEPT ![t] = Nothing]

Unlocked == holder = NoThread
Raise(v) == newest' = IF Stored /\ newest > v THEN newest ELSE v
-----------------------------------------------------------------------------
(***************************************************************************)
(* update and emplace.                                                     *)
(***************************************************************************)

\* A mutant: the version is one above the version in the cell.
StartUpdateAbove(t, copies) ==
    LET version == IF cell = Nothing THEN 0 ELSE cell + 1
    IN  /\ at[t] = "idle" /\ version < MaxVersion
        /\ next' = version + 1
        /\ at' = [at EXCEPT ![t] = "store"]
        /\ box' = [box EXCEPT ![t] = version]
        /\ lent' = [lent EXCEPT ![t] = copies /\ kind = "plain"]
        /\ before' = [before EXCEPT ![t] = newest]
        /\ UNCHANGED <<kind, holder, cell, callback, whole, newest>>

\* update by copy (copies), update by move, or emplace: the version is drawn and
\* the object is made before the mutex is taken.
StartUpdate(t, copies) ==
    /\ at[t] = "idle" /\ next < MaxVersion
    /\ next' = next + 1
    /\ at' = [at EXCEPT ![t] = "store"]
    /\ box' = [box EXCEPT ![t] = next]
    /\ lent' = [lent EXCEPT ![t] = copies /\ kind = "plain"]
    /\ before' = [before EXCEPT ![t] = newest]
    /\ UNCHANGED <<kind, holder, cell, callback, whole, newest>>

Store(t) == /\ at[t] = "store" /\ Unlocked
            /\ cell' = box[t]
            /\ Raise(box[t])
            /\ Go(t, "notify", box[t])
            /\ UNCHANGED <<kind, holder, next, callback, whole, before>>

SeeCallback(t) == /\ at[t] = "notify" /\ callback
                  /\ Go(t, "call", box[t])
                  /\ UNCHANGED <<object, newest, before>>

SeeNoCallback(t) == /\ at[t] = "notify" /\ ~callback
                    /\ Return(t)
                    /\ UNCHANGED <<object, newest>>

\* The callback reads the value; one that was unset meanwhile throws out of update.
Call(t) == /\ at[t] = "call"
           /\ Return(t)
           /\ UNCHANGED <<object, newest>>
-----------------------------------------------------------------------------
(***************************************************************************)
(* compare_and_update: the callback runs under the mutex.                  *)
(***************************************************************************)

\* A mutant: the mutex is released before the callback is called.
CompareAndUpdateUnlocked(t, expected) ==
    /\ at[t] = "idle" /\ Unlocked /\ kind = "versioned"
    /\ cell = expected /\ next < MaxVersion
    /\ next' = next + 1
    /\ cell' = next
    /\ Raise(next)
    /\ IF callback THEN Go(t, "call under lock", next) ELSE UNCHANGED local
    /\ UNCHANGED <<kind, holder, callback, whole, before>>

CompareAndUpdate(t, expected) ==
    /\ at[t] = "idle" /\ Unlocked /\ kind = "versioned"
    /\ cell = expected /\ next < MaxVersion
    /\ next' = next + 1
    /\ cell' = next
    /\ Raise(next)
    /\ IF callback THEN holder' = t /\ Go(t, "call under lock", next)
       ELSE UNCHANGED <<holder, local>>
    /\ UNCHANGED <<kind, callback, whole, before>>

CallUnderLock(t) == /\ at[t] = "call under lock"
                    /\ holder' = NoThread
                    /\ Return(t)
                    /\ UNCHANGED <<kind, cell, next, callback, whole, newest>>
-----------------------------------------------------------------------------
(***************************************************************************)
(* consume, peek, clear and on_update.  has_value, is_stale and            *)
(* current_version are peeks that look at no more than the pointer or the  *)
(* version.                                                                *)
(***************************************************************************)

Take(t) == /\ at[t] = "idle" /\ Unlocked /\ cell # Nothing
           /\ cell' = Nothing
           /\ Go(t, "move out", cell)
           /\ UNCHANGED <<kind, holder, next, callback, whole, newest, before>>

MoveOut(t) == /\ at[t] = "move out"
              /\ whole' = [whole EXCEPT ![box[t]] = FALSE]
              /\ Return(t)
              /\ UNCHANGED <<kind, holder, cell, next, callback, newest>>

Point(t) == /\ at[t] = "idle" /\ Unlocked /\ cell # Nothing
            /\ Go(t, "copy", cell)
            /\ UNCHANGED <<object, newest, before>>

Copy(t) == /\ at[t] = "copy"
           /\ Return(t)
           /\ UNCHANGED <<object, newest>>

Clear == /\ Unlocked
         /\ cell' = Nothing
         /\ UNCHANGED <<kind, holder, next, callback, whole, local, newest, before>>

OnUpdate(set) == /\ Unlocked
                 /\ callback' = set
                 /\ UNCHANGED <<kind, holder, cell, next, whole, local, newest, before>>

Next == \/ \E t \in Threads :
              \/ \E copies \in BOOLEAN : StartUpdate(t, copies)
              \/ Store(t) \/ SeeCallback(t) \/ SeeNoCallback(t) \/ Call(t)
              \/ \E v \in Versions : CompareAndUpdate(t, v)
              \/ CallUnderLock(t)
              \/ Take(t) \/ MoveOut(t) \/ Point(t) \/ Copy(t)
        \/ Clear
        \/ \E set \in BOOLEAN : OnUpdate(set)

Spec == Init /\ [][Next]_vars
-----------------------------------------------------------------------------
(***************************************************************************)
(* Properties.                                                             *)
(***************************************************************************)

Places  == {"idle", "store", "notify", "call", "call under lock", "move out", "copy"}
Made    == 0 .. next - 1
Holding == {t \in Threads : at[t] \in {"store", "move out"}}

TypeOK ==
    /\ kind \in {"plain", "versioned"} /\ callback \in BOOLEAN
    /\ holder \in Threads \cup {NoThread}
    /\ next \in 0 .. MaxVersion
    /\ cell \in Made \cup {Nothing} /\ newest \in Made \cup {Nothing}
    /\ whole \in [Versions -> BOOLEAN]
    /\ at \in [Threads -> Places]
    /\ box \in [Threads -> Made \cup {Nothing}]
    /\ \A t \in Threads : at[t] # "idle" => box[t] \in Made
    /\ lent \in [Threads -> BOOLEAN]
    /\ before \in [Threads -> Made \cup {Nothing}]

\* mutex_ is held just while compare_and_update's callback runs, which is given
\* the object in the cell ("to ensure the callback sees the value that was
\* actually stored").
LockHeld == \A t \in Threads : /\ holder = t <=> at[t] = "call under lock"
                               /\ holder = t => cell = box[t]

\* The object in the cell, one about to be stored, one a consumer took, and one
\* not made yet have their values.
ValuesWhole == /\ cell # Nothing => whole[cell]
               /\ \A t \in Holding : whole[box[t]]
               /\ \A v \in Versions \ Made : whole[v]

\* No object is stored or consumed by two threads, nor by one while it is in
\* the cell.
HeldAlone == /\ \A t \in Holding : box[t] # cell
             /\ \A t, u \in Holding : t # u => box[t] # box[u]

\* A value is consumed once and whole, and a callback under the mutex sees the
\* value that is stored.
IInv == TypeOK /\ LockHeld /\ ValuesWhole /\ HeldAlone

\* Versions follow time: an update that begins when another has been stored has
\* the higher version.  Only updates that overlap may be stored the wrong way
\* round, and an older value stay.
VersionsFollowTime ==
    \A t \in Threads : at[t] = "store" /\ before[t] # Nothing => box[t] > before[t]

\* A reader, peek or an update's callback, finds the value whole: "All
\* operations are internally synchronized".
ReadersSeeWhole ==
    \A t \in Threads : at[t] \in {"copy", "call"} /\ ~lent[t] => whole[box[t]]
=============================================================================
