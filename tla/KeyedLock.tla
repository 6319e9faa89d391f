------------------------------ MODULE KeyedLock ------------------------------
(***************************************************************************)
(* What NamedLock<T> (src/include/named_lock.h) promises its callers: at   *)
(* most one Scoped or TimedScoped object owns a key at a time.  A lock     *)
(* object acquires a key nobody owns, gives it up, or is moved into        *)
(* another, empty, lock object of the same thread.                         *)
(***************************************************************************)
CONSTANTS Keys, Handles, OwnerOf, NoHandle

VARIABLE holder     \* holder[k]: the lock object that owns key k

Holds(h) == \E k \in Keys : holder[k] = h

Init == holder = [k \in Keys |-> NoHandle]

Acquire(h, k) ==
    /\ holder[k] = NoHandle
    /\ ~Holds(h)
    /\ holder' = [holder EXCEPT ![k] = h]

Release(k) ==
    /\ holder[k] # NoHandle
    /\ holder' = [holder EXCEPT ![k] = NoHandle]

Move(k, h) ==
    /\ holder[k] # NoHandle
    /\ OwnerOf[holder[k]] = OwnerOf[h]
    /\ ~Holds(h)
    /\ holder' = [holder EXCEPT ![k] = h]

Next == \E k \in Keys : \/ Release(k)
                        \/ \E h \in Handles : Acquire(h, k) \/ Move(k, h)

Spec == Init /\ [][Next]_holder
==============================================================================
