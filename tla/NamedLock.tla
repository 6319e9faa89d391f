------------------------------ MODULE NamedLock ------------------------------
(***************************************************************************)
(* NamedLock<T> of src/include/named_lock.h: a table of reference-counted  *)
(* timed mutexes, one per key in use.                                      *)
(*                                                                         *)
(* An entry is looked up or created, and its count raised, under the       *)
(* global mutex; its own mutex is locked after that, outside; a release    *)
(* unlocks and then lowers the count, in two steps and under no mutex.     *)
(* cleanup_unused and the counters walk the table under the global mutex,  *)
(* one entry at a time, while releases go on.                              *)
(*                                                                         *)
(* A handle is a Scoped or TimedScoped object, together with the locals of *)
(* the call that is filling it.  OwnerOf says which thread uses a handle.  *)
(***************************************************************************)
EXTENDS Integers, FiniteSets

CONSTANTS Threads, Handles, Keys,
          Entries,      \* the addresses a LockEntry can be allocated at
          OwnerOf,      \* the thread that uses each handle
          After,        \* the callers' lock order: pairs <<held, wanted>>
          NoThread, NoHandle, NoEntry

ASSUME HandlesFinite   == IsFiniteSet(Handles)
ASSUME OwnerAssumption == OwnerOf \in [Handles -> Threads]
ASSUME NoneAssumption  == /\ NoThread \notin Threads
                          /\ NoHandle \notin Handles
                          /\ NoEntry \notin Entries

VARIABLES
    lockMap,    \* lock_map_: the entry of each key, or NoEntry
    refcount,   \* LockEntry::refcount
    mtx,        \* LockEntry::mtx: the handle whose unique_lock owns it
    ent,        \* entry_ of each handle
    key,        \* the key the handle's entry_ was asked for
    pc,         \* what each thread is doing
    cur,        \* the handle the thread's call works on
    src,        \* the right-hand side of a move assignment under way
    global,     \* the thread inside global_mutex_ over several steps
    scan        \* the loop over lock_map_ that this thread is running

vars == <<lockMap, refcount, mtx, ent, key, pc, cur, src, global, scan>>

Locking == {"lock", "trylock", "timedlock"}
InCall  == Locking \cup {"failed", "release"}
Scanning == {"cleanup", "count"}
PCs == {"ready"} \cup InCall \cup Scanning

Users(e) == {h \in Handles : ent[h] = e}
Mapped   == {k \in Keys : lockMap[k] # NoEntry}
Fresh(e) == Users(e) = {} /\ \A k \in Keys : lockMap[k] # e

\* A handle that belongs to a call under way is not yet, or no longer, a lock.
Busy(h)  == pc[OwnerOf[h]] \in InCall /\ cur[OwnerOf[h]] = h
Owns(h)  == ent[h] # NoEntry /\ mtx[ent[h]] = h
IdleWith(t, h) == pc[t] = "ready" /\ OwnerOf[h] = t

NoScan == [todo |-> {}, total |-> 0, start |-> 0]

\* The counts of some keys, added up: the size of the union of one set for each
\* key that has as many members as the key's count says.
Units(entryOf, count, ks) == UNION {{k} \X (1 .. count[entryOf[k]]) : k \in ks}
Sum(entryOf, count, ks)   == Cardinality(Units(entryOf, count, ks))
TotalOf(ks) == Sum(lockMap, refcount, ks)

Init == /\ lockMap = [k \in Keys |-> NoEntry]
        /\ refcount = [e \in Entries |-> 0]
        /\ mtx = [e \in Entries |-> NoHandle]
        /\ ent = [h \in Handles |-> NoEntry]
        /\ key \in [Handles -> Keys]
        /\ pc = [t \in Threads |-> "ready"]
        /\ cur = [t \in Threads |-> NoHandle]
        /\ src = [t \in Threads |-> NoHandle]
        /\ global = NoThread
        /\ scan = NoScan
-----------------------------------------------------------------------------
(***************************************************************************)
(* acquire, try_acquire and try_acquire_for.                               *)
(***************************************************************************)

\* What a caller that holds other keys may block on: the After order.
MayBlock(t, k) == \A h \in Handles :
    OwnerOf[h] = t /\ ent[h] # NoEntry => <<key[h], k>> \in After

\* A mutant: the count of an entry that exists is not raised.
GetEntryUncounted(k, e) ==
    IF lockMap[k] # NoEntry
    THEN e = lockMap[k] /\ UNCHANGED <<lockMap, refcount, mtx>>
    ELSE /\ Fresh(e)
         /\ lockMap' = [lockMap EXCEPT ![k] = e]
         /\ refcount' = [refcount EXCEPT ![e] = 1]
         /\ mtx' = [mtx EXCEPT ![e] = NoHandle]

\* get_or_create_entry, one critical section of the global mutex.
GetOrCreateEntry(k, e) ==
    IF lockMap[k] # NoEntry
    THEN /\ e = lockMap[k]
         /\ refcount' = [refcount EXCEPT ![e] = @ + 1]
         /\ UNCHANGED <<lockMap, mtx>>
    ELSE /\ Fresh(e)
         /\ lockMap' = [lockMap EXCEPT ![k] = e]
         /\ refcount' = [refcount EXCEPT ![e] = 1]
         /\ mtx' = [mtx EXCEPT ![e] = NoHandle]

Call(t, h, k, kind) ==
    /\ IdleWith(t, h) /\ ent[h] = NoEntry
    /\ global = NoThread
    /\ kind = "lock" => MayBlock(t, k)
    /\ \E e \in Entries :
          /\ GetOrCreateEntry(k, e)
          /\ ent' = [ent EXCEPT ![h] = e]
    /\ key' = [key EXCEPT ![h] = k]
    /\ pc' = [pc EXCEPT ![t] = kind]
    /\ cur' = [cur EXCEPT ![t] = h]
    /\ UNCHANGED <<src, global, scan>>

\* The entry's mutex is free: lock, try_lock and try_lock_for all take it.
LockEntry(t) ==
    /\ pc[t] \in Locking
    /\ mtx[ent[cur[t]]] = NoHandle
    /\ mtx' = [mtx EXCEPT ![ent[cur[t]]] = cur[t]]
    /\ pc' = [pc EXCEPT ![t] = "ready"]
    /\ cur' = [cur EXCEPT ![t] = NoHandle]
    /\ UNCHANGED <<lockMap, refcount, ent, key, src, global, scan>>

\* try_lock finds the mutex taken, or the deadline of try_lock_for passes.
LockFails(t) ==
    /\ pc[t] \in {"trylock", "timedlock"}
    /\ mtx[ent[cur[t]]] # NoHandle
    /\ pc' = [pc EXCEPT ![t] = "failed"]
    /\ UNCHANGED <<lockMap, refcount, mtx, ent, key, cur, src, global, scan>>

\* decrement_refcount on the path that returns std::nullopt.
GiveUp(t) ==
    /\ pc[t] = "failed"
    /\ refcount' = [refcount EXCEPT ![ent[cur[t]]] = @ - 1]
    /\ ent' = [ent EXCEPT ![cur[t]] = NoEntry]
    /\ pc' = [pc EXCEPT ![t] = "ready"]
    /\ cur' = [cur EXCEPT ![t] = NoHandle]
    /\ UNCHANGED <<lockMap, mtx, key, src, global, scan>>
-----------------------------------------------------------------------------
(***************************************************************************)
(* Scoped and TimedScoped: reset(), the destructor, the two moves.         *)
(***************************************************************************)

\* reset() unlocks; s is NoHandle, or the source of the move assignment that
\* called reset() first.
Unlock(t, h, s) ==
    /\ IdleWith(t, h) /\ ent[h] # NoEntry
    /\ s # NoHandle => OwnerOf[s] = t /\ s # h /\ ent[s] # NoEntry
    /\ mtx' = [mtx EXCEPT ![ent[h]] = NoHandle]
    /\ pc' = [pc EXCEPT ![t] = "release"]
    /\ cur' = [cur EXCEPT ![t] = h]
    /\ src' = [src EXCEPT ![t] = s]
    /\ UNCHANGED <<lockMap, refcount, ent, key, global, scan>>

\* reset() lowers the count and drops entry_; a move assignment then takes
\* over the entry and the lock of its right-hand side.
LowerCount(t) ==
    LET h == cur[t]
        s == src[t]
    IN  /\ pc[t] = "release"
        /\ refcount' = [refcount EXCEPT ![ent[h]] = @ - 1]
        /\ IF s = NoHandle
           THEN /\ ent' = [ent EXCEPT ![h] = NoEntry]
                /\ UNCHANGED <<mtx, key>>
           ELSE /\ ent' = [ent EXCEPT ![h] = ent[s], ![s] = NoEntry]
                /\ mtx' = [mtx EXCEPT ![ent[s]] = h]
                /\ key' = [key EXCEPT ![h] = key[s]]
        /\ pc' = [pc EXCEPT ![t] = "ready"]
        /\ cur' = [cur EXCEPT ![t] = NoHandle]
        /\ src' = [src EXCEPT ![t] = NoHandle]
        /\ UNCHANGED <<lockMap, global, scan>>

\* Move construction, and move assignment to a handle without an entry.
Move(t, h, s) ==
    /\ IdleWith(t, h) /\ ent[h] = NoEntry
    /\ IdleWith(t, s) /\ ent[s] # NoEntry
    /\ ent' = [ent EXCEPT ![h] = ent[s], ![s] = NoEntry]
    /\ mtx' = [mtx EXCEPT ![ent[s]] = h]
    /\ key' = [key EXCEPT ![h] = key[s]]
    /\ UNCHANGED <<lockMap, refcount, pc, cur, src, global, scan>>
-----------------------------------------------------------------------------
(***************************************************************************)
(* cleanup_unused, active_lock_count and get_metrics, clear.               *)
(***************************************************************************)

\* A mutant: the counter walks the table without the global mutex.
CountUnlocked(t, kind) ==
    /\ pc[t] = "ready" /\ global = NoThread
    /\ \A u \in Threads : pc[u] \notin Scanning
    /\ scan' = [todo |-> Mapped, total |-> 0, start |-> TotalOf(Mapped)]
    /\ pc' = [pc EXCEPT ![t] = kind]
    /\ UNCHANGED <<lockMap, refcount, mtx, ent, key, cur, src, global>>

\* cleanup_unused, or a counter, takes the global mutex.  start remembers the
\* sum of the counts at that moment.
StartScan(t, kind) ==
    /\ pc[t] = "ready" /\ global = NoThread
    /\ global' = t
    /\ scan' = [todo |-> Mapped, total |-> 0, start |-> TotalOf(Mapped)]
    /\ pc' = [pc EXCEPT ![t] = kind]
    /\ UNCHANGED <<lockMap, refcount, mtx, ent, key, cur, src>>

\* A mutant: an entry that its last user is still in is taken for unused.
CleanupEager(t, k) ==
    /\ pc[t] = "cleanup" /\ k \in scan.todo
    /\ lockMap' = IF refcount[lockMap[k]] <= 1
                  THEN [lockMap EXCEPT ![k] = NoEntry] ELSE lockMap
    /\ scan' = [scan EXCEPT !.todo = @ \ {k}]
    /\ UNCHANGED <<refcount, mtx, ent, key, pc, cur, src, global>>

\* One turn of the loop of cleanup_unused.
CleanupKey(t, k) ==
    /\ pc[t] = "cleanup" /\ k \in scan.todo
    /\ lockMap' = IF refcount[lockMap[k]] = 0
                  THEN [lockMap EXCEPT ![k] = NoEntry] ELSE lockMap
    /\ scan' = [scan EXCEPT !.todo = @ \ {k}]
    /\ UNCHANGED <<refcount, mtx, ent, key, pc, cur, src, global>>

\* One turn of the loop of active_lock_count and of get_metrics.
CountKey(t, k) ==
    /\ pc[t] = "count" /\ k \in scan.todo
    /\ scan' = [scan EXCEPT !.todo = @ \ {k}, !.total = @ + refcount[lockMap[k]]]
    /\ UNCHANGED <<lockMap, refcount, mtx, ent, key, pc, cur, src, global>>

EndScan(t) ==
    /\ pc[t] \in Scanning /\ scan.todo = {}
    /\ global' = NoThread
    /\ scan' = NoScan
    /\ pc' = [pc EXCEPT ![t] = "ready"]
    /\ UNCHANGED <<lockMap, refcount, mtx, ent, key, cur, src>>

\* clear(), called as its comment asks: "only use when you're sure no locks
\* are held".
Clear(t) ==
    /\ pc[t] = "ready" /\ global = NoThread
    /\ \A h \in Handles : ent[h] = NoEntry
    /\ lockMap' = [k \in Keys |-> NoEntry]
    /\ UNCHANGED <<refcount, mtx, ent, key, pc, cur, src, global, scan>>
-----------------------------------------------------------------------------
Next == \E t \in Threads :
    \/ \E h \in Handles, k \in Keys, kind \in Locking : Call(t, h, k, kind)
    \/ LockEntry(t) \/ LockFails(t) \/ GiveUp(t)
    \/ \E h \in Handles, s \in Handles \cup {NoHandle} : Unlock(t, h, s)
    \/ LowerCount(t)
    \/ \E h, s \in Handles : Move(t, h, s)
    \/ \E kind \in Scanning : StartScan(t, kind)
    \/ \E k \in Keys : CleanupKey(t, k) \/ CountKey(t, k)
    \/ EndScan(t) \/ Clear(t)

Spec == Init /\ [][Next]_vars
-----------------------------------------------------------------------------
(***************************************************************************)
(* The inductive invariant, conjunct by conjunct, and the properties.      *)
(***************************************************************************)

\* Every variable has its type; a thread inside a call works on a handle of
\* its own that has an entry, and a pending move source has one too.
TypeOK ==
    /\ lockMap \in [Keys -> Entries \cup {NoEntry}]
    /\ refcount \in [Entries -> Nat]
    /\ mtx \in [Entries -> Handles \cup {NoHandle}]
    /\ ent \in [Handles -> Entries \cup {NoEntry}]
    /\ key \in [Handles -> Keys]
    /\ pc \in [Threads -> PCs]
    /\ cur \in [Threads -> Handles \cup {NoHandle}]
    /\ src \in [Threads -> Handles \cup {NoHandle}]
    /\ global \in Threads \cup {NoThread}
    /\ scan.todo \subseteq Keys
    /\ scan = [todo |-> scan.todo, total |-> scan.total, start |-> scan.start]

\* A call under way has its handle, and a move assignment its source.
CallsOK == \A t \in Threads :
    /\ pc[t] \in InCall => /\ cur[t] \in Handles
                           /\ OwnerOf[cur[t]] = t
                           /\ ent[cur[t]] # NoEntry
    /\ pc[t] = "release" /\ src[t] # NoHandle =>
           /\ OwnerOf[src[t]] = t
           /\ src[t] # cur[t]
           /\ ent[src[t]] # NoEntry

\* The count of an entry is the number of lock objects and calls that use it,
\* although acquisitions raise it under the global mutex and releases lower it
\* under none.
RefcountExact ==
    \A e \in Entries : refcount[e] = Cardinality(Users(e))

\* cleanup_unused never takes an entry away from under a user: whoever holds,
\* waits for or is releasing a key uses the entry the table has for it.
EntryStable ==
    \A h \in Handles : ent[h] # NoEntry => lockMap[key[h]] = ent[h]

\* No entry serves two keys.
EntriesDistinct ==
    \A j, k \in Keys : lockMap[j] = lockMap[k] /\ lockMap[j] # NoEntry => j = k

\* The mutex of an entry is owned by exactly the lock objects that are not in
\* the middle of a call.
MutexOwned ==
    /\ \A h \in Handles : ent[h] # NoEntry => (mtx[ent[h]] = h <=> ~Busy(h))
    /\ \A e \in Entries : mtx[e] # NoHandle => ent[mtx[e]] = e

\* One thread at a time walks the table.
ScanExclusive ==
    \A t \in Threads : pc[t] \in Scanning <=> global = t

\* What a walk has still to visit is in the table; no walk, nothing to visit.
ScanMapped == /\ scan.todo \subseteq Mapped
              /\ global = NoThread => scan.todo = {}

IInv == /\ TypeOK /\ CallsOK /\ RefcountExact /\ EntryStable
        /\ EntriesDistinct /\ MutexOwned /\ ScanExclusive /\ ScanMapped

\* NamedLock's purpose: two lock objects never own the same key at once,
\* whatever acquisitions, timeouts, moves and cleanups happen in between.
MutualExclusion ==
    \A g, h \in Handles : Owns(g) /\ Owns(h) /\ key[g] = key[h] => g = h

\* active_lock_count and get_metrics add up counts that releases lower while
\* they walk: the total lies between the sum when the walk ends and the sum
\* when it began.
CountBracketed ==
    \A t \in Threads : pc[t] = "count" =>
        /\ scan.total + TotalOf(scan.todo) <= scan.start
        /\ scan.todo = {} => scan.total >= TotalOf(Mapped)

\* What makes it inductive: the total covers what the visited entries still
\* count, and what is left to visit never counts more than is left of the sum
\* the walk began with.
CountIInv ==
    /\ IsFiniteSet(Mapped)
    /\ \A t \in Threads : pc[t] = "count" =>
          /\ scan.total \in Nat /\ scan.start \in Nat
          /\ scan.total + TotalOf(scan.todo) <= scan.start
          /\ TotalOf(Mapped \ scan.todo) <= scan.total

\* The abstract lock: the owner of each key.
HolderOf(k) == IF \E h \in Handles : Owns(h) /\ key[h] = k
               THEN CHOOSE h \in Handles : Owns(h) /\ key[h] = k
               ELSE NoHandle

Abstract == INSTANCE KeyedLock WITH holder <- [k \in Keys |-> HolderOf(k)]

\* The table of counted mutexes implements one lock per key: no step of a
\* lookup, a timeout, a release, a move or a cleanup shows as anything else.
ImplementsKeyedLock == Abstract!Spec
==============================================================================
