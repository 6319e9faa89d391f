---------------------------- MODULE ExclusionProofs ----------------------------
(***************************************************************************)
(* Proofs about what one owner has at a time: the locks of NamedLock, for  *)
(* any number of threads, lock objects, keys and addresses, and the IDs    *)
(* and the creator role of RedisIdAllocator, for any number of instances,  *)
(* any range of IDs, any lifetimes and any length of time.                 *)
(***************************************************************************)
EXTENDS NamedLock, RedisIdAllocator, TLAPS, FiniteSetTheorems

(***************************************************************************)
(* NamedLock: the inductive invariant, mutual exclusion, the counts, and   *)
(* the locks it promises.                                                  *)
(***************************************************************************)

\* The users of an entry are finitely many, so a count can be exact.
LEMMA UsersFinite ==
    ASSUME NEW e PROVE IsFiniteSet(Users(e))
BY HandlesFinite, FS_Subset DEF Users

\* A lock object leaves an entry: one user fewer.
LEMMA UsersLeave ==
    ASSUME NEW e, NEW h \in Users(e)
    PROVE  /\ IsFiniteSet(Users(e) \ {h})
           /\ Cardinality(Users(e) \ {h}) = Cardinality(Users(e)) - 1
BY UsersFinite, FS_RemoveElement

\* A lock object joins an entry: one user more.
LEMMA UsersJoin ==
    ASSUME NEW e, NEW h, h \notin Users(e)
    PROVE  Cardinality(Users(e) \cup {h}) = Cardinality(Users(e)) + 1
BY UsersFinite, FS_AddElement

\* One lock object replaces another: as many users as before.
LEMMA UsersReplace ==
    ASSUME NEW e, NEW s \in Users(e), NEW h, h \notin Users(e)
    PROVE  Cardinality((Users(e) \ {s}) \cup {h}) = Cardinality(Users(e))
<1>1. /\ IsFiniteSet(Users(e) \ {s})
      /\ Cardinality(Users(e) \ {s}) = Cardinality(Users(e)) - 1
  BY UsersLeave
<1>2. h \notin Users(e) \ {s}
  OBVIOUS
<1>3. Cardinality((Users(e) \ {s}) \cup {h}) = Cardinality(Users(e) \ {s}) + 1
  BY <1>1, <1>2, FS_AddElement
<1>4. Cardinality(Users(e)) \in Nat
  BY UsersFinite, FS_CardinalityType
<1> QED BY <1>1, <1>3, <1>4

\* The initial state has no entry and no user: IInv holds.
LEMMA InitInv == Init => IInv
<1> SUFFICES ASSUME Init PROVE IInv
  OBVIOUS
<1> USE NoneAssumption DEF Init
<1>1. TypeOK
  BY DEF TypeOK, PCs, NoScan
<1>2. CallsOK
  BY DEF CallsOK, InCall, Locking
<1>3. RefcountExact
  <2> SUFFICES ASSUME NEW e \in Entries PROVE refcount[e] = Cardinality(Users(e))
    BY DEF RefcountExact
  <2>1. Users(e) = {}
    BY DEF Users
  <2> QED BY <2>1, FS_EmptySet
<1>4. EntryStable /\ EntriesDistinct
  BY DEF EntryStable, EntriesDistinct
<1>5. MutexOwned
  BY DEF MutexOwned, Busy, InCall, Locking
<1>6. ScanExclusive /\ ScanMapped
  BY DEF ScanExclusive, ScanMapped, Scanning, NoScan
<1> QED BY <1>1, <1>2, <1>3, <1>4, <1>5, <1>6 DEF IInv

\* get_or_create_entry keeps the invariant: the count goes up by one as the
\* handle joins the users, and a new entry is one that nobody uses.
LEMMA CallInv ==
    ASSUME IInv, NEW t \in Threads, NEW h \in Handles, NEW k \in Keys,
           NEW kind \in Locking, Call(t, h, k, kind)
    PROVE  IInv'
<1> USE NoneAssumption, OwnerAssumption
<1>0. PICK e \in Entries : GetOrCreateEntry(k, e) /\ ent' = [ent EXCEPT ![h] = e]
  BY DEF Call
<1>1. TypeOK /\ CallsOK /\ RefcountExact /\ EntryStable /\ EntriesDistinct
      /\ MutexOwned /\ ScanExclusive /\ ScanMapped
  BY DEF IInv
<1>2. /\ pc[t] = "ready" /\ OwnerOf[h] = t /\ ent[h] = NoEntry /\ global = NoThread
      /\ key' = [key EXCEPT ![h] = k]
      /\ pc' = [pc EXCEPT ![t] = kind]
      /\ cur' = [cur EXCEPT ![t] = h]
      /\ UNCHANGED <<src, global, scan>>
  BY DEF Call, IdleWith
<1>3. /\ refcount' = [refcount EXCEPT ![e] = Cardinality(Users(e)) + 1]
      /\ lockMap' = [lockMap EXCEPT ![k] = e]
      /\ mtx' = [mtx EXCEPT ![e] = IF lockMap[k] # NoEntry THEN mtx[e] ELSE NoHandle]
      /\ lockMap[k] # NoEntry => e = lockMap[k]
      /\ lockMap[k] = NoEntry => Fresh(e)
  <2>1. CASE lockMap[k] # NoEntry
    BY <1>0, <1>1, <2>1 DEF GetOrCreateEntry, RefcountExact, TypeOK
  <2>2. CASE lockMap[k] = NoEntry
    <3>1. Users(e) = {}
      BY <1>0, <2>2 DEF GetOrCreateEntry, Fresh
    <3>2. Cardinality(Users(e)) + 1 = 1
      BY <3>1, FS_EmptySet
    <3> QED BY <1>0, <2>2, <3>2 DEF GetOrCreateEntry
  <2> QED BY <2>1, <2>2
<1>4. /\ \A f \in Entries \ {e} : Users(f)' = Users(f)
      /\ Users(e)' = Users(e) \cup {h}
      /\ h \notin Users(e)
  BY <1>0, <1>1, <1>2 DEF Users, TypeOK
<1>5. Cardinality(Users(e)) \in Nat
  BY UsersFinite, FS_CardinalityType
<1>6. TypeOK'
  BY <1>0, <1>1, <1>2, <1>3, <1>5 DEF TypeOK, PCs, InCall
<1>7. CallsOK'
  BY <1>0, <1>1, <1>2 DEF CallsOK, TypeOK, Locking, InCall
<1>8. RefcountExact'
  BY <1>1, <1>3, <1>4, UsersJoin DEF RefcountExact, TypeOK
<1>9. EntryStable'
  BY <1>0, <1>1, <1>2, <1>3 DEF EntryStable, TypeOK
<1>10. EntriesDistinct'
  BY <1>1, <1>3 DEF EntriesDistinct, TypeOK, Fresh
<1>11. MutexOwned'
  BY <1>0, <1>1, <1>2, <1>3 DEF MutexOwned, TypeOK, Fresh, Users, Busy, InCall, Locking
<1>12. ScanExclusive' /\ ScanMapped'
  BY <1>1, <1>2, <1>3 DEF ScanExclusive, ScanMapped, Mapped, TypeOK, Locking, Scanning
<1> QED BY <1>6, <1>7, <1>8, <1>9, <1>10, <1>11, <1>12 DEF IInv

\* Taking the entry's mutex, or failing to, changes no user and no count.
LEMMA LockInv ==
    ASSUME IInv, NEW t \in Threads, LockEntry(t) \/ LockFails(t)
    PROVE  IInv'
<1> USE NoneAssumption, OwnerAssumption
<1>1. TypeOK /\ CallsOK /\ RefcountExact /\ EntryStable /\ EntriesDistinct
      /\ MutexOwned /\ ScanExclusive /\ ScanMapped
  BY DEF IInv
<1>2. UNCHANGED <<lockMap, refcount, ent, key, src, global, scan>>
  BY DEF LockEntry, LockFails
<1>3. Mapped' = Mapped /\ \A e \in Entries : Users(e)' = Users(e)
  BY <1>2 DEF Users, Mapped
<1>4. TypeOK'
  BY <1>1 DEF TypeOK, CallsOK, LockEntry, LockFails, PCs, InCall, Locking
<1>5. CallsOK'
  BY <1>1 DEF TypeOK, CallsOK, LockEntry, LockFails, InCall, Locking
<1>6. MutexOwned'
  BY <1>1 DEF TypeOK, CallsOK, MutexOwned, Busy, LockEntry, LockFails, InCall, Locking
<1>7. ScanExclusive'
  BY <1>1 DEF TypeOK, ScanExclusive, LockEntry, LockFails, Scanning, Locking
<1>8. RefcountExact' /\ EntryStable' /\ EntriesDistinct' /\ ScanMapped'
  BY <1>1, <1>2, <1>3 DEF RefcountExact, EntryStable, EntriesDistinct, ScanMapped, Users, Mapped
<1> QED BY <1>4, <1>5, <1>6, <1>7, <1>8 DEF IInv

\* A failed attempt lowers the count exactly when its call lets go of the entry.
LEMMA GiveUpInv ==
    ASSUME IInv, NEW t \in Threads, GiveUp(t)
    PROVE  IInv'
<1> USE NoneAssumption, OwnerAssumption
<1>1. TypeOK /\ CallsOK /\ RefcountExact /\ EntryStable /\ EntriesDistinct
      /\ MutexOwned /\ ScanExclusive /\ ScanMapped
  BY DEF IInv
<1>0. PICK h \in Handles, e \in Entries : h = cur[t] /\ e = ent[h]
  BY <1>1 DEF GiveUp, TypeOK, CallsOK, InCall
<1>2. /\ OwnerOf[h] = t /\ ent[h] = e /\ cur[t] = h /\ pc[t] = "failed"
      /\ refcount' = [refcount EXCEPT ![e] = refcount[e] - 1]
      /\ UNCHANGED <<lockMap, mtx, key, src, global, scan>>
      /\ ent' = [ent EXCEPT ![h] = NoEntry]
      /\ pc' = [pc EXCEPT ![t] = "ready"]
      /\ cur' = [cur EXCEPT ![t] = NoHandle]
  BY <1>0, <1>1 DEF GiveUp, TypeOK, CallsOK, InCall
<1>3. /\ h \in Users(e)
      /\ Users(e)' = Users(e) \ {h}
      /\ \A f \in Entries \ {e} : Users(f)' = Users(f)
  BY <1>1, <1>2 DEF Users, TypeOK
<1>4. refcount' = [refcount EXCEPT ![e] = Cardinality(Users(e) \ {h})]
  BY <1>1, <1>2, <1>3, UsersLeave DEF RefcountExact, TypeOK
<1>5. Cardinality(Users(e) \ {h}) \in Nat
  BY <1>3, UsersLeave, FS_CardinalityType
<1>6. TypeOK'
  BY <1>1, <1>2, <1>4, <1>5 DEF TypeOK, PCs
<1>7. CallsOK'
  BY <1>1, <1>2 DEF CallsOK, TypeOK, InCall, Locking
<1>8. RefcountExact'
  BY <1>1, <1>3, <1>4 DEF RefcountExact, TypeOK
<1>9. EntryStable' /\ EntriesDistinct'
  BY <1>1, <1>2 DEF EntryStable, EntriesDistinct, TypeOK
<1>10. MutexOwned'
  BY <1>1, <1>2 DEF MutexOwned, TypeOK, Busy, InCall, Locking
<1>11. ScanExclusive' /\ ScanMapped'
  BY <1>1, <1>2 DEF ScanExclusive, ScanMapped, Mapped, TypeOK, Scanning
<1> QED BY <1>6, <1>7, <1>8, <1>9, <1>10, <1>11 DEF IInv

\* Unlocking leaves the users and the counts as they are.
LEMMA UnlockInv ==
    ASSUME IInv, NEW t \in Threads, NEW h \in Handles,
           NEW s \in Handles \cup {NoHandle}, Unlock(t, h, s)
    PROVE  IInv'
<1> USE NoneAssumption, OwnerAssumption
<1>1. TypeOK /\ CallsOK /\ RefcountExact /\ EntryStable /\ EntriesDistinct
      /\ MutexOwned /\ ScanExclusive /\ ScanMapped
  BY DEF IInv
<1>2. /\ pc[t] = "ready" /\ OwnerOf[h] = t /\ ent[h] \in Entries
      /\ s # NoHandle => OwnerOf[s] = t /\ s # h /\ ent[s] # NoEntry
      /\ mtx' = [mtx EXCEPT ![ent[h]] = NoHandle]
      /\ pc' = [pc EXCEPT ![t] = "release"]
      /\ cur' = [cur EXCEPT ![t] = h]
      /\ src' = [src EXCEPT ![t] = s]
      /\ UNCHANGED <<lockMap, refcount, ent, key, global, scan>>
  BY <1>1 DEF Unlock, IdleWith, TypeOK
<1>3. TypeOK'
  BY <1>1, <1>2 DEF TypeOK, PCs, InCall
<1>4. CallsOK'
  BY <1>1, <1>2 DEF CallsOK, TypeOK, InCall, Locking
<1>5. MutexOwned'
  BY <1>1, <1>2 DEF MutexOwned, TypeOK, Busy, InCall, Locking
<1>6. ScanExclusive'
  BY <1>1, <1>2 DEF ScanExclusive, TypeOK, Scanning
<1>7. RefcountExact' /\ EntryStable' /\ EntriesDistinct' /\ ScanMapped'
  BY <1>1, <1>2 DEF RefcountExact, EntryStable, EntriesDistinct, ScanMapped, Users, Mapped
<1> QED BY <1>3, <1>4, <1>5, <1>6, <1>7 DEF IInv

\* Lowering the count: the released handle leaves its entry, and after a move
\* assignment takes the place of the right-hand side among its users.
LEMMA LowerCountInv ==
    ASSUME IInv, NEW t \in Threads, LowerCount(t)
    PROVE  IInv'
<1> USE NoneAssumption, OwnerAssumption
<1>1. TypeOK /\ CallsOK /\ RefcountExact /\ EntryStable /\ EntriesDistinct
      /\ MutexOwned /\ ScanExclusive /\ ScanMapped
  BY DEF IInv
<1>0. PICK h \in Handles, s \in Handles \cup {NoHandle}, e \in Entries :
        h = cur[t] /\ s = src[t] /\ e = ent[h]
  BY <1>1 DEF LowerCount, TypeOK, CallsOK, InCall
<1>2. /\ OwnerOf[h] = t /\ ent[h] = e /\ cur[t] = h /\ src[t] = s /\ pc[t] = "release"
      /\ refcount' = [refcount EXCEPT ![e] = refcount[e] - 1]
      /\ pc' = [pc EXCEPT ![t] = "ready"]
      /\ cur' = [cur EXCEPT ![t] = NoHandle]
      /\ src' = [src EXCEPT ![t] = NoHandle]
      /\ UNCHANGED <<lockMap, global, scan>>
      /\ h \in Users(e)
  BY <1>0, <1>1 DEF LowerCount, TypeOK, CallsOK, InCall, Users
<1>3. Cardinality(Users(e)) \in Nat /\ Cardinality(Users(e)) - 1 \in Nat
  BY <1>2, UsersFinite, UsersLeave, FS_CardinalityType
<1>6. \A u \in Users(e) : refcount[e] - 1 = Cardinality(Users(e) \ {u})
  BY <1>1, UsersLeave DEF RefcountExact
<1>7. refcount'[e] = refcount[e] - 1 /\ \A g \in Entries \ {e} : refcount'[g] = refcount[g]
  BY <1>1, <1>2 DEF TypeOK
<1>4. CASE s = NoHandle
  <2>1. /\ ent' = [ent EXCEPT ![h] = NoEntry]
        /\ UNCHANGED <<mtx, key>>
    BY <1>0, <1>4 DEF LowerCount
  <2>2. /\ Users(e)' = Users(e) \ {h}
        /\ \A f \in Entries \ {e} : Users(f)' = Users(f)
    BY <1>1, <1>2, <2>1 DEF Users, TypeOK
  <2>3. RefcountExact'
    BY <1>1, <1>2, <1>6, <1>7, <2>2 DEF RefcountExact
  <2>4. TypeOK'
    BY <1>1, <1>2, <1>3, <2>1 DEF TypeOK, PCs, RefcountExact
  <2>5. CallsOK'
    BY <1>1, <1>2, <2>1 DEF CallsOK, TypeOK, InCall, Locking
  <2>6. EntryStable' /\ EntriesDistinct'
    BY <1>1, <1>2, <2>1 DEF EntryStable, EntriesDistinct, TypeOK
  <2>7. MutexOwned'
    BY <1>1, <1>2, <2>1 DEF MutexOwned, TypeOK, Busy, InCall, Locking
  <2>8. ScanExclusive' /\ ScanMapped'
    BY <1>1, <1>2 DEF ScanExclusive, ScanMapped, Mapped, TypeOK, Scanning
  <2> QED BY <2>3, <2>4, <2>5, <2>6, <2>7, <2>8 DEF IInv
<1>5. CASE s # NoHandle
  <2>0. PICK f \in Entries : f = ent[s] /\ s # h
    BY <1>0, <1>1, <1>2, <1>5 DEF TypeOK, CallsOK
  <2>1. /\ s \in Handles /\ OwnerOf[s] = t /\ s # h /\ ent[s] = f
        /\ ent' = [ent EXCEPT ![h] = f, ![s] = NoEntry]
        /\ mtx' = [mtx EXCEPT ![f] = h]
        /\ key' = [key EXCEPT ![h] = key[s]]
        /\ s \in Users(f)
    BY <2>0, <1>0, <1>1, <1>2, <1>5 DEF LowerCount, TypeOK, CallsOK, Users
  <2>2. \A g \in Entries : g # e /\ g # f => Users(g)' = Users(g)
    BY <1>1, <1>2, <2>1 DEF Users, TypeOK
  <2>3. RefcountExact'
    <3>1. CASE e = f
      <4>1. ent'[h] = e /\ ent'[s] = NoEntry
            /\ \A g \in Handles \ {h, s} : ent'[g] = ent[g]
        BY <1>1, <1>2, <2>1, <3>1 DEF TypeOK
      <4>2. Users(e)' = Users(e) \ {s}
        BY <1>2, <4>1 DEF Users
      <4>3. s \in Users(e)
        BY <2>1, <3>1
      <4> QED BY <1>1, <1>6, <1>7, <2>2, <3>1, <4>2, <4>3 DEF RefcountExact
    <3>2. CASE e # f
      <4>1. /\ Users(e)' = Users(e) \ {h}
            /\ Users(f)' = (Users(f) \ {s}) \cup {h}
            /\ h \notin Users(f)
        BY <1>1, <1>2, <2>1, <3>2 DEF Users, TypeOK
      <4>2. s \in Users(f)
        BY <2>1
      <4>3. Cardinality((Users(f) \ {s}) \cup {h}) = Cardinality(Users(f))
        BY <4>1, <4>2, UsersReplace
      <4>4. Cardinality(Users(e)') = refcount[e] - 1
        BY <1>2, <1>6, <4>1
      <4> QED BY <1>1, <1>7, <2>2, <3>2, <4>1, <4>3, <4>4 DEF RefcountExact
    <3> QED BY <3>1, <3>2
  <2>4. TypeOK'
    BY <1>1, <1>2, <1>3, <2>1 DEF TypeOK, PCs, RefcountExact
  <2>5. CallsOK'
    BY <1>1, <1>2, <2>1 DEF CallsOK, TypeOK, InCall, Locking
  <2>6. EntryStable' /\ EntriesDistinct'
    BY <1>1, <1>2, <2>1 DEF EntryStable, EntriesDistinct, TypeOK
  <2>7. MutexOwned'
    <3>1. mtx[f] = s /\ ~Busy(s)
      BY <1>1, <1>2, <2>1 DEF MutexOwned, Busy, TypeOK
    <3>2. \A g \in Handles : OwnerOf[g] # t => Busy(g)' = Busy(g)
      BY <1>1, <1>2 DEF Busy, TypeOK
    <3>3. \A g \in Handles : OwnerOf[g] = t => ~Busy(g)' /\ (Busy(g) <=> g = h)
      BY <1>1, <1>2 DEF Busy, TypeOK, InCall, Locking
    <3> QED BY <1>1, <1>2, <2>1, <3>1, <3>2, <3>3 DEF MutexOwned, TypeOK
  <2>8. ScanExclusive' /\ ScanMapped'
    BY <1>1, <1>2 DEF ScanExclusive, ScanMapped, Mapped, TypeOK, Scanning
  <2> QED BY <2>3, <2>4, <2>5, <2>6, <2>7, <2>8 DEF IInv
<1> QED BY <1>4, <1>5

\* A move replaces one user of an entry by another.
LEMMA MoveInv ==
    ASSUME IInv, NEW t \in Threads, NEW h \in Handles, NEW s \in Handles,
           Move(t, h, s)
    PROVE  IInv'
<1> USE NoneAssumption, OwnerAssumption
<1>1. TypeOK /\ CallsOK /\ RefcountExact /\ EntryStable /\ EntriesDistinct
      /\ MutexOwned /\ ScanExclusive /\ ScanMapped
  BY DEF IInv
<1>0. PICK f \in Entries : f = ent[s]
  BY <1>1 DEF Move, TypeOK
<1>2. /\ pc[t] = "ready" /\ OwnerOf[h] = t /\ OwnerOf[s] = t
      /\ ent[h] = NoEntry /\ ent[s] = f /\ h # s
      /\ ent' = [ent EXCEPT ![h] = f, ![s] = NoEntry]
      /\ mtx' = [mtx EXCEPT ![f] = h]
      /\ key' = [key EXCEPT ![h] = key[s]]
      /\ UNCHANGED <<lockMap, refcount, pc, cur, src, global, scan>>
      /\ s \in Users(f)
  BY <1>0, <1>1 DEF Move, IdleWith, TypeOK, Users
<1>3. /\ \A g \in Entries \ {f} : Users(g)' = Users(g)
      /\ Users(f)' = (Users(f) \ {s}) \cup {h}
      /\ h \notin Users(f)
  BY <1>1, <1>2 DEF Users, TypeOK
<1>4. RefcountExact'
  BY <1>1, <1>2, <1>3, UsersReplace DEF RefcountExact, TypeOK
<1>5. TypeOK'
  BY <1>1, <1>2 DEF TypeOK
<1>6. CallsOK'
  BY <1>1, <1>2 DEF CallsOK, TypeOK, InCall, Locking
<1>7. EntryStable' /\ EntriesDistinct'
  BY <1>1, <1>2 DEF EntryStable, EntriesDistinct, TypeOK
<1>8. MutexOwned'
  <2>1. ~Busy(h) /\ ~Busy(s) /\ \A g \in Handles : Busy(g)' = Busy(g)
    BY <1>1, <1>2 DEF Busy, InCall, Locking
  <2> QED BY <1>1, <1>2, <2>1 DEF MutexOwned, TypeOK
<1>9. ScanExclusive' /\ ScanMapped'
  BY <1>1, <1>2 DEF ScanExclusive, ScanMapped, Mapped
<1> QED BY <1>4, <1>5, <1>6, <1>7, <1>8, <1>9 DEF IInv

\* Walking the table erases only entries whose count, exact as it is, says
\* that nobody uses them.
LEMMA ScanInv ==
    ASSUME IInv, NEW t \in Threads,
           \/ \E kind \in Scanning : StartScan(t, kind)
           \/ \E k \in Keys : CleanupKey(t, k) \/ CountKey(t, k)
           \/ EndScan(t)
    PROVE  IInv'
<1> USE NoneAssumption, OwnerAssumption
<1>1. TypeOK /\ CallsOK /\ RefcountExact /\ EntryStable /\ EntriesDistinct
      /\ MutexOwned /\ ScanExclusive /\ ScanMapped
  BY DEF IInv
<1>2. UNCHANGED <<refcount, mtx, ent, key, cur, src>>
  BY DEF StartScan, CleanupKey, CountKey, EndScan
<1>3. CASE \E kind \in Scanning : StartScan(t, kind)
  <2> PICK kind \in Scanning : StartScan(t, kind)
    BY <1>3
  <2>1. TypeOK' /\ ScanMapped'
    BY <1>1, <1>2 DEF TypeOK, StartScan, PCs, InCall, Mapped, ScanMapped
  <2>2. CallsOK' /\ MutexOwned'
    BY <1>1, <1>2 DEF TypeOK, CallsOK, MutexOwned, Busy, StartScan, Scanning, InCall, Locking
  <2>3. ScanExclusive'
    BY <1>1, <1>2 DEF TypeOK, ScanExclusive, StartScan, Scanning
  <2>4. RefcountExact' /\ EntryStable' /\ EntriesDistinct'
    BY <1>1, <1>2 DEF RefcountExact, EntryStable, EntriesDistinct, Users, StartScan
  <2> QED BY <2>1, <2>2, <2>3, <2>4 DEF IInv
<1>4. CASE \E k \in Keys : CleanupKey(t, k)
  <2> PICK k \in Keys : CleanupKey(t, k)
    BY <1>4
  <2>0. k \in scan.todo /\ lockMap[k] \in Entries
    BY <1>1 DEF CleanupKey, ScanMapped, Mapped, TypeOK
  <2>1. \/ UNCHANGED lockMap
        \/ /\ lockMap' = [lockMap EXCEPT ![k] = NoEntry]
           /\ Users(lockMap[k]) = {}
    <3>1. refcount[lockMap[k]] = 0 => Users(lockMap[k]) = {}
      BY <1>1, <2>0, UsersFinite, FS_EmptySet DEF RefcountExact
    <3> QED BY <3>1 DEF CleanupKey
  <2>2. /\ UNCHANGED <<pc, global>>
        /\ scan' = [scan EXCEPT !.todo = scan.todo \ {k}]
    BY DEF CleanupKey
  <2>3. TypeOK'
    BY <1>1, <1>2, <2>1, <2>2 DEF TypeOK
  <2>4. ScanMapped'
    BY <1>1, <2>1, <2>2 DEF TypeOK, ScanMapped, Mapped
  <2>5. EntryStable'
    BY <1>1, <1>2, <2>0, <2>1 DEF TypeOK, EntryStable, Users
  <2>6. EntriesDistinct'
    BY <1>1, <2>1 DEF TypeOK, EntriesDistinct
  <2>7. CallsOK' /\ MutexOwned' /\ ScanExclusive' /\ RefcountExact'
    BY <1>1, <1>2, <2>2 DEF CallsOK, MutexOwned, Busy, ScanExclusive, RefcountExact, Users
  <2> QED BY <2>3, <2>4, <2>5, <2>6, <2>7 DEF IInv
<1>5. CASE \E k \in Keys : CountKey(t, k)
  <2> PICK k \in Keys : CountKey(t, k)
    BY <1>5
  <2>1. TypeOK' /\ ScanMapped'
    BY <1>1, <1>2 DEF TypeOK, CountKey, Mapped, ScanMapped
  <2>2. CallsOK' /\ MutexOwned' /\ ScanExclusive'
    BY <1>1, <1>2 DEF CallsOK, MutexOwned, Busy, CountKey, ScanExclusive
  <2>4. RefcountExact' /\ EntryStable' /\ EntriesDistinct'
    BY <1>1, <1>2 DEF RefcountExact, EntryStable, EntriesDistinct, Users, CountKey
  <2> QED BY <2>1, <2>2, <2>4 DEF IInv
<1>6. CASE EndScan(t)
  <2>1. TypeOK' /\ ScanMapped'
    BY <1>1, <1>2, <1>6 DEF TypeOK, EndScan, PCs, NoScan, ScanMapped, ScanExclusive
  <2>2. CallsOK' /\ MutexOwned'
    BY <1>1, <1>2, <1>6 DEF TypeOK, CallsOK, MutexOwned, Busy, EndScan, Scanning, InCall, Locking
  <2>3. ScanExclusive'
    BY <1>1, <1>2, <1>6 DEF TypeOK, ScanExclusive, EndScan, Scanning
  <2>4. RefcountExact' /\ EntryStable' /\ EntriesDistinct'
    BY <1>1, <1>2, <1>6 DEF RefcountExact, EntryStable, EntriesDistinct, Users, EndScan
  <2> QED BY <2>1, <2>2, <2>3, <2>4 DEF IInv
<1> QED BY <1>3, <1>4, <1>5, <1>6

\* clear() with no lock held empties a table that nobody uses.
LEMMA ClearInv ==
    ASSUME IInv, NEW t \in Threads, Clear(t)
    PROVE  IInv'
<1> USE NoneAssumption, OwnerAssumption
<1>1. TypeOK /\ CallsOK /\ RefcountExact /\ EntryStable /\ EntriesDistinct
      /\ MutexOwned /\ ScanExclusive /\ ScanMapped
  BY DEF IInv
<1>2. scan.todo = {}
  BY <1>1 DEF Clear, ScanMapped
<1>3. TypeOK'
  BY <1>1 DEF TypeOK, Clear
<1>4. EntryStable' /\ EntriesDistinct' /\ ScanMapped'
  BY <1>1, <1>2 DEF EntryStable, EntriesDistinct, ScanMapped, Clear
<1>5. CallsOK' /\ MutexOwned' /\ ScanExclusive' /\ RefcountExact'
  BY <1>1 DEF CallsOK, MutexOwned, Busy, ScanExclusive, RefcountExact, Users, Clear
<1> QED BY <1>3, <1>4, <1>5 DEF IInv

\* Every step keeps the invariant.
LEMMA NextInv == IInv /\ [Next]_vars => IInv'
<1> SUFFICES ASSUME IInv, [Next]_vars PROVE IInv'
  OBVIOUS
<1>1. CASE Next
  <2> PICK t \in Threads :
        \/ \E h \in Handles, k \in Keys, kind \in Locking : Call(t, h, k, kind)
        \/ LockEntry(t) \/ LockFails(t) \/ GiveUp(t)
        \/ \E h \in Handles, s \in Handles \cup {NoHandle} : Unlock(t, h, s)
        \/ LowerCount(t)
        \/ \E h, s \in Handles : Move(t, h, s)
        \/ \E kind \in Scanning : StartScan(t, kind)
        \/ \E k \in Keys : CleanupKey(t, k) \/ CountKey(t, k)
        \/ EndScan(t) \/ Clear(t)
    BY <1>1 DEF Next
  <2> QED BY CallInv, LockInv, GiveUpInv, UnlockInv, LowerCountInv, MoveInv,
             ScanInv, ClearInv
<1>2. CASE UNCHANGED vars
  BY <1>2 DEF vars, IInv, TypeOK, CallsOK, RefcountExact, EntryStable,
      EntriesDistinct, MutexOwned, ScanExclusive, ScanMapped, Users, Mapped, Busy
<1> QED BY <1>1, <1>2

\* The whole inductive invariant of NamedLock, its types and its exact counts
\* included, holds in every reachable state.
THEOREM InductiveInvariant == Spec => []IInv
<1>1. Init => IInv
  BY InitInv
<1>2. IInv /\ [Next]_vars => IInv'
  BY NextInv
<1> QED BY <1>1, <1>2, PTL DEF Spec

\* NamedLock's purpose (acquire, try_acquire and try_acquire_for of
\* named_lock.h): no two lock objects ever own the same key.
THEOREM MutualExclusionHolds == Spec => []MutualExclusion
<1>1. IInv => MutualExclusion
  <2> SUFFICES ASSUME IInv, NEW g \in Handles, NEW h \in Handles,
                      Owns(g), Owns(h), key[g] = key[h]
               PROVE  g = h
    BY DEF MutualExclusion
  <2>1. ent[g] = ent[h]
    BY DEF IInv, EntryStable, Owns
  <2> QED BY <2>1 DEF Owns
<1> QED BY <1>1, InductiveInvariant, PTL

(***************************************************************************)
(* The counters: CountBracketed.                                           *)
(***************************************************************************)

\* The counts that a finite part of the table adds up to are a number.
LEMMA SumIsNat ==
    ASSUME IInv, NEW ks \in SUBSET Mapped, IsFiniteSet(ks)
    PROVE  IsFiniteSet(Units(lockMap, refcount, ks)) /\ TotalOf(ks) \in Nat
<1> DEFINE most == Cardinality(Handles)
<1>1. most \in Nat
  BY HandlesFinite, FS_CardinalityType
<1>2. \A k \in ks : refcount[lockMap[k]] \in Nat /\ refcount[lockMap[k]] <= most
  <2> SUFFICES ASSUME NEW k \in ks
               PROVE  refcount[lockMap[k]] \in Nat /\ refcount[lockMap[k]] <= most
    OBVIOUS
  <2>1. lockMap[k] \in Entries
    BY DEF IInv, TypeOK, Mapped
  <2>2. refcount[lockMap[k]] = Cardinality(Users(lockMap[k])) /\ refcount[lockMap[k]] \in Nat
    BY <2>1 DEF IInv, TypeOK, RefcountExact
  <2>3. Users(lockMap[k]) \in SUBSET Handles
    BY DEF Users
  <2>4. Cardinality(Users(lockMap[k])) <= most
    BY <2>3, HandlesFinite, FS_Subset
  <2> QED BY <2>2, <2>4
<1>3. Units(lockMap, refcount, ks) \in SUBSET (ks \X (1 .. most))
  <2> SUFFICES ASSUME NEW u \in Units(lockMap, refcount, ks) PROVE u \in ks \X (1 .. most)
    OBVIOUS
  <2>1. PICK k \in ks : u \in {k} \X (1 .. refcount[lockMap[k]])
    BY DEF Units
  <2>2. 1 .. refcount[lockMap[k]] \subseteq 1 .. most
    BY <1>1, <1>2
  <2> QED BY <2>1, <2>2
<1>4. IsFiniteSet(1 .. most)
  BY <1>1, FS_Interval
<1>5. IsFiniteSet(ks \X (1 .. most))
  BY <1>4, FS_Product
<1>6. IsFiniteSet(Units(lockMap, refcount, ks))
  BY <1>3, <1>5, FS_Subset
<1> QED BY <1>6, FS_CardinalityType DEF TotalOf, Sum

\* One key more adds its count.
LEMMA TotalMore ==
    ASSUME IInv, NEW ks \in SUBSET Mapped, IsFiniteSet(ks),
           NEW k \in Mapped, k \notin ks
    PROVE  TotalOf(ks \cup {k}) = TotalOf(ks) + refcount[lockMap[k]]
<1> DEFINE own == {k} \X (1 .. refcount[lockMap[k]])
<1>1. refcount[lockMap[k]] \in Nat
  BY DEF IInv, TypeOK, Mapped
<1>2. /\ IsFiniteSet(1 .. refcount[lockMap[k]])
      /\ Cardinality(1 .. refcount[lockMap[k]]) = refcount[lockMap[k]]
  <2> SUFFICES ASSUME NEW n \in Nat
               PROVE  IsFiniteSet(1 .. n) /\ Cardinality(1 .. n) = n
    BY <1>1
  <2>1. /\ IsFiniteSet(1 .. n)
        /\ Cardinality(1 .. n) = IF 1 > n THEN 0 ELSE n - 1 + 1
    BY FS_Interval
  <2> QED BY <2>1
<1>3. IsFiniteSet({k}) /\ Cardinality({k}) = 1
  BY FS_Singleton
<1>4. IsFiniteSet(own) /\ Cardinality(own) = refcount[lockMap[k]]
  <2>1. IsFiniteSet(own) /\ Cardinality(own) = 1 * refcount[lockMap[k]]
    BY <1>2, <1>3, FS_Product
  <2> QED BY <1>1, <2>1
<1>5. Units(lockMap, refcount, ks \cup {k}) = Units(lockMap, refcount, ks) \cup own
  BY DEF Units
<1>6. Units(lockMap, refcount, ks) \cap own = {}
  <2> SUFFICES ASSUME NEW u \in Units(lockMap, refcount, ks), u \in own PROVE FALSE
    OBVIOUS
  <2>1. PICK j \in ks : u \in {j} \X (1 .. refcount[lockMap[j]])
    BY DEF Units
  <2> QED BY <2>1
<1>7. IsFiniteSet(Units(lockMap, refcount, ks)) /\ TotalOf(ks) \in Nat
  BY SumIsNat DEF TotalOf, Sum
<1>8. Cardinality(Units(lockMap, refcount, ks) \cup own)
         = TotalOf(ks) + Cardinality(own) - Cardinality(Units(lockMap, refcount, ks) \cap own)
  BY <1>4, <1>7, FS_Union DEF TotalOf, Sum
<1>9. Cardinality(Units(lockMap, refcount, ks) \cap own) = 0
  BY <1>6, FS_EmptySet
<1> HIDE DEF own
<1>10. Cardinality(Units(lockMap, refcount, ks) \cup own) = TotalOf(ks) + refcount[lockMap[k]]
  BY <1>1, <1>4, <1>7, <1>8, <1>9
<1> QED BY <1>5, <1>10 DEF TotalOf, Sum

\* No key, no count.
LEMMA TotalNone == TotalOf({}) = 0
<1>1. Units(lockMap, refcount, {}) = {}
  BY DEF Units
<1> QED BY <1>1, FS_EmptySet DEF TotalOf, Sum

\* Fewer keys of the same entries, with lower counts, add up to less.
LEMMA TotalLess ==
    ASSUME IInv, IInv', NEW ks \in SUBSET Mapped, IsFiniteSet(ks), NEW js \in SUBSET ks,
           \A k \in js : lockMap'[k] = lockMap[k] /\ refcount'[lockMap[k]] <= refcount[lockMap[k]]
    PROVE  Sum(lockMap', refcount', js) \in Nat /\ Sum(lockMap', refcount', js) <= TotalOf(ks)
<1>1. IsFiniteSet(Units(lockMap, refcount, ks)) /\ TotalOf(ks) \in Nat
  BY SumIsNat DEF TotalOf, Sum
<1>2. Units(lockMap', refcount', js) \in SUBSET Units(lockMap, refcount, ks)
  <2> SUFFICES ASSUME NEW u \in Units(lockMap', refcount', js) PROVE u \in Units(lockMap, refcount, ks)
    OBVIOUS
  <2>1. PICK k \in js : u \in {k} \X (1 .. refcount'[lockMap'[k]])
    BY DEF Units
  <2>2. lockMap[k] \in Entries
    BY DEF IInv, TypeOK, Mapped
  <2>3. refcount'[lockMap[k]] \in Nat /\ refcount[lockMap[k]] \in Nat
    BY <2>2 DEF IInv, TypeOK
  <2>4. 1 .. refcount'[lockMap'[k]] \subseteq 1 .. refcount[lockMap[k]]
    BY <2>3
  <2>5. u \in {k} \X (1 .. refcount[lockMap[k]])
    BY <2>1, <2>4
  <2> QED BY <2>5 DEF Units
<1>3. /\ IsFiniteSet(Units(lockMap', refcount', js))
      /\ Cardinality(Units(lockMap', refcount', js)) <= TotalOf(ks)
  BY <1>1, <1>2, FS_Subset DEF TotalOf, Sum
<1>4. Cardinality(Units(lockMap', refcount', js)) \in Nat
  BY <1>3, FS_CardinalityType
<1> QED BY <1>3, <1>4 DEF TotalOf, Sum

\* A step of one thread.
StepOf(u) ==
    \/ \E h \in Handles, k \in Keys, kind \in Locking : Call(u, h, k, kind)
    \/ LockEntry(u) \/ LockFails(u) \/ GiveUp(u)
    \/ \E h \in Handles, s \in Handles \cup {NoHandle} : Unlock(u, h, s)
    \/ LowerCount(u)
    \/ \E h, s \in Handles : Move(u, h, s)
    \/ \E kind \in Scanning : StartScan(u, kind)
    \/ \E k \in Keys : CleanupKey(u, k) \/ CountKey(u, k)
    \/ EndScan(u) \/ Clear(u)

\* While a thread counts, no other thread adds or removes an entry and none
\* raises a count: only the counter moves its own walk on.
LEMMA StepsWhileCounting ==
    ASSUME IInv, [Next]_vars, NEW t \in Threads, pc[t] = "count", pc'[t] = "count"
    PROVE  /\ lockMap' = lockMap
           /\ \A e \in Entries : refcount'[e] <= refcount[e]
           /\ \/ scan' = scan
              \/ \E k \in Keys : CountKey(t, k)
<1>1. /\ global = t /\ \A u \in Threads : pc[u] \in Scanning => u = t
      /\ t # NoThread
  BY NoneAssumption DEF IInv, ScanExclusive, Scanning
<1>2. TypeOK /\ CallsOK
  BY DEF IInv
<1>3. \A e \in Entries : refcount[e] \in Nat
  BY <1>2 DEF TypeOK
<1>4. CASE UNCHANGED vars
  BY <1>3, <1>4 DEF vars
<1>5. CASE Next
  <2> PICK u \in Threads : StepOf(u)
    BY <1>5 DEF Next, StepOf
  <2>1. CASE \E h \in Handles, k \in Keys, kind \in Locking : Call(u, h, k, kind)
    BY <1>1, <2>1 DEF Call
  <2>2. CASE LockEntry(u) \/ LockFails(u)
    BY <1>3, <2>2 DEF LockEntry, LockFails
  <2>3. CASE GiveUp(u)
    BY <1>2, <1>3, <2>3 DEF GiveUp, TypeOK
  <2>4. CASE \E h \in Handles, s \in Handles \cup {NoHandle} : Unlock(u, h, s)
    BY <1>3, <2>4 DEF Unlock
  <2>5. CASE LowerCount(u)
    BY <1>2, <1>3, <2>5 DEF LowerCount, TypeOK
  <2>6. CASE \E h, s \in Handles : Move(u, h, s)
    BY <1>3, <2>6 DEF Move
  <2>7. CASE \E kind \in Scanning : StartScan(u, kind)
    BY <1>1, <2>7 DEF StartScan
  <2>8. CASE \E k \in Keys : CleanupKey(u, k)
    BY <1>1, <2>8 DEF CleanupKey, Scanning
  <2>9. CASE \E k \in Keys : CountKey(u, k)
    <3>1. PICK k \in Keys : CountKey(u, k)
      BY <2>9
    <3>2. u = t
      BY <1>1, <3>1 DEF CountKey, Scanning
    <3>3. lockMap' = lockMap /\ refcount' = refcount
      BY <3>1 DEF CountKey
    <3>4. \A e \in Entries : refcount'[e] <= refcount[e]
      BY <1>3, <3>3
    <3> QED BY <3>1, <3>2, <3>3, <3>4
  <2>10. CASE EndScan(u)
    <3>1. u = t
      BY <1>1, <2>10 DEF EndScan
    <3> QED BY <1>2, <2>10, <3>1 DEF EndScan, TypeOK
  <2>11. CASE Clear(u)
    BY <1>1, <2>11 DEF Clear
  <2> QED BY <2>1, <2>2, <2>3, <2>4, <2>5, <2>6, <2>7, <2>8, <2>9, <2>10, <2>11
       DEF StepOf
<1> QED BY <1>4, <1>5

\* A count begins with the sum of all counts and with nothing added up.
LEMMA CountStarts ==
    ASSUME IInv, [Next]_vars, NEW t \in Threads, pc[t] # "count", pc'[t] = "count"
    PROVE  StartScan(t, "count")
<1>1. TypeOK
  BY DEF IInv
<1>2. CASE UNCHANGED vars
  BY <1>2 DEF vars
<1>3. CASE Next
  <2> PICK u \in Threads : StepOf(u)
    BY <1>3 DEF Next, StepOf
  <2>1. CASE \E kind \in Scanning : StartScan(u, kind)
    BY <1>1, <2>1 DEF StartScan, TypeOK
  <2>2. CASE \E h \in Handles, k \in Keys, kind \in Locking : Call(u, h, k, kind)
    BY <1>1, <2>2 DEF Call, TypeOK, Locking
  <2>3. CASE LockEntry(u) \/ LockFails(u) \/ GiveUp(u) \/ LowerCount(u) \/ EndScan(u)
    BY <1>1, <2>3 DEF LockEntry, LockFails, GiveUp, LowerCount, EndScan, TypeOK
  <2>4. CASE \E h \in Handles, s \in Handles \cup {NoHandle} : Unlock(u, h, s)
    BY <1>1, <2>4 DEF Unlock, TypeOK
  <2>5. CASE \/ \E h, s \in Handles : Move(u, h, s)
             \/ \E k \in Keys : CleanupKey(u, k) \/ CountKey(u, k)
             \/ Clear(u)
    BY <1>1, <2>5 DEF Move, CleanupKey, CountKey, Clear, TypeOK
  <2> QED BY <2>1, <2>2, <2>3, <2>4, <2>5 DEF StepOf
<1> QED BY <1>2, <1>3

\* The table grows by one key at most, so it stays finite.
LEMMA MappedFinite ==
    ASSUME IInv, [Next]_vars, IsFiniteSet(Mapped)
    PROVE  IsFiniteSet(Mapped)'
<1>1. TypeOK
  BY DEF IInv
<1>2. Mapped' \subseteq Mapped \/ \E k \in Keys : Mapped' \subseteq Mapped \cup {k}
  <2>1. CASE UNCHANGED vars
    BY <2>1 DEF vars, Mapped
  <2>2. CASE Next
    <3> PICK u \in Threads : StepOf(u)
      BY <2>2 DEF Next, StepOf
    <3>1. CASE \E h \in Handles, k \in Keys, kind \in Locking : Call(u, h, k, kind)
      <4>1. PICK k \in Keys, e \in Entries : GetOrCreateEntry(k, e)
        BY <3>1 DEF Call
      <4>2. lockMap' = lockMap \/ lockMap' = [lockMap EXCEPT ![k] = e]
        BY <4>1 DEF GetOrCreateEntry
      <4> QED BY <1>1, <4>2 DEF Mapped, TypeOK
    <3>2. CASE \E k \in Keys : CleanupKey(u, k)
      BY <1>1, <3>2 DEF CleanupKey, Mapped, TypeOK
    <3>3. CASE Clear(u)
      BY <3>3 DEF Clear, Mapped
    <3>4. CASE \/ LockEntry(u) \/ LockFails(u) \/ GiveUp(u) \/ LowerCount(u) \/ EndScan(u)
               \/ \E h \in Handles, s \in Handles \cup {NoHandle} : Unlock(u, h, s)
               \/ \E h, s \in Handles : Move(u, h, s)
               \/ \E kind \in Scanning : StartScan(u, kind)
               \/ \E k \in Keys : CountKey(u, k)
      <4>1. lockMap' = lockMap
        BY <3>4 DEF LockEntry, LockFails, GiveUp, LowerCount, EndScan, Unlock, Move,
                    StartScan, CountKey
      <4> QED BY <4>1 DEF Mapped
    <3> QED BY <3>1, <3>2, <3>3, <3>4 DEF StepOf
  <2> QED BY <2>1, <2>2
<1>3. CASE Mapped' \subseteq Mapped
  BY <1>3, FS_Subset
<1>4. CASE \E k \in Keys : Mapped' \subseteq Mapped \cup {k}
  <2>1. PICK k \in Keys : Mapped' \subseteq Mapped \cup {k}
    BY <1>4
  <2>2. IsFiniteSet(Mapped \cup {k})
    BY FS_AddElement
  <2> QED BY <2>1, <2>2, FS_Subset
<1> QED BY <1>2, <1>3, <1>4

\* A walk under way: its total grows by what the entry counts at that moment,
\* and the counts of all entries only go down meanwhile.
LEMMA CountGoesOn ==
    ASSUME IInv, IInv', CountIInv, [Next]_vars, NEW t \in Threads,
           pc[t] = "count", pc'[t] = "count"
    PROVE  /\ scan'.total \in Nat /\ scan'.start \in Nat
           /\ scan'.total + Sum(lockMap', refcount', scan'.todo) <= scan'.start
           /\ Sum(lockMap', refcount', Mapped' \ scan'.todo) <= scan'.total
<1> DEFINE todo == scan.todo
           seen == Mapped \ scan.todo
<1>1. /\ lockMap' = lockMap
      /\ \A e \in Entries : refcount'[e] <= refcount[e]
      /\ \/ scan' = scan
         \/ \E k \in Keys : CountKey(t, k)
  BY StepsWhileCounting
<1>2. /\ scan.total \in Nat /\ scan.start \in Nat
      /\ scan.total + TotalOf(todo) <= scan.start
      /\ TotalOf(seen) <= scan.total
  BY DEF CountIInv
<1>3. /\ todo \in SUBSET Mapped /\ seen \in SUBSET Mapped
      /\ IsFiniteSet(todo) /\ IsFiniteSet(seen)
  <2>1. todo \in SUBSET Mapped /\ seen \in SUBSET Mapped
    BY DEF IInv, ScanMapped
  <2>2. IsFiniteSet(Mapped)
    BY DEF CountIInv
  <2> QED BY <2>1, <2>2, FS_Subset
<1>4. TotalOf(todo) \in Nat /\ TotalOf(seen) \in Nat
  BY <1>3, SumIsNat
<1>5. Mapped' = Mapped /\ \A k \in Mapped : lockMap[k] \in Entries
  BY <1>1 DEF Mapped, IInv, TypeOK
<1>6. \A k \in Mapped : lockMap'[k] = lockMap[k] /\ refcount'[lockMap[k]] <= refcount[lockMap[k]]
  BY <1>1, <1>5
<1>7. CASE scan' = scan
  <2>1. Sum(lockMap', refcount', todo) \in Nat /\ Sum(lockMap', refcount', todo) <= TotalOf(todo)
    BY <1>3, <1>6, <1>7, TotalLess
  <2>2. Sum(lockMap', refcount', seen) \in Nat /\ Sum(lockMap', refcount', seen) <= TotalOf(seen)
    BY <1>3, <1>5, <1>6, <1>7, TotalLess
  <2> QED BY <1>2, <1>4, <1>5, <1>7, <2>1, <2>2
<1>8. CASE \E k \in Keys : CountKey(t, k)
  <2> PICK k \in Keys : CountKey(t, k)
    BY <1>8
  <2>1. /\ k \in todo /\ k \in Mapped /\ k \notin seen
        /\ refcount' = refcount
        /\ scan'.todo = todo \ {k}
        /\ scan'.total = scan.total + refcount[lockMap[k]]
        /\ scan'.start = scan.start
    BY <1>3 DEF CountKey, IInv, TypeOK
  <2>2. refcount[lockMap[k]] \in Nat
    BY <1>5, <2>1 DEF IInv, TypeOK
  <2>3. todo \ {k} \in SUBSET Mapped /\ IsFiniteSet(todo \ {k}) /\ k \notin todo \ {k}
    BY <1>3, FS_Subset
  <2>4. TotalOf((todo \ {k}) \cup {k}) = TotalOf(todo \ {k}) + refcount[lockMap[k]]
    BY <2>1, <2>3, TotalMore
  <2>5. (todo \ {k}) \cup {k} = todo
    BY <2>1
  <2>6. TotalOf(seen \cup {k}) = TotalOf(seen) + refcount[lockMap[k]]
    BY <1>3, <2>1, TotalMore
  <2>7. Mapped' \ scan'.todo = seen \cup {k}
    BY <1>5, <2>1
  <2>8. /\ Sum(lockMap', refcount', scan'.todo) = TotalOf(todo \ {k})
        /\ Sum(lockMap', refcount', Mapped' \ scan'.todo) = TotalOf(seen \cup {k})
    BY <1>1, <2>1, <2>7 DEF TotalOf
  <2>9. TotalOf(todo \ {k}) \in Nat
    BY <2>3, SumIsNat
  <2> HIDE DEF todo, seen
  <2>10. scan'.total + Sum(lockMap', refcount', scan'.todo) = scan.total + TotalOf(todo)
    <3>1. TotalOf(todo) = TotalOf(todo \ {k}) + refcount[lockMap[k]]
      BY <2>4, <2>5
    <3>2. scan'.total = scan.total + refcount[lockMap[k]]
      BY <2>1
    <3>3. Sum(lockMap', refcount', scan'.todo) = TotalOf(todo \ {k})
      BY <2>8
    <3> QED BY <1>2, <2>2, <2>9, <3>1, <3>2, <3>3
  <2>11. Sum(lockMap', refcount', Mapped' \ scan'.todo) <= scan'.total
    BY <1>2, <1>4, <2>1, <2>2, <2>6, <2>8
  <2>12. scan'.total \in Nat /\ scan'.start \in Nat
    BY <1>2, <2>1, <2>2
  <2> QED BY <1>2, <2>1, <2>10, <2>11, <2>12
<1> QED BY <1>1, <1>7, <1>8

\* Every step keeps the bounds of a count under way.
LEMMA CountStep == IInv /\ IInv' /\ CountIInv /\ [Next]_vars => CountIInv'
<1> SUFFICES ASSUME IInv, IInv', CountIInv, [Next]_vars PROVE CountIInv'
  OBVIOUS
<1>1. IsFiniteSet(Mapped) /\ IsFiniteSet(Mapped)'
  BY MappedFinite DEF CountIInv
<1>2. ASSUME NEW t \in Threads, pc'[t] = "count"
      PROVE  /\ scan'.total \in Nat /\ scan'.start \in Nat
             /\ scan'.total + Sum(lockMap', refcount', scan'.todo) <= scan'.start
             /\ Sum(lockMap', refcount', Mapped' \ scan'.todo) <= scan'.total
  <2>1. CASE pc[t] = "count"
    BY <1>2, <2>1, CountGoesOn
  <2>2. CASE pc[t] # "count"
    <3>1. StartScan(t, "count")
      BY <1>2, <2>2, CountStarts
    <3>2. /\ lockMap' = lockMap /\ refcount' = refcount
          /\ scan' = [todo |-> Mapped, total |-> 0, start |-> TotalOf(Mapped)]
      BY <3>1 DEF StartScan
    <3>3. Mapped' = Mapped
      BY <3>2 DEF Mapped
    <3>4. TotalOf(Mapped) \in Nat
      BY <1>1, SumIsNat
    <3>5. /\ Sum(lockMap', refcount', scan'.todo) = TotalOf(Mapped)
          /\ Sum(lockMap', refcount', Mapped' \ scan'.todo) = TotalOf({})
      <4>1. scan'.todo = Mapped /\ Mapped' \ scan'.todo = {}
        BY <3>2, <3>3
      <4> QED BY <4>1, <3>2 DEF TotalOf
    <3> QED BY <3>2, <3>4, <3>5, TotalNone
  <2> QED BY <2>1, <2>2
<1> QED BY <1>1, <1>2 DEF CountIInv, TotalOf

\* active_lock_count and get_metrics of named_lock.h: whatever releases lower
\* while the loop adds up, the total lies between the sum of the counts at its
\* end and the sum at its start.
THEOREM CountsBracketed == Spec => []CountBracketed
<1>1. Init => CountIInv
  <2> SUFFICES ASSUME Init PROVE CountIInv
    OBVIOUS
  <2>1. Mapped = {}
    BY DEF Init, Mapped
  <2> QED BY <2>1, FS_EmptySet DEF Init, CountIInv
<1>2. IInv /\ CountIInv => CountBracketed
  <2> SUFFICES ASSUME IInv, CountIInv, NEW t \in Threads, pc[t] = "count"
               PROVE  /\ scan.total + TotalOf(scan.todo) <= scan.start
                      /\ scan.todo = {} => scan.total >= TotalOf(Mapped)
    BY DEF CountBracketed
  <2>1. scan.total + TotalOf(scan.todo) <= scan.start
    BY DEF CountIInv
  <2>2. ASSUME scan.todo = {} PROVE scan.total >= TotalOf(Mapped)
    <3>1. Mapped \ scan.todo = Mapped
      BY <2>2
    <3>2. TotalOf(Mapped) \in Nat
      BY SumIsNat DEF CountIInv
    <3>3. TotalOf(Mapped) <= scan.total /\ scan.total \in Nat
      BY <3>1 DEF CountIInv
    <3> QED BY <3>2, <3>3
  <2> QED BY <2>1, <2>2
<1> QED BY <1>1, <1>2, CountStep, InductiveInvariant, PTL DEF Spec

(***************************************************************************)
(* NamedLock implements KeyedLock.                                         *)
(***************************************************************************)

\* The owner of a key, as KeyedLock sees it, is the lock object that owns the
\* key's entry: there is at most one.
HoldersKnown == \A k \in Keys :
    /\ HolderOf(k) \in Handles \cup {NoHandle}
    /\ \A h \in Handles : HolderOf(k) = h <=> Owns(h) /\ key[h] = k

LEMMA HolderIs == IInv => HoldersKnown
<1> SUFFICES ASSUME IInv, NEW k \in Keys
             PROVE  /\ HolderOf(k) \in Handles \cup {NoHandle}
                    /\ \A h \in Handles : HolderOf(k) = h <=> Owns(h) /\ key[h] = k
  BY DEF HoldersKnown
<1>1. \A g, h \in Handles : Owns(g) /\ Owns(h) /\ key[g] = key[h] => g = h
  BY DEF IInv, EntryStable, Owns
<1>2. CASE \E h \in Handles : Owns(h) /\ key[h] = k
  <2>1. HolderOf(k) = CHOOSE h \in Handles : Owns(h) /\ key[h] = k
    BY <1>2 DEF HolderOf
  <2> QED BY <1>1, <1>2, <2>1
<1>3. CASE ~\E h \in Handles : Owns(h) /\ key[h] = k
  BY <1>3, NoneAssumption DEF HolderOf
<1> QED BY <1>2, <1>3

LEMMA HolderIsNext == IInv' => HoldersKnown'
BY HolderIs, PTL

\* A lock object owns its entry unless a call is at work on it.
LEMMA OwnsUnlessBusy ==
    ASSUME IInv, NEW h \in Handles
    PROVE  Owns(h) <=> ent[h] # NoEntry /\ ~Busy(h)
BY DEF IInv, MutexOwned, Owns

\* What nobody owns anew, moves or gives up shows as nothing.
LEMMA SameHolders ==
    ASSUME IInv, IInv',
           \A g \in Handles : (Owns(g)' <=> Owns(g)) /\ (Owns(g) => key'[g] = key[g])
    PROVE  [k \in Keys |-> HolderOf(k)]' = [k \in Keys |-> HolderOf(k)]
<1>1. ASSUME NEW k \in Keys PROVE HolderOf(k)' = HolderOf(k)
  BY HolderIs, HolderIsNext, NoneAssumption DEF HoldersKnown
<1> QED BY <1>1

\* One lock object gets hold of a key that nobody held.
LEMMA HolderAcquired ==
    ASSUME IInv, IInv', NEW h \in Handles, ~Owns(h), Owns(h)', key' = key,
           \A g \in Handles : Owns(g) => key[g] # key[h],
           \A g \in Handles \ {h} : Owns(g)' <=> Owns(g)
    PROVE  Abstract!Acquire(h, key[h])
<1>0. key[h] \in Keys
  BY DEF IInv, TypeOK
<1>1. HolderOf(key[h]) = NoHandle
  BY <1>0, HolderIs DEF HoldersKnown
<1>2. \A k \in Keys : HolderOf(k) # h
  BY HolderIs DEF HoldersKnown
<1>3. ASSUME NEW k \in Keys
      PROVE  HolderOf(k)' = IF k = key[h] THEN h ELSE HolderOf(k)
  BY <1>0, HolderIs, HolderIsNext, NoneAssumption DEF HoldersKnown
<1> QED BY <1>0, <1>1, <1>2, <1>3 DEF Abstract!Acquire, Abstract!Holds

\* The owner of a key gives it up.
LEMMA HolderReleased ==
    ASSUME IInv, IInv', NEW h \in Handles, Owns(h), ~Owns(h)', key' = key,
           \A g \in Handles \ {h} : Owns(g)' <=> Owns(g)
    PROVE  Abstract!Release(key[h])
<1>0. key[h] \in Keys
  BY DEF IInv, TypeOK
<1>1. HolderOf(key[h]) = h /\ h # NoHandle
  BY <1>0, HolderIs, NoneAssumption DEF HoldersKnown
<1>2. ASSUME NEW k \in Keys
      PROVE  HolderOf(k)' = IF k = key[h] THEN NoHandle ELSE HolderOf(k)
  BY <1>0, <1>1, HolderIs, HolderIsNext, NoneAssumption DEF HoldersKnown
<1> QED BY <1>0, <1>1, <1>2 DEF Abstract!Release

\* A lock object takes over the key of another one of its thread.
LEMMA HolderMoved ==
    ASSUME IInv, IInv', NEW h \in Handles, NEW s \in Handles, OwnerOf[s] = OwnerOf[h],
           ~Owns(h), Owns(s), Owns(h)', ~Owns(s)',
           key' = [key EXCEPT ![h] = key[s]],
           \A g \in Handles \ {h, s} : Owns(g)' <=> Owns(g)
    PROVE  Abstract!Move(key[s], h)
<1>0. key[s] \in Keys /\ key \in [Handles -> Keys]
  BY DEF IInv, TypeOK
<1>1. HolderOf(key[s]) = s /\ s # NoHandle
  BY <1>0, HolderIs, NoneAssumption DEF HoldersKnown
<1>2. \A k \in Keys : HolderOf(k) # h
  BY HolderIs DEF HoldersKnown
<1>3. ASSUME NEW k \in Keys
      PROVE  HolderOf(k)' = IF k = key[s] THEN h ELSE HolderOf(k)
  BY <1>0, <1>1, HolderIs, HolderIsNext, NoneAssumption DEF HoldersKnown
<1> DEFINE holder == [k \in Keys |-> HolderOf(k)]
<1>4. holder[key[s]] = s /\ \A k \in Keys : holder[k] # h
  BY <1>0, <1>1, <1>2
<1>5. holder' = [holder EXCEPT ![key[s]] = h]
  BY <1>0, <1>3
<1> HIDE DEF holder
<1>6. /\ holder[key[s]] # NoHandle /\ OwnerOf[holder[key[s]]] = OwnerOf[h]
      /\ ~\E k \in Keys : holder[k] = h
  BY <1>1, <1>4
<1> QED BY <1>5, <1>6 DEF Abstract!Move, Abstract!Holds, holder

\* Every step of NamedLock is a step of KeyedLock, or shows as nothing.
LEMMA StepImplements ==
    ASSUME IInv, IInv', NEW t \in Threads,
           \/ \E h \in Handles, k \in Keys, kind \in Locking : Call(t, h, k, kind)
           \/ LockEntry(t) \/ LockFails(t) \/ GiveUp(t)
           \/ \E h \in Handles, s \in Handles \cup {NoHandle} : Unlock(t, h, s)
           \/ LowerCount(t)
           \/ \E h, s \in Handles : Move(t, h, s)
           \/ \E kind \in Scanning : StartScan(t, kind)
           \/ \E k \in Keys : CleanupKey(t, k) \/ CountKey(t, k)
           \/ EndScan(t) \/ Clear(t)
    PROVE  [Abstract!Next]_[k \in Keys |-> HolderOf(k)]
<1> USE NoneAssumption, OwnerAssumption
<1>1. TypeOK /\ CallsOK /\ EntryStable /\ MutexOwned
  BY DEF IInv
<1>2. ASSUME NEW h \in Handles, NEW k \in Keys, NEW kind \in Locking, Call(t, h, k, kind)
      PROVE  [k0 \in Keys |-> HolderOf(k0)]' = [k0 \in Keys |-> HolderOf(k0)]
  <2>1. PICK e \in Entries : GetOrCreateEntry(k, e) /\ ent' = [ent EXCEPT ![h] = e]
    BY <1>2 DEF Call
  <2>2. ent[h] = NoEntry /\ key' = [key EXCEPT ![h] = k] /\ \A d \in Entries : mtx[d] # h
    BY <1>1, <1>2 DEF Call, MutexOwned, TypeOK
  <2>3. mtx' = mtx
    BY <1>1, <2>1 DEF GetOrCreateEntry, MutexOwned, TypeOK, Fresh, Users
  <2>4. \A g \in Handles : (Owns(g)' <=> Owns(g)) /\ (Owns(g) => key'[g] = key[g])
    BY <1>1, <2>1, <2>2, <2>3 DEF Owns, TypeOK
  <2> QED BY <2>4, SameHolders
<1>3. CASE LockEntry(t)
  <2>0. PICK h \in Handles : h = cur[t]
    BY <1>1, <1>3 DEF LockEntry, CallsOK, InCall
  <2>1. h \in Handles /\ ent[h] \in Entries /\ mtx[ent[h]] = NoHandle
        /\ mtx' = [mtx EXCEPT ![ent[h]] = h] /\ ent' = ent /\ key' = key
    BY <1>1, <1>3, <2>0 DEF LockEntry, TypeOK, CallsOK, InCall
  <2>2. ~Owns(h) /\ Owns(h)' /\ \A g \in Handles \ {h} : Owns(g)' <=> Owns(g)
    BY <1>1, <2>1 DEF Owns, TypeOK
  <2>3. \A g \in Handles : Owns(g) => key[g] # key[h]
    BY <1>1, <2>1 DEF Owns, EntryStable, TypeOK
  <2>4. Abstract!Acquire(h, key[h]) /\ key[h] \in Keys
    BY <1>1, <2>1, <2>2, <2>3, HolderAcquired DEF TypeOK
  <2> QED BY <2>1, <2>4 DEF Abstract!Next
<1>4. CASE GiveUp(t)
  <2>1. ~Owns(cur[t]) /\ cur[t] \in Handles
    BY <1>1, <1>4, OwnsUnlessBusy DEF GiveUp, CallsOK, Busy, InCall
  <2>2. \A g \in Handles : (Owns(g)' <=> Owns(g)) /\ key'[g] = key[g]
    BY <1>1, <1>4, <2>1 DEF GiveUp, Owns, TypeOK
  <2> QED BY <2>2, SameHolders
<1>5. ASSUME NEW h \in Handles, NEW s \in Handles \cup {NoHandle}, Unlock(t, h, s)
      PROVE  Abstract!Next
  <2>1. Owns(h)
    BY <1>1, <1>5, OwnsUnlessBusy DEF Unlock, IdleWith, Busy, InCall, Locking
  <2>2. ent[h] \in Entries /\ mtx' = [mtx EXCEPT ![ent[h]] = NoHandle] /\ ent' = ent /\ key' = key
    BY <1>1, <1>5 DEF Unlock, TypeOK
  <2>3. ~Owns(h)' /\ \A g \in Handles \ {h} : Owns(g)' <=> Owns(g)
    BY <1>1, <2>1, <2>2 DEF Owns, TypeOK
  <2>4. Abstract!Release(key[h]) /\ key[h] \in Keys
    BY <1>1, <2>1, <2>2, <2>3, HolderReleased DEF TypeOK
  <2> QED BY <2>4 DEF Abstract!Next
<1>6. CASE LowerCount(t)
  <2>0. PICK h \in Handles, s \in Handles \cup {NoHandle} : h = cur[t] /\ s = src[t]
    BY <1>1, <1>6 DEF LowerCount, CallsOK, TypeOK, InCall
  <2>1. ~Owns(h) /\ OwnerOf[h] = t
    BY <1>1, <1>6, <2>0, OwnsUnlessBusy DEF LowerCount, CallsOK, Busy, InCall
  <2>2. CASE s = NoHandle
    <3>1. ent' = [ent EXCEPT ![h] = NoEntry] /\ UNCHANGED <<mtx, key>>
      BY <1>6, <2>0, <2>2 DEF LowerCount
    <3>2. \A g \in Handles : (Owns(g)' <=> Owns(g)) /\ key'[g] = key[g]
      BY <1>1, <2>1, <3>1 DEF Owns, TypeOK
    <3> QED BY <3>2, SameHolders
  <2>3. CASE s # NoHandle
    <3>1. /\ s \in Handles /\ s # h /\ OwnerOf[s] = t /\ ent[s] \in Entries
          /\ ent' = [ent EXCEPT ![h] = ent[s], ![s] = NoEntry]
          /\ mtx' = [mtx EXCEPT ![ent[s]] = h]
          /\ key' = [key EXCEPT ![h] = key[s]]
      BY <1>1, <1>6, <2>0, <2>1, <2>3 DEF LowerCount, CallsOK, TypeOK, InCall
    <3>2. ~Busy(s)
      BY <2>0, <3>1 DEF Busy
    <3>3. Owns(s)
      BY <3>1, <3>2, OwnsUnlessBusy
    <3>4. Owns(h)' /\ ~Owns(s)' /\ \A g \in Handles \ {h, s} : Owns(g)' <=> Owns(g)
      BY <1>1, <2>1, <3>1, <3>3 DEF Owns, TypeOK
    <3>5. Abstract!Move(key[s], h) /\ key[s] \in Keys
      BY <1>1, <2>1, <3>1, <3>3, <3>4, HolderMoved DEF TypeOK
    <3> QED BY <2>1, <3>5 DEF Abstract!Next
  <2> QED BY <2>2, <2>3
<1>7. ASSUME NEW h \in Handles, NEW s \in Handles, Move(t, h, s)
      PROVE  Abstract!Next
  <2>1. /\ s # h /\ OwnerOf[s] = OwnerOf[h] /\ ent[s] \in Entries
        /\ ent' = [ent EXCEPT ![h] = ent[s], ![s] = NoEntry]
        /\ mtx' = [mtx EXCEPT ![ent[s]] = h]
        /\ key' = [key EXCEPT ![h] = key[s]]
    BY <1>1, <1>7 DEF Move, IdleWith, TypeOK
  <2>2. ~Owns(h) /\ Owns(s)
    BY <1>7, OwnsUnlessBusy DEF Move, IdleWith, Busy, InCall, Locking
  <2>3. Owns(h)' /\ ~Owns(s)' /\ \A g \in Handles \ {h, s} : Owns(g)' <=> Owns(g)
    BY <1>1, <2>1, <2>2 DEF Owns, TypeOK
  <2>4. Abstract!Move(key[s], h) /\ key[s] \in Keys
    BY <1>1, <2>1, <2>2, <2>3, HolderMoved DEF TypeOK
  <2> QED BY <2>4 DEF Abstract!Next
<1>8. CASE \/ LockFails(t) \/ EndScan(t) \/ Clear(t)
           \/ \E kind \in Scanning : StartScan(t, kind)
           \/ \E k \in Keys : CleanupKey(t, k) \/ CountKey(t, k)
  <2>1. UNCHANGED <<ent, mtx, key>>
    BY <1>8 DEF LockFails, EndScan, Clear, StartScan, CleanupKey, CountKey
  <2>2. \A g \in Handles : (Owns(g)' <=> Owns(g)) /\ key'[g] = key[g]
    BY <2>1 DEF Owns
  <2> QED BY <2>2, SameHolders
<1> QED BY <1>2, <1>3, <1>4, <1>5, <1>6, <1>7, <1>8

\* named_lock.h as a whole gives its callers one lock per key: lookups,
\* timeouts, counts and clean-ups show as nothing, and the rest as the steps
\* of KeyedLock.
THEOREM NamedLockImplementsKeyedLock == Spec => ImplementsKeyedLock
<1>1. Init => Abstract!Init
  <2> SUFFICES ASSUME Init, NEW k \in Keys PROVE HolderOf(k) = NoHandle
    BY DEF Abstract!Init
  <2> QED BY NoneAssumption DEF Init, HolderOf, Owns
<1>2. IInv /\ IInv' /\ [Next]_vars => [Abstract!Next]_[k \in Keys |-> HolderOf(k)]
  <2> SUFFICES ASSUME IInv, IInv', [Next]_vars
               PROVE  [Abstract!Next]_[k \in Keys |-> HolderOf(k)]
    OBVIOUS
  <2>1. CASE Next
    BY <2>1, StepImplements DEF Next
  <2>2. CASE UNCHANGED vars
    BY <2>2, SameHolders DEF vars, Owns
  <2> QED BY <2>1, <2>2
<1> QED BY <1>1, <1>2, InductiveInvariant, PTL DEF Spec, ImplementsKeyedLock, Abstract!Spec

-----------------------------------------------------------------------------
(***************************************************************************)
(* RedisIdAllocator: an ID is leased to one holder at a time, and creators *)
(* are elected one at a time.                                              *)
(***************************************************************************)

\* Nothing is leased at first.
LEMMA InitLeases == IdsInit => LeasesExact
<1> SUFFICES ASSUME IdsInit PROVE LeasesExact
  OBVIOUS
<1>1. IdsTypeOK
  BY DEF IdsInit, IdsTypeOK
<1>2. LeaseKept /\ UniqueLease
  BY DEF IdsInit, LeaseKept, UniqueLease
<1> QED BY <1>1, <1>2 DEF LeasesExact

\* The part of the state that the leases live in, for the steps that leave it
\* alone: the life of an instance, its heartbeats, and refusals.
Unleased(i) ==
    \/ CreateAsCreator(i) \/ AttachAsConsumer(i) \/ AttachOnError(i)
    \/ StartHeartbeat(i) \/ Stop(i) \/ Crash(i) \/ EnsureReady(i) \/ Refused(i)

\* Electing, losing and refreshing creators touches no lease.
LEMMA UnleasedLeases ==
    ASSUME LeasesExact, NEW i \in Insts, Unleased(i)
    PROVE  LeasesExact'
<1>1. UNCHANGED <<now, bitmap, meta, grants, lapsed>>
  BY DEF Unleased, CreateAsCreator, AttachAsConsumer, AttachOnError, StartHeartbeat, Stop,
      Crash, EnsureReady, Refused, redis
<1>2. LeaseKept' /\ UniqueLease'
  BY <1>1 DEF LeasesExact, LeaseKept, UniqueLease
<1>3. creator' \in Insts \cup {NoInst} /\ leaseEnd' \in Nat /\ init' \in BOOLEAN
  <2>1. now + CreatorTTL \in Nat /\ IdsTypeOK
    BY TimeAssumption DEF LeasesExact, IdsTypeOK
  <2>2. CASE TakeLease(i)
    BY <2>1, <2>2 DEF IdsTypeOK, TakeLease
  <2>3. CASE EnsureReady(i) \/ StartHeartbeat(i)
    BY <2>1, <2>3 DEF IdsTypeOK, EnsureReady, StartHeartbeat, SendHeartbeat
  <2>4. CASE Stop(i) \/ UNCHANGED <<init, creator, leaseEnd>>
    BY <2>1, <2>4 DEF IdsTypeOK, Stop
  <2> QED BY <2>2, <2>3, <2>4 DEF Unleased, CreateAsCreator, AttachAsConsumer,
      AttachOnError, Crash, Refused, redis
<1>4. /\ phase' \in [Insts -> {"down", "starting", "idle", "ready", "swept", "clearing"}]
      /\ role' \in [Insts -> {"CREATOR", "CONSUMER"}]
      /\ lastBeat' \in [Insts -> Nat] /\ lastSweep' \in [Insts -> Nat]
  BY DEF LeasesExact, IdsTypeOK, Unleased, CreateAsCreator, AttachAsConsumer, AttachOnError,
      StartHeartbeat, Stop, Crash, EnsureReady, Refused, Become, Gone, Done, SendHeartbeat
<1> QED BY <1>1, <1>2, <1>3, <1>4 DEF LeasesExact, IdsTypeOK

\* Time only ends leases.
LEMMA TickLeases ==
    ASSUME LeasesExact, Tick
    PROVE  LeasesExact'
<1>1. IdsTypeOK'
  BY DEF LeasesExact, IdsTypeOK, Tick, redis, local
<1>2. LeaseKept'
  BY DEF LeasesExact, IdsTypeOK, LeaseKept, Tick, redis, Lease
<1>3. UniqueLease'
  BY DEF LeasesExact, UniqueLease, Tick
<1> QED BY <1>1, <1>2, <1>3 DEF LeasesExact

\* The cleanup script only reclaims IDs whose holders' leases have ended,
\* whoever runs it and however often.
LEMMA CleanupLeases ==
    ASSUME LeasesExact, NEW i \in Insts, MaybeCleanup(i) \/ CleanupExpired(i)
    PROVE  LeasesExact'
<1>1. UNCHANGED <<now, init, creator, leaseEnd, role, lastBeat, grants, lapsed>>
  BY DEF MaybeCleanup, CleanupExpired, local
<1>2. \/ CleanupScript
      \/ UNCHANGED <<bitmap, meta>>
  BY DEF MaybeCleanup, CleanupExpired
<1>3. /\ phase' \in [Insts -> {"down", "starting", "idle", "ready", "swept", "clearing"}]
      /\ lastSweep' \in [Insts -> Nat]
  BY DEF LeasesExact, IdsTypeOK, MaybeCleanup, CleanupExpired, local
<1>4. bitmap' \subseteq Ids /\ meta' \in [Ids -> Nat \cup {NoExpiry}]
  BY <1>2 DEF LeasesExact, IdsTypeOK, CleanupScript
<1>5. LeaseKept'
  <2> SUFFICES ASSUME NEW g \in grants
               PROVE  /\ g.id \in bitmap' /\ g.exp >= now
                      /\ meta'[g.id] # NoExpiry => meta'[g.id] >= g.exp
    BY <1>1 DEF LeaseKept
  <2>1. g.id \in Ids /\ g.exp \in Nat /\ now \in Nat /\ meta[g.id] \in Nat \cup {NoExpiry}
    BY DEF LeasesExact, IdsTypeOK, Lease
  <2>2. /\ g.id \in bitmap /\ g.exp >= now
        /\ meta[g.id] # NoExpiry => meta[g.id] >= g.exp
    BY DEF LeasesExact, LeaseKept
  <2>3. g.id \notin Expired
    BY <2>1, <2>2 DEF Expired, NoExpiry
  <2> QED BY <1>2, <2>1, <2>2, <2>3 DEF CleanupScript
<1>6. UniqueLease'
  BY <1>1 DEF LeasesExact, UniqueLease
<1> QED BY <1>1, <1>3, <1>4, <1>5, <1>6 DEF LeasesExact, IdsTypeOK

\* Handing out IDs whose bits are clear makes leases of IDs nobody holds.
LEMMA HandLeases ==
    ASSUME LeasesExact, NEW i \in Insts, NEW ids \in SUBSET Ids, NEW exp \in Nat,
           NEW lost \in BOOLEAN, ids \cap bitmap = {}, exp >= now,
           Hand(i, ids, exp, lost), Done(i),
           UNCHANGED <<now, init, creator, leaseEnd, role, lastBeat, lastSweep, lapsed>>
    PROVE  LeasesExact'
<1>1. IdsTypeOK'
  BY DEF LeasesExact, IdsTypeOK, Hand, Done, Lease
<1>2. \A g \in grants' : g \in grants \/ g \in [inst : {i}, id : ids, exp : {exp}]
  BY DEF Hand
<1>3. \A g \in grants : g.id \notin ids /\ g.id \in Ids
  BY DEF LeasesExact, LeaseKept, IdsTypeOK, Lease
<1>4. LeaseKept'
  BY <1>2, <1>3 DEF LeasesExact, LeaseKept, IdsTypeOK, Hand
<1>5. UniqueLease'
  BY <1>2, <1>3 DEF LeasesExact, UniqueLease
<1> QED BY <1>1, <1>4, <1>5 DEF LeasesExact

\* allocate, allocateRange, reserve and reserveRange.
LEMMA AllocateLeases ==
    ASSUME LeasesExact, NEW i \in Insts, NEW ttl \in TTLs, NEW lost \in BOOLEAN,
           NEW s \in Ids, NEW e \in Ids,
           AllocateRange(i, e - s + 1, ttl, lost) \/ ReserveRange(i, s, e, ttl, lost)
    PROVE  LeasesExact'
<1> DEFINE exp == now + ttl
<1>1. exp \in Nat /\ exp >= now
  BY TimeAssumption DEF LeasesExact, IdsTypeOK
<1>2. CASE AllocateRange(i, e - s + 1, ttl, lost)
  <2>1. PICK r \in FreeStarts(e - s + 1) : Hand(i, r .. r + (e - s + 1) - 1, exp, lost)
    BY <1>2 DEF AllocateRange
  <2>2. /\ r .. r + (e - s + 1) - 1 \in SUBSET Ids
        /\ (r .. r + (e - s + 1) - 1) \cap bitmap = {}
    BY RangeAssumption DEF FreeStarts, Ids
  <2> HIDE DEF exp
  <2> QED BY <1>1, <1>2, <2>1, <2>2, HandLeases DEF AllocateRange
<1>3. CASE ReserveRange(i, s, e, ttl, lost)
  <2>1. s .. e \in SUBSET Ids /\ (s .. e) \cap bitmap = {} /\ Hand(i, s .. e, exp, lost)
    BY <1>3, RangeAssumption DEF ReserveRange, Ids
  <2> HIDE DEF exp
  <2> QED BY <1>1, <1>3, <2>1, HandLeases DEF ReserveRange
<1> QED BY <1>2, <1>3

\* Freeing and clearing end the leases whose bits they clear.
LEMMA FreeLeases ==
    ASSUME LeasesExact, NEW i \in Insts,
           \/ \E s, e \in Ids : FreeRange(i, s, e)
           \/ ClearBitmap(i) \/ ClearMeta(i)
    PROVE  LeasesExact'
<1>1. CASE \E s, e \in Ids : FreeRange(i, s, e)
  <2> PICK s \in Ids, e \in Ids : FreeRange(i, s, e)
    BY <1>1
  <2>1. IdsTypeOK'
    BY DEF LeasesExact, IdsTypeOK, FreeRange, Done
  <2>2. LeaseKept'
    BY DEF LeasesExact, IdsTypeOK, Lease, LeaseKept, FreeRange
  <2>3. UniqueLease'
    BY DEF LeasesExact, UniqueLease, FreeRange
  <2> QED BY <2>1, <2>2, <2>3 DEF LeasesExact
<1>2. CASE ClearBitmap(i)
  BY <1>2 DEF LeasesExact, IdsTypeOK, LeaseKept, UniqueLease, ClearBitmap
<1>3. CASE ClearMeta(i)
  <2>1. IdsTypeOK'
    BY <1>3 DEF LeasesExact, IdsTypeOK, ClearMeta, Done
  <2>2. LeaseKept' /\ UniqueLease'
    BY <1>3 DEF LeasesExact, IdsTypeOK, Lease, LeaseKept, UniqueLease, ClearMeta
  <2> QED BY <2>1, <2>2 DEF LeasesExact
<1> QED BY <1>1, <1>2, <1>3

\* Extending moves the holder's and the recorded expiry time together.
LEMMA ExtendLeases ==
    ASSUME LeasesExact, NEW i \in Insts, NEW id \in Ids, NEW more \in TTLs, ExtendTTL(i, id, more)
    PROVE  LeasesExact'
<1> DEFINE Longer(g) == IF g.id = id THEN [g EXCEPT !.exp = g.exp + more] ELSE g
<1>1. grants' = {Longer(g) : g \in grants} /\ meta' = [meta EXCEPT ![id] = meta[id] + more]
      /\ meta[id] # NoExpiry /\ more \in Nat
      /\ UNCHANGED <<now, init, creator, leaseEnd, bitmap, role, lastBeat, lastSweep, lapsed>>
  BY TimeAssumption DEF ExtendTTL
<1>2. \A g \in grants : /\ g = [inst |-> g.inst, id |-> g.id, exp |-> g.exp]
                        /\ g.inst \in Insts /\ g.id \in Ids /\ g.exp \in Nat
  BY DEF LeasesExact, IdsTypeOK, Lease
<1>3. \A g \in grants : /\ Longer(g) \in Lease /\ Longer(g).id = g.id
                        /\ Longer(g).exp = IF g.id = id THEN g.exp + more ELSE g.exp
  BY <1>1, <1>2 DEF Lease
<1> HIDE DEF Longer
<1>4. IdsTypeOK'
  BY <1>1, <1>3 DEF LeasesExact, IdsTypeOK, ExtendTTL, Done
<1>5. LeaseKept'
  BY <1>1, <1>2, <1>3 DEF LeasesExact, IdsTypeOK, LeaseKept, NoExpiry
<1>6. UniqueLease'
  BY <1>1, <1>3 DEF LeasesExact, UniqueLease
<1> QED BY <1>4, <1>5, <1>6 DEF LeasesExact

\* No step hands out an ID twice or loses the bit of a held one.
LEMMA NextLeases == LeasesExact /\ [IdsNext]_idVars => LeasesExact'
<1> SUFFICES ASSUME LeasesExact, [IdsNext]_idVars PROVE LeasesExact'
  OBVIOUS
<1>1. CASE Tick
  BY <1>1, TickLeases
<1>2. ASSUME NEW i \in Insts, Step(i) PROVE LeasesExact'
  BY <1>2, UnleasedLeases, CleanupLeases, AllocateLeases, FreeLeases, ExtendLeases
      DEF Step, Unleased
<1>3. CASE UNCHANGED idVars
  BY <1>3 DEF idVars, redis, local, LeasesExact, IdsTypeOK, LeaseKept, UniqueLease
<1> QED BY <1>1, <1>2, <1>3 DEF IdsNext

\* The steps that leave the election alone: everything about IDs.
LEMMA ElectionUntouched ==
    ASSUME ElectionExact, UNCHANGED <<now, init, creator, leaseEnd, role, lapsed>>,
           NEW i \in Insts, phase[i] # "down", NEW v, v \notin {"down", "starting"},
           IdsTypeOK, phase' = [phase EXCEPT ![i] = v]
    PROVE  ElectionExact'
BY DEF ElectionExact, IsCreator, IdsTypeOK

\* A new creator finds no other whose lease has not run out; starting and
\* heartbeats prolong a lease that is the instance's own, and stopping deletes it.
LEMMA InstanceElection ==
    ASSUME IdsTypeOK, ElectionExact, NEW i \in Insts, Unleased(i)
    PROVE  ElectionExact'
<1> USE TimeAssumption, NoInstAssumption
<1>0. UNCHANGED <<now, lapsed>> /\ now \in Nat /\ now < now + CreatorTTL
  BY DEF IdsTypeOK, Unleased, CreateAsCreator, AttachAsConsumer, AttachOnError, StartHeartbeat,
      Stop, Crash, EnsureReady, Refused, redis
<1>1. CASE CreateAsCreator(i)
  <2>1. \A j \in Insts : IsCreator(j) => lapsed
    BY <1>1 DEF CreateAsCreator, TakeLease, CreatorAlive, ElectionExact
  <2>2. \A j \in Insts \ {i} : IsCreator(j)' = IsCreator(j) /\ phase'[j] = phase[j] /\ role'[j] = role[j]
    BY <1>1 DEF CreateAsCreator, Become, IsCreator, IdsTypeOK
  <2>3. init' /\ creator' = i /\ leaseEnd' = now + CreatorTTL /\ role'[i] = "CREATOR"
    BY <1>1 DEF CreateAsCreator, TakeLease, Become, IdsTypeOK
  <2> QED BY <1>0, <2>1, <2>2, <2>3 DEF ElectionExact
<1>2. CASE AttachAsConsumer(i)
  BY <1>2 DEF AttachAsConsumer, Become, redis, ElectionExact, IsCreator, IdsTypeOK
<1>3. CASE AttachOnError(i)
  <2>1. \A j \in Insts : IsCreator(j) => lapsed \/ UNCHANGED <<init, creator, leaseEnd>>
    BY <1>3 DEF AttachOnError, TakeLease, CreatorAlive, ElectionExact
  <2>2. \A j \in Insts \ {i} : IsCreator(j)' = IsCreator(j) /\ phase'[j] = phase[j] /\ role'[j] = role[j]
    BY <1>3 DEF AttachOnError, Become, IsCreator, IdsTypeOK
  <2>3. ~IsCreator(i)' /\ phase'[i] # "starting"
    BY <1>3 DEF AttachOnError, Become, IsCreator, IdsTypeOK
  <2>4. init => init'
    BY <1>3 DEF AttachOnError, TakeLease
  <2> QED BY <1>0, <2>1, <2>2, <2>3, <2>4 DEF ElectionExact
<1>4. CASE StartHeartbeat(i)
  BY <1>0, <1>4 DEF StartHeartbeat, ElectionExact, IsCreator, IdsTypeOK
<1>5. CASE Stop(i)
  BY <1>5 DEF Stop, Gone, ElectionExact, IsCreator, IdsTypeOK
<1>6. CASE Crash(i)
  BY <1>6 DEF Crash, Gone, redis, ElectionExact, IsCreator, IdsTypeOK
<1>7. CASE EnsureReady(i)
  <2>1. leaseEnd' = leaseEnd \/ leaseEnd' = now + CreatorTTL
    BY <1>7 DEF EnsureReady, SendHeartbeat
  <2> QED BY <1>0, <1>7, <2>1 DEF EnsureReady, ElectionExact, IsCreator, IdsTypeOK
<1>8. CASE Refused(i)
  BY <1>8 DEF Refused, Done, redis, ElectionExact, IsCreator, IdsTypeOK
<1> QED BY <1>1, <1>2, <1>3, <1>4, <1>5, <1>6, <1>7, <1>8 DEF Unleased

\* A lease that runs out under its creator is what lapsed records.
LEMMA TickElection ==
    ASSUME IdsTypeOK, ElectionExact, Tick PROVE ElectionExact'
BY DEF IdsTypeOK, ElectionExact, IsCreator, Tick, redis, local

\* Every step keeps the invariant.
LEMMA IdsStepInv == IdsIInv /\ [IdsNext]_idVars => IdsIInv'
<1> SUFFICES ASSUME LeasesExact, ElectionExact, [IdsNext]_idVars PROVE ElectionExact'
  BY NextLeases DEF IdsIInv
<1> USE DEF LeasesExact
<1>1. CASE Tick
  BY <1>1, TickElection
<1>2. ASSUME NEW i \in Insts, Step(i) PROVE ElectionExact'
  <2>1. CASE Unleased(i)
    BY <2>1, InstanceElection
  <2>2. CASE MaybeCleanup(i)
    BY <2>2, ElectionUntouched DEF MaybeCleanup
  <2>3. CASE CleanupExpired(i)
    BY <2>3 DEF CleanupExpired, local, ElectionExact, IsCreator
  <2>4. ASSUME NEW s \in Ids, NEW e \in Ids, NEW ttl \in TTLs, NEW lost \in BOOLEAN,
               AllocateRange(i, e - s + 1, ttl, lost) \/ ReserveRange(i, s, e, ttl, lost)
        PROVE  ElectionExact'
    BY <2>4, ElectionUntouched DEF AllocateRange, ReserveRange, Done
  <2>5. ASSUME NEW s \in Ids, NEW e \in Ids, FreeRange(i, s, e) PROVE ElectionExact'
    BY <2>5, ElectionUntouched DEF FreeRange, Done
  <2>6. ASSUME NEW id \in Ids, NEW more \in TTLs, ExtendTTL(i, id, more) PROVE ElectionExact'
    BY <2>6, ElectionUntouched DEF ExtendTTL, Done
  <2>7. CASE ClearBitmap(i) \/ ClearMeta(i)
    BY <2>7, ElectionUntouched DEF ClearBitmap, ClearMeta, Done
  <2> QED BY <1>2, <2>1, <2>2, <2>3, <2>4, <2>5, <2>6, <2>7 DEF Step, Unleased
<1>3. CASE UNCHANGED idVars
  BY <1>3 DEF idVars, redis, local, ElectionExact, IsCreator
<1> QED BY <1>1, <1>2, <1>3 DEF IdsNext

\* In every reachable state each leased ID has its bit and one holder, and each
\* creator whose lease has not run out owns the creator key.
THEOREM IdsInvariant == IdsSpec => []IdsIInv
<1>1. IdsInit => IdsIInv
  BY InitLeases DEF IdsIInv, IdsInit, ElectionExact, IsCreator
<1>2. IdsIInv /\ [IdsNext]_idVars => IdsIInv'
  BY IdsStepInv
<1> QED BY <1>1, <1>2, PTL DEF IdsSpec

\* "Ensures unique ID generation across multiple application instances"
\* (docs/README_redis_id_allocator.md): the Lua scripts of
\* redis_id_allocator.h never lease one ID to two holders, whatever becomes
\* of the creator role.
THEOREM UniqueLeaseHolds == IdsSpec => []UniqueLease
<1>1. IdsIInv => UniqueLease
  BY DEF IdsIInv, LeasesExact
<1> QED BY <1>1, IdsInvariant, PTL

\* The init script and the heartbeats of redis_id_allocator.h elect one creator:
\* there are two only after a creator has let its lease run out.
THEOREM OneCreator == IdsSpec => []OneCreatorUnlessLapsed
<1>1. IdsIInv => OneCreatorUnlessLapsed
  BY DEF IdsIInv, ElectionExact, OneCreatorUnlessLapsed
<1> QED BY <1>1, IdsInvariant, PTL
================================================================================
