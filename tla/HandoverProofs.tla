---------------------------- MODULE HandoverProofs ----------------------------
(***************************************************************************)
(* Proofs about the structures that hand values from thread to thread, for *)
(* any number of threads and of values.  RetainLatest: a value is consumed *)
(* once and whole (IInv), and versions follow time.  AsyncValue: every     *)
(* callback is run exactly once.  SpscRing, for a ring of any capacity:    *)
(* its inductive invariant (RingIInv), the absence of races on a slot, and *)
(* that the ring implements a bounded first-in first-out buffer.           *)
(***************************************************************************)
EXTENDS RetainLatest, AsyncValue, SpscRing, SequenceTheorems, TLAPS

(***************************************************************************)
(* RetainLatest.                                                           *)
(***************************************************************************)

Moves(t) == \/ \E copies \in BOOLEAN : StartUpdate(t, copies)
            \/ Store(t) \/ SeeCallback(t) \/ SeeNoCallback(t) \/ Call(t)
            \/ \E v \in Versions : CompareAndUpdate(t, v)
            \/ CallUnderLock(t)
            \/ Take(t) \/ MoveOut(t) \/ Point(t) \/ Copy(t)

\* The objects made so far are named by versions, and none is the null pointer.
LEMMA MadeVersions ==
    ASSUME TypeOK
    PROVE  /\ Made \subseteq Versions /\ Nothing \notin Made /\ next \notin Made
           /\ next < MaxVersion => next \in Versions /\ next # Nothing
BY BoundAssumption, NoneAssumption DEF TypeOK, Made, Versions

\* The initial states satisfy the invariant.
LEMMA InitIInv == Init => IInv
<1> SUFFICES ASSUME Init PROVE IInv
  OBVIOUS
<1>1. Made = {} /\ next \in 0 .. MaxVersion
  BY BoundAssumption DEF Init, Made
<1>2. Holding = {}
  BY DEF Init, Holding
<1>3. callback \in BOOLEAN /\ whole \in [Versions -> BOOLEAN] /\ lent \in [Threads -> BOOLEAN]
  BY Zenon DEF Init
<1>4. TypeOK
  BY <1>1, <1>3 DEF Init, TypeOK, Places
<1>5. LockHeld
  BY NoneAssumption DEF Init, LockHeld
<1>6. \A v \in Versions : whole[v] = TRUE
  BY DEF Init
<1>7. ValuesWhole /\ HeldAlone
  BY <1>2, <1>6 DEF Init, ValuesWhole, HeldAlone
<1> QED BY <1>4, <1>5, <1>7 DEF IInv

\* Drawing a version keeps the invariant: the new object is nobody else's.
LEMMA DrawInv == ASSUME IInv, NEW t \in Threads, NEW copies \in BOOLEAN,
                        StartUpdate(t, copies)
                 PROVE  IInv'
<1> USE BoundAssumption, NoneAssumption DEF IInv
<1>1. /\ next \in Versions /\ next' = next + 1 /\ Made' = Made \cup {next}
      /\ next \notin Made /\ next # Nothing
  BY DEF StartUpdate, TypeOK, Made, Versions
<1>2. TypeOK'
  <2>1. lent' \in [Threads -> BOOLEAN]
    BY DEF StartUpdate, TypeOK
  <2>2. at' \in [Threads -> Places] /\ box' \in [Threads -> Made' \cup {Nothing}]
    BY <1>1 DEF StartUpdate, TypeOK, Places
  <2>3. before' \in [Threads -> Made' \cup {Nothing}]
    BY <1>1 DEF StartUpdate, TypeOK
  <2>4. \A u \in Threads : at'[u] # "idle" => box'[u] \in Made'
    BY <1>1 DEF StartUpdate, TypeOK
  <2> QED BY <1>1, <2>1, <2>2, <2>3, <2>4 DEF StartUpdate, TypeOK, Versions
<1>3. Holding' = Holding \cup {t} /\ box'[t] = next /\ \A u \in Holding : box'[u] = box[u]
  BY DEF StartUpdate, TypeOK, Holding
<1>4. \A u \in Holding : box[u] \in Made
  BY DEF TypeOK, Holding
<1>5. LockHeld'
  BY DEF StartUpdate, TypeOK, LockHeld
<1>6. ValuesWhole' /\ HeldAlone'
  <2>1. cell' = cell /\ whole' = whole /\ cell # next
    BY <1>1 DEF StartUpdate, TypeOK
  <2> QED BY <1>1, <1>3, <1>4, <2>1 DEF ValuesWhole, HeldAlone
<1> QED BY <1>2, <1>5, <1>6

\* Storing an object hands it from the thread to the cell.
LEMMA StoreInv == ASSUME IInv, NEW t \in Threads, Store(t) PROVE IInv'
<1> USE BoundAssumption, NoneAssumption DEF IInv
<1>1. box[t] \in Made /\ Made' = Made /\ cell' = box[t] /\ box' = box
  BY DEF Store, TypeOK, Go, Made
<1>2. TypeOK'
  BY <1>1 DEF Store, TypeOK, Go, Raise, Places
<1>3. t \in Holding /\ Holding' = Holding \ {t}
  BY DEF Store, Go, TypeOK, Holding
<1>4. LockHeld'
  BY DEF Store, Go, TypeOK, LockHeld, Unlocked
<1>5. ValuesWhole' /\ HeldAlone'
  BY <1>1, <1>3 DEF Store, ValuesWhole, HeldAlone
<1> QED BY <1>2, <1>4, <1>5

\* compare_and_update stores a new object, and keeps the mutex for the callback.
LEMMA CompareInv == ASSUME IInv, NEW t \in Threads, NEW v \in Versions,
                           CompareAndUpdate(t, v)
                    PROVE  IInv'
<1> USE BoundAssumption, NoneAssumption DEF IInv
<1>1. /\ next \in Versions /\ next' = next + 1 /\ Made' = Made \cup {next}
      /\ next \notin Made /\ next # Nothing /\ cell' = next /\ whole' = whole
  <2>1. next \in Versions /\ next \notin Made /\ next # Nothing
    BY MadeVersions DEF CompareAndUpdate
  <2>2. next' = next + 1 /\ cell' = next /\ whole' = whole
    BY DEF CompareAndUpdate
  <2>3. Made' = Made \cup {next}
    BY <2>2 DEF Made, TypeOK
  <2> QED BY <2>1, <2>2, <2>3
<1>2. \/ callback /\ holder' = t /\ Go(t, "call under lock", next)
      \/ holder' = holder /\ local' = local
  BY DEF CompareAndUpdate
<1>3. TypeOK'
  <2>1. newest' \in Made' \cup {Nothing}
    BY <1>1 DEF CompareAndUpdate, TypeOK, Raise
  <2>2. at' \in [Threads -> Places] /\ box' \in [Threads -> Made' \cup {Nothing}]
    BY <1>1, <1>2 DEF Go, TypeOK, Places, local
  <2>3. \A u \in Threads : at'[u] # "idle" => box'[u] \in Made'
    BY <1>1, <1>2 DEF Go, TypeOK, local
  <2>4. holder' \in Threads \cup {NoThread} /\ lent' \in [Threads -> BOOLEAN]
    BY <1>2 DEF Go, TypeOK, local
  <2>5. next' \in 0 .. MaxVersion /\ cell' \in Made'
    BY <1>1 DEF Versions
  <2>6. UNCHANGED <<kind, callback, whole, before>>
    BY DEF CompareAndUpdate
  <2>7. before' \in [Threads -> Made' \cup {Nothing}]
    BY <1>1, <2>6 DEF TypeOK
  <2> QED BY <2>1, <2>2, <2>3, <2>4, <2>5, <2>6, <2>7 DEF TypeOK
<1>4. Holding' = Holding /\ \A u \in Holding : box'[u] = box[u] /\ box[u] \in Made
  BY <1>2 DEF CompareAndUpdate, Go, TypeOK, Holding, local
<1>5. LockHeld'
  <2>1. holder = NoThread /\ \A u \in Threads : at[u] # "call under lock"
    BY DEF CompareAndUpdate, Unlocked, LockHeld
  <2>2. CASE holder' = t /\ Go(t, "call under lock", next)
    BY <1>1, <2>1, <2>2 DEF Go, TypeOK, LockHeld
  <2>3. CASE holder' = holder /\ local' = local
    BY <2>1, <2>3 DEF LockHeld, local
  <2> QED BY <1>2, <2>2, <2>3
<1>6. ValuesWhole' /\ HeldAlone'
  BY <1>1, <1>4 DEF ValuesWhole, HeldAlone
<1> QED BY <1>3, <1>5, <1>6

\* A consumer takes the object out of the cell, and is alone with it.
LEMMA TakeInv == ASSUME IInv, NEW t \in Threads, Take(t) PROVE IInv'
<1> USE BoundAssumption, NoneAssumption DEF IInv
<1>1. cell \in Made /\ Made' = Made /\ cell' = Nothing /\ box' = [box EXCEPT ![t] = cell]
  BY DEF Take, TypeOK, Go, Made
<1>2. TypeOK'
  BY <1>1 DEF Take, TypeOK, Go, Places
<1>3. /\ t \notin Holding /\ Holding' = Holding \cup {t} /\ box'[t] = cell
      /\ \A u \in Holding : box'[u] = box[u] /\ box[u] \in Made
  BY DEF Take, Go, TypeOK, Holding
<1>4. LockHeld'
  BY DEF Take, Go, TypeOK, LockHeld, Unlocked
<1>5. cell # Nothing /\ whole' = whole /\ \A u \in Made : u # Nothing
  BY MadeVersions DEF Take
<1>6. ValuesWhole' /\ HeldAlone'
  BY <1>1, <1>3, <1>5 DEF ValuesWhole, HeldAlone
<1> QED BY <1>2, <1>4, <1>6

\* The consumer's move empties its object, which nobody else holds.
LEMMA MoveOutInv == ASSUME IInv, NEW t \in Threads, MoveOut(t) PROVE IInv'
<1> USE BoundAssumption, NoneAssumption DEF IInv
<1>1. TypeOK'
  BY DEF MoveOut, TypeOK, Return, Places, Made
<1>2. /\ t \in Holding /\ Holding' = Holding \ {t} /\ box[t] \in Made /\ Made' = Made
      /\ cell' = cell /\ \A u \in Holding' : box'[u] = box[u]
  BY DEF MoveOut, Return, TypeOK, Holding, Made
<1>3. \A v \in Versions : v # box[t] => whole'[v] = whole[v]
  BY DEF MoveOut, TypeOK
<1>4. LockHeld'
  BY DEF MoveOut, Return, TypeOK, LockHeld
<1>5. Made \subseteq Versions
  BY DEF TypeOK, Made, Versions
<1>6. HeldAlone'
  BY <1>2 DEF HeldAlone
<1>7. ValuesWhole'
  <2>1. cell # Nothing => cell # box[t] /\ cell \in Versions
    BY <1>2, <1>5 DEF HeldAlone, TypeOK
  <2>2. \A u \in Holding' : box[u] # box[t] /\ box[u] \in Versions
    BY <1>2, <1>5 DEF HeldAlone, TypeOK, Holding
  <2> QED BY <1>2, <1>3, <2>1, <2>2 DEF ValuesWhole
<1> QED BY <1>1, <1>4, <1>6, <1>7

\* The end of a callback under the mutex releases it.
LEMMA ReleaseInv == ASSUME IInv, NEW t \in Threads, CallUnderLock(t) PROVE IInv'
<1> USE BoundAssumption, NoneAssumption DEF IInv
<1>1. TypeOK'
  BY DEF CallUnderLock, TypeOK, Return, Places, Made
<1>2. Holding' = Holding /\ Made' = Made /\ \A u \in Holding : box'[u] = box[u]
  BY DEF CallUnderLock, Return, TypeOK, Holding, Made
<1>3. LockHeld'
  BY DEF CallUnderLock, Return, TypeOK, LockHeld
<1>4. ValuesWhole' /\ HeldAlone'
  <2>1. cell' = cell /\ whole' = whole
    BY DEF CallUnderLock
  <2> QED BY <1>2, <2>1 DEF ValuesWhole, HeldAlone
<1> QED BY <1>1, <1>3, <1>4

\* What moves a thread among the places where it holds nothing.
Passes(t) == SeeCallback(t) \/ SeeNoCallback(t) \/ Call(t) \/ Point(t) \/ Copy(t)

\* Such a step changes neither the cell nor who holds what.
LEMMA PassInv == ASSUME IInv, NEW t \in Threads, Passes(t) PROVE IInv'
<1> USE BoundAssumption, NoneAssumption DEF IInv, Passes
<1>1. UNCHANGED <<object, newest>> /\ Made' = Made
  BY DEF SeeCallback, SeeNoCallback, Call, Point, Copy, object, Made
<1>2. TypeOK'
  BY <1>1 DEF SeeCallback, SeeNoCallback, Call, Point, Copy, Go, Return, object, TypeOK, Places
<1>3. Holding' = Holding /\ \A u \in Holding : box'[u] = box[u]
  BY DEF SeeCallback, SeeNoCallback, Call, Point, Copy, Go, Return, TypeOK, Holding
<1>4. LockHeld'
  BY <1>1 DEF SeeCallback, SeeNoCallback, Call, Point, Copy, Go, Return, object, TypeOK,
              LockHeld, Unlocked
<1>5. ValuesWhole' /\ HeldAlone'
  BY <1>1, <1>3 DEF object, ValuesWhole, HeldAlone
<1> QED BY <1>2, <1>4, <1>5

\* Clearing the cell, setting the callback and stuttering keep the invariant.
LEMMA RestInv ==
    ASSUME IInv, Clear \/ (\E set \in BOOLEAN : OnUpdate(set)) \/ UNCHANGED vars
    PROVE  IInv'
<1> USE BoundAssumption, NoneAssumption DEF IInv
<1>1. CASE Clear
  <2>1. TypeOK'
    BY <1>1 DEF Clear, local, TypeOK, Made
  <2>2. Holding' = Holding /\ Made' = Made /\ box' = box /\ whole' = whole /\ cell' = Nothing
    BY <1>1 DEF Clear, local, Holding, Made
  <2>3. \A t \in Holding : box[t] # Nothing
    BY MadeVersions DEF Holding, TypeOK
  <2>4. LockHeld'
    BY <1>1 DEF Clear, local, Unlocked, LockHeld
  <2>5. ValuesWhole' /\ HeldAlone'
    BY <2>2, <2>3 DEF ValuesWhole, HeldAlone
  <2> QED BY <2>1, <2>4, <2>5
<1>2. ASSUME NEW set \in BOOLEAN, OnUpdate(set) PROVE IInv'
  BY <1>2 DEF OnUpdate, local, TypeOK, LockHeld, ValuesWhole, HeldAlone, Holding, Made
<1>3. CASE UNCHANGED vars
  BY <1>3 DEF vars, object, local, TypeOK, LockHeld, ValuesWhole, HeldAlone, Holding, Made
<1> QED BY <1>1, <1>2, <1>3

\* Every step keeps the invariant.
LEMMA StepInv == ASSUME IInv, [Next]_vars PROVE IInv'
BY DrawInv, StoreInv, CompareInv, TakeInv, MoveOutInv, ReleaseInv, PassInv, RestInv
   DEF Next, Passes

\* consume hands every value to one caller, whole, whatever other threads
\* update, peek at, compare or clear; and a callback under the mutex is given the
\* value in the cell.
THEOREM InductiveInvariant == Spec => []IInv
BY InitIInv, StepInv, PTL DEF Spec

\* An update under way keeps its version and what it remembers; a new one has
\* the highest version drawn so far.
LEMMA StepVersions ==
    ASSUME IInv, VersionsFollowTime, [Next]_vars PROVE VersionsFollowTime'
<1> USE BoundAssumption, NoneAssumption DEF VersionsFollowTime
<1>1. ASSUME NEW t \in Threads, NEW copies \in BOOLEAN, StartUpdate(t, copies)
      PROVE  VersionsFollowTime'
  <2>1. newest # Nothing => next > newest
    BY DEF IInv, TypeOK, Made
  <2>2. at'[t] = "store" /\ box'[t] = next /\ before'[t] = newest
    BY <1>1 DEF StartUpdate, IInv, TypeOK
  <2>3. \A u \in Threads \ {t} : at'[u] = at[u] /\ box'[u] = box[u] /\ before'[u] = before[u]
    BY <1>1 DEF StartUpdate, IInv, TypeOK
  <2> QED BY <2>1, <2>2, <2>3
<1>2. ASSUME NEW u \in Threads, at'[u] = "store" =>
             at[u] = "store" /\ box'[u] = box[u] /\ before'[u] = before[u]
      PROVE  (at[u] = "store" /\ before[u] # Nothing => box[u] > before[u]) =>
             (at'[u] = "store" /\ before'[u] # Nothing => box'[u] > before'[u])
  BY <1>2
<1>3. ASSUME NEW t \in Threads,
             \/ Store(t) \/ Passes(t) \/ CallUnderLock(t) \/ Take(t) \/ MoveOut(t)
             \/ \E v \in Versions : CompareAndUpdate(t, v)
      PROVE  VersionsFollowTime'
  <2>1. \A u \in Threads : at'[u] = "store" =>
             at[u] = "store" /\ box'[u] = box[u] /\ before'[u] = before[u]
    BY <1>3 DEF Store, Passes, SeeCallback, SeeNoCallback, Call, Point, Copy, CallUnderLock,
                Take, MoveOut, CompareAndUpdate, Go, Return, local, IInv, TypeOK
  <2> QED BY <1>2, <2>1
<1>4. CASE Clear \/ (\E set \in BOOLEAN : OnUpdate(set)) \/ UNCHANGED vars
  BY <1>4 DEF Clear, OnUpdate, vars, local
<1> QED BY <1>1, <1>3, <1>4 DEF Next, Passes

\* An update that begins when another has been stored has the higher version:
\* only updates that overlap may leave the older value in the cell.
THEOREM VersionsInTime == Spec => []VersionsFollowTime
<1>1. Init => VersionsFollowTime
  BY DEF Init, VersionsFollowTime
<1> QED BY <1>1, StepVersions, InductiveInvariant, PTL DEF Spec
-----------------------------------------------------------------------------
(***************************************************************************)
(* AsyncValue.                                                             *)
(***************************************************************************)

\* A callback at the end of a list it was not in.
LEMMA Appended ==
    ASSUME NEW S, NEW s \in Seq(S), NEW c \in S
    PROVE  /\ Append(s, c) \in Seq(S) /\ Range(Append(s, c)) = Range(s) \cup {c}
           /\ IsInjective(s) /\ c \notin Range(s) => IsInjective(Append(s, c))
<1>1. /\ Append(s, c) \in Seq(S)
      /\ DOMAIN s = 1 .. Len(s) /\ Len(s) \in Nat
      /\ DOMAIN Append(s, c) = 1 .. Len(s) + 1
      /\ \A n \in 1 .. Len(s) : Append(s, c)[n] = s[n]
      /\ Append(s, c)[Len(s) + 1] = c
  BY AppendProperties, LenProperties
<1>2. Range(Append(s, c)) = Range(s) \cup {c}
  BY <1>1 DEF Range
<1>3. ASSUME IsInjective(s), c \notin Range(s) PROVE IsInjective(Append(s, c))
  BY <1>1, <1>3 DEF IsInjective, Range
<1> QED BY <1>1, <1>2, <1>3

\* What is left of a list without its head.
LEMMA HeadTaken ==
    ASSUME NEW S, NEW s \in Seq(S), s # <<>>, IsInjective(s)
    PROVE  /\ Head(s) \in S /\ Head(s) \in Range(s) /\ Tail(s) \in Seq(S)
           /\ Range(Tail(s)) = Range(s) \ {Head(s)} /\ IsInjective(Tail(s))
<1>1. /\ Head(s) \in S /\ Tail(s) \in Seq(S) /\ Head(s) = s[1]
      /\ DOMAIN s = 1 .. Len(s) /\ Len(s) \in Nat \ {0}
      /\ DOMAIN Tail(s) = 1 .. Len(s) - 1
      /\ \A n \in 1 .. Len(s) - 1 : Tail(s)[n] = s[n + 1]
  BY HeadTailProperties, LenProperties, EmptySeq
<1>2. \A n \in 2 .. Len(s) : n - 1 \in DOMAIN Tail(s) /\ Tail(s)[n - 1] = s[n]
  BY <1>1
<1>3. IsInjective(Tail(s))
  BY <1>1 DEF IsInjective
<1>4. Head(s) \in Range(s) /\ Head(s) \notin Range(Tail(s)) /\ Range(Tail(s)) \subseteq Range(s)
  BY <1>1 DEF IsInjective, Range
<1>5. ASSUME NEW n \in DOMAIN s, s[n] # Head(s) PROVE s[n] \in Range(Tail(s))
  <2>1. n \in 2 .. Len(s)
    BY <1>1, <1>5
  <2>2. n - 1 \in DOMAIN Tail(s) /\ Tail(s)[n - 1] = s[n]
    BY <1>2, <2>1
  <2> QED BY <2>2 DEF Range
<1>6. Range(s) \subseteq Range(Tail(s)) \cup {Head(s)}
  BY <1>5 DEF Range
<1> QED BY <1>1, <1>3, <1>4, <1>6

LEMMA AsyncInitInv == AsyncInit => AsyncIInv
<1> SUFFICES ASSUME AsyncInit PROVE AsyncIInv
  OBVIOUS
<1>1. <<>> \in Seq(Callbacks) /\ Range(<<>>) = {} /\ IsInjective(<<>>)
  BY EmptySeq DEF Range, IsInjective
<1>2. Notifying = {} /\ \A s \in Setters : todo[s] = <<>>
  BY DEF AsyncInit, Notifying
<1>3. AsyncTypeOK
  <2>1. /\ todo \in [Setters -> Seq(Callbacks)] /\ callbacks \in Seq(Callbacks)
        /\ pc \in [Setters -> {"idle", "notify"}] /\ runs \in [Callbacks -> 0 .. 2]
    BY <1>1 DEF AsyncInit
  <2>2. type \in {"value", "void"} /\ ready \in BOOLEAN /\ engaged \in BOOLEAN
    BY DEF AsyncInit
  <2>3. /\ immediate \subseteq Callbacks /\ registered \subseteq Callbacks
        /\ dropped \subseteq Callbacks /\ late \subseteq Notifying
    BY DEF AsyncInit
  <2> QED BY ONLY <2>1, <2>2, <2>3 DEF AsyncTypeOK
<1>4. RunAtMostOnce
  BY <1>1 DEF AsyncInit, RunAtMostOnce
<1>5. WaitsOnce
  BY <1>1, <1>2 DEF AsyncInit, WaitsOnce
<1>6. LateKnown /\ Tracked
  BY <1>1, <1>2 DEF AsyncInit, LateKnown, Tracked
<1> QED BY <1>3, <1>4, <1>5, <1>6 DEF AsyncIInv

\* set_value hands its setter a copy of a list in which nothing has run.
LEMMA SetInv == ASSUME AsyncIInv, NEW s \in Setters, Set(s) PROVE AsyncIInv'
<1>1. AsyncTypeOK /\ RunAtMostOnce /\ WaitsOnce /\ LateKnown /\ Tracked
  BY DEF AsyncIInv
<1>2. /\ pc[s] = "idle" /\ ~ready /\ ready' = TRUE /\ engaged' = (type = "value")
      /\ pc' = [pc EXCEPT ![s] = "notify"] /\ todo' = [todo EXCEPT ![s] = callbacks]
      /\ UNCHANGED <<type, callbacks, immediate, runs, registered, dropped, late>>
  BY DEF Set
<1>3. /\ Notifying' = Notifying \cup {s} /\ s \notin late /\ late \subseteq Notifying
      /\ todo'[s] = callbacks /\ \A u \in Setters \ {s} : todo'[u] = todo[u]
  BY <1>1, <1>2 DEF AsyncTypeOK, Notifying
<1>4. AsyncTypeOK'
  BY <1>1, <1>2, <1>3 DEF AsyncTypeOK
<1>5. RunAtMostOnce'
  BY <1>1, <1>2 DEF RunAtMostOnce
<1>6. WaitsOnce'
  <2>1. \A u \in Setters : IsInjective(todo'[u])
    BY <1>1, <1>3 DEF WaitsOnce, RunAtMostOnce
  <2>2. ASSUME NEW u \in Setters, NEW c \in Range(todo'[u])
        PROVE  /\ c \in registered \ immediate /\ runs[c] = 0
               /\ \A v \in Setters \ {u} : c \notin Range(todo'[v])
    BY <1>1, <1>2, <1>3, <2>2 DEF WaitsOnce
  <2> QED BY <1>1, <1>2, <2>1, <2>2 DEF WaitsOnce
<1>7. LateKnown'
  BY <1>1, <1>2, <1>3 DEF LateKnown
<1>8. Tracked'
  <2> SUFFICES ASSUME NEW c \in registered
               PROVE  \/ runs[c] = 1 \/ c \in immediate \cup dropped
                      \/ \E u \in Notifying' \ late : c \in Range(todo'[u])
    BY <1>2 DEF Tracked
  <2>1. CASE \E u \in Notifying \ late : c \in Range(todo[u])
    BY <1>2, <1>3, <2>1 DEF Notifying
  <2>2. CASE c \in Range(callbacks)
    BY <1>3, <2>2
  <2> QED BY <1>1, <2>1, <2>2 DEF Tracked
<1> QED BY <1>4, <1>5, <1>6, <1>7, <1>8 DEF AsyncIInv

\* One turn of the loop runs the head of the copy, or skips it if a reset has
\* taken the value, and then the callback counts as dropped.
LEMMA NotifyInv == ASSUME AsyncIInv, NEW s \in Setters, Notify(s) PROVE AsyncIInv'
<1> DEFINE c == Head(todo[s])
<1>1. AsyncTypeOK /\ RunAtMostOnce /\ WaitsOnce /\ LateKnown /\ Tracked
  BY DEF AsyncIInv
<1>2. /\ pc[s] = "notify" /\ todo[s] # <<>> /\ todo' = [todo EXCEPT ![s] = Tail(todo[s])]
      /\ \/ (type = "void" \/ engaged) /\ runs' = [runs EXCEPT ![c] = IF @ < 2 THEN @ + 1 ELSE @]
         \/ type = "value" /\ ~engaged /\ UNCHANGED runs
      /\ UNCHANGED <<type, ready, engaged, callbacks, pc, immediate, registered, dropped, late>>
  BY DEF Notify, cellVars, Ran
<1>3. /\ c \in Callbacks /\ c \in Range(todo[s]) /\ Tail(todo[s]) \in Seq(Callbacks)
      /\ Range(Tail(todo[s])) = Range(todo[s]) \ {c} /\ IsInjective(Tail(todo[s]))
  BY <1>1, <1>2, HeadTaken DEF AsyncTypeOK, WaitsOnce
<1> HIDE DEF c
<1>4. /\ runs[c] = 0 /\ c \in registered \ immediate /\ (~ready => c \notin Range(callbacks))
      /\ \A u \in Setters \ {s} : c \notin Range(todo[u])
  BY <1>1, <1>3 DEF WaitsOnce
<1>5. \/ runs' = [runs EXCEPT ![c] = 1] /\ runs'[c] = 1
      \/ type = "value" /\ ~engaged /\ runs' = runs
  BY <1>1, <1>2, <1>3, <1>4 DEF AsyncTypeOK
<1>6. /\ todo'[s] = Tail(todo[s]) /\ \A u \in Setters \ {s} : todo'[u] = todo[u]
  BY <1>1, <1>2 DEF AsyncTypeOK
<1>7. Notifying' = Notifying /\ s \in Notifying
  BY <1>2 DEF Notifying
<1>8. runs' \in [Callbacks -> 0 .. 2] /\ \A d \in Callbacks \ {c} : runs'[d] = runs[d]
  <2>1. runs \in [Callbacks -> 0 .. 2]
    BY <1>1 DEF AsyncTypeOK
  <2>2. runs' = runs \/ runs' = [runs EXCEPT ![c] = 1]
    BY <1>5
  <2> QED BY <2>1, <2>2
<1>9. AsyncTypeOK'
  BY <1>1, <1>2, <1>3, <1>7, <1>8 DEF AsyncTypeOK
<1>10. RunAtMostOnce'
  <2>1. \A d \in Callbacks : runs'[d] <= 1
    BY <1>1, <1>3, <1>4, <1>5, <1>8 DEF RunAtMostOnce
  <2>2. \A d \in immediate : runs'[d] = 0
    BY <1>1, <1>4, <1>8 DEF RunAtMostOnce, AsyncTypeOK
  <2> QED BY <1>1, <1>2, <2>1, <2>2 DEF RunAtMostOnce
<1>11. WaitsOnce'
  <2>1. \A u \in Setters : IsInjective(todo'[u]) /\ Range(todo'[u]) \subseteq Range(todo[u]) \ {c}
    BY <1>1, <1>3, <1>4, <1>6 DEF WaitsOnce
  <2>2. \A u \in Setters : \A d \in Range(todo[u]) : d \in Callbacks
    BY <1>1 DEF WaitsOnce, AsyncTypeOK
  <2>3. ASSUME NEW u \in Setters, NEW d \in Range(todo'[u])
        PROVE  /\ d \in registered \ immediate /\ runs'[d] = 0
               /\ \A v \in Setters \ {u} : d \notin Range(todo'[v])
               /\ ~ready => d \notin Range(callbacks)
    BY <1>1, <1>8, <2>1, <2>2 DEF WaitsOnce
  <2>4. \A d \in Range(callbacks) : d \in registered \ immediate /\ (~ready => runs'[d] = 0)
    BY <1>1, <1>4, <1>8 DEF WaitsOnce, AsyncTypeOK
  <2>5. \A d \in Callbacks \ registered : runs'[d] = 0
    BY <1>1, <1>4, <1>8 DEF WaitsOnce
  <2> QED BY <1>1, <1>2, <2>1, <2>3, <2>4, <2>5 DEF WaitsOnce
<1>12. LateKnown'
  BY <1>1, <1>2, <1>7 DEF LateKnown
<1>13. Tracked'
  <2> SUFFICES ASSUME NEW d \in registered
               PROVE  \/ runs'[d] = 1 \/ d \in immediate \cup dropped
                      \/ ~ready /\ d \in Range(callbacks)
                      \/ \E u \in Notifying \ late : d \in Range(todo'[u])
    BY <1>2, <1>7 DEF Tracked
  <2>1. CASE d = c
    <3>1. CASE runs'[c] = 1
      BY <2>1, <3>1
    <3>2. CASE type = "value" /\ ~engaged /\ runs' = runs
      <4>1. s \in late /\ \A u \in Notifying \ late : d \notin Range(todo[u])
        BY <1>1, <1>4, <1>7, <2>1, <3>2 DEF LateKnown, Notifying
      <4> QED BY <1>1, <1>4, <2>1, <4>1 DEF Tracked
    <3> QED BY <1>5, <3>1, <3>2
  <2>2. CASE d # c
    <3>1. runs'[d] = runs[d]
      BY <1>1, <1>8, <2>2 DEF AsyncTypeOK
    <3>2. \A u \in Setters : d \in Range(todo[u]) => d \in Range(todo'[u])
      BY <1>3, <1>6, <2>2
    <3> QED BY <1>1, <3>1, <3>2 DEF Tracked, Notifying
  <2> QED BY <2>1, <2>2
<1> QED BY <1>9, <1>10, <1>11, <1>12, <1>13 DEF AsyncIInv

\* The end of a notification clears the list: of callbacks its loop was given,
\* or, when a reset has crossed it, of dropped ones.
LEMMA EndSetInv == ASSUME AsyncIInv, NEW s \in Setters, EndSet(s) PROVE AsyncIInv'
<1>1. AsyncTypeOK /\ RunAtMostOnce /\ WaitsOnce /\ LateKnown /\ Tracked
  BY DEF AsyncIInv
<1>2. /\ pc[s] = "notify" /\ todo[s] = <<>> /\ pc' = [pc EXCEPT ![s] = "idle"]
      /\ callbacks' = <<>> /\ late' = late \ {s}
      /\ UNCHANGED <<type, ready, engaged, todo, immediate, runs, registered, dropped>>
  BY DEF EndSet
<1>3. callbacks' \in Seq(Callbacks) /\ Range(callbacks') = {} /\ IsInjective(callbacks')
  BY <1>2, EmptySeq DEF Range, IsInjective
<1>4. Notifying' = Notifying \ {s} /\ s \in Notifying
  BY <1>1, <1>2 DEF AsyncTypeOK, Notifying
<1>5. AsyncTypeOK'
  BY <1>1, <1>2, <1>3, <1>4 DEF AsyncTypeOK
<1>6. RunAtMostOnce'
  BY <1>1, <1>2, <1>3 DEF RunAtMostOnce
<1>7. WaitsOnce'
  BY <1>1, <1>2, <1>3 DEF WaitsOnce
<1>8. LateKnown'
  BY <1>1, <1>2, <1>3, <1>4 DEF LateKnown
<1>9. Tracked'
  <2> SUFFICES ASSUME NEW c \in registered
               PROVE  \/ runs[c] = 1 \/ c \in immediate \cup dropped
                      \/ \E u \in Notifying' \ late' : c \in Range(todo[u])
    BY <1>2 DEF Tracked
  <2>1. CASE \E u \in Notifying \ late : c \in Range(todo[u])
    <3>1. Range(todo[s]) = {}
      BY <1>2 DEF Range
    <3> QED BY <1>2, <1>4, <2>1, <3>1
  <2>2. CASE ~ready /\ c \in Range(callbacks)
    BY <1>1, <1>4, <2>2 DEF LateKnown
  <2> QED BY <1>1, <2>1, <2>2 DEF Tracked
<1> QED BY <1>5, <1>6, <1>7, <1>8, <1>9 DEF AsyncIInv

\* on_ready puts a new callback into the list, or finds the value ready.
LEMMA RegisterInv ==
    ASSUME AsyncIInv, NEW c \in Callbacks, Queue(c) \/ FindReady(c)
    PROVE  AsyncIInv'
<1>1. AsyncTypeOK /\ RunAtMostOnce /\ WaitsOnce /\ LateKnown /\ Tracked
  BY DEF AsyncIInv
<1>2. /\ c \notin registered /\ registered' = registered \cup {c}
      /\ UNCHANGED <<type, ready, engaged, pc, todo, runs, late>>
  BY DEF Queue, FindReady, Register, cellVars
<1>3. /\ c \notin immediate /\ c \notin Range(callbacks) /\ runs[c] = 0
      /\ \A s \in Setters : c \notin Range(todo[s])
  BY <1>1, <1>2 DEF WaitsOnce
<1>4. Notifying' = Notifying
  BY <1>2 DEF Notifying
<1>5. CASE Queue(c)
  <2>1. /\ ~ready /\ callbacks' = Append(callbacks, c) /\ UNCHANGED immediate
        /\ dropped' = IF late = {} THEN dropped ELSE dropped \cup {c}
    BY <1>5 DEF Queue
  <2>2. /\ callbacks' \in Seq(Callbacks) /\ IsInjective(callbacks')
        /\ Range(callbacks') = Range(callbacks) \cup {c}
    BY <1>1, <1>3, <2>1, Appended DEF AsyncTypeOK, RunAtMostOnce
  <2>3. AsyncTypeOK'
    BY <1>1, <1>2, <1>4, <2>1, <2>2 DEF AsyncTypeOK
  <2>4. RunAtMostOnce'
    BY <1>1, <1>2, <2>1, <2>2 DEF RunAtMostOnce
  <2>5. WaitsOnce'
    BY <1>1, <1>2, <1>3, <2>1, <2>2 DEF WaitsOnce
  <2>6. LateKnown'
    BY <1>1, <1>2, <1>4, <2>1, <2>2 DEF LateKnown
  <2>7. Tracked'
    BY <1>1, <1>2, <1>4, <2>1, <2>2 DEF Tracked
  <2> QED BY <2>3, <2>4, <2>5, <2>6, <2>7 DEF AsyncIInv
<1>6. CASE FindReady(c)
  <2>1. ready /\ immediate' = immediate \cup {c} /\ UNCHANGED <<callbacks, dropped>>
    BY <1>6 DEF FindReady, cellVars
  <2>2. AsyncTypeOK'
    BY <1>1, <1>2, <1>4, <2>1 DEF AsyncTypeOK
  <2>3. RunAtMostOnce'
    BY <1>1, <1>2, <1>3, <2>1 DEF RunAtMostOnce
  <2>4. WaitsOnce'
    BY <1>1, <1>2, <1>3, <2>1 DEF WaitsOnce
  <2>5. LateKnown' /\ Tracked'
    BY <1>1, <1>2, <1>4, <2>1 DEF LateKnown, Tracked
  <2> QED BY <2>2, <2>3, <2>4, <2>5 DEF AsyncIInv
<1> QED BY <1>5, <1>6

\* A callback that was found ready runs: its first and only run.
LEMMA RunNowInv == ASSUME AsyncIInv, NEW c \in Callbacks, RunNow(c) PROVE AsyncIInv'
<1>1. AsyncTypeOK /\ RunAtMostOnce /\ WaitsOnce /\ LateKnown /\ Tracked
  BY DEF AsyncIInv
<1>2. /\ c \in immediate /\ immediate' = immediate \ {c} /\ runs[c] = 0
      /\ runs' = [runs EXCEPT ![c] = 1]
      /\ UNCHANGED <<type, ready, engaged, callbacks, pc, todo, registered, dropped, late>>
  <2>1. c \in immediate /\ runs[c] = 0
    BY <1>1 DEF RunNow, RunAtMostOnce
  <2>2. runs' = [runs EXCEPT ![c] = IF runs[c] < 2 THEN runs[c] + 1 ELSE runs[c]]
    BY DEF RunNow, Ran
  <2> QED BY <2>1, <2>2 DEF RunNow, cellVars
<1>3. /\ runs' \in [Callbacks -> 0 .. 2] /\ runs'[c] = 1
      /\ \A d \in Callbacks \ {c} : runs'[d] = runs[d]
  <2>1. runs \in [Callbacks -> 0 .. 2]
    BY <1>1 DEF AsyncTypeOK
  <2> QED BY <1>2, <2>1
<1>4. Notifying' = Notifying
  BY <1>2 DEF Notifying
<1>5. /\ c \in registered /\ c \notin Range(callbacks)
      /\ \A s \in Setters : c \notin Range(todo[s])
  BY <1>1, <1>2 DEF WaitsOnce
<1>6. AsyncTypeOK'
  BY <1>1, <1>2, <1>3, <1>4 DEF AsyncTypeOK
<1>7. RunAtMostOnce'
  <2>1. \A d \in Callbacks : runs'[d] <= 1
    BY <1>1, <1>3 DEF RunAtMostOnce
  <2>2. \A d \in immediate' : runs'[d] = 0
    BY <1>1, <1>2, <1>3 DEF RunAtMostOnce, AsyncTypeOK
  <2> QED BY <1>1, <1>2, <2>1, <2>2 DEF RunAtMostOnce
<1>8. WaitsOnce'
  <2>1. ASSUME NEW s \in Setters, NEW d \in Range(todo[s])
        PROVE  d \in registered \ immediate' /\ runs'[d] = 0
    BY <1>1, <1>2, <1>3, <1>5 DEF WaitsOnce, AsyncTypeOK
  <2>2. \A d \in Range(callbacks) : d \in registered \ immediate' /\ (~ready => runs'[d] = 0)
    BY <1>1, <1>2, <1>3, <1>5 DEF WaitsOnce, AsyncTypeOK
  <2>3. \A d \in Callbacks \ registered : runs'[d] = 0
    BY <1>1, <1>3, <1>5 DEF WaitsOnce
  <2> QED BY <1>1, <1>2, <2>1, <2>2, <2>3 DEF WaitsOnce
<1>9. LateKnown'
  BY <1>1, <1>2, <1>4 DEF LateKnown
<1>10. Tracked'
  <2> SUFFICES ASSUME NEW d \in registered
               PROVE  \/ runs'[d] = 1 \/ d \in immediate' \cup dropped
                      \/ ~ready /\ d \in Range(callbacks)
                      \/ \E s \in Notifying \ late : d \in Range(todo[s])
    BY <1>2, <1>4 DEF Tracked
  <2>1. CASE d = c
    BY <1>3, <2>1
  <2>2. CASE d # c
    <3>1. runs'[d] = runs[d] /\ (d \in immediate => d \in immediate')
      BY <1>1, <1>2, <1>3, <2>2 DEF AsyncTypeOK
    <3> QED BY <1>1, <3>1 DEF Tracked
  <2> QED BY <2>1, <2>2
<1> QED BY <1>6, <1>7, <1>8, <1>9, <1>10 DEF AsyncIInv

\* reset discards what has not run and marks the notifications it crosses.
LEMMA ResetInv == ASSUME AsyncIInv, Reset PROVE AsyncIInv'
<1>1. AsyncTypeOK /\ RunAtMostOnce /\ WaitsOnce /\ LateKnown /\ Tracked
  BY DEF AsyncIInv
<1>2. /\ ready' = FALSE /\ engaged' = FALSE /\ callbacks' = <<>>
      /\ dropped' = dropped \cup {c \in registered : runs[c] = 0} /\ late' = Notifying
      /\ UNCHANGED <<type, pc, todo, immediate, runs, registered>>
  BY DEF Reset
<1>3. callbacks' \in Seq(Callbacks) /\ Range(callbacks') = {} /\ IsInjective(callbacks')
  BY <1>2, EmptySeq DEF Range, IsInjective
<1>4. Notifying' = Notifying
  BY <1>2 DEF Notifying
<1>5. AsyncTypeOK'
  BY <1>1, <1>2, <1>3, <1>4 DEF AsyncTypeOK
<1>6. RunAtMostOnce'
  BY <1>1, <1>2, <1>3 DEF RunAtMostOnce
<1>7. WaitsOnce'
  BY <1>1, <1>2, <1>3 DEF WaitsOnce
<1>8. LateKnown'
  BY <1>2, <1>3, <1>4 DEF LateKnown
<1>9. Tracked'
  <2>1. \A c \in registered : runs[c] = 0 \/ runs[c] = 1
    BY <1>1 DEF AsyncTypeOK, RunAtMostOnce
  <2> QED BY <1>2, <2>1 DEF Tracked
<1> QED BY <1>5, <1>6, <1>7, <1>8, <1>9 DEF AsyncIInv

LEMMA AsyncNextInv == AsyncIInv /\ [AsyncNext]_asyncVars => AsyncIInv'
<1> SUFFICES ASSUME AsyncIInv, [AsyncNext]_asyncVars PROVE AsyncIInv'
  OBVIOUS
<1>1. CASE AsyncNext
  BY <1>1, SetInv, NotifyInv, EndSetInv, RegisterInv, RunNowInv, ResetInv DEF AsyncNext
<1>2. CASE UNCHANGED asyncVars
  <2>1. Notifying' = Notifying
    BY <1>2 DEF asyncVars, Notifying
  <2> QED BY <1>2, <2>1 DEF asyncVars, cellVars, AsyncIInv, AsyncTypeOK, RunAtMostOnce,
                            WaitsOnce, LateKnown, Tracked
<1> QED BY <1>1, <1>2

\* A callback given to on_ready runs exactly once when the value is set, before
\* or after: never twice, and it is not forgotten unless a reset discarded it
\* or crossed the notification that clears the list it was put in.
THEOREM CallbacksRunOnce == AsyncSpec => []RunExactlyOnce
<1>1. AsyncIInv => RunExactlyOnce
  BY DEF AsyncIInv, Tracked, LateKnown, RunExactlyOnce, NoneForgotten
<1> QED BY <1>1, AsyncInitInv, AsyncNextInv, PTL DEF AsyncSpec

(***************************************************************************)
(* SpscRing.                                                               *)
(***************************************************************************)

\* Distances on the ring are numbers below Capacity, and the successor of an
\* index is an index.
LEMMA RingArithmetic ==
    /\ 0 \in Slots
    /\ \A i \in Slots : Succ(i) \in Slots
    /\ \A i, j \in Slots : Dist(i, j) \in Slots /\ Dist(i, j) \in Nat /\ Dist(i, i) = 0
BY CapacityAssumption DEF Slots, Succ, Wrap, Dist

\* The initial ring is empty and satisfies the invariant.
LEMMA RingInitInv == RingInit => RingIInv
<1> SUFFICES ASSUME RingInit PROVE RingIInv
  OBVIOUS
<1> USE CapacityAssumption, NoValueAssumption DEF RingInit
<1>1. RingTypeOK
  BY RingArithmetic DEF RingTypeOK
<1>2. ViewsOrdered
  BY DEF ViewsOrdered, Dist
<1>3. ChecksHold /\ ItemWritten
  BY DEF ChecksHold, ItemWritten
<1>4. SlotsExact
  BY DEF SlotsExact, Filled, Flagged, Dist, Slots
<1> QED BY <1>1, <1>2, <1>3, <1>4 DEF RingIInv

\* A load of the head moves the producer's view forward, not past the head.
LEMMA ViewOfHead ==
    ASSUME RingTypeOK, ViewsOrdered, NEW h \in Between(seenHead, head)
    PROVE  /\ h \in Slots
           /\ Dist(h, head) + Dist(head, seenTail) + Dist(seenTail, tail) < Capacity
BY CapacityAssumption DEF Between, RingTypeOK, ViewsOrdered, Dist, Slots

\* A load of the tail moves the consumer's view forward, not past the tail.
LEMMA ViewOfTail ==
    ASSUME RingTypeOK, ViewsOrdered, NEW t \in Between(seenTail, tail)
    PROVE  /\ t \in Slots
           /\ Dist(seenHead, head) + Dist(head, t) + Dist(t, tail) < Capacity
           /\ head # seenTail => head # t
BY CapacityAssumption DEF Between, RingTypeOK, ViewsOrdered, Dist, Slots

\* The room a producer has seen is still there: between its view of the head
\* and the slot after the tail lies the whole of what the ring holds.
LEMMA RoomKept ==
    ASSUME RingTypeOK, ViewsOrdered, Succ(tail) # seenHead
    PROVE  /\ Dist(seenHead, head) + Dist(head, seenTail) + Dist(seenTail, Succ(tail)) < Capacity
           /\ Dist(head, tail) + 1 = Dist(head, Succ(tail))
           /\ Succ(tail) # head
BY CapacityAssumption DEF RingTypeOK, ViewsOrdered, Dist, Slots, Succ, Wrap

\* The item a consumer has seen is still there, and popping it lets the head
\* follow its view of the tail.
LEMMA ItemKept ==
    ASSUME RingTypeOK, ViewsOrdered, head # seenTail
    PROVE  /\ Dist(seenHead, Succ(head)) + Dist(Succ(head), seenTail)
                + Dist(seenTail, tail) < Capacity
           /\ Dist(head, tail) = Dist(Succ(head), tail) + 1
           /\ head # tail
BY CapacityAssumption DEF RingTypeOK, ViewsOrdered, Dist, Slots, Succ, Wrap
-----------------------------------------------------------------------------
\* Steps of the producer up to the construction of the object keep RingIInv.
LEMMA CheckInv ==
    ASSUME RingIInv,
           \/ \E v \in Values, b \in BOOLEAN : StartPush(v, b)
           \/ \E h \in Slots : FindRoom(h) \/ FindFull(h) \/ ObserveHead(h)
           \/ ConstructThrows
    PROVE  RingIInv'
<1> USE NoValueAssumption
<1>1. RingTypeOK /\ ViewsOrdered /\ ChecksHold /\ SlotsExact /\ ItemWritten
  BY DEF RingIInv
<1>2. UNCHANGED <<consVars, tail, data, slotReady>> /\ pp \notin {"flag", "publish"}
      /\ pp' \notin {"flag", "publish"}
  BY DEF StartPush, FindRoom, FindFull, ObserveHead, ConstructThrows, prodVars
<1>3. SlotsExact' /\ ItemWritten'
  BY <1>1, <1>2 DEF SlotsExact, Filled, Flagged, ItemWritten, consVars
<1>4. CASE \E v \in Values, b \in BOOLEAN : StartPush(v, b)
  BY <1>1, <1>2, <1>3, <1>4 DEF StartPush, consVars, RingTypeOK, ViewsOrdered, ChecksHold, RingIInv
<1>5. CASE ConstructThrows
  BY <1>1, <1>2, <1>3, <1>5 DEF ConstructThrows, consVars, RingTypeOK, ViewsOrdered, ChecksHold, RingIInv
<1>6. CASE \E h \in Slots : FindRoom(h) \/ FindFull(h) \/ ObserveHead(h)
  <2> PICK h \in Slots : FindRoom(h) \/ FindFull(h) \/ ObserveHead(h)
    BY <1>6
  <2>1. h \in Between(seenHead, head) /\ seenHead' = h /\ UNCHANGED <<item, blocking>>
    BY DEF FindRoom, FindFull, ObserveHead, prodVars
  <2>2. ViewsOrdered'
    BY <1>1, <1>2, <2>1, ViewOfHead DEF ViewsOrdered, consVars
  <2>3. RingTypeOK'
    BY <1>1, <1>2, <2>1 DEF FindRoom, FindFull, ObserveHead, RingTypeOK, consVars
  <2>4. ChecksHold'
    BY <1>1, <1>2, <2>1 DEF FindRoom, FindFull, ObserveHead, ChecksHold, consVars
  <2> QED BY <1>3, <2>2, <2>3, <2>4 DEF RingIInv
<1> QED BY <1>4, <1>5, <1>6

\* Constructing and flagging touch only the slot at the tail, which the check
\* has shown to be free.
LEMMA FillInv ==
    ASSUME RingIInv, Construct \/ SetReady
    PROVE  RingIInv'
<1> USE NoValueAssumption
<1>1. RingTypeOK /\ ViewsOrdered /\ ChecksHold /\ SlotsExact /\ ItemWritten
  BY DEF RingIInv
<1>2. UNCHANGED <<consVars, tail, item, blocking, seenHead>>
  BY DEF Construct, SetReady
<1>3. RingTypeOK'
  BY <1>1, <1>2 DEF Construct, SetReady, RingTypeOK, consVars
<1>4. ViewsOrdered' /\ ChecksHold' /\ ItemWritten'
  BY <1>1, <1>2 DEF Construct, SetReady, RingTypeOK, consVars, ViewsOrdered, ChecksHold, ItemWritten
<1>5. SlotsExact'
  <2>1. ~(Dist(head, tail) < Dist(head, tail))
    BY <1>1, RingArithmetic DEF RingTypeOK, Slots
  <2> QED BY <1>1, <1>2, <2>1 DEF Construct, SetReady, RingTypeOK, SlotsExact, Filled, Flagged, consVars
<1> QED BY <1>3, <1>4, <1>5 DEF RingIInv

\* Publishing moves the tail over the slot that was filled, into the room that
\* the check has seen.
LEMMA PublishInv ==
    ASSUME RingIInv, Publish
    PROVE  RingIInv'
<1> USE NoValueAssumption
<1>1. RingTypeOK /\ ViewsOrdered /\ ChecksHold /\ SlotsExact /\ ItemWritten
  BY DEF RingIInv
<1>2. /\ pp = "publish" /\ pp' = "idle" /\ tail' = Succ(tail) /\ Succ(tail) # seenHead
      /\ UNCHANGED <<item, blocking, seenHead, consVars, data, slotReady>>
  BY <1>1 DEF Publish, ChecksHold
<1>3. RingTypeOK'
  BY <1>1, <1>2, RingArithmetic DEF RingTypeOK, consVars
<1>4. ViewsOrdered' /\ ChecksHold' /\ ItemWritten'
  BY <1>1, <1>2, RoomKept DEF ViewsOrdered, ChecksHold, ItemWritten, consVars
<1>5. SlotsExact'
  <2>1. \A i \in Slots : Dist(head, i) < Dist(head, Succ(tail))
                            <=> Dist(head, i) < Dist(head, tail) \/ i = tail
    BY <1>1, <1>2, RoomKept, CapacityAssumption DEF RingTypeOK, Dist, Slots
  <2>2. tail # head \/ cp \notin {"unflag", "advance"}
    BY <1>1, ItemKept DEF ChecksHold
  <2> QED BY <1>1, <1>2, <2>1, <2>2 DEF SlotsExact, Filled, Flagged, consVars
<1> QED BY <1>3, <1>4, <1>5 DEF RingIInv
-----------------------------------------------------------------------------
\* Steps of the consumer up to the move out of the slot keep RingIInv.
LEMMA LookInv ==
    ASSUME RingIInv,
           \/ \E b \in BOOLEAN : StartPop(b)
           \/ \E t \in Slots : FindItem(t) \/ FindEmpty(t) \/ ObserveTail(t)
           \/ SeeReady \/ TakeThrows
    PROVE  RingIInv'
<1>1. RingTypeOK /\ ViewsOrdered /\ ChecksHold /\ SlotsExact /\ ItemWritten
  BY DEF RingIInv
<1>2. UNCHANGED <<prodVars, head, result, popped, data, slotReady>>
      /\ cp \notin {"unflag", "advance"} /\ cp' \notin {"unflag", "advance"}
  BY DEF StartPop, FindItem, FindEmpty, ObserveTail, SeeReady, TakeThrows
<1>3. SlotsExact' /\ ItemWritten'
  BY <1>1, <1>2 DEF SlotsExact, Filled, Flagged, ItemWritten, prodVars
<1>4. CASE \/ \E b \in BOOLEAN : StartPop(b)
           \/ SeeReady \/ TakeThrows
  BY <1>1, <1>2, <1>3, <1>4 DEF StartPop, SeeReady, TakeThrows, prodVars, RingTypeOK,
      ViewsOrdered, ChecksHold, RingIInv
<1>5. CASE \E t \in Slots : FindItem(t) \/ FindEmpty(t) \/ ObserveTail(t)
  <2> PICK t \in Slots : FindItem(t) \/ FindEmpty(t) \/ ObserveTail(t)
    BY <1>5
  <2>1. t \in Between(seenTail, tail) /\ seenTail' = t /\ UNCHANGED waiting
    BY DEF FindItem, FindEmpty, ObserveTail
  <2>2. ViewsOrdered'
    BY <1>1, <1>2, <2>1, ViewOfTail DEF ViewsOrdered, prodVars
  <2>3. RingTypeOK'
    BY <1>1, <1>2, <2>1 DEF FindItem, FindEmpty, ObserveTail, RingTypeOK, prodVars
  <2>4. ChecksHold'
    BY <1>1, <1>2, <2>1 DEF FindItem, FindEmpty, ObserveTail, ChecksHold, prodVars
  <2> QED BY <1>3, <2>2, <2>3, <2>4 DEF RingIInv
<1> QED BY <1>4, <1>5

\* Moving the value out and unflagging touch only the slot at the head, which
\* holds the oldest object.
LEMMA DrainInv ==
    ASSUME RingIInv, TakeItem \/ ClearReady
    PROVE  RingIInv'
<1> USE NoValueAssumption
<1>1. RingTypeOK /\ ViewsOrdered /\ ChecksHold /\ SlotsExact /\ ItemWritten
  BY DEF RingIInv
<1>2. /\ UNCHANGED <<prodVars, head, waiting, seenTail, popped>>
      /\ cp \in {"take", "unflag"} /\ head # seenTail
  BY <1>1 DEF TakeItem, ClearReady, ChecksHold
<1>3. head # tail /\ Dist(head, head) < Dist(head, tail)
  BY <1>1, <1>2, ItemKept, CapacityAssumption DEF RingTypeOK, Dist, Slots
<1>4. cp = "take" => data[head] \in Values
  BY <1>1, <1>3 DEF SlotsExact, Filled, RingTypeOK
<1>5. RingTypeOK'
  BY <1>1, <1>2, <1>4 DEF TakeItem, ClearReady, RingTypeOK, prodVars
<1>6. ViewsOrdered' /\ ChecksHold' /\ ItemWritten'
  BY <1>1, <1>2, <1>3, <1>4 DEF TakeItem, ClearReady, RingTypeOK, prodVars, ViewsOrdered, ChecksHold,
      ItemWritten
<1>7. SlotsExact'
  BY <1>1, <1>2, <1>3 DEF TakeItem, ClearReady, RingTypeOK, SlotsExact, Filled, Flagged, prodVars
<1> QED BY <1>5, <1>6, <1>7 DEF RingIInv

\* Advancing the head gives up the slot that was emptied.
LEMMA AdvanceInv ==
    ASSUME RingIInv, Advance
    PROVE  RingIInv'
<1>1. RingTypeOK /\ ViewsOrdered /\ ChecksHold /\ SlotsExact /\ ItemWritten
  BY DEF RingIInv
<1>2. /\ cp = "advance" /\ cp' = "idle" /\ head' = Succ(head) /\ popped' = result
      /\ head # seenTail
      /\ UNCHANGED <<prodVars, result, waiting, seenTail, data, slotReady>>
  BY <1>1 DEF Advance, ChecksHold
<1>3. RingTypeOK'
  BY <1>1, <1>2, RingArithmetic DEF RingTypeOK, prodVars
<1>4. ViewsOrdered' /\ ChecksHold' /\ ItemWritten'
  BY <1>1, <1>2, ItemKept DEF ViewsOrdered, ChecksHold, ItemWritten, prodVars
<1>5. SlotsExact'
  <2>1. \A i \in Slots : Dist(Succ(head), i) < Dist(Succ(head), tail)
                            <=> Dist(head, i) < Dist(head, tail) /\ i # head
    BY <1>1, <1>2, ItemKept, CapacityAssumption DEF RingTypeOK, Dist, Slots, Succ, Wrap
  <2>2. head # tail
    BY <1>1, <1>2, ItemKept
  <2> QED BY <1>1, <1>2, <2>1, <2>2 DEF SlotsExact, Filled, Flagged, prodVars
<1> QED BY <1>3, <1>4, <1>5 DEF RingIInv

\* clear() leaves an empty ring.
LEMMA ClearInv ==
    ASSUME RingIInv, RingClear
    PROVE  RingIInv'
<1> USE CapacityAssumption, NoValueAssumption
<1>1. RingTypeOK'
  BY DEF RingIInv, RingTypeOK, RingClear
<1>2. ViewsOrdered' /\ ChecksHold' /\ ItemWritten'
  BY RingArithmetic DEF RingIInv, RingTypeOK, RingClear, ViewsOrdered, ChecksHold, ItemWritten, Slots, Dist
<1>3. SlotsExact'
  BY DEF RingIInv, RingTypeOK, RingClear, SlotsExact, Filled, Flagged, Dist, Slots
<1> QED BY <1>1, <1>2, <1>3 DEF RingIInv

\* Every step keeps the invariant.
LEMMA NextInv == RingIInv /\ [RingNext]_ringVars => RingIInv'
<1> SUFFICES ASSUME RingIInv, [RingNext]_ringVars PROVE RingIInv'
  OBVIOUS
<1>1. CASE Producer
  BY <1>1, CheckInv, FillInv, PublishInv DEF Producer
<1>2. CASE Consumer
  BY <1>2, LookInv, DrainInv, AdvanceInv DEF Consumer
<1>3. CASE RingClear
  BY <1>3, ClearInv
<1>4. CASE UNCHANGED ringVars
  BY <1>4 DEF ringVars, prodVars, consVars, RingIInv, RingTypeOK, ViewsOrdered, ChecksHold, SlotsExact,
      Filled, Flagged, ItemWritten
<1> QED BY <1>1, <1>2, <1>3, <1>4 DEF RingNext

\* The inductive invariant of the ring, with its exact flags and its ordered
\* views, holds in every reachable state, for every capacity.
THEOREM RingInvariant == RingSpec => []RingIInv
<1> QED BY RingInitInv, NextInv, PTL DEF RingSpec

\* No data race on a slot (try_push and try_pop of spsc.h touch the storage of
\* a slot without atomics): the two threads never work on the same one.
THEOREM NoSlotRaceHolds == RingSpec => []NoSlotRace
<1>1. RingIInv => NoSlotRace
  BY ItemKept DEF RingIInv, NoSlotRace, ChecksHold
<1> QED BY <1>1, RingInvariant, PTL
-----------------------------------------------------------------------------
\* The contents are a sequence as long as the distance from head to tail.
LEMMA ContentsSeq ==
    ASSUME RingIInv
    PROVE  /\ Contents \in Seq(Values)
           /\ Len(Contents) = Dist(head, tail)
           /\ Dist(head, tail) \in Nat /\ Dist(head, tail) < Capacity
<1> DEFINE L == Dist(head, tail)
           Elem(n) == IF n = 1 /\ cp \in {"unflag", "advance"}
                      THEN result ELSE data[Wrap(head + n - 1)]
<1>1. RingTypeOK /\ ViewsOrdered /\ ChecksHold /\ SlotsExact
  BY DEF RingIInv
<1>2. L \in Nat /\ L < Capacity
  BY <1>1, CapacityAssumption DEF RingTypeOK, Slots, Dist
<1>3. ASSUME NEW n \in 1 .. L PROVE Elem(n) \in Values
  <2>1. CASE n = 1 /\ cp \in {"unflag", "advance"}
    BY <1>1, <2>1 DEF ChecksHold
  <2>2. CASE ~(n = 1 /\ cp \in {"unflag", "advance"})
    <3> DEFINE i == Wrap(head + n - 1)
    <3>1. i \in Slots /\ Dist(head, i) < L /\ (i = head => n = 1)
      BY <1>1, <1>2, CapacityAssumption DEF RingTypeOK, Wrap, Dist, Slots
    <3>2. Filled(i)
      BY <2>2, <3>1 DEF Filled
    <3> QED BY <1>1, <2>2, <3>1, <3>2 DEF SlotsExact
  <2> QED BY <2>1, <2>2
<1>4. Contents = [n \in 1 .. L |-> Elem(n)]
  BY DEF Contents
<1> HIDE DEF L, Elem
<1>5. Contents \in [1 .. L -> Values]
  BY <1>3, <1>4
<1>6. Contents \in Seq(Values) /\ Len(Contents) = L
  BY <1>2, <1>5
<1> QED BY <1>2, <1>6 DEF L

\* Every step of the ring is a step of the abstract buffer, or leaves it alone.
LEMMA StepRefines ==
    ASSUME RingIInv, RingIInv', [RingNext]_ringVars
    PROVE  [Fifo!Next]_<<Contents, popped>>
<1> USE CapacityAssumption
<1>0. RingTypeOK /\ ViewsOrdered /\ ChecksHold /\ SlotsExact /\ ItemWritten /\ RingTypeOK'
  BY DEF RingIInv
<1>a. /\ Contents \in Seq(Values) /\ Len(Contents) = Dist(head, tail)
      /\ Dist(head, tail) \in Nat /\ Dist(head, tail) < Capacity
  BY ContentsSeq
<1>b. \A n \in 1 .. Dist(head, tail) : Contents[n] =
        IF n = 1 /\ cp \in {"unflag", "advance"} THEN result ELSE data[Wrap(head + n - 1)]
  BY DEF Contents
<1>1. CASE Publish
  <2>1. /\ pp = "publish" /\ tail' = Succ(tail) /\ Succ(tail) # seenHead /\ item \in Values
        /\ data[tail] = item
        /\ UNCHANGED <<consVars, data>>
    BY <1>0, <1>1 DEF Publish, ChecksHold, ItemWritten, RingTypeOK
  <2>2. /\ Dist(head, tail)' = Dist(head, tail) + 1
        /\ Wrap(head + Dist(head, tail)) = tail
        /\ cp \in {"unflag", "advance"} => Dist(head, tail) # 0
    BY <1>0, <2>1, RoomKept, ItemKept DEF RingTypeOK, consVars, ChecksHold, Wrap, Dist, Slots, Succ
  <2>3. Contents' = Append(Contents, item)
    <3>1. Contents' = [n \in 1 .. Dist(head, tail) + 1 |->
                         IF n = 1 /\ cp \in {"unflag", "advance"}
                         THEN result ELSE data[Wrap(head + n - 1)]]
      BY <2>1, <2>2 DEF Contents, consVars
    <3>2. \A n \in 1 .. Dist(head, tail) : Contents'[n] = Contents[n]
      BY <1>a, <1>b, <3>1
    <3>3. Contents'[Dist(head, tail) + 1] = item
      <4>1. head + (Dist(head, tail) + 1) - 1 = head + Dist(head, tail)
        BY <1>0, <1>a DEF RingTypeOK, Slots
      <4>2. ~(Dist(head, tail) + 1 = 1 /\ cp \in {"unflag", "advance"})
        BY <1>a, <2>2
      <4>3. Dist(head, tail) + 1 \in 1 .. Dist(head, tail) + 1
        BY <1>a
      <4> QED BY <2>1, <2>2, <3>1, <4>1, <4>2, <4>3
    <3>4. \A n \in 1 .. Dist(head, tail) + 1 : Contents'[n] \in Values
      <4>1. \A n \in 1 .. Dist(head, tail) : Contents[n] \in Values
        BY <1>a, ElementOfSeq
      <4> QED BY <1>a, <2>1, <3>2, <3>3, <4>1
    <3>5. Contents' \in Seq(Values) /\ Len(Contents') = Dist(head, tail) + 1
      <4>1. Contents' \in [1 .. Dist(head, tail) + 1 -> Values]
        BY <3>1, <3>4
      <4> QED BY <1>a, <4>1
    <3> HIDE DEF Contents
    <3>6. /\ Append(Contents, item) \in Seq(Values)
          /\ Len(Append(Contents, item)) = Len(Contents) + 1
          /\ \A n \in 1 .. Len(Contents) : Append(Contents, item)[n] = Contents[n]
          /\ Append(Contents, item)[Len(Contents) + 1] = item
      BY <1>a, <2>1, AppendProperties
    <3>7. \A n \in 1 .. Len(Contents') : Contents'[n] = Append(Contents, item)[n]
      BY <1>a, <3>2, <3>3, <3>5, <3>6
    <3> QED BY <1>a, <3>5, <3>6, <3>7, SeqEqual
  <2>4. Len(Contents) < Capacity - 1
    <3>1. Dist(head, tail) + 1 < Capacity
      BY <1>0, <2>1, RoomKept DEF RingTypeOK, Dist, Slots, Succ, Wrap
    <3> QED BY <1>a, <3>1
  <2> QED BY <2>1, <2>3, <2>4 DEF Fifo!Put, Fifo!Next, consVars
<1>2. CASE Advance
  <2>1. /\ cp = "advance" /\ cp' = "idle" /\ head' = Succ(head) /\ popped' = result
        /\ head # seenTail /\ UNCHANGED <<prodVars, data, result>>
    BY <1>0, <1>2 DEF Advance, ChecksHold
  <2>2. /\ Dist(head, tail) = Dist(head, tail)' + 1
        /\ \A n \in 1 .. Dist(head, tail)' : Wrap(Succ(head) + n - 1) = Wrap(head + n)
    BY <1>0, <2>1, ItemKept DEF RingTypeOK, prodVars, Wrap, Dist, Slots, Succ
  <2>3. /\ Contents # <<>> /\ Head(Contents) = result
    <3>1. Dist(head, tail)' \in Nat
      BY <1>0, RingArithmetic DEF RingTypeOK
    <3>2. 1 \in 1 .. Dist(head, tail) /\ Len(Contents) # 0
      BY <1>a, <2>2, <3>1
    <3>3. Contents[1] = result
      BY <1>b, <2>1, <3>2
    <3> QED BY <1>a, <3>2, <3>3
  <2>4. Contents' = Tail(Contents)
    <3>0. Dist(head, tail)' \in Nat
      BY <1>0, RingArithmetic DEF RingTypeOK
    <3>1. Contents' = [n \in 1 .. Dist(head, tail)' |-> data[Wrap(Succ(head) + n - 1)]]
      BY <2>1 DEF Contents, prodVars
    <3>2. \A n \in 1 .. Dist(head, tail)' : Contents'[n] = Contents[n + 1]
      <4> SUFFICES ASSUME NEW n \in 1 .. Dist(head, tail)' PROVE Contents'[n] = Contents[n + 1]
        OBVIOUS
      <4>1. n + 1 \in 1 .. Dist(head, tail) /\ n + 1 # 1
        BY <1>a, <2>2, <3>0
      <4>2. Contents[n + 1] = data[Wrap(head + (n + 1) - 1)]
        BY <1>b, <4>1
      <4>3. head + (n + 1) - 1 = head + n
        BY <1>0, <4>1 DEF RingTypeOK, Slots
      <4> QED BY <2>2, <3>1, <4>2, <4>3
    <3>3. /\ Tail(Contents) \in Seq(Values)
          /\ Len(Tail(Contents)) = Len(Contents) - 1
          /\ \A n \in 1 .. Len(Tail(Contents)) : Tail(Contents)[n] = Contents[n + 1]
      BY <1>a, <2>3, HeadTailProperties
    <3>4. Len(Contents) - 1 = Dist(head, tail)'
      BY <1>a, <2>2, <3>0
    <3>5. Contents' \in Seq(Values) /\ Len(Contents') = Dist(head, tail)'
      <4>1. \A n \in 1 .. Dist(head, tail)' : Contents[n + 1] \in Values
        BY <1>a, <3>0, <3>4, ElementOfSeq
      <4>2. Contents' \in [1 .. Dist(head, tail)' -> Values]
        BY <3>1, <3>2, <4>1
      <4> QED BY <3>0, <4>2
    <3> QED BY <3>2, <3>3, <3>4, <3>5, SeqEqual
  <2> QED BY <2>1, <2>3, <2>4 DEF Fifo!Get, Fifo!Next
<1>3. CASE TakeItem
  <2>1. /\ cp = "take" /\ cp' = "unflag" /\ result' = data[head]
        /\ data' = [data EXCEPT ![head] = NoValue]
        /\ UNCHANGED <<prodVars, head, popped>>
    BY <1>3 DEF TakeItem
  <2>2. \A n \in 1 .. Dist(head, tail) :
          /\ Wrap(head + n - 1) \in Slots
          /\ Wrap(head + n - 1) = head <=> n = 1
    BY <1>0 DEF RingTypeOK, Wrap, Dist, Slots
  <2>3. Contents' = Contents
    BY <1>0, <2>1, <2>2 DEF Contents, prodVars, RingTypeOK
  <2> QED BY <2>1, <2>3
<1>4. CASE Construct
  <2>1. \A n \in 1 .. Dist(head, tail) :
          /\ Wrap(head + n - 1) \in Slots
          /\ Wrap(head + n - 1) # tail
    BY <1>0 DEF RingTypeOK, Wrap, Dist, Slots
  <2>2. UNCHANGED <<consVars, tail>> /\ data' = [data EXCEPT ![tail] = item]
    BY <1>4 DEF Construct
  <2>3. Contents' = Contents
    BY <1>0, <2>1, <2>2 DEF Contents, consVars, RingTypeOK
  <2> QED BY <2>2, <2>3 DEF consVars
<1>5. CASE RingClear
  <2>1. head' = tail' /\ UNCHANGED popped
    BY <1>5 DEF RingClear
  <2>2. Contents' = <<>>
    <3>1. Dist(head, tail)' = 0
      BY <1>0, <2>1, RingArithmetic DEF RingTypeOK
    <3> QED BY <3>1 DEF Contents
  <2> QED BY <2>1, <2>2 DEF Fifo!Clear, Fifo!Next
<1>6. ASSUME UNCHANGED <<head, tail, data, popped, result>>,
             cp \in {"unflag", "advance"} <=> cp' \in {"unflag", "advance"}
      PROVE  UNCHANGED <<Contents, popped>>
  BY <1>6 DEF Contents
<1>7. CASE \/ \E v \in Values, b \in BOOLEAN : StartPush(v, b)
           \/ \E h \in Slots : FindRoom(h) \/ FindFull(h) \/ ObserveHead(h)
           \/ ConstructThrows \/ SetReady
  BY <1>6, <1>7 DEF StartPush, FindRoom, FindFull, ObserveHead, ConstructThrows, SetReady, consVars
<1>8. CASE \/ \E b \in BOOLEAN : StartPop(b)
           \/ \E t \in Slots : FindItem(t) \/ FindEmpty(t) \/ ObserveTail(t)
           \/ SeeReady \/ TakeThrows \/ ClearReady
  BY <1>6, <1>8 DEF StartPop, FindItem, FindEmpty, ObserveTail, SeeReady, TakeThrows,
      ClearReady, prodVars
<1>9. CASE UNCHANGED ringVars
  BY <1>6, <1>9 DEF ringVars, prodVars, consVars
<1> QED BY <1>1, <1>2, <1>3, <1>4, <1>5, <1>7, <1>8, <1>9 DEF RingNext, Producer, Consumer

\* The ring of spsc.h implements the bounded first-in first-out buffer, for
\* every capacity: nothing is lost, duplicated or reordered between try_push
\* and try_pop.
THEOREM RingImplementsFifo == RingSpec => ImplementsFifo
<1>1. RingInit => Fifo!Init
  <2> SUFFICES ASSUME RingInit PROVE Fifo!Init
    OBVIOUS
  <2>1. Dist(head, tail) = 0
    BY RingArithmetic DEF RingInit
  <2>2. Contents = <<>>
    BY <2>1, RingInitInv, ContentsSeq
  <2> QED BY <2>2 DEF Fifo!Init, RingInit
<1>2. RingIInv /\ RingIInv' /\ [RingNext]_ringVars => [Fifo!Next]_<<Contents, popped>>
  BY StepRefines
<1> QED BY <1>1, <1>2, RingInvariant, PTL DEF RingSpec, ImplementsFifo, Fifo!Spec
==============================================================================
