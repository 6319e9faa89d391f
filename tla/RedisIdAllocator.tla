--------------------------- MODULE RedisIdAllocator ---------------------------
(***************************************************************************)
(* RedisIDAllocator of src/include/redis_id_allocator.h: instances in      *)
(* several processes that share a bitmap of IDs, the expiry time of each   *)
(* ID, and the creator lease, all kept by one Redis server.                *)
(*                                                                         *)
(* A Lua script is one atomic step, and so is a single command; between    *)
(* two commands of one operation the other instances go on.  An instance's *)
(* mutex lets it run one operation at a time.  Its clock is the server's,  *)
(* read as the script runs: neither a skew between hosts nor the delay of  *)
(* a request is modelled.                                                  *)
(***************************************************************************)
EXTENDS Integers, FiniteSets

CONSTANTS
    Insts,               \* the instances that createOrAttach may return
    MinId, MaxId,        \* Config::min_id, max_id
    TTLs,                \* the lifetimes callers ask for, the default included
    CreatorTTL,          \* Config::creator_ttl
    HeartbeatInterval,   \* Config::heartbeat_interval
    CleanupInterval,     \* Config::cleanup_interval
    NoInst,
    MaxTime              \* bound: the clock stops here

ASSUME RangeAssumption == MinId \in Nat /\ MaxId \in Nat /\ MinId <= MaxId
ASSUME TimeAssumption  == /\ TTLs \subseteq Nat
                          /\ CreatorTTL \in Nat \ {0}   \* Redis refuses EX 0
                          /\ MaxTime \in Nat
ASSUME NoInstAssumption == NoInst \notin Insts

VARIABLES
    now,        \* the clock, in seconds
    init,       \* whether the init key exists
    creator,    \* the value of the creator key, or NoInst
    leaseEnd,   \* when the creator key expires
    bitmap,     \* the IDs whose bit is set
    meta,       \* the meta hash: the expiry time of each ID, or NoExpiry
    phase,      \* where each instance is
    role,       \* m_role
    lastBeat,   \* m_lastHeartbeat
    lastSweep,  \* m_lastCleanup
    grants,     \* history: who was given which ID, until when
    lapsed      \* history: a creator's lease has run out under it

redis  == <<init, creator, leaseEnd, bitmap, meta>>
local  == <<phase, role, lastBeat, lastSweep>>
idVars == <<now, redis, local, grants, lapsed>>

Ids == MinId .. MaxId
NoExpiry == -1
Lease == [inst : Insts, id : Ids, exp : Nat]

CreatorAlive == creator # NoInst /\ now < leaseEnd
IsCreator(i) == phase[i] # "down" /\ role[i] = "CREATOR"
Held(i)      == {g.id : g \in {g \in grants : g.inst = i}}

IdsInit == /\ now = 0 /\ init = FALSE
           /\ creator = NoInst /\ leaseEnd = 0
           /\ bitmap = {} /\ meta = [id \in Ids |-> NoExpiry]
           /\ phase = [i \in Insts |-> "down"]
           /\ role = [i \in Insts |-> "CONSUMER"]
           /\ lastBeat = [i \in Insts |-> 0]
           /\ lastSweep = [i \in Insts |-> 0]
           /\ grants = {} /\ lapsed = FALSE

\* Time passes; leases of IDs that end by it are no longer relied upon.
Tick == /\ now < MaxTime
        /\ now' = now + 1
        /\ grants' = {g \in grants : g.exp >= now + 1}
        /\ lapsed' = (lapsed \/ \E i \in Insts :
                         /\ IsCreator(i) /\ creator = i
                         /\ now < leaseEnd /\ now + 1 >= leaseEnd)
        /\ UNCHANGED <<redis, local>>
-----------------------------------------------------------------------------
(***************************************************************************)
(* createOrAttach, the constructor and the destructor.                     *)
(***************************************************************************)

Become(i, r) ==
    /\ phase' = [phase EXCEPT ![i] = IF r = "CREATOR" THEN "starting" ELSE "idle"]
    /\ role' = [role EXCEPT ![i] = r]
    /\ lastBeat' = [lastBeat EXCEPT ![i] = now]
    /\ lastSweep' = [lastSweep EXCEPT ![i] = now]

\* A mutant: the script takes over whether or not the creator key exists.
TakeLeaseAlways(i) ==
    /\ init' = TRUE /\ creator' = i /\ leaseEnd' = now + CreatorTTL

\* The initialisation script where it makes its caller the creator: the init
\* key is new, or the creator key has expired.
TakeLease(i) ==
    /\ ~init \/ ~CreatorAlive
    /\ init' = TRUE /\ creator' = i /\ leaseEnd' = now + CreatorTTL

CreateAsCreator(i) ==
    /\ phase[i] = "down" /\ TakeLease(i)
    /\ Become(i, "CREATOR")
    /\ UNCHANGED <<now, bitmap, meta, grants, lapsed>>

\* The script finds a live creator.
AttachAsConsumer(i) ==
    /\ phase[i] = "down" /\ init /\ CreatorAlive
    /\ Become(i, "CONSUMER")
    /\ UNCHANGED <<now, redis, grants, lapsed>>

\* The command fails, or its reply is lost after the script took the lease.
AttachOnError(i) ==
    /\ phase[i] = "down"
    /\ TakeLease(i) \/ UNCHANGED <<init, creator, leaseEnd>>
    /\ Become(i, "CONSUMER")
    /\ UNCHANGED <<now, bitmap, meta, grants, lapsed>>

\* startHeartbeat, in the constructor of a CREATOR: SET without NX.
StartHeartbeat(i) ==
    /\ phase[i] = "starting"
    /\ phase' = [phase EXCEPT ![i] = "idle"]
    /\ creator' = i /\ leaseEnd' = now + CreatorTTL
    /\ UNCHANGED <<now, init, bitmap, meta, role, lastBeat, lastSweep, grants, lapsed>>

\* The members of an instance go with it.
Gone(i) ==
    /\ phase' = [phase EXCEPT ![i] = "down"]
    /\ role' = [role EXCEPT ![i] = "CONSUMER"]
    /\ lastBeat' = [lastBeat EXCEPT ![i] = 0]
    /\ lastSweep' = [lastSweep EXCEPT ![i] = 0]

\* The destructor deletes the creator key if this instance is a CREATOR.
Stop(i) ==
    /\ phase[i] = "idle"
    /\ Gone(i)
    /\ creator' = IF role[i] = "CREATOR" THEN NoInst ELSE creator
    /\ UNCHANGED <<now, init, leaseEnd, bitmap, meta, grants, lapsed>>

\* The process dies, between any two commands.
Crash(i) ==
    /\ phase[i] # "down"
    /\ Gone(i)
    /\ UNCHANGED <<now, redis, grants, lapsed>>
-----------------------------------------------------------------------------
(***************************************************************************)
(* What every operation starts with.                                       *)
(***************************************************************************)

\* sendHeartbeat: EXPIRE, which does nothing to a key that is gone and does
\* not ask whose key it is.
SendHeartbeat(i) ==
    IF role[i] = "CREATOR" /\ now - lastBeat[i] >= HeartbeatInterval
    THEN /\ leaseEnd' = IF CreatorAlive THEN now + CreatorTTL ELSE leaseEnd
         /\ lastBeat' = [lastBeat EXCEPT ![i] = now]
    ELSE UNCHANGED <<leaseEnd, lastBeat>>

\* ensureAllocatorReady; an operation on an allocator that was never
\* initialised ends here.
EnsureReady(i) ==
    /\ phase[i] = "idle" /\ init
    /\ phase' = [phase EXCEPT ![i] = "ready"]
    /\ SendHeartbeat(i)
    /\ UNCHANGED <<now, init, creator, bitmap, meta, role, lastSweep, grants, lapsed>>

Expired == {id \in Ids : meta[id] # NoExpiry /\ now > meta[id]}

\* A mutant: an ID is cleaned up in the last second of its lifetime.
CleanupScriptEarly ==
    LET gone == {id \in Ids : meta[id] # NoExpiry /\ now >= meta[id]}
    IN  /\ bitmap' = bitmap \ gone
        /\ meta' = [id \in Ids |-> IF id \in gone THEN NoExpiry ELSE meta[id]]

\* The cleanup script.
CleanupScript ==
    /\ bitmap' = bitmap \ Expired
    /\ meta' = [id \in Ids |-> IF id \in Expired THEN NoExpiry ELSE meta[id]]

\* maybeCleanupExpired, on the way to an allocation or a reservation.
MaybeCleanup(i) ==
    /\ phase[i] = "ready"
    /\ phase' = [phase EXCEPT ![i] = "swept"]
    /\ IF role[i] = "CREATOR" /\ now - lastSweep[i] >= CleanupInterval
       THEN CleanupScript /\ lastSweep' = [lastSweep EXCEPT ![i] = now]
       ELSE UNCHANGED <<bitmap, meta, lastSweep>>
    /\ UNCHANGED <<now, init, creator, leaseEnd, role, lastBeat, grants, lapsed>>

\* cleanupExpired(), which only a CREATOR performs.
CleanupExpired(i) ==
    /\ phase[i] = "idle" /\ role[i] = "CREATOR"
    /\ CleanupScript
    /\ UNCHANGED <<now, init, creator, leaseEnd, local, grants, lapsed>>
-----------------------------------------------------------------------------
(***************************************************************************)
(* The operations on IDs.  A single ID is a range of one.                  *)
(***************************************************************************)
Done(i) == phase' = [phase EXCEPT ![i] = "idle"]

\* The end of each script that hands out IDs: bits and expiry times are set.
\* The reply may be lost, and then nobody knows of the IDs.
Hand(i, ids, exp, lost) ==
    /\ bitmap' = bitmap \cup ids
    /\ meta' = [id \in Ids |-> IF id \in ids THEN exp ELSE meta[id]]
    /\ grants' = IF lost THEN grants
                 ELSE grants \cup {[inst |-> i, id |-> id, exp |-> exp] : id \in ids}

FreeStarts(n) == {s \in Ids : s + n - 1 \in Ids /\ (s .. s + n - 1) \cap bitmap = {}}

\* allocate and allocateRange: the first run of n free IDs.
AllocateRange(i, n, ttl, lost) ==
    /\ phase[i] = "swept" /\ n > 0
    /\ \E s \in FreeStarts(n) :
          /\ \A r \in FreeStarts(n) : s <= r
          /\ Hand(i, s .. s + n - 1, now + ttl, lost)
    /\ Done(i)
    /\ UNCHANGED <<now, init, creator, leaseEnd, role, lastBeat, lastSweep, lapsed>>

\* A mutant: only the first ID of the range is checked.
ReserveFirstChecked(i, s, e, ttl, lost) ==
    /\ phase[i] = "swept" /\ s <= e
    /\ s \notin bitmap
    /\ Hand(i, s .. e, now + ttl, lost)
    /\ Done(i)
    /\ UNCHANGED <<now, init, creator, leaseEnd, role, lastBeat, lastSweep, lapsed>>

\* reserve and reserveRange.
ReserveRange(i, s, e, ttl, lost) ==
    /\ phase[i] = "swept" /\ s <= e
    /\ (s .. e) \cap bitmap = {}
    /\ Hand(i, s .. e, now + ttl, lost)
    /\ Done(i)
    /\ UNCHANGED <<now, init, creator, leaseEnd, role, lastBeat, lastSweep, lapsed>>

\* No free run, an ID of the range taken, a request that never reached Redis,
\* or an extendTTL of an ID without an expiry time.
Refused(i) ==
    /\ phase[i] \in {"ready", "swept"}
    /\ Done(i)
    /\ UNCHANGED <<now, redis, role, lastBeat, lastSweep, grants, lapsed>>

\* free and freeRange, called by who holds the IDs.  The script asks for no
\* owner: that the caller does hold them is its duty.
FreeRange(i, s, e) ==
    /\ phase[i] = "ready" /\ s <= e /\ s .. e \subseteq Held(i)
    /\ bitmap' = bitmap \ (s .. e)
    /\ meta' = [id \in Ids |-> IF id \in s .. e /\ id \in bitmap THEN NoExpiry ELSE meta[id]]
    /\ grants' = {g \in grants : g.id \notin s .. e}
    /\ Done(i)
    /\ UNCHANGED <<now, init, creator, leaseEnd, role, lastBeat, lastSweep, lapsed>>

\* extendTTL, called by who holds the ID.
ExtendTTL(i, id, more) ==
    /\ phase[i] = "ready" /\ id \in Held(i) /\ meta[id] # NoExpiry
    /\ meta[id] + more <= MaxTime + 1
    /\ meta' = [meta EXCEPT ![id] = @ + more]
    /\ grants' = {IF g.id = id THEN [g EXCEPT !.exp = @ + more] ELSE g : g \in grants}
    /\ Done(i)
    /\ UNCHANGED <<now, init, creator, leaseEnd, bitmap, role, lastBeat, lastSweep, lapsed>>

\* clearAll(), CREATOR only: DEL of the bitmap, then DEL of the meta hash.
\* Whoever held an ID has been told that it is gone.
ClearBitmap(i) ==
    /\ phase[i] = "idle" /\ role[i] = "CREATOR"
    /\ bitmap' = {} /\ grants' = {}
    /\ phase' = [phase EXCEPT ![i] = "clearing"]
    /\ UNCHANGED <<now, init, creator, leaseEnd, meta, role, lastBeat, lastSweep, lapsed>>

ClearMeta(i) ==
    /\ phase[i] = "clearing"
    /\ meta' = [id \in Ids |-> NoExpiry]
    /\ Done(i)
    /\ UNCHANGED <<now, init, creator, leaseEnd, bitmap, role, lastBeat, lastSweep, grants, lapsed>>
-----------------------------------------------------------------------------
Step(i) ==
    \/ CreateAsCreator(i) \/ AttachAsConsumer(i) \/ AttachOnError(i)
    \/ StartHeartbeat(i) \/ Stop(i) \/ Crash(i)
    \/ EnsureReady(i) \/ MaybeCleanup(i) \/ CleanupExpired(i) \/ Refused(i)
    \/ \E ttl \in TTLs, lost \in BOOLEAN, s, e \in Ids :
          AllocateRange(i, e - s + 1, ttl, lost) \/ ReserveRange(i, s, e, ttl, lost)
    \/ \E s, e \in Ids : FreeRange(i, s, e)
    \/ \E id \in Ids, more \in TTLs : ExtendTTL(i, id, more)
    \/ ClearBitmap(i) \/ ClearMeta(i)

IdsNext == Tick \/ \E i \in Insts : Step(i)

IdsSpec == IdsInit /\ [][IdsNext]_idVars
-----------------------------------------------------------------------------
IdsTypeOK ==
    /\ now \in Nat /\ init \in BOOLEAN
    /\ creator \in Insts \cup {NoInst} /\ leaseEnd \in Nat
    /\ bitmap \subseteq Ids
    /\ meta \in [Ids -> Nat \cup {NoExpiry}]
    /\ phase \in [Insts -> {"down", "starting", "idle", "ready", "swept", "clearing"}]
    /\ role \in [Insts -> {"CREATOR", "CONSUMER"}]
    /\ lastBeat \in [Insts -> Nat] /\ lastSweep \in [Insts -> Nat]
    /\ grants \subseteq Lease
    /\ lapsed \in BOOLEAN

\* Until its holder frees it, its lifetime ends or the table is cleared, an ID
\* keeps its bit, and its recorded expiry time is not before the holder's.
LeaseKept == \A g \in grants :
    /\ g.id \in bitmap
    /\ g.exp >= now
    /\ meta[g.id] # NoExpiry => meta[g.id] >= g.exp

\* No ID is in two hands at once: not after lost replies, crashes, cleanups by
\* two instances that both think themselves the creator, or a clearAll that
\* runs while others allocate.
UniqueLease == \A g, h \in grants : g.id = h.id => g = h

\* What the election rests on: a creator whose lease has not run out owns the
\* creator key, the key is alive, and there is no creator before the init key.
ElectionExact == \A i \in Insts :
    /\ phase[i] = "starting" => role[i] = "CREATOR"
    /\ IsCreator(i) => init
    /\ IsCreator(i) /\ ~lapsed => creator = i /\ now < leaseEnd

LeasesExact == IdsTypeOK /\ LeaseKept /\ UniqueLease
IdsIInv     == LeasesExact /\ ElectionExact

\* The init script and the heartbeats elect a single creator as long as no
\* creator lets its own lease run out.
OneCreatorUnlessLapsed ==
    ~lapsed => \A i, j \in Insts : IsCreator(i) /\ IsCreator(j) => i = j
==============================================================================
