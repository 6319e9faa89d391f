------------------------------- MODULE ArpCache -------------------------------
(***************************************************************************)
(* ARPCache of src/include/arp_cache.h: the addresses of a link's          *)
(* neighbours, learnt from packets, aged, probed, failed over to backups   *)
(* and evicted.  The class has no lock; one thread calls it, and each call *)
(* is a step.                                                              *)
(*                                                                         *)
(* A time stamp is kept as the time since then, no further than the        *)
(* comparisons in its entry's state ask for.  LOG_ONLY does what DROP_NEW  *)
(* does, ALERT_SYSTEM what UPDATE_EXISTING does and LOG_AND_PROCESS what   *)
(* PROCESS does, but for messages.  No code puts an entry into DELAY or a  *)
(* packet into pending_packets, and resolve_proxy_arp only reads.          *)
(***************************************************************************)
EXTENDS Naturals, FiniteSets, SequencesExt, Lists, Maps, LinkLayer

CONSTANTS
    IPs,
    DeviceMac,              \* device_mac_
    ReachableTime,          \* reachable_time_sec_
    StaleTime,              \* stale_time_sec_
    RetransmitInterval,     \* probe_retransmit_interval_sec_
    MaxBackoff,             \* max_probe_backoff_interval_sec_
    FailedLifetime,         \* failed_entry_lifetime_sec_
    FlapWindow,             \* flap_detection_window_sec_
    MaxFlaps,               \* max_flaps_allowed_, at most 255
    GarpInterval,           \* gratuitous_arp_min_interval_ms_
    MaxProbes,              \* MAX_PROBES
    GarpPolicies,           \* the policies set_gratuitous_arp_policy is given
    Sizes,                  \* the sizes set_max_cache_size is given; 0: unlimited
    Claims,                 \* inputs: the pairs of address and MAC in packets
    Backups,                \* inputs: the pairs add_backup_mac is called with
    Subnet                  \* inputs: the addresses of a proxy subnet

AnyMac == Macs \cup {NoMac}

\* Nothing keeps the zero MAC out of packets, backups or the device.
ASSUME MacAssumption == DeviceMac \in AnyMac
ASSUME TimeAssumption == /\ {ReachableTime, StaleTime, RetransmitInterval} \subseteq Nat
                         /\ {MaxBackoff, FailedLifetime, FlapWindow} \subseteq Nat
                         /\ {GarpInterval, MaxProbes} \subseteq Nat
                         /\ MaxFlaps \in 1 .. 255 /\ Sizes \subseteq Nat
ASSUME InputAssumption == /\ GarpPolicies \subseteq
                                {"PROCESS", "RATE_LIMIT_AND_PROCESS", "DROP_IF_CONFLICT"}
                          /\ Claims \subseteq IPs \X AnyMac
                          /\ Backups \subseteq IPs \X AnyMac
                          /\ Subnet \subseteq IPs

VARIABLES
    cache,      \* cache_
    lru,        \* lru_tracker_, the most recently used first
    garpSeen,   \* gratuitous_arp_last_seen_
    maxSize,    \* max_cache_size_
    conflict,   \* conflict_policy_
    garp,       \* gratuitous_arp_policy_
    proxied     \* the addresses that proxy_subnets_ cover

config == <<maxSize, conflict, garp, proxied>>
vars   == <<cache, lru, garpSeen, config>>

States   == {"INCOMPLETE", "REACHABLE", "STALE", "PROBE", "FAILED"}
Policies == {"DROP_NEW", "UPDATE_EXISTING"}

Known == DOMAIN cache

Init == /\ cache = Empty /\ lru = <<>> /\ garpSeen = Empty
        /\ maxSize \in Sizes
        /\ conflict \in Policies /\ garp \in GarpPolicies
        /\ proxied = {}

\* An entry in its state, the counters of probing reset.
Enter(e, state) == [e EXCEPT !.state = state, !.age = 0, !.probes = 0, !.backoff = 0]

Entry(mac, state) == [mac |-> mac, state |-> state, age |-> 0, probes |-> 0,
                      backoff |-> 0, backups |-> <<>>, flaps |-> 0,
                      changed |-> IF state = "INCOMPLETE" THEN FlapWindow ELSE 0]

PromoteToMRU(ip) == lru' = <<ip>> \o Skipping(lru, {ip})
-----------------------------------------------------------------------------
(***************************************************************************)
(* Eviction and the packets that add_entry is called for.                  *)
(***************************************************************************)

\* A mutant: the search ends at the least recently used entry.
EvictedLast(entries, order, limit) ==
    LET oldest == order[Len(order)]
    IN  IF limit # 0 /\ Cardinality(DOMAIN entries) > limit
           /\ entries[oldest].state \notin {"INCOMPLETE", "PROBE"}
        THEN {oldest} ELSE {}

\* evictLRUEntries: the least recently used entries go that are not being
\* resolved or probed, as many as are too many, or as there are.
Evicted(entries, order, limit) ==
    LET idle == Skipping(order, {i \in DOMAIN entries :
                                    entries[i].state \in {"INCOMPLETE", "PROBE"}})
        size == Cardinality(DOMAIN entries)
        many == IF limit = 0 \/ size <= limit THEN 0 ELSE AtMost(size - limit, Len(idle))
    IN  {idle[n] : n \in Len(idle) - many + 1 .. Len(idle)}

Install(entries, order, seen, limit) ==
    LET gone == Evicted(entries, order, limit)
    IN  /\ cache' = Without(entries, gone)
        /\ lru' = Skipping(order, gone)
        /\ garpSeen' = Without(seen, gone)

DropConflict(ip, mac) == /\ garp = "DROP_IF_CONFLICT"
                         /\ ip \in Known
                         /\ cache[ip].mac \notin {mac, NoMac}
RateLimited(ip) == /\ garp = "RATE_LIMIT_AND_PROCESS"
                   /\ ip \in DOMAIN garpSeen
                   /\ garpSeen[ip] < GarpInterval

Confirmed(e) == [Enter(e, "REACHABLE") EXCEPT !.flaps = 0, !.changed = 0]

Moved(e, mac) ==
    LET flaps == IF e.changed < FlapWindow THEN AtMost(e.flaps + 1, MaxFlaps) ELSE 1
        state == IF flaps >= MaxFlaps THEN "STALE" ELSE "REACHABLE"
    IN  [Enter(e, state) EXCEPT !.mac = mac, !.flaps = flaps, !.changed = 0]

\* A mutant: an address that is known as stale is moved under either policy.
LearntOverStale(ip, mac) ==
    CASE ip \notin Known -> Entry(mac, "REACHABLE")
      [] ip \in Known /\ cache[ip].mac = mac -> Confirmed(cache[ip])
      [] ip \in Known /\ cache[ip].mac # mac ->
            IF conflict = "UPDATE_EXISTING" \/ cache[ip].state = "STALE"
            THEN Moved(cache[ip], mac) ELSE cache[ip]

Learnt(ip, mac) ==
    CASE ip \notin Known -> Entry(mac, "REACHABLE")
      [] ip \in Known /\ cache[ip].mac = mac -> Confirmed(cache[ip])
      [] ip \in Known /\ cache[ip].mac # mac ->
            IF conflict = "UPDATE_EXISTING" THEN Moved(cache[ip], mac) ELSE cache[ip]

AddEntry(ip, mac, gratuitous) ==
    /\ gratuitous => ~DropConflict(ip, mac) /\ ~RateLimited(ip)
    /\ Install(With(cache, ip, Learnt(ip, mac)),
               <<ip>> \o Skipping(lru, {ip}),
               IF gratuitous THEN With(garpSeen, ip, 0) ELSE garpSeen,
               maxSize)
    /\ UNCHANGED config

AddBackupMac(ip, mac) ==
    /\ ip \in Known
    /\ mac # cache[ip].mac /\ mac \notin ToSet(cache[ip].backups)
    /\ cache' = [cache EXCEPT ![ip].backups = Append(@, mac)]
    /\ UNCHANGED <<lru, garpSeen, config>>
-----------------------------------------------------------------------------
(***************************************************************************)
(* lookup.                                                                 *)
(***************************************************************************)

In(ip, state) == ip \in Known /\ cache[ip].state = state
Doubtful(ip) == ip \in Known /\ cache[ip].state \in {"STALE", "PROBE"}
Unresolved(ip) == ip \in Known => cache[ip].state = "INCOMPLETE"

LookupReachable(ip) ==
    /\ In(ip, "REACHABLE")
    /\ PromoteToMRU(ip)
    /\ UNCHANGED <<cache, garpSeen, config>>

\* The first backup takes over, and the old address becomes the last backup.
LookupFailover(ip) ==
    LET e    == cache[ip]
        rest == Tail(e.backups)
    IN  /\ Doubtful(ip) /\ e.backups # <<>>
        /\ cache' = [cache EXCEPT ![ip] =
               [Enter(e, "REACHABLE") EXCEPT
                    !.mac = Head(e.backups),
                    !.backups = IF e.mac = NoMac \/ e.mac \in ToSet(rest) THEN rest
                                ELSE Append(rest, e.mac)]]
        /\ PromoteToMRU(ip)
        /\ UNCHANGED <<garpSeen, config>>

LookupProxied(ip) ==
    /\ Unresolved(ip) /\ ip \in proxied
    /\ cache' = With(cache, ip,
          IF ip \in Known THEN [Confirmed(cache[ip]) EXCEPT !.mac = DeviceMac]
          ELSE Entry(DeviceMac, "REACHABLE"))
    /\ PromoteToMRU(ip)
    /\ UNCHANGED <<garpSeen, config>>

\* An ARP request is sent; nothing is evicted.  An unresolved entry starts
\* waiting anew.
LookupUnresolved(ip) ==
    /\ Unresolved(ip) /\ ip \notin proxied
    /\ cache' = With(cache, ip, IF ip \in Known THEN [cache[ip] EXCEPT !.age = 0]
                                ELSE Entry(NoMac, "INCOMPLETE"))
    /\ PromoteToMRU(ip)
    /\ UNCHANGED <<garpSeen, config>>
-----------------------------------------------------------------------------
(***************************************************************************)
(* Time, age_entries, and the other calls.                                 *)
(***************************************************************************)

RefreshTime == (ReachableTime * 9) \div 10
Wait(e)     == AtMost(RetransmitInterval * 2 ^ e.backoff, MaxBackoff)

\* The age at which age_entries acts on an entry at the latest.
Limit(e) == CASE e.state = "REACHABLE" -> ReachableTime
              [] e.state = "STALE" -> StaleTime
              [] e.state \in {"INCOMPLETE", "PROBE"} -> Wait(e)
              [] e.state = "FAILED" -> FailedLifetime

Tick == /\ cache' = [ip \in Known |->
               [cache[ip] EXCEPT !.age = AtMost(@ + 1, Limit(cache[ip])),
                                 !.changed = AtMost(@ + 1, FlapWindow)]]
        /\ garpSeen' = [ip \in DOMAIN garpSeen |-> AtMost(garpSeen[ip] + 1, GarpInterval)]
        /\ UNCHANGED <<lru, config>>

Settled(e)  == [e EXCEPT !.flaps = 0, !.changed = FlapWindow]

\* A mutant: a probe is sent again and nothing counted.
ProbedForEver(e) == [e EXCEPT !.age = 0]

\* The next probe of an entry in INCOMPLETE or PROBE, or the end of probing.
Probed(e) ==
    IF e.probes < MaxProbes
    THEN [e EXCEPT !.probes = @ + 1, !.age = 0, !.backoff = AtMost(@ + 1, 30)]
    ELSE IF e.backups # <<>>
         THEN [Confirmed(e) EXCEPT !.mac = Head(e.backups), !.backups = Tail(e.backups)]
         ELSE Settled(Enter(e, "FAILED"))

Aged(e) ==
    CASE e.state = "REACHABLE" ->
            IF e.age >= ReachableTime THEN [e EXCEPT !.state = "STALE", !.age = 0]
            ELSE IF e.age >= RefreshTime THEN Enter(e, "PROBE") ELSE e
      [] e.state = "STALE" -> IF e.age >= StaleTime THEN Settled(Enter(e, "PROBE")) ELSE e
      [] e.state \in {"INCOMPLETE", "PROBE"} -> IF e.age >= Wait(e) THEN Probed(e) ELSE e
      [] e.state = "FAILED" -> e

\* All entries are aged; those that begin a probe or fail over are promoted, in
\* the order of the hash table.
AgeEntries ==
    LET purged   == {ip \in Known : In(ip, "FAILED") /\ cache[ip].age >= FailedLifetime}
        promoted == {ip \in Known : /\ Aged(cache[ip]).state \in {"PROBE", "REACHABLE"}
                                    /\ Aged(cache[ip]).state # cache[ip].state}
        others   == Skipping(lru, purged \cup promoted)
    IN  /\ cache' = [ip \in Known \ purged |-> Aged(cache[ip])]
        /\ \E order \in SetToSeqs(promoted) : lru' = order \o others
        /\ garpSeen' = Without(garpSeen, purged)
        /\ UNCHANGED config

SetMaxCacheSize(size) == /\ maxSize' = size
                         /\ Install(cache, lru, garpSeen, size)
                         /\ UNCHANGED <<conflict, garp, proxied>>

SetPolicies(c, g) == /\ conflict' = c /\ garp' = g
                     /\ UNCHANGED <<cache, lru, garpSeen, maxSize, proxied>>

AddProxySubnet(ips) == /\ proxied' = proxied \cup ips
                       /\ UNCHANGED <<cache, lru, garpSeen, maxSize, conflict, garp>>

\* A mutant: the times of gratuitous packets outlive the link.
LinkDownKeepsTimes == /\ cache' = Empty /\ lru' = <<>>
                      /\ UNCHANGED <<garpSeen, config>>

HandleLinkDown == /\ cache' = Empty /\ lru' = <<>> /\ garpSeen' = Empty
                  /\ UNCHANGED config

Lookup(ip) == \/ LookupReachable(ip) \/ LookupFailover(ip)
              \/ LookupProxied(ip) \/ LookupUnresolved(ip)

Next == \/ \E c \in Claims, g \in BOOLEAN : AddEntry(c[1], c[2], g)
        \/ \E c \in Backups : AddBackupMac(c[1], c[2])
        \/ \E ip \in IPs : Lookup(ip)
        \/ Tick \/ AgeEntries
        \/ \E size \in Sizes : SetMaxCacheSize(size)
        \/ \E c \in Policies, g \in GarpPolicies : SetPolicies(c, g)
        \/ AddProxySubnet(Subnet)
        \/ HandleLinkDown

Spec == Init /\ [][Next]_vars

\* Time passes, and the program ages its entries now and then.
FairSpec == Spec /\ WF_vars(Tick) /\ WF_vars(AgeEntries)
-----------------------------------------------------------------------------
(***************************************************************************)
(* Properties.                                                             *)
(***************************************************************************)

Entries == [mac : AnyMac, state : States, age : Nat, probes : 0 .. MaxProbes,
            backoff : 0 .. 30, backups : Seq(AnyMac), flaps : Nat, changed : Nat]

TypeOK == /\ cache \in [Known -> Entries] /\ Known \subseteq IPs
          /\ lru \in Seq(IPs)
          /\ garpSeen \in [DOMAIN garpSeen -> Nat]
          /\ maxSize \in Sizes /\ conflict \in Policies /\ garp \in GarpPolicies
          /\ proxied \subseteq Subnet

\* The MACs that packets, backups and the proxy give for an address, the zero
\* one among them if it was given
Named == [ip \in IPs |->
             {mac \in AnyMac : \/ <<ip, mac>> \in Claims \cup Backups
                               \/ ip \in Subnet /\ mac = DeviceMac}]

ListExact == IsInjective(lru) /\ ToSet(lru) = Known

EntryExact(ip, e) ==
    /\ e.state \in {"REACHABLE", "STALE", "PROBE"} => e.mac \in Named[ip]
    /\ e.state = "INCOMPLETE" => e.mac = NoMac
    /\ e.backups \in Seq(Named[ip]) /\ IsInjective(e.backups)
    /\ e.backoff = AtMost(e.probes, 30)
    /\ e.state \notin {"INCOMPLETE", "PROBE"} => e.probes = 0

\* The LRU list names exactly the cached addresses, each once, so that eviction
\* always finds its victim; nothing is remembered of gratuitous packets for an
\* address that has left the cache.  Through takeovers, moves and failovers, what
\* lookup may answer with is a MAC that was given for this very address, never
\* the blank of an entry that was still unresolved; no backup is listed twice;
\* and probing starts afresh: its counters count this round alone.
IInv == /\ TypeOK /\ ListExact
        /\ DOMAIN garpSeen \subseteq Known
        /\ \A ip \in Known : EntryExact(ip, cache[ip])

Overfull == maxSize # 0 /\ Cardinality(Known) > maxSize
Evicts   == \/ \E c \in Claims, g \in BOOLEAN : AddEntry(c[1], c[2], g)
            \/ \E size \in Sizes : SetMaxCacheSize(size)

\* A packet, for a known or a new address, and a new limit leave no more entries
\* than the limit, unless all that are left are being resolved or probed (then
\* even the address just learnt is gone), and evict no more than are too many.
\* Only a lookup of an unknown address lets the cache grow past its limit.
OverfullOnlyUnresolved ==
    [][/\ Overfull' /\ Evicts =>
              \A ip \in Known' : cache'[ip].state \in {"INCOMPLETE", "PROBE"}
       /\ Known \ Known' # {} /\ Evicts => Cardinality(Known') >= maxSize'
       /\ Overfull' /\ Known' \ Known # {} =>
              \E ip \in IPs : LookupProxied(ip) \/ LookupUnresolved(ip)]_vars

\* Under DROP_NEW no packet moves an address: its MAC changes only when a
\* backup takes over, a proxy answers, or the entry goes.
KeptUnderDropNew ==
    [][\A ip \in Known \cap Known' :
          conflict = "DROP_NEW" /\ cache'[ip].mac # cache[ip].mac =>
              \/ cache[ip].backups # <<>> /\ cache'[ip].mac = Head(cache[ip].backups)
              \/ ip \in proxied /\ cache'[ip].mac = DeviceMac]_vars

\* Probing ends: an entry in PROBE becomes reachable, fails or goes, whoever
\* looks it up meanwhile; and so does one in INCOMPLETE whose address nobody
\* looks up for ever, as each lookup starts its waiting time anew.
ProbingEnds ==
    \A ip \in IPs :
        /\ []<>~In(ip, "PROBE")
        /\ <>[][~LookupUnresolved(ip)]_vars => <>[]~In(ip, "INCOMPLETE")
=============================================================================
