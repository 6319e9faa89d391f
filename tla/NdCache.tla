-------------------------------- MODULE NdCache --------------------------------
(***************************************************************************)
(* NDCache of src/include/nd_cache.h: the neighbours of an IPv6 host, its  *)
(* default routers, the prefixes it hears of and the addresses it makes of *)
(* them, each checked for duplicates (DAD) before it counts as its own.    *)
(* The class has no lock: every call is one step.                          *)
(*                                                                         *)
(* A time stamp is kept as the time since then, no further than the code   *)
(* compares it, and a lifetime with its owner.  is_router, on_link of a    *)
(* prefix in the list, preferred lifetimes and the MACs of routers are     *)
(* written and never read; nothing puts a packet into pending_packets.     *)
(* dad_in_progress_ never holds an address twice and is a function.        *)
(***************************************************************************)
EXTENDS Naturals, Sequences, SequencesExt, Maps, LinkLayer

CONSTANTS
    LinkLocal,              \* link_local_address_
    Nets,                   \* a prefix is its bits and its length
    NoAddress,              \* all zero
    DefaultReachableTime,   \* DEFAULT_REACHABLE_TIME
    DelayTime,              \* DELAY_FIRST_PROBE_TIME
    RetransTime,            \* RETRANS_TIMER
    MaxMulticast,           \* MAX_MULTICAST_SOLICIT
    MaxUnicast,             \* MAX_UNICAST_SOLICIT
    Generated,              \* the address made of each prefix, NoAddress unless
                            \* the length is 64
    Hosts,                  \* inputs: the addresses that are looked up
    NdEntries,              \* inputs: what add_entry is called with
    NdBackups,              \* inputs: the pairs add_backup_mac is called with
    RouterAdverts,          \* inputs: router advertisements
    Adverts,                \* inputs: neighbour advertisements
    Checked                 \* inputs: the addresses start_dad is called with

NdStates == {"INCOMPLETE", "REACHABLE", "STALE", "DELAY", "PROBE", "PERMANENT"}
OwnAddresses == ({LinkLocal} \cup {Generated[p] : p \in Nets}) \ {NoAddress}

ASSUME AddressAssumption ==
    /\ NoAddress # LinkLocal /\ Checked \subseteq OwnAddresses
    /\ \A p, q \in Nets : Generated[p] = Generated[q] => p = q \/ Generated[p] = NoAddress
ASSUME NdTimeAssumption ==
    {DefaultReachableTime, DelayTime, RetransTime, MaxMulticast, MaxUnicast} \subseteq Nat \ {0}

\* A caller of add_entry names no backup twice.
ASSUME NdInputAssumption ==
    /\ \A e \in NdEntries : /\ e.mac \in Macs \cup {NoMac} /\ e.state \in NdStates
                            /\ e.backups \in Seq(Macs) /\ IsInjective(e.backups)
    /\ \A b \in NdBackups : b[2] \in Macs
    /\ \A na \in Adverts : na.mac \in Macs \cup {NoMac}
    /\ \A ra \in RouterAdverts :
          /\ ra.mac \in Macs \cup {NoMac} /\ ra.lifetime \in Nat
          /\ ra.prefixes \in Seq([prefix : Nets, onLink : BOOLEAN, autonomous : BOOLEAN,
                                  valid : Nat])

VARIABLES
    neighbors,      \* cache_
    routers,        \* default_routers_
    prefixes,       \* prefix_list_
    dad,            \* dad_in_progress_
    linkLocalDone,  \* link_local_dad_completed_
    clashed         \* history: addresses another node claimed during their last DAD

ndVars == <<neighbors, routers, prefixes, dad, linkLocalDone, clashed>>

NdIn(ip, state) == ip \in DOMAIN neighbors /\ neighbors[ip].state = state

FreshDad == [probes |-> 0, wait |-> 0]

\* The constructor starts DAD of the link-local address.
NdInit == /\ neighbors = Empty /\ routers = Empty /\ prefixes = Empty
          /\ dad = With(Empty, LinkLocal, FreshDad)
          /\ linkLocalDone = FALSE /\ clashed = {}
-----------------------------------------------------------------------------
(***************************************************************************)
(* The neighbour cache.                                                    *)
(***************************************************************************)

NdEnter(e, state) == [e EXCEPT !.state = state, !.age = 0, !.probes = 0]

\* add_entry: a permanent entry stays one.
Added(entries, ip, mac, state, backups) ==
    LET kept == ip \in DOMAIN entries /\ entries[ip].state = "PERMANENT"
    IN  With(entries, ip, [mac |-> mac, state |-> IF kept THEN "PERMANENT" ELSE state,
                           age |-> 0, probes |-> 0, backups |-> backups])

NdAddEntry(e) == /\ neighbors' = Added(neighbors, e.ip, e.mac, e.state, e.backups)
                 /\ UNCHANGED <<routers, prefixes, dad, linkLocalDone, clashed>>

RemoveEntry(ip) == /\ ip \in DOMAIN neighbors
                   /\ neighbors' = Without(neighbors, {ip})
                   /\ UNCHANGED <<routers, prefixes, dad, linkLocalDone, clashed>>

NdAddBackupMac(ip, mac) ==
    /\ ip \in DOMAIN neighbors
    /\ mac # neighbors[ip].mac /\ mac \notin ToSet(neighbors[ip].backups)
    /\ neighbors' = [neighbors EXCEPT ![ip].backups = Append(@, mac)]
    /\ UNCHANGED <<routers, prefixes, dad, linkLocalDone, clashed>>

\* The first backup takes over; the old address becomes the last backup.
FailedOver(e) ==
    LET rest == Tail(e.backups)
    IN  [NdEnter(e, "REACHABLE") EXCEPT
            !.mac = Head(e.backups),
            !.backups = IF e.mac = NoMac \/ e.mac \in ToSet(rest) THEN rest
                        ELSE Append(rest, e.mac)]

LookedUp(e) ==
    CASE e.state \in {"REACHABLE", "PERMANENT"} -> [e EXCEPT !.age = 0]
      [] e.state \in {"STALE", "DELAY", "PROBE"} /\ e.backups # <<>> -> FailedOver(e)
      [] e.state = "STALE" /\ e.backups = <<>> -> [e EXCEPT !.state = "DELAY", !.age = 0]
      [] OTHER -> e

NdLookup(ip) ==
    /\ neighbors' = IF ip \in DOMAIN neighbors THEN [neighbors EXCEPT ![ip] = LookedUp(@)]
                    ELSE Added(neighbors, ip, NoMac, "INCOMPLETE", <<>>)
    /\ UNCHANGED <<routers, prefixes, dad, linkLocalDone, clashed>>

\* process_neighbor_advertisement for a known address
Advertised(e, na) ==
    LET moved == na.mac # e.mac
    IN  CASE e.state = "INCOMPLETE" ->
                [e EXCEPT !.mac = na.mac, !.age = 0,
                          !.state = IF na.solicited THEN "REACHABLE" ELSE "STALE"]
          [] e.state # "INCOMPLETE" /\ moved /\ ~na.override ->
                [e EXCEPT !.state = IF @ = "REACHABLE" THEN "STALE" ELSE @]
          [] e.state # "INCOMPLETE" /\ (na.override \/ ~moved) ->
                IF na.solicited
                THEN [e EXCEPT !.mac = na.mac, !.state = "REACHABLE", !.age = 0]
                ELSE [e EXCEPT !.mac = na.mac]

NeighborAdvertisement(na) ==
    /\ na.target \notin DOMAIN dad
    /\ neighbors' = IF na.target \in DOMAIN neighbors
                    THEN [neighbors EXCEPT ![na.target] = Advertised(@, na)]
                    ELSE IF na.mac # NoMac
                    THEN Added(neighbors, na.target, na.mac, "STALE", <<>>)
                    ELSE neighbors
    /\ UNCHANGED <<routers, prefixes, dad, linkLocalDone, clashed>>
-----------------------------------------------------------------------------
(***************************************************************************)
(* Addresses and their DAD.                                                *)
(***************************************************************************)

Assigned(list, a) == {p \in DOMAIN list : list[p].address = a}
Done(list, a)     == \/ a = LinkLocal /\ linkLocalDone
                     \/ \E p \in Assigned(list, a) : list[p].done

\* start_dad begins, or returns false.
MayStart(s, a) == a \notin DOMAIN s.dad /\ ~Done(s.prefixes, a)
Started(s, a)  == [s EXCEPT !.dad = With(@, a, FreshDad), !.clashed = @ \ {a}]

Tables == [neighbors |-> neighbors, prefixes |-> prefixes, dad |-> dad, clashed |-> clashed]
Assign(s) == /\ neighbors' = s.neighbors /\ prefixes' = s.prefixes
             /\ dad' = s.dad /\ clashed' = s.clashed

StartDad(a) == MayStart(Tables, a) /\ Assign(Started(Tables, a))
                                  /\ UNCHANGED <<routers, linkLocalDone>>

\* A mutant: the address stays with the prefix when its DAD may not start.
ConfiguredAnyway(s, p) ==
    LET addr        == Generated[p]
        given(held) == [s EXCEPT !.prefixes[p] = [@ EXCEPT !.address = held, !.done = FALSE]]
    IN  IF addr = NoAddress THEN s
        ELSE IF MayStart(given(addr), addr) THEN Started(given(addr), addr)
        ELSE given(addr)

\* configure_address_slaac of a prefix in the list
Configured(s, p) ==
    LET addr        == Generated[p]
        given(held) == [s EXCEPT !.prefixes[p] = [@ EXCEPT !.address = held, !.done = FALSE]]
    IN  IF addr = NoAddress THEN s
        ELSE IF MayStart(given(addr), addr) THEN Started(given(addr), addr)
        ELSE given(NoAddress)

ConfigureAddressSlaac(p) == /\ p \in DOMAIN prefixes
                            /\ Assign(Configured(Tables, p))
                            /\ UNCHANGED <<routers, linkLocalDone>>

\* process_router_advertisement, one prefix of it
Withdrawn(s, p) ==
    IF p \notin DOMAIN s.prefixes THEN s
    ELSE [s EXCEPT !.prefixes = Without(@, {p}),
                   !.neighbors = Without(@, {s.prefixes[p].address})]

Refreshed(s, info) ==
    LET p    == info.prefix
        old  == IF p \in DOMAIN s.prefixes THEN s.prefixes[p]
                ELSE [address |-> NoAddress, done |-> FALSE]
        kept == [s EXCEPT !.prefixes = With(@, p, [valid |-> info.valid, age |-> 0,
                                                   address |-> old.address,
                                                   done |-> old.done])]
    IN  IF info.autonomous /\ old.address = NoAddress THEN Configured(kept, p) ELSE kept

LearntPrefix(s, info) ==
    IF ~info.onLink /\ ~info.autonomous THEN s
    ELSE IF info.valid = 0 THEN Withdrawn(s, info.prefix)
    ELSE Refreshed(s, info)

\* All of them, in the order of the message
LearntPrefixes(s, infos) ==
    LET learnt[n \in 0 .. Len(infos)] ==
            IF n = 0 THEN s ELSE LearntPrefix(learnt[n - 1], infos[n])
    IN  learnt[Len(infos)]

\* process_router_advertisement, the router
LearntRouter(ra) ==
    IF ra.lifetime = 0 \/ (ra.source \in DOMAIN routers /\ ra.mac = NoMac) THEN neighbors
    ELSE Added(neighbors, ra.source, ra.mac,
               IF ra.mac = NoMac THEN "INCOMPLETE" ELSE "REACHABLE", <<>>)

RouterAdvertisement(ra) ==
    /\ routers' = IF ra.lifetime = 0 THEN Without(routers, {ra.source})
                  ELSE With(routers, ra.source, [lifetime |-> ra.lifetime, age |-> 0])
    /\ Assign(LearntPrefixes([Tables EXCEPT !.neighbors = LearntRouter(ra)], ra.prefixes))
    /\ UNCHANGED linkLocalDone

\* process_neighbor_solicitation or _advertisement for an address in DAD: the
\* address is given up and its DAD goes on.  (For another address, a
\* solicitation is at most answered.)
DadConflict(a) ==
    /\ a \in DOMAIN dad
    /\ linkLocalDone' = (linkLocalDone /\ a # LinkLocal)
    /\ prefixes' = [p \in DOMAIN prefixes |->
           IF a # LinkLocal /\ p \in Assigned(prefixes, a)
           THEN [prefixes[p] EXCEPT !.address = NoAddress, !.done = FALSE]
           ELSE prefixes[p]]
    /\ clashed' = clashed \cup {a}
    /\ UNCHANGED <<neighbors, routers, dad>>
-----------------------------------------------------------------------------
(***************************************************************************)
(* Time and age_entries.                                                   *)
(***************************************************************************)

NdLimit(e) == CASE e.state = "REACHABLE" -> DefaultReachableTime
              [] e.state = "DELAY" -> DelayTime
              [] e.state \in {"INCOMPLETE", "PROBE"} -> RetransTime
              [] e.state \in {"STALE", "PERMANENT"} -> 0

NdTick ==
    /\ neighbors' = [ip \in DOMAIN neighbors |->
           [neighbors[ip] EXCEPT !.age = AtMost(@ + 1, NdLimit(neighbors[ip]))]]
    /\ routers' = [r \in DOMAIN routers |->
                      [routers[r] EXCEPT !.age = AtMost(@ + 1, routers[r].lifetime + 1)]]
    /\ prefixes' = [p \in DOMAIN prefixes |->
                      [prefixes[p] EXCEPT !.age = AtMost(@ + 1, prefixes[p].valid + 1)]]
    /\ dad' = [a \in DOMAIN dad |-> [dad[a] EXCEPT !.wait = IF @ = 0 THEN 0 ELSE @ - 1]]
    /\ UNCHANGED <<linkLocalDone, clashed>>

NdProbed(e) == [e EXCEPT !.probes = @ + 1, !.age = 0]

\* An INCOMPLETE or PROBE entry whose time is up and whose probes are all sent
Exhausted(e) == /\ e.state \in {"INCOMPLETE", "PROBE"} /\ e.age >= RetransTime
                /\ e.probes >= IF e.state = "PROBE" THEN MaxUnicast ELSE MaxMulticast

NdAged(e) ==
    CASE Exhausted(e) ->
            IF e.state = "PROBE" THEN FailedOver(e)
            ELSE [FailedOver(e) EXCEPT !.backups = Tail(e.backups)]
      [] ~Exhausted(e) /\ e.age >= NdLimit(e) ->
            CASE e.state \in {"INCOMPLETE", "PROBE"} -> NdProbed(e)
              [] e.state = "REACHABLE" -> [e EXCEPT !.state = "STALE", !.age = 0]
              [] e.state = "DELAY" -> NdEnter(e, "PROBE")
              [] OTHER -> e
      [] OTHER -> e

\* A mutant: the probes of a DAD are not counted.
DadProbedForEver(d) == [d EXCEPT !.wait = RetransTime]

DadProbed(d) == [d EXCEPT !.probes = @ + 1, !.wait = RetransTime]

\* The last probe of a DAD has been sent and its time is over.
DadDone(a) == dad[a].wait = 0 /\ dad[a].probes = MaxMulticast

\* age_entries: neighbours, routers, prefixes, and then DAD: a probe, or success
\* for the address, if the prefix it was made of is still there.
NdAgeEntries ==
    LET gone   == {ip \in DOMAIN neighbors : /\ Exhausted(neighbors[ip])
                                              /\ neighbors[ip].backups = <<>>}
        alive  == {p \in DOMAIN prefixes : prefixes[p].age <= prefixes[p].valid}
        passed == {a \in DOMAIN dad : DadDone(a)}
    IN  /\ neighbors' = [ip \in DOMAIN neighbors \ gone |-> NdAged(neighbors[ip])]
        /\ routers' = Without(routers,
                          {r \in DOMAIN routers : routers[r].age > routers[r].lifetime})
        /\ prefixes' = [p \in alive |->
               [prefixes[p] EXCEPT !.done = @ \/ prefixes[p].address \in passed \ {LinkLocal}]]
        /\ dad' = [a \in DOMAIN dad \ passed |->
               IF dad[a].wait = 0 THEN DadProbed(dad[a]) ELSE dad[a]]
        /\ linkLocalDone' = (linkLocalDone \/ LinkLocal \in passed)
        /\ UNCHANGED clashed

NdNext == \/ \E e \in NdEntries : NdAddEntry(e)
          \/ \E ip \in Hosts : NdLookup(ip) \/ RemoveEntry(ip)
          \/ \E b \in NdBackups : NdAddBackupMac(b[1], b[2])
          \/ \E na \in Adverts : NeighborAdvertisement(na)
          \/ \E ra \in RouterAdverts : RouterAdvertisement(ra)
          \/ \E a \in OwnAddresses : DadConflict(a)
          \/ \E a \in Checked : StartDad(a)
          \/ \E p \in Nets : ConfigureAddressSlaac(p)
          \/ NdTick \/ NdAgeEntries

NdSpec == NdInit /\ [][NdNext]_ndVars

\* Time passes, and the program ages its entries now and then.
NdFairSpec == NdSpec /\ WF_ndVars(NdTick) /\ WF_ndVars(NdAgeEntries)
-----------------------------------------------------------------------------
(***************************************************************************)
(* Properties.                                                             *)
(***************************************************************************)

\* An address made of a prefix is in DAD or done and never both, and so is the
\* link-local address; an address that another node claimed during its DAD is
\* not taken for an own one on account of a prefix until its DAD starts anew.
\* No prefix gives the link-local address a second life.
DadExact ==
    /\ linkLocalDone <=> LinkLocal \notin DOMAIN dad
    /\ \A p \in DOMAIN prefixes :
          LET own == prefixes[p].address
          IN  own # NoAddress => /\ own = Generated[p] /\ own # LinkLocal
                                 /\ prefixes[p].done <=> own \notin DOMAIN dad
                                 /\ own \notin clashed

\* No more probes are sent than the state they are sent in allows.
Neighbor == [mac : Macs \cup {NoMac}, state : NdStates, age : Nat, probes : Nat,
             backups : Seq(Macs)]
NeighborOK(e) == /\ e \in Neighbor /\ IsInjective(e.backups)
                 /\ e.state = "INCOMPLETE" => e.probes <= MaxMulticast
                 /\ e.state = "PROBE" => e.probes <= MaxUnicast

NdTypeOK ==
    /\ neighbors \in [DOMAIN neighbors -> Neighbor]
    /\ \A ip \in DOMAIN neighbors : NeighborOK(neighbors[ip])
    /\ routers \in [DOMAIN routers -> [lifetime : Nat, age : Nat]]
    /\ prefixes \in [DOMAIN prefixes -> [valid : Nat, age : Nat, done : BOOLEAN,
                                         address : OwnAddresses \cup {NoAddress}]]
    /\ DOMAIN prefixes \subseteq Nets
    /\ dad \in [DOMAIN dad -> [probes : 0 .. MaxMulticast, wait : 0 .. RetransTime]]
    /\ DOMAIN dad \subseteq OwnAddresses
    /\ linkLocalDone \in BOOLEAN
    /\ clashed \subseteq OwnAddresses

NdIInv == NdTypeOK /\ DadExact

\* No address counts as the host's own when another node claimed it during DAD.
ConflictHolds == \A a \in clashed : ~Done(prefixes, a)
==============================================================================
