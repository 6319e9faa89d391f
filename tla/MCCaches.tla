------------------------------- MODULE MCCaches -------------------------------
(* Three caches, each on its own.  ARPCache: two addresses, and room for one   *)
(* or no limit; a host claims the first, which has a backup, some packets give *)
(* it the zero MAC, and a proxy answers for the second.  NDCache: a router     *)
(* that may give its MAC, have a backup and move; a prefix that gives an       *)
(* address, one whose address is the link-local one, and one too short to give *)
(* any.  ThreadSafeCache: three keys out of four, under each policy.           *)
EXTENDS ArpCache, NdCache, ThreadSafeCache, TLC

VARIABLE subject      \* which cache this behaviour is about

CONSTANTS a, b, m, n

ClaimsOfOne == {<<a, m>>, <<a, NoMac>>}
BackupOfOne == {<<a, m>>}
-----------------------------------------------------------------------------
CONSTANTS router, global, whole, local, short

AddressOf == whole :> global @@ local :> LinkLocal @@ short :> NoAddress

NewEntry(mac, state, backups) ==
    [ip |-> router, mac |-> mac, state |-> state, backups |-> backups]

SomeEntries == {NewEntry(m, "INCOMPLETE", <<n>>), NewEntry(m, "STALE", <<>>),
                NewEntry(m, "PERMANENT", <<>>)}

Answer(mac, solicited, override) ==
    [target |-> router, mac |-> mac, solicited |-> solicited, override |-> override]

SomeAnswers == {Answer(n, TRUE, TRUE), Answer(m, FALSE, FALSE), Answer(n, FALSE, TRUE)}

Info(net, onLink, autonomous, valid) ==
    [prefix |-> net, onLink |-> onLink, autonomous |-> autonomous, valid |-> valid]

Advert(mac, lifetime, infos) ==
    [source |-> router, mac |-> mac, lifetime |-> lifetime, prefixes |-> infos]

\* The last one withdraws: the router, and two prefixes, known or not.
SomeAdverts ==
    {Advert(m, 1, <<Info(whole, TRUE, TRUE, 1), Info(local, FALSE, TRUE, 1),
                    Info(short, TRUE, TRUE, 1)>>),
     Advert(NoMac, 1, <<>>),
     Advert(NoMac, 0, <<Info(short, TRUE, FALSE, 0), Info(whole, FALSE, FALSE, 0),
                        Info(whole, TRUE, FALSE, 0)>>)}

Backup == {<<router, n>>}
-----------------------------------------------------------------------------
\* A cache whose keys have all been used as often as the bound allows rests.
CachesNext ==
    \/ subject = "arp"  /\ Next   /\ UNCHANGED <<ndVars, entryVars, subject>>
    \/ subject = "nd"   /\ NdNext /\ UNCHANGED <<vars, entryVars, subject>>
    \/ subject = "keys" /\ EntriesNext /\ UNCHANGED <<vars, ndVars, subject>>

\* A cache that a behaviour is not about is one that nobody calls.
Idle     == conflict = "DROP_NEW" /\ garp = "DROP_IF_CONFLICT" /\ maxSize = 0
IdleKeys == policy = "LRU"

CachesInit == /\ Init /\ NdInit /\ EntriesInit
              /\ \/ subject = "arp"  /\ IdleKeys
                 \/ subject = "nd"   /\ IdleKeys /\ Idle
                 \/ subject = "keys" /\ Idle

\* The subscripts name all that these steps change.
CachesSpec == /\ CachesInit
              /\ [][CachesNext]_<<vars, ndVars, entryVars, subject>>
              /\ WF_<<cache, garpSeen>>(subject = "arp" /\ Tick)
              /\ WF_<<cache, garpSeen>>(subject = "arp" /\ AgeEntries)
              /\ WF_<<neighbors, routers, prefixes, dad>>(subject = "nd" /\ NdTick)
              /\ WF_ndVars(subject = "nd" /\ NdAgeEntries)

\* Doubt ends: an entry in DELAY or PROBE becomes reachable or goes, whatever
\* lookups and advertisements come meanwhile; and every DAD ends, if the
\* behaviour is about NDCache (in the others nobody starts its clock).
NdDoubtEnds ==
    /\ \A ip \in Hosts : []<>~(NdIn(ip, "DELAY") \/ NdIn(ip, "PROBE"))
    /\ \A ip \in OwnAddresses : []<>(subject = "nd" => ip \notin DOMAIN dad)
===============================================================================
