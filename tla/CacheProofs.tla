------------------------------ MODULE CacheProofs ------------------------------
(***************************************************************************)
(* Proofs about the three caches of MCCaches.  ArpCache, for any           *)
(* addresses, times, limits and inputs: its inductive invariant, that      *)
(* DROP_NEW keeps a MAC, and that eviction keeps to its limit.  NdCache,   *)
(* for any neighbours, prefixes, times and advertisements: its inductive   *)
(* invariant, that each own address is in DAD or done and never both.      *)
(* ThreadSafeCache, for any keys, values and capacity: that its lists are  *)
(* exactly those of its history, and that it implements BoundedCache.      *)
(***************************************************************************)
EXTENDS ArpCache, NdCache, ThreadSafeCache, ListProofs

(***************************************************************************)
(* Entries: what IInv says of each is kept by all that is done to one.     *)
(***************************************************************************)

SoundEntry(ip, e) == e \in Entries /\ EntryExact(ip, e)

LEMMA NamedMacs == \A ip \in IPs : Named[ip] \subseteq AnyMac
BY DEF Named

\* A power of two that a probe's back-off shifts by is a number.
LEMMA Shifted == \A b \in 0 .. 30 : 2 ^ b \in Nat
<1> DEFINE P(b) == 2 ^ b \in Nat
<1>1. /\ P(0)  /\ P(1)  /\ P(2)  /\ P(3)  /\ P(4)  /\ P(5)  /\ P(6)  /\ P(7)
      /\ P(8)  /\ P(9)  /\ P(10) /\ P(11) /\ P(12) /\ P(13) /\ P(14) /\ P(15)
      /\ P(16) /\ P(17) /\ P(18) /\ P(19) /\ P(20) /\ P(21) /\ P(22) /\ P(23)
      /\ P(24) /\ P(25) /\ P(26) /\ P(27) /\ P(28) /\ P(29) /\ P(30)
  OBVIOUS
<1> HIDE DEF P
<1>2. \A b \in 0 .. 30 : P(b)
  BY <1>1
<1> QED
  BY <1>2 DEF P

LEMMA Capped ==
    ASSUME NEW n \in Nat, NEW limit \in Nat
    PROVE  AtMost(n, limit) \in 0 .. limit
BY DEF AtMost

LEMMA CappedNat == \A n, limit \in Nat : AtMost(n, limit) \in Nat
BY DEF AtMost

\* The back-off of the first probe, and of the next.
LEMMA BackedOff == /\ AtMost(0, 30) = 0
                   /\ \A p \in Nat : /\ AtMost(AtMost(p, 30) + 1, 30) = AtMost(p + 1, 30)
                                     /\ AtMost(p, 30) \in 0 .. 30
BY DEF AtMost

LEMMA Times == /\ ReachableTime \in Nat /\ StaleTime \in Nat /\ RetransmitInterval \in Nat
               /\ MaxBackoff \in Nat /\ FailedLifetime \in Nat /\ FlapWindow \in Nat
               /\ GarpInterval \in Nat /\ MaxProbes \in Nat /\ MaxFlaps \in Nat \ {0}
BY TimeAssumption

\* A new entry.
LEMMA SoundNew ==
    ASSUME NEW ip \in IPs, NEW mac, NEW state \in States,
           \/ mac \in Named[ip] /\ state # "INCOMPLETE"
           \/ mac = NoMac /\ state = "INCOMPLETE"
    PROVE  SoundEntry(ip, Entry(mac, state)) /\ Entry(mac, state).mac = mac
<1> DEFINE e == Entry(mac, state)
<1>1. mac \in AnyMac /\ <<>> \in Seq(AnyMac)
  BY NamedMacs DEF AnyMac
<1>2. e \in Entries
  BY <1>1, Times DEF Entries, Entry
<1>3. /\ e.state = state /\ e.mac = mac /\ e.backups = <<>>
      /\ e.probes = 0 /\ e.backoff = 0
  BY DEF Entry
<1>4. e.backups \in Seq(Named[ip]) /\ IsInjective(e.backups)
  BY <1>3 DEF IsInjective
<1> HIDE DEF e
<1>5. EntryExact(ip, e)
  BY <1>3, <1>4, BackedOff DEF EntryExact, States
<1> QED
  BY <1>2, <1>3, <1>5 DEF SoundEntry, e

\* An entry in a new state, with a MAC and backups that may be new.
LEMMA SoundEnter ==
    ASSUME NEW ip \in IPs, NEW e, SoundEntry(ip, e), NEW state \in States \ {"INCOMPLETE"},
           state # "FAILED" => e.mac \in Named[ip]
    PROVE  /\ SoundEntry(ip, Enter(e, state))
           /\ Enter(e, state).mac = e.mac /\ Enter(e, state).state = state
<1>1. Enter(e, state) \in Entries
  <2>1. state \in States /\ 0 \in 0 .. MaxProbes /\ 0 \in 0 .. 30 /\ 0 \in Nat
    BY Times
  <2> QED
    BY <2>1 DEF SoundEntry, Entries, Enter
<1>2. /\ Enter(e, state).state = state /\ Enter(e, state).mac = e.mac
      /\ Enter(e, state).backups = e.backups
      /\ Enter(e, state).probes = 0 /\ Enter(e, state).backoff = 0
  BY DEF SoundEntry, Entries, Enter
<1> QED
  BY <1>1, <1>2, BackedOff DEF SoundEntry, EntryExact, States

\* An entry that becomes reachable under a MAC.
LEMMA SoundReachable ==
    ASSUME NEW ip \in IPs, NEW e, SoundEntry(ip, e),
           NEW mac \in Named[ip], NEW backups \in Seq(Named[ip]), IsInjective(backups)
    PROVE  /\ SoundEntry(ip, [Enter(e, "REACHABLE") EXCEPT !.mac = mac, !.backups = backups])
           /\ SoundEntry(ip, [Confirmed(e) EXCEPT !.mac = mac, !.backups = backups])
           /\ SoundEntry(ip, [Confirmed(e) EXCEPT !.mac = mac])
           /\ e.mac \in Named[ip] => SoundEntry(ip, Confirmed(e))
<1>1. "REACHABLE" \in States /\ 0 \in 0 .. MaxProbes /\ 0 \in 0 .. 30 /\ 0 \in Nat
  BY Times DEF States
<1>2. mac \in AnyMac /\ backups \in Seq(AnyMac)
  BY NamedMacs, Widened
<1> DEFINE r == [Enter(e, "REACHABLE") EXCEPT !.mac = mac, !.backups = backups]
           c == [Confirmed(e) EXCEPT !.mac = mac, !.backups = backups]
           m == [Confirmed(e) EXCEPT !.mac = mac]
           f == Confirmed(e)
<1>3. /\ r \in Entries /\ r.mac = mac /\ r.state = "REACHABLE" /\ r.backups = backups
      /\ r.probes = 0 /\ r.backoff = 0
  BY <1>1, <1>2 DEF SoundEntry, Entries, Enter
<1>4. /\ f \in Entries /\ f.mac = e.mac /\ f.state = "REACHABLE" /\ f.backups = e.backups
      /\ f.probes = 0 /\ f.backoff = 0
  BY <1>1 DEF SoundEntry, Entries, Enter, Confirmed
<1> HIDE DEF r, f
<1>5. /\ c \in Entries /\ c.mac = mac /\ c.state = "REACHABLE" /\ c.backups = backups
      /\ c.probes = 0 /\ c.backoff = 0
  BY <1>2, <1>4 DEF Entries, f
<1>6. /\ m \in Entries /\ m.mac = mac /\ m.state = "REACHABLE" /\ m.backups = e.backups
      /\ m.probes = 0 /\ m.backoff = 0
  BY <1>2, <1>4 DEF Entries, f
<1> HIDE DEF c, m
<1>7. IsInjective(e.backups) /\ e.backups \in Seq(Named[ip])
  BY DEF SoundEntry, EntryExact
<1>8. SoundEntry(ip, r) /\ SoundEntry(ip, c) /\ SoundEntry(ip, m)
  BY <1>3, <1>5, <1>6, <1>7, BackedOff DEF SoundEntry, EntryExact
<1>9. e.mac \in Named[ip] => SoundEntry(ip, f)
  BY <1>4, <1>7, BackedOff DEF SoundEntry, EntryExact
<1> QED
  BY <1>8, <1>9 DEF r, c, m, f

\* An entry that another MAC claims, under UPDATE_EXISTING.
LEMMA SoundMoved ==
    ASSUME NEW ip \in IPs, NEW e, SoundEntry(ip, e), NEW mac \in Named[ip]
    PROVE  SoundEntry(ip, Moved(e, mac))
<1> DEFINE flaps == IF e.changed < FlapWindow THEN AtMost(e.flaps + 1, MaxFlaps) ELSE 1
           state == IF flaps >= MaxFlaps THEN "STALE" ELSE "REACHABLE"
           u     == [Enter(e, state) EXCEPT !.mac = mac, !.flaps = flaps, !.changed = 0]
<1>1. Moved(e, mac) = u
  BY DEF Moved
<1>2. flaps \in Nat
  <2>1. e.flaps + 1 \in Nat
    BY DEF SoundEntry, Entries
  <2>2. MaxFlaps \in Nat
    BY Times
  <2>3. AtMost(e.flaps + 1, MaxFlaps) \in Nat
    BY <2>1, <2>2, CappedNat
  <2> QED
    BY <2>3
<1>3. state \in {"STALE", "REACHABLE"} /\ state \in States
  BY DEF States
<1> HIDE DEF flaps, state
<1>4. 0 \in 0 .. MaxProbes /\ 0 \in 0 .. 30 /\ 0 \in Nat /\ mac \in AnyMac
  BY Times, NamedMacs
<1>5. /\ u \in Entries /\ u.mac = mac /\ u.state = state /\ u.backups = e.backups
      /\ u.probes = 0 /\ u.backoff = 0
  BY <1>2, <1>3, <1>4 DEF SoundEntry, Entries, Enter
<1> HIDE DEF u
<1> QED
  BY <1>1, <1>3, <1>5, BackedOff DEF SoundEntry, EntryExact

\* An entry as time passes, or waits anew: its state, MAC, backups and counters
\* stay.
LEMMA SoundWaiting ==
    ASSUME NEW ip \in IPs, NEW e, SoundEntry(ip, e), NEW age \in Nat, NEW changed \in Nat
    PROVE  /\ SoundEntry(ip, [e EXCEPT !.age = age])
           /\ SoundEntry(ip, [e EXCEPT !.age = age, !.changed = changed])
<1> DEFINE a == [e EXCEPT !.age = age]
           b == [e EXCEPT !.age = age, !.changed = changed]
<1>1. /\ a \in Entries /\ a.mac = e.mac /\ a.state = e.state /\ a.backups = e.backups
      /\ a.probes = e.probes /\ a.backoff = e.backoff
  BY DEF SoundEntry, Entries
<1>2. /\ b \in Entries /\ b.mac = e.mac /\ b.state = e.state /\ b.backups = e.backups
      /\ b.probes = e.probes /\ b.backoff = e.backoff
  BY DEF SoundEntry, Entries
<1> HIDE DEF a, b
<1>3. SoundEntry(ip, a) /\ SoundEntry(ip, b)
  BY <1>1, <1>2 DEF SoundEntry, EntryExact
<1> QED
  BY <1>3 DEF a, b

LEMMA SoundSettled ==
    ASSUME NEW ip \in IPs, NEW e, SoundEntry(ip, e)
    PROVE  SoundEntry(ip, Settled(e)) /\ Settled(e).mac = e.mac
<1> DEFINE u == Settled(e)
<1>1. /\ u \in Entries /\ u.mac = e.mac /\ u.state = e.state /\ u.backups = e.backups
      /\ u.probes = e.probes /\ u.backoff = e.backoff
  BY Times DEF SoundEntry, Entries, Settled
<1> HIDE DEF u
<1>2. SoundEntry(ip, u)
  BY <1>1 DEF SoundEntry, EntryExact
<1> QED
  BY <1>1, <1>2 DEF u

\* A lookup that fails over puts the old MAC behind the other backups.
LEMMA SoundFailover ==
    ASSUME NEW ip \in IPs, NEW e, SoundEntry(ip, e),
           e.state \in {"STALE", "PROBE"}, e.backups # <<>>
    PROVE  LET rest    == Tail(e.backups)
               backups == IF e.mac = NoMac \/ e.mac \in ToSet(rest) THEN rest
                          ELSE Append(rest, e.mac)
           IN  SoundEntry(ip, [Enter(e, "REACHABLE") EXCEPT !.mac = Head(e.backups),
                                                            !.backups = backups])
<1> DEFINE rest    == Tail(e.backups)
           backups == IF e.mac = NoMac \/ e.mac \in ToSet(rest) THEN rest
                      ELSE Append(rest, e.mac)
<1>1. e.backups \in Seq(Named[ip]) /\ IsInjective(e.backups) /\ e.mac \in Named[ip]
  BY DEF SoundEntry, EntryExact
<1>2. Head(e.backups) \in Named[ip] /\ rest \in Seq(Named[ip]) /\ IsInjective(rest)
  BY <1>1, Shortened
<1> HIDE DEF rest
<1>3. backups \in Seq(Named[ip]) /\ IsInjective(backups)
  BY <1>1, <1>2, Extended
<1> HIDE DEF backups
<1>4. SoundEntry(ip, [Enter(e, "REACHABLE") EXCEPT !.mac = Head(e.backups),
                                                   !.backups = backups])
  BY <1>2, <1>3, SoundReachable
<1> QED
  BY <1>4 DEF backups, rest

\* Ageing changes a MAC only to put the first backup in its place.
LEMMA SoundAged ==
    ASSUME NEW ip \in IPs, NEW e, SoundEntry(ip, e)
    PROVE  /\ SoundEntry(ip, Aged(e))
           /\ \/ Aged(e).mac = e.mac
              \/ e.backups # <<>> /\ Aged(e).mac = Head(e.backups)
<1>1. /\ e.state \in States /\ e.probes \in 0 .. MaxProbes
      /\ e.backoff = AtMost(e.probes, 30)
      /\ e.backups \in Seq(Named[ip]) /\ IsInjective(e.backups)
      /\ e.state \in {"REACHABLE", "STALE", "PROBE"} => e.mac \in Named[ip]
      /\ e.state \notin {"INCOMPLETE", "PROBE"} => e.probes = 0
  BY DEF SoundEntry, Entries, EntryExact
<1>2. CASE Aged(e) = e
  BY <1>2
<1>3. CASE e.state = "REACHABLE" /\ Aged(e) = [e EXCEPT !.state = "STALE", !.age = 0]
  <2> DEFINE u == [e EXCEPT !.state = "STALE", !.age = 0]
  <2>1. "STALE" \in States
    BY DEF States
  <2>2. /\ u \in Entries /\ u.mac = e.mac /\ u.state = "STALE" /\ u.backups = e.backups
        /\ u.probes = e.probes /\ u.backoff = e.backoff
    BY <2>1 DEF SoundEntry, Entries
  <2> HIDE DEF u
  <2>3. SoundEntry(ip, u)
    BY <1>1, <1>3, <2>2 DEF SoundEntry, EntryExact
  <2> QED
    BY <1>3, <2>2, <2>3 DEF u
<1>4. CASE e.state \in {"REACHABLE", "STALE"} /\ Aged(e) \in {Enter(e, "PROBE"), Settled(Enter(e, "PROBE"))}
  <2>1. "PROBE" \in States \ {"INCOMPLETE"}
    BY DEF States
  <2>2. SoundEntry(ip, Enter(e, "PROBE")) /\ Enter(e, "PROBE").mac = e.mac
    BY <1>1, <1>4, <2>1, SoundEnter
  <2> QED
    BY <1>4, <2>2, SoundSettled
<1>5. CASE e.state \in {"INCOMPLETE", "PROBE"} /\ Aged(e) = Probed(e)
  <2>1. CASE e.probes < MaxProbes
    <3> DEFINE p == e.probes
               b == e.backoff
               u == [e EXCEPT !.probes = e.probes + 1, !.age = 0,
                              !.backoff = AtMost(e.backoff + 1, 30)]
    <3>1. p \in Nat /\ p + 1 \in 0 .. MaxProbes
      BY <1>1, <2>1, Times
    <3>2. b = AtMost(p, 30)
      BY <1>1
    <3> HIDE DEF p, b
    <3>3. AtMost(b + 1, 30) = AtMost(p + 1, 30) /\ AtMost(b + 1, 30) \in 0 .. 30
      BY <3>1, <3>2, BackedOff
    <3>4. Probed(e) = u
      BY <2>1 DEF Probed
    <3>5. /\ u \in Entries /\ u.mac = e.mac /\ u.state = e.state /\ u.backups = e.backups
          /\ u.probes = p + 1 /\ u.backoff = AtMost(b + 1, 30)
      BY <3>1, <3>3 DEF SoundEntry, Entries, p, b
    <3> HIDE DEF u
    <3>6. SoundEntry(ip, u)
      BY <1>1, <1>5, <3>3, <3>5 DEF SoundEntry, EntryExact
    <3> QED
      BY <1>5, <3>4, <3>5, <3>6
  <2>2. CASE ~(e.probes < MaxProbes) /\ e.backups # <<>>
    <3> DEFINE mac == Head(e.backups)
               rest == Tail(e.backups)
               u == [Confirmed(e) EXCEPT !.mac = mac, !.backups = rest]
    <3>1. Probed(e) = u
      BY <2>2 DEF Probed
    <3>2. mac \in Named[ip] /\ rest \in Seq(Named[ip]) /\ IsInjective(rest)
      BY <1>1, <2>2, Shortened
    <3>3. u.mac = mac
      BY DEF SoundEntry, Entries, Confirmed, Enter
    <3> HIDE DEF mac, rest
    <3>4. SoundEntry(ip, u)
      BY <3>2, SoundReachable
    <3> QED
      BY <1>5, <2>2, <3>1, <3>3, <3>4 DEF mac
  <2>3. CASE ~(e.probes < MaxProbes) /\ e.backups = <<>>
    <3>1. Probed(e) = Settled(Enter(e, "FAILED"))
      BY <2>3 DEF Probed
    <3>2. "FAILED" \in States \ {"INCOMPLETE"}
      BY DEF States
    <3>3. SoundEntry(ip, Enter(e, "FAILED")) /\ Enter(e, "FAILED").mac = e.mac
      BY <3>2, SoundEnter
    <3> QED
      BY <1>5, <3>1, <3>3, SoundSettled
  <2> QED
    BY <2>1, <2>2, <2>3
<1> QED
  BY <1>1, <1>2, <1>3, <1>4, <1>5 DEF Aged, States
-----------------------------------------------------------------------------
(***************************************************************************)
(* The cache, its list and its times together.                             *)
(***************************************************************************)

SoundCache(entries, order, seen) ==
    /\ entries \in [DOMAIN entries -> Entries] /\ DOMAIN entries \subseteq IPs
    /\ \A ip \in DOMAIN entries : SoundEntry(ip, entries[ip])
    /\ order \in Seq(IPs) /\ IsInjective(order) /\ ToSet(order) = DOMAIN entries
    /\ seen \in [DOMAIN seen -> Nat] /\ DOMAIN seen \subseteq DOMAIN entries

SoundConfig == /\ maxSize \in Sizes /\ conflict \in Policies /\ garp \in GarpPolicies
               /\ proxied \subseteq Subnet

LEMMA Parts == IInv <=> SoundCache(cache, lru, garpSeen) /\ SoundConfig
BY DEF IInv, TypeOK, ListExact, Known, SoundCache, SoundConfig, SoundEntry

\* An entry put in and promoted, and the time of a gratuitous packet with it.
LEMMA SoundPut ==
    ASSUME NEW entries, NEW order, NEW seen, SoundCache(entries, order, seen),
           NEW ip \in IPs, NEW e, SoundEntry(ip, e)
    PROVE  /\ SoundCache(With(entries, ip, e), <<ip>> \o Skipping(order, {ip}), seen)
           /\ SoundCache(With(entries, ip, e), <<ip>> \o Skipping(order, {ip}),
                         With(seen, ip, 0))
<1> DEFINE moved == <<ip>> \o Skipping(order, {ip})
           put   == With(entries, ip, e)
           again == With(seen, ip, 0)
<1>1. moved \in Seq(IPs) /\ IsInjective(moved) /\ ToSet(moved) = DOMAIN entries \cup {ip}
  BY Promoted DEF SoundCache
<1>2. /\ DOMAIN put = DOMAIN entries \cup {ip}
      /\ \A i \in DOMAIN put : \/ i = ip /\ put[i] = e
                               \/ i \in DOMAIN entries /\ put[i] = entries[i]
      /\ put = [i \in DOMAIN put |-> put[i]]
  BY DEF With
<1>3. /\ DOMAIN again = DOMAIN seen \cup {ip}
      /\ again \in [DOMAIN again -> Nat]
  BY DEF With, SoundCache
<1> HIDE DEF moved, put, again
<1>4. \A i \in DOMAIN put : SoundEntry(i, put[i])
  BY <1>2 DEF SoundCache
<1>5. put \in [DOMAIN put -> Entries]
  BY <1>2, <1>4 DEF SoundEntry
<1>6. SoundCache(put, moved, seen) /\ SoundCache(put, moved, again)
  BY <1>1, <1>2, <1>3, <1>4, <1>5 DEF SoundCache
<1> QED
  BY <1>6 DEF put, moved, again

\* Entries taken out of the cache, the list and the times.
LEMMA SoundTake ==
    ASSUME NEW entries, NEW order, NEW seen, SoundCache(entries, order, seen), NEW gone
    PROVE  SoundCache(Without(entries, gone), Skipping(order, gone), Without(seen, gone))
<1> DEFINE rest  == Skipping(order, gone)
           left  == Without(entries, gone)
           times == Without(seen, gone)
<1>1. rest \in Seq(IPs) /\ IsInjective(rest) /\ ToSet(rest) = DOMAIN entries \ gone
  BY Skipped DEF SoundCache
<1>2. /\ DOMAIN left = DOMAIN entries \ gone
      /\ left \in [DOMAIN left -> Entries]
      /\ \A i \in DOMAIN left : left[i] = entries[i]
  BY DEF Without, SoundCache
<1>3. /\ DOMAIN times = DOMAIN seen \ gone
      /\ times \in [DOMAIN times -> Nat]
  BY DEF Without, SoundCache
<1> HIDE DEF rest, left, times
<1>4. SoundCache(left, rest, times)
  BY <1>1, <1>2, <1>3 DEF SoundCache
<1> QED
  BY <1>4 DEF rest, left, times

\* One entry changed where it is.
LEMMA SoundChange ==
    ASSUME NEW entries, NEW order, NEW seen, SoundCache(entries, order, seen),
           NEW ip \in DOMAIN entries, NEW e, SoundEntry(ip, e)
    PROVE  SoundCache([entries EXCEPT ![ip] = e], order, seen)
<1> DEFINE put == [entries EXCEPT ![ip] = e]
<1>1. /\ DOMAIN put = DOMAIN entries
      /\ \A i \in DOMAIN put : (i = ip /\ put[i] = e) \/ put[i] = entries[i]
      /\ put = [i \in DOMAIN put |-> put[i]]
  BY DEF SoundCache
<1> HIDE DEF put
<1>2. \A i \in DOMAIN put : SoundEntry(i, put[i])
  BY <1>1 DEF SoundCache
<1>3. put \in [DOMAIN put -> Entries]
  BY <1>1, <1>2 DEF SoundEntry
<1>4. SoundCache(put, order, seen)
  BY <1>1, <1>2, <1>3 DEF SoundCache
<1> QED
  BY <1>4 DEF put

\* Looked up: the address is promoted.
LEMMA SoundPromoted ==
    ASSUME NEW entries, NEW order, NEW seen, SoundCache(entries, order, seen),
           NEW ip \in DOMAIN entries
    PROVE  SoundCache(entries, <<ip>> \o Skipping(order, {ip}), seen)
<1> DEFINE moved == <<ip>> \o Skipping(order, {ip})
<1>1. ip \in IPs /\ order \in Seq(IPs) /\ IsInjective(order) /\ ToSet(order) = DOMAIN entries
  BY DEF SoundCache
<1>2. moved \in Seq(IPs) /\ IsInjective(moved) /\ ToSet(moved) = DOMAIN entries \cup {ip}
  BY <1>1, Promoted
<1> HIDE DEF moved
<1>3. ToSet(moved) = DOMAIN entries
  BY <1>2
<1>4. SoundCache(entries, moved, seen)
  BY <1>2, <1>3 DEF SoundCache
<1> QED
  BY <1>4 DEF moved
-----------------------------------------------------------------------------
(***************************************************************************)
(* The inductive invariant: every call keeps it.                           *)
(***************************************************************************)

LEMMA PartsNext == IInv' <=> SoundCache(cache', lru', garpSeen') /\ SoundConfig'
BY DEF IInv, TypeOK, ListExact, Known, SoundCache, SoundConfig, SoundEntry

LEMMA Counted ==
    ASSUME SoundCache(cache', lru', garpSeen')
    PROVE  Cardinality(DOMAIN cache') \in Nat
<1>1. IsFiniteSet(DOMAIN cache')
  BY Listed DEF SoundCache
<1> QED
  BY <1>1, FS_CardinalityType

LEMMA InitSound == Init => IInv
<1> SUFFICES ASSUME Init PROVE IInv
  OBVIOUS
<1>1. /\ cache = Empty /\ lru = <<>> /\ garpSeen = Empty
      /\ DOMAIN cache = {} /\ DOMAIN garpSeen = {}
  BY DEF Init, Empty
<1>2. cache \in [DOMAIN cache -> Entries] /\ garpSeen \in [DOMAIN garpSeen -> Nat]
  BY <1>1 DEF Empty
<1>3. lru \in Seq(IPs) /\ IsInjective(lru) /\ ToSet(lru) = {}
  BY <1>1 DEF IsInjective, ToSet
<1>4. SoundCache(cache, lru, garpSeen)
  BY <1>1, <1>2, <1>3 DEF SoundCache
<1>5. SoundConfig
  BY DEF SoundConfig, Init
<1> QED
  BY <1>4, <1>5, Parts

\* What a packet makes of an entry.
LEMMA SoundLearnt ==
    ASSUME IInv, NEW ip \in IPs, NEW mac \in Named[ip]
    PROVE  SoundEntry(ip, Learnt(ip, mac))
<1>1. CASE ip \notin Known
  <2>1. "REACHABLE" \in States
    BY DEF States
  <2>2. SoundEntry(ip, Entry(mac, "REACHABLE"))
    BY <2>1, SoundNew
  <2> QED
    BY <1>1, <2>2 DEF Learnt
<1>2. CASE ip \in Known
  <2>1. SoundEntry(ip, cache[ip])
    BY <1>2, Parts DEF SoundCache, Known
  <2>2. cache[ip].mac = mac => SoundEntry(ip, Confirmed(cache[ip]))
    <3>1. <<>> \in Seq(Named[ip]) /\ IsInjective(<<>>)
      BY DEF IsInjective
    <3> QED
      BY <2>1, <3>1, SoundReachable
  <2>3. SoundEntry(ip, Moved(cache[ip], mac))
    BY <2>1, SoundMoved
  <2> QED
    BY <1>2, <2>1, <2>2, <2>3 DEF Learnt
<1> QED
  BY <1>1, <1>2

\* What evicts: the entries, the list and the times that Install is given are
\* sound, and so is what it leaves.
LEMMA SoundInstall ==
    ASSUME NEW entries, NEW order, NEW seen, SoundCache(entries, order, seen), NEW limit,
           Install(entries, order, seen, limit)
    PROVE  SoundCache(cache', lru', garpSeen')
<1> DEFINE gone == Evicted(entries, order, limit)
<1>1. /\ cache' = Without(entries, gone) /\ lru' = Skipping(order, gone)
      /\ garpSeen' = Without(seen, gone)
  BY DEF Install
<1> HIDE DEF gone
<1> QED
  BY <1>1, SoundTake

LEMMA AddEntrySound ==
    ASSUME IInv, NEW c \in Claims, NEW gratuitous \in BOOLEAN,
           AddEntry(c[1], c[2], gratuitous)
    PROVE  IInv'
<1> DEFINE ip      == c[1]
           entries == With(cache, ip, Learnt(ip, c[2]))
           order   == <<ip>> \o Skipping(lru, {ip})
           seen    == IF gratuitous THEN With(garpSeen, ip, 0) ELSE garpSeen
<1>1. ip \in IPs /\ c[2] \in Named[ip]
  BY InputAssumption DEF Named
<1>2. SoundEntry(ip, Learnt(ip, c[2]))
  BY <1>1, SoundLearnt
<1>3. SoundCache(entries, order, seen)
  BY <1>1, <1>2, Parts, SoundPut
<1>4. Install(entries, order, seen, maxSize) /\ UNCHANGED config
  BY DEF AddEntry
<1> HIDE DEF entries, order, seen
<1>5. SoundCache(cache', lru', garpSeen')
  BY <1>3, <1>4, SoundInstall
<1>6. SoundConfig'
  BY <1>4, Parts DEF SoundConfig, config
<1> QED
  BY <1>5, <1>6, PartsNext

LEMMA AddBackupMacSound ==
    ASSUME IInv, NEW c \in Backups, AddBackupMac(c[1], c[2])
    PROVE  IInv'
<1> DEFINE ip == c[1]
           e  == cache[ip]
           u  == [e EXCEPT !.backups = Append(e.backups, c[2])]
<1>1. /\ ip \in IPs /\ c[2] \in Named[ip] /\ ip \in DOMAIN cache
      /\ c[2] \notin ToSet(e.backups)
      /\ UNCHANGED <<lru, garpSeen, config>>
  BY InputAssumption DEF AddBackupMac, Known, Named
<1>2. cache' = [cache EXCEPT ![ip] = u]
  BY DEF AddBackupMac
<1>3. SoundEntry(ip, e)
  BY <1>1, Parts DEF SoundCache
<1>4. e.backups \in Seq(Named[ip]) /\ IsInjective(e.backups)
  BY <1>3 DEF SoundEntry, EntryExact
<1>5. /\ Append(e.backups, c[2]) \in Seq(Named[ip]) /\ IsInjective(Append(e.backups, c[2]))
      /\ Append(e.backups, c[2]) \in Seq(AnyMac)
  <2> DEFINE longer == Append(e.backups, c[2])
             own    == Named[ip]
  <2>1. longer \in Seq(own) /\ IsInjective(longer)
    BY <1>1, <1>4, Extended
  <2>2. own \subseteq AnyMac
    BY <1>1, NamedMacs
  <2> HIDE DEF longer, own
  <2>3. longer \in Seq(AnyMac)
    BY <2>1, <2>2, Widened
  <2> QED
    BY <2>1, <2>3 DEF longer, own
<1>6. /\ u \in Entries /\ u.mac = e.mac /\ u.state = e.state
      /\ u.probes = e.probes /\ u.backoff = e.backoff
      /\ u.backups = Append(e.backups, c[2])
  BY <1>3, <1>5 DEF SoundEntry, Entries
<1> HIDE DEF e, u
<1>7. SoundEntry(ip, u)
  BY <1>3, <1>5, <1>6 DEF SoundEntry, EntryExact
<1>8. SoundCache(cache', lru', garpSeen')
  BY <1>1, <1>2, <1>7, Parts, SoundChange
<1>9. SoundConfig'
  BY <1>1, Parts DEF SoundConfig, config
<1> QED
  BY <1>8, <1>9, PartsNext

LEMMA LookupSound ==
    ASSUME IInv, NEW ip \in IPs, Lookup(ip)
    PROVE  IInv'
<1> DEFINE moved == <<ip>> \o Skipping(lru, {ip})
<1>1. /\ lru' = moved /\ UNCHANGED <<garpSeen, config>>
  BY DEF Lookup, LookupReachable, LookupFailover, LookupProxied, LookupUnresolved, PromoteToMRU
<1>2. SoundConfig'
  BY <1>1, Parts DEF SoundConfig, config
<1>3. ip \in DOMAIN cache => SoundEntry(ip, cache[ip])
  BY Parts DEF SoundCache
<1>4. CASE LookupReachable(ip)
  <2>1. ip \in DOMAIN cache /\ cache' = cache
    BY <1>4 DEF LookupReachable, In, Known
  <2>2. SoundCache(cache, moved, garpSeen)
    BY <2>1, Parts, SoundPromoted
  <2> HIDE DEF moved
  <2> QED
    BY <1>1, <1>2, <2>1, <2>2, PartsNext
<1>5. CASE LookupFailover(ip)
  <2> DEFINE e       == cache[ip]
             rest    == Tail(e.backups)
             backups == IF e.mac = NoMac \/ e.mac \in ToSet(rest) THEN rest
                        ELSE Append(rest, e.mac)
             u       == [Enter(e, "REACHABLE") EXCEPT !.mac = Head(e.backups),
                                                      !.backups = backups]
  <2>1. /\ ip \in DOMAIN cache /\ cache' = [cache EXCEPT ![ip] = u] /\ e.backups # <<>>
        /\ e.state \in {"STALE", "PROBE"}
    BY <1>5 DEF LookupFailover, Doubtful, Known
  <2>2. SoundEntry(ip, u)
    BY <1>3, <2>1, SoundFailover
  <2> HIDE DEF u, moved
  <2>3. SoundCache(cache', lru, garpSeen) /\ ip \in DOMAIN cache'
    BY <2>1, <2>2, Parts, SoundChange DEF SoundCache
  <2>4. SoundCache(cache', moved, garpSeen)
    BY <2>3, SoundPromoted DEF moved
  <2> QED
    BY <1>1, <1>2, <2>4, PartsNext
<1>6. CASE LookupProxied(ip)
  <2> DEFINE e == IF ip \in Known THEN [Confirmed(cache[ip]) EXCEPT !.mac = DeviceMac]
                  ELSE Entry(DeviceMac, "REACHABLE")
  <2>1. cache' = With(cache, ip, e)
    BY <1>6 DEF LookupProxied
  <2>2. DeviceMac \in Named[ip] /\ "REACHABLE" \in States
    BY <1>6, Parts, MacAssumption DEF SoundConfig, LookupProxied, Named, States
  <2>3. SoundEntry(ip, Entry(DeviceMac, "REACHABLE"))
    BY <2>2, SoundNew
  <2>4. ip \in Known => SoundEntry(ip, [Confirmed(cache[ip]) EXCEPT !.mac = DeviceMac])
    <3>1. <<>> \in Seq(Named[ip]) /\ IsInjective(<<>>)
      BY DEF IsInjective
    <3> QED
      BY <1>3, <2>2, <3>1, SoundReachable DEF Known
  <2>5. SoundEntry(ip, e)
    BY <2>3, <2>4
  <2> HIDE DEF e
  <2>6. SoundCache(cache', lru', garpSeen')
    BY <1>1, <2>1, <2>5, Parts, SoundPut
  <2> QED
    BY <1>2, <2>6, PartsNext
<1>7. CASE LookupUnresolved(ip)
  <2> DEFINE e == IF ip \in Known THEN [cache[ip] EXCEPT !.age = 0]
                  ELSE Entry(NoMac, "INCOMPLETE")
  <2>1. cache' = With(cache, ip, e)
    BY <1>7 DEF LookupUnresolved
  <2>2. SoundEntry(ip, Entry(NoMac, "INCOMPLETE"))
    BY SoundNew DEF States
  <2>3. ip \in Known => SoundEntry(ip, [cache[ip] EXCEPT !.age = 0])
    <3>1. 0 \in Nat
      OBVIOUS
    <3> QED
      BY <1>3, <3>1, SoundWaiting DEF Known
  <2>4. SoundEntry(ip, e)
    BY <2>2, <2>3
  <2> HIDE DEF e
  <2>5. SoundCache(cache', lru', garpSeen')
    BY <1>1, <2>1, <2>4, Parts, SoundPut
  <2> QED
    BY <1>2, <2>5, PartsNext
<1> QED
  BY <1>4, <1>5, <1>6, <1>7 DEF Lookup

\* The wait that age_entries compares an age with is a number.
LEMMA LimitIsNat ==
    ASSUME NEW ip, NEW e, SoundEntry(ip, e)
    PROVE  Limit(e) \in Nat
<1>1. e.state \in States /\ e.backoff \in 0 .. 30
  BY DEF SoundEntry, Entries
<1> DEFINE p == 2 ^ e.backoff
<1>2. p \in Nat
  BY <1>1, Shifted
<1>3. Wait(e) = AtMost(RetransmitInterval * p, MaxBackoff)
  BY DEF Wait
<1> HIDE DEF p
<1>4. RetransmitInterval * p \in Nat /\ MaxBackoff \in Nat
  BY <1>2, Times
<1>5. Wait(e) \in Nat
  BY <1>3, <1>4, Capped
<1> QED
  BY <1>1, <1>5, Times DEF Limit, States

LEMMA TickSound == ASSUME IInv, Tick PROVE IInv'
<1> DEFINE later(e) == [e EXCEPT !.age = AtMost(e.age + 1, Limit(e)),
                                 !.changed = AtMost(e.changed + 1, FlapWindow)]
<1>1. /\ cache' = [ip \in DOMAIN cache |-> later(cache[ip])]
      /\ garpSeen' = [ip \in DOMAIN garpSeen |-> AtMost(garpSeen[ip] + 1, GarpInterval)]
      /\ UNCHANGED <<lru, config>>
  BY DEF Tick, Known
<1>2. \A ip \in DOMAIN cache : SoundEntry(ip, later(cache[ip]))
  <2> SUFFICES ASSUME NEW ip \in DOMAIN cache PROVE SoundEntry(ip, later(cache[ip]))
    OBVIOUS
  <2> DEFINE e == cache[ip]
  <2>1. SoundEntry(ip, e)
    BY Parts DEF SoundCache
  <2> HIDE DEF e
  <2>2. e.age + 1 \in Nat /\ e.changed + 1 \in Nat
    BY <2>1 DEF SoundEntry, Entries
  <2>3. AtMost(e.age + 1, Limit(e)) \in Nat /\ AtMost(e.changed + 1, FlapWindow) \in Nat
    <3>1. Limit(e) \in Nat /\ FlapWindow \in Nat
      BY <2>1, LimitIsNat, Times
    <3> QED
      BY <2>2, <3>1, CappedNat
  <2>4. ip \in IPs
    BY Parts DEF SoundCache
  <2>5. SoundEntry(ip, later(e))
    BY <2>1, <2>3, <2>4, SoundWaiting
  <2> QED
    BY <2>5 DEF e
<1> HIDE DEF later
<1>3. /\ DOMAIN cache' = DOMAIN cache /\ cache' \in [DOMAIN cache' -> Entries]
      /\ \A ip \in DOMAIN cache' : SoundEntry(ip, cache'[ip])
  BY <1>1, <1>2 DEF SoundEntry
<1>4. DOMAIN garpSeen' = DOMAIN garpSeen /\ garpSeen' \in [DOMAIN garpSeen' -> Nat]
  <2>1. \A ip \in DOMAIN garpSeen : garpSeen[ip] + 1 \in Nat
    BY Parts DEF SoundCache
  <2>2. \A ip \in DOMAIN garpSeen : AtMost(garpSeen[ip] + 1, GarpInterval) \in Nat
    <3>1. GarpInterval \in Nat
      BY Times
    <3> QED
      BY <2>1, <3>1, CappedNat
  <2> QED
    BY <1>1, <2>2
<1>5. SoundCache(cache', lru', garpSeen')
  BY <1>1, <1>3, <1>4, Parts DEF SoundCache
<1>6. SoundConfig'
  BY <1>1, Parts DEF SoundConfig, config
<1> QED
  BY <1>5, <1>6, PartsNext

LEMMA AgeEntriesSound == ASSUME IInv, AgeEntries PROVE IInv'
<1> DEFINE purged   == {ip \in Known : In(ip, "FAILED") /\ cache[ip].age >= FailedLifetime}
           promoted == {ip \in Known : /\ Aged(cache[ip]).state \in {"PROBE", "REACHABLE"}
                                       /\ Aged(cache[ip]).state # cache[ip].state}
           others   == Skipping(lru, purged \cup promoted)
<1>1. /\ cache' = [ip \in Known \ purged |-> Aged(cache[ip])]
      /\ \E order \in SetToSeqs(promoted) : lru' = order \o others
      /\ garpSeen' = Without(garpSeen, purged)
      /\ UNCHANGED config
  BY DEF AgeEntries
<1>2. \A ip \in purged : Aged(cache[ip]) = cache[ip]
  BY DEF In, Aged
<1>3. purged \subseteq Known /\ promoted \subseteq Known /\ purged \cap promoted = {}
  BY <1>2
<1>4. /\ \A ip \in Known : SoundEntry(ip, cache[ip])
      /\ Known \subseteq IPs /\ lru \in Seq(IPs) /\ IsInjective(lru) /\ ToSet(lru) = Known
      /\ garpSeen \in [DOMAIN garpSeen -> Nat] /\ DOMAIN garpSeen \subseteq Known
  BY Parts DEF SoundCache, Known
<1> HIDE DEF purged, promoted
<1>5. /\ DOMAIN cache' = Known \ purged /\ cache' \in [DOMAIN cache' -> Entries]
      /\ \A ip \in DOMAIN cache' : SoundEntry(ip, cache'[ip])
  <2>1. \A ip \in Known : SoundEntry(ip, Aged(cache[ip]))
    BY <1>4, SoundAged
  <2> QED
    BY <1>1, <2>1 DEF SoundEntry
<1>6. /\ others \in Seq(IPs) /\ IsInjective(others)
      /\ ToSet(others) = Known \ (purged \cup promoted)
  BY <1>4, Skipped
<1> HIDE DEF others
<1>7. /\ lru' \in Seq(IPs) /\ IsInjective(lru') /\ ToSet(lru') = Known \ purged
  <2>1. PICK order \in SetToSeqs(promoted) : lru' = order \o others
    BY <1>1
  <2>2. IsFiniteSet(promoted)
    <3>1. IsFiniteSet(Known)
      BY <1>4, Listed
    <3> QED
      BY <1>3, <3>1, FS_Subset
  <2>3. order \in Seq(promoted) /\ IsInjective(order) /\ ToSet(order) = promoted
    BY <2>2, Ordered
  <2>4. order \in Seq(IPs)
    BY <1>3, <1>4, <2>3
  <2>5. ToSet(order) \cap ToSet(others) = {}
    BY <1>6, <2>3
  <2>6. /\ order \o others \in Seq(IPs) /\ IsInjective(order \o others)
        /\ ToSet(order \o others) = promoted \cup (Known \ (purged \cup promoted))
    BY <1>6, <2>3, <2>4, <2>5, InARow
  <2>7. promoted \cup (Known \ (purged \cup promoted)) = Known \ purged
    BY <1>3
  <2> QED
    BY <2>1, <2>6, <2>7
<1>8. /\ DOMAIN garpSeen' = DOMAIN garpSeen \ purged
      /\ garpSeen' \in [DOMAIN garpSeen' -> Nat]
  BY <1>1, <1>4 DEF Without
<1>9. SoundCache(cache', lru', garpSeen')
  BY <1>4, <1>5, <1>7, <1>8 DEF SoundCache
<1>10. SoundConfig'
  BY <1>1, Parts DEF SoundConfig, config
<1> QED
  BY <1>9, <1>10, PartsNext

LEMMA OthersSound ==
    ASSUME IInv,
           \/ \E size \in Sizes : SetMaxCacheSize(size)
           \/ \E c \in Policies, g \in GarpPolicies : SetPolicies(c, g)
           \/ AddProxySubnet(Subnet)
           \/ HandleLinkDown
    PROVE  IInv'
<1>1. CASE \E size \in Sizes : SetMaxCacheSize(size)
  <2>1. PICK size \in Sizes : SetMaxCacheSize(size)
    BY <1>1
  <2>2. SoundCache(cache', lru', garpSeen')
    BY <2>1, Parts, SoundInstall DEF SetMaxCacheSize
  <2>3. SoundConfig'
    BY <2>1, Parts DEF SetMaxCacheSize, SoundConfig
  <2> QED
    BY <2>2, <2>3, PartsNext
<1>2. CASE \E c \in Policies, g \in GarpPolicies : SetPolicies(c, g)
  <2>1. SoundCache(cache', lru', garpSeen')
    BY <1>2, Parts DEF SetPolicies, SoundCache
  <2>2. SoundConfig'
    BY <1>2, Parts DEF SetPolicies, SoundConfig
  <2> QED
    BY <2>1, <2>2, PartsNext
<1>3. CASE AddProxySubnet(Subnet)
  <2>1. SoundCache(cache', lru', garpSeen')
    BY <1>3, Parts DEF AddProxySubnet, SoundCache
  <2>2. SoundConfig'
    BY <1>3, Parts, InputAssumption DEF AddProxySubnet, SoundConfig
  <2> QED
    BY <2>1, <2>2, PartsNext
<1>4. CASE HandleLinkDown
  <2>1. /\ cache' = Empty /\ lru' = <<>> /\ garpSeen' = Empty /\ UNCHANGED config
    BY <1>4 DEF HandleLinkDown
  <2>2. DOMAIN cache' = {} /\ DOMAIN garpSeen' = {}
    BY <2>1 DEF Empty
  <2>3. cache' \in [DOMAIN cache' -> Entries] /\ garpSeen' \in [DOMAIN garpSeen' -> Nat]
    BY <2>1 DEF Empty
  <2>4. lru' \in Seq(IPs) /\ IsInjective(lru') /\ ToSet(lru') = {}
    BY <2>1 DEF IsInjective, ToSet
  <2>5. SoundCache(cache', lru', garpSeen')
    BY <2>2, <2>3, <2>4 DEF SoundCache
  <2>6. SoundConfig'
    BY <2>1, Parts DEF SoundConfig, config
  <2> QED
    BY <2>5, <2>6, PartsNext
<1> QED
  BY <1>1, <1>2, <1>3, <1>4

LEMMA NextSound == IInv /\ [Next]_vars => IInv'
<1> SUFFICES ASSUME IInv, [Next]_vars PROVE IInv'
  OBVIOUS
<1>1. CASE \E c \in Claims, g \in BOOLEAN : AddEntry(c[1], c[2], g)
  BY <1>1, AddEntrySound
<1>2. CASE \E c \in Backups : AddBackupMac(c[1], c[2])
  BY <1>2, AddBackupMacSound
<1>3. CASE \E ip \in IPs : Lookup(ip)
  BY <1>3, LookupSound
<1>4. CASE Tick
  BY <1>4, TickSound
<1>5. CASE AgeEntries
  BY <1>5, AgeEntriesSound
<1>6. CASE UNCHANGED vars
  <2>1. SoundCache(cache', lru', garpSeen')
    BY <1>6, Parts DEF vars, SoundCache
  <2>2. SoundConfig'
    BY <1>6, Parts DEF vars, config, SoundConfig
  <2> QED
    BY <2>1, <2>2, PartsNext
<1> QED
  BY <1>1, <1>2, <1>3, <1>4, <1>5, <1>6, OthersSound DEF Next

\* Whatever is learnt, looked up, aged, evicted or purged, in any order and under
\* any policy: the LRU list names exactly the cached addresses, each once, no
\* time of a gratuitous packet outlives its entry, what lookup may answer with is
\* a MAC that was given for that address, and probing counts its own round.
THEOREM InductiveInvariant == Spec => []IInv
<1>1. Init => IInv
  BY InitSound
<1>2. IInv /\ [Next]_vars => IInv'
  BY NextSound
<1> QED
  BY <1>1, <1>2, PTL DEF Spec
-----------------------------------------------------------------------------
(***************************************************************************)
(* What DROP_NEW keeps.                                                    *)
(***************************************************************************)

LEMMA KeptByStep ==
    ASSUME IInv, [Next]_vars,
           NEW ip \in Known \cap Known',
           conflict = "DROP_NEW", cache'[ip].mac # cache[ip].mac
    PROVE  \/ cache[ip].backups # <<>> /\ cache'[ip].mac = Head(cache[ip].backups)
           \/ ip \in proxied /\ cache'[ip].mac = DeviceMac
<1> DEFINE e == cache[ip]
<1>1. /\ ip \in DOMAIN cache /\ ip \in DOMAIN cache' /\ ip \in IPs
      /\ SoundEntry(ip, e)
  BY Parts DEF SoundCache, Known
<1>2. CASE \E c \in Claims, g \in BOOLEAN : AddEntry(c[1], c[2], g)
  <2>1. PICK c \in Claims, g \in BOOLEAN : AddEntry(c[1], c[2], g)
    BY <1>2
  <2> DEFINE entries == With(cache, c[1], Learnt(c[1], c[2]))
             order   == <<c[1]>> \o Skipping(lru, {c[1]})
             seen    == IF g THEN With(garpSeen, c[1], 0) ELSE garpSeen
  <2>2. Install(entries, order, seen, maxSize)
    BY <2>1 DEF AddEntry
  <2> HIDE DEF entries, order, seen
  <2>3. cache'[ip] = entries[ip]
    BY <1>1, <2>2 DEF Install, Without
  <2>4. entries[ip] = IF ip = c[1] THEN Learnt(c[1], c[2]) ELSE e
    BY <1>1 DEF entries, With
  <2>5. ip = c[1] => Learnt(c[1], c[2]) \in {Confirmed(e), e}
    BY <1>1 DEF Learnt, Known
  <2>6. Confirmed(e).mac = e.mac
    BY <1>1 DEF SoundEntry, Entries, Confirmed, Enter
  <2> QED
    BY <2>3, <2>4, <2>5, <2>6
<1>3. CASE \E c \in Backups : AddBackupMac(c[1], c[2])
  <2>1. PICK c \in Backups : AddBackupMac(c[1], c[2])
    BY <1>3
  <2>2. cache'[ip] = e \/ cache'[ip] = [e EXCEPT !.backups = Append(e.backups, c[2])]
    BY <1>1, <2>1 DEF AddBackupMac
  <2> QED
    BY <1>1, <2>2 DEF SoundEntry, Entries
<1>4. CASE \E i \in IPs : Lookup(i)
  <2>1. PICK i \in IPs : Lookup(i)
    BY <1>4
  <2>2. CASE LookupReachable(i)
    BY <2>2 DEF LookupReachable
  <2>3. CASE LookupFailover(i)
    <3> DEFINE rest    == Tail(e.backups)
               backups == IF e.mac = NoMac \/ e.mac \in ToSet(rest) THEN rest
                          ELSE Append(rest, e.mac)
               u       == [Enter(e, "REACHABLE") EXCEPT !.mac = Head(e.backups),
                                                        !.backups = backups]
    <3>1. ip = i /\ e.backups # <<>> /\ cache'[ip] = u
      BY <1>1, <2>3 DEF LookupFailover
    <3> HIDE DEF backups
    <3>2. u.mac = Head(e.backups)
      BY <1>1 DEF SoundEntry, Entries, Enter
    <3> QED
      BY <3>1, <3>2
  <2>4. CASE LookupProxied(i)
    <3>1. \/ cache'[ip] = e
          \/ ip = i /\ ip \in proxied /\ cache'[ip] = [Confirmed(e) EXCEPT !.mac = DeviceMac]
      BY <1>1, <2>4 DEF LookupProxied, With, Known
    <3>2. [Confirmed(e) EXCEPT !.mac = DeviceMac].mac = DeviceMac
      BY <1>1 DEF SoundEntry, Entries, Enter, Confirmed
    <3> QED
      BY <3>1, <3>2
  <2>5. CASE LookupUnresolved(i)
    <3>1. cache'[ip] = e \/ cache'[ip] = [e EXCEPT !.age = 0]
      BY <1>1, <2>5 DEF LookupUnresolved, With, Known
    <3> QED
      BY <1>1, <3>1 DEF SoundEntry, Entries
  <2> QED
    BY <2>1, <2>2, <2>3, <2>4, <2>5 DEF Lookup
<1>5. CASE Tick
  <2>1. cache'[ip] = [e EXCEPT !.age = AtMost(e.age + 1, Limit(e)),
                               !.changed = AtMost(e.changed + 1, FlapWindow)]
    BY <1>1, <1>5 DEF Tick, Known
  <2> QED
    BY <1>1, <2>1 DEF SoundEntry, Entries
<1>6. CASE AgeEntries
  <2>1. cache'[ip] = Aged(e)
    BY <1>1, <1>6 DEF AgeEntries
  <2> QED
    BY <1>1, <2>1, SoundAged
<1>7. CASE \E size \in Sizes : SetMaxCacheSize(size)
  <2>1. cache'[ip] = e
    BY <1>1, <1>7 DEF SetMaxCacheSize, Install, Without
  <2> QED
    BY <2>1
<1>8. CASE HandleLinkDown
  BY <1>1, <1>8 DEF HandleLinkDown, Empty
<1>9. CASE \/ \E c \in Policies, g \in GarpPolicies : SetPolicies(c, g)
           \/ AddProxySubnet(Subnet) \/ UNCHANGED vars
  BY <1>9 DEF SetPolicies, AddProxySubnet, vars
<1> QED
  BY <1>2, <1>3, <1>4, <1>5, <1>6, <1>7, <1>8, <1>9 DEF Next

\* Under DROP_NEW no packet moves an address, whoever claims it: only a backup
\* or a proxy takes its place.
THEOREM DropNewKeeps == Spec => KeptUnderDropNew
<1>1. IInv /\ [Next]_vars =>
        [\A ip \in Known \cap Known' :
          conflict = "DROP_NEW" /\ cache'[ip].mac # cache[ip].mac =>
              \/ cache[ip].backups # <<>> /\ cache'[ip].mac = Head(cache[ip].backups)
              \/ ip \in proxied /\ cache'[ip].mac = DeviceMac]_vars
  BY KeptByStep
<1> QED
  BY <1>1, InductiveInvariant, PTL DEF Spec, KeptUnderDropNew
-----------------------------------------------------------------------------
(***************************************************************************)
(* What eviction leaves.                                                   *)
(***************************************************************************)

LEMMA InstallFits ==
    ASSUME NEW entries, NEW order, NEW seen, SoundCache(entries, order, seen),
           NEW limit \in Nat, Install(entries, order, seen, limit)
    PROVE  /\ limit # 0 =>
                 \/ Cardinality(DOMAIN cache') <= limit
                 \/ \A i \in DOMAIN cache' : cache'[i].state \in {"INCOMPLETE", "PROBE"}
           /\ DOMAIN entries \ DOMAIN cache' # {} => Cardinality(DOMAIN cache') >= limit
           /\ DOMAIN cache' \subseteq DOMAIN entries
           /\ \A i \in DOMAIN cache' : cache'[i] = entries[i]
<1> DEFINE busy == {i \in DOMAIN entries : entries[i].state \in {"INCOMPLETE", "PROBE"}}
           idle == Skipping(order, busy)
           size == Cardinality(DOMAIN entries)
           many == IF limit = 0 \/ size <= limit THEN 0 ELSE AtMost(size - limit, Len(idle))
           late == Len(idle) - many + 1 .. Len(idle)
           gone == {idle[n] : n \in late}
<1>1. cache' = Without(entries, gone)
  BY DEF Install, Evicted
<1>2. /\ order \in Seq(IPs) /\ IsInjective(order) /\ ToSet(order) = DOMAIN entries
  BY DEF SoundCache
<1>3. /\ idle \in Seq(IPs) /\ IsInjective(idle) /\ ToSet(idle) = DOMAIN entries \ busy
  BY <1>2, Skipped
<1>4. IsFiniteSet(DOMAIN entries) /\ size \in Nat
  BY <1>2, Listed, FS_CardinalityType
<1>5. Len(idle) \in Nat /\ DOMAIN idle = 1 .. Len(idle)
  BY <1>3, LenProperties
<1> HIDE DEF idle, size, gone
<1>6. DOMAIN cache' = DOMAIN entries \ gone /\ \A i \in DOMAIN cache' : cache'[i] = entries[i]
  BY <1>1 DEF Without
<1>7. CASE limit = 0 \/ size <= limit
  <2>1. many = 0
    BY <1>7
  <2> HIDE DEF many
  <2>2. late = {}
    BY <1>5, <2>1
  <2>3. gone = {}
    BY <2>2 DEF gone
  <2>4. DOMAIN cache' = DOMAIN entries
    BY <1>6, <2>3
  <2>5. Cardinality(DOMAIN cache') = size
    BY <2>4 DEF size
  <2> QED
    BY <1>4, <1>6, <1>7, <2>4, <2>5
<1>8. CASE limit # 0 /\ ~(size <= limit)
  <2> DEFINE left == Cardinality(DOMAIN cache')
  <2>1. /\ many = AtMost(size - limit, Len(idle)) /\ size - limit \in Nat
    BY <1>4, <1>8
  <2> HIDE DEF many
  <2>2. many \in Nat /\ many <= Len(idle) /\ many <= size - limit
    <3> DEFINE over == size - limit
               all  == Len(idle)
    <3>1. many = AtMost(over, all) /\ over \in Nat /\ all \in Nat
      BY <1>5, <2>1
    <3> HIDE DEF over, all
    <3>2. many \in Nat /\ many <= all /\ many <= over
      BY <3>1 DEF AtMost
    <3> QED
      BY <3>2 DEF over, all
  <2>3. late \subseteq 1 .. Len(idle) /\ IsFiniteSet(late) /\ Cardinality(late) = many
    <3>1. Len(idle) - many + 1 \in Int /\ Len(idle) \in Int
      BY <1>5, <2>2
    <3>2. /\ IsFiniteSet(late)
          /\ Cardinality(late) = IF Len(idle) - many + 1 > Len(idle) THEN 0
                                 ELSE Len(idle) - (Len(idle) - many + 1) + 1
      BY <3>1, FS_Interval
    <3> QED
      BY <1>5, <2>2, <3>2
  <2>4. many = Len(idle) => late = 1 .. Len(idle)
    BY <1>5
  <2> HIDE DEF late
  <2>5. Cardinality(gone) = many
    <3> DEFINE f == [n \in late |-> idle[n]]
    <3>1. f \in Surjection(late, gone)
      BY DEF Surjection, gone
    <3>2. f \in Injection(late, gone)
      BY <1>3, <1>5, <2>3, <3>1 DEF Injection, Surjection, IsInjective
    <3> HIDE DEF f
    <3> QED
      BY <2>3, <3>1, <3>2, FS_Surjection
  <2>6. gone \subseteq DOMAIN entries
    BY <1>3, <1>5, <2>3 DEF gone, ToSet
  <2>7. Cardinality(DOMAIN entries \ gone) = size - Cardinality(DOMAIN entries \cap gone)
    BY <1>4, FS_Difference DEF size
  <2>8. DOMAIN entries \cap gone = gone
    BY <2>6
  <2>9. left = size - many
    BY <1>6, <2>5, <2>7, <2>8
  <2>10. many = Len(idle) => \A i \in DOMAIN cache' : cache'[i].state \in {"INCOMPLETE", "PROBE"}
    <3> SUFFICES ASSUME many = Len(idle)
                 PROVE  \A i \in DOMAIN cache' : cache'[i].state \in {"INCOMPLETE", "PROBE"}
      OBVIOUS
    <3>1. gone = ToSet(idle)
      BY <1>5, <2>4 DEF gone, ToSet
    <3> QED
      BY <1>3, <1>6, <3>1
  <2> HIDE DEF left
  <2>11. many = size - limit \/ many = Len(idle)
    BY <2>1 DEF AtMost
  <2>12. left >= limit /\ (many = size - limit => left <= limit)
    BY <1>4, <2>2, <2>9
  <2> QED
    BY <1>6, <1>8, <2>10, <2>11, <2>12 DEF left
<1> QED
  BY <1>7, <1>8

\* A packet, for whatever address, and a new limit.
LEMMA FitsAfterEviction ==
    ASSUME IInv, Evicts
    PROVE  /\ Overfull' => \A ip \in Known' : cache'[ip].state \in {"INCOMPLETE", "PROBE"}
           /\ Known \ Known' # {} => Cardinality(Known') >= maxSize'
<1>1. maxSize \in Nat
  BY Parts, TimeAssumption DEF SoundConfig
<1>2. CASE \E c \in Claims, g \in BOOLEAN : AddEntry(c[1], c[2], g)
  <2>1. PICK c \in Claims, g \in BOOLEAN : AddEntry(c[1], c[2], g)
    BY <1>2
  <2> DEFINE entries == With(cache, c[1], Learnt(c[1], c[2]))
             order   == <<c[1]>> \o Skipping(lru, {c[1]})
             seen    == IF g THEN With(garpSeen, c[1], 0) ELSE garpSeen
  <2>2. Install(entries, order, seen, maxSize) /\ maxSize' = maxSize
    BY <2>1 DEF AddEntry, config
  <2>3. c[1] \in IPs /\ c[2] \in Named[c[1]]
    BY InputAssumption DEF Named
  <2>4. SoundEntry(c[1], Learnt(c[1], c[2]))
    BY <2>3, SoundLearnt
  <2>5. SoundCache(entries, order, seen)
    BY <2>3, <2>4, Parts, SoundPut
  <2>6. DOMAIN cache \subseteq DOMAIN entries
    BY DEF With
  <2> HIDE DEF entries, order, seen
  <2>7. /\ maxSize # 0 =>
              \/ Cardinality(DOMAIN cache') <= maxSize
              \/ \A i \in DOMAIN cache' : cache'[i].state \in {"INCOMPLETE", "PROBE"}
        /\ DOMAIN entries \ DOMAIN cache' # {} => Cardinality(DOMAIN cache') >= maxSize
    BY <1>1, <2>2, <2>5, InstallFits
  <2>8. Cardinality(DOMAIN cache') \in Nat
    BY <2>1, AddEntrySound, PartsNext, Counted
  <2> QED
    BY <1>1, <2>2, <2>6, <2>7, <2>8 DEF Known, Overfull
<1>3. CASE \E size \in Sizes : SetMaxCacheSize(size)
  <2>1. PICK size \in Sizes : SetMaxCacheSize(size)
    BY <1>3
  <2>2. /\ size \in Nat /\ maxSize' = size
        /\ Install(cache, lru, garpSeen, size) /\ SoundCache(cache, lru, garpSeen)
    BY <2>1, Parts, TimeAssumption DEF SetMaxCacheSize
  <2>3. /\ size # 0 =>
              \/ Cardinality(DOMAIN cache') <= size
              \/ \A i \in DOMAIN cache' : cache'[i].state \in {"INCOMPLETE", "PROBE"}
        /\ DOMAIN cache \ DOMAIN cache' # {} => Cardinality(DOMAIN cache') >= size
    BY <2>2, InstallFits
  <2>4. Cardinality(DOMAIN cache') \in Nat
    BY <1>3, OthersSound, PartsNext, Counted
  <2> QED
    BY <2>2, <2>3, <2>4 DEF Known, Overfull
<1> QED
  BY <1>2, <1>3 DEF Evicts

\* What a packet adds and does not evict at once is reachable.
LEMMA GrownByLookup ==
    ASSUME IInv, [Next]_vars, Overfull', Known' \ Known # {}
    PROVE  \E ip \in IPs : LookupProxied(ip) \/ LookupUnresolved(ip)
<1>1. PICK ip \in Known' : ip \notin Known
  OBVIOUS
<1>2. ip \notin DOMAIN cache /\ ip \in DOMAIN cache'
  BY <1>1 DEF Known
<1>3. ~\E c \in Claims, g \in BOOLEAN : AddEntry(c[1], c[2], g)
  <2> SUFFICES ASSUME NEW c \in Claims, NEW g \in BOOLEAN, AddEntry(c[1], c[2], g)
               PROVE  FALSE
    OBVIOUS
  <2>1. cache'[ip].state \in {"INCOMPLETE", "PROBE"}
    BY <1>1, FitsAfterEviction DEF Evicts
  <2>2. ip = c[1] /\ cache'[ip] = Learnt(c[1], c[2])
    BY <1>2 DEF AddEntry, Install, With, Without
  <2>3. cache'[ip].state = "REACHABLE"
    BY <1>1, <2>2 DEF Learnt, Entry
  <2> QED
    BY <2>1, <2>3
<1>4. ~\E c \in Backups : AddBackupMac(c[1], c[2])
  BY <1>2 DEF AddBackupMac
<1>5. ~(Tick \/ AgeEntries \/ HandleLinkDown)
  BY <1>2 DEF Tick, AgeEntries, HandleLinkDown, Empty, Known
<1>6. ~\E size \in Sizes : SetMaxCacheSize(size)
  BY <1>2 DEF SetMaxCacheSize, Install, Without
<1>7. ~(\E c \in Policies, g \in GarpPolicies : SetPolicies(c, g)) /\ ~AddProxySubnet(Subnet)
  BY <1>2 DEF SetPolicies, AddProxySubnet
<1>8. ~UNCHANGED vars
  BY <1>2 DEF vars
<1>9. PICK i \in IPs : Lookup(i)
  BY <1>3, <1>4, <1>5, <1>6, <1>7, <1>8 DEF Next
<1>10. ~LookupReachable(i) /\ ~LookupFailover(i)
  BY <1>2 DEF LookupReachable, LookupFailover
<1> QED
  BY <1>9, <1>10 DEF Lookup

\* Every call that evicts, a packet for a known or a new address or a new limit,
\* leaves no more entries than the limit unless all that are left are being
\* resolved or probed, and evicts no more than are too many: the search for
\* victims misses none.  Only a lookup of an unknown address passes the limit.
THEOREM EvictionFits == Spec => OverfullOnlyUnresolved
<1>1. IInv /\ [Next]_vars =>
        [/\ Overfull' /\ Evicts =>
              \A ip \in Known' : cache'[ip].state \in {"INCOMPLETE", "PROBE"}
         /\ Known \ Known' # {} /\ Evicts => Cardinality(Known') >= maxSize'
         /\ Overfull' /\ Known' \ Known # {} =>
              \E ip \in IPs : LookupProxied(ip) \/ LookupUnresolved(ip)]_vars
  BY FitsAfterEviction, GrownByLookup
<1> QED
  BY <1>1, InductiveInvariant, PTL DEF Spec, OverfullOnlyUnresolved
-----------------------------------------------------------------------------
(***************************************************************************)
(* NDCache: what NdIInv says of one neighbour is kept by all that is done *)
(* to one.                                                                 *)
(***************************************************************************)

LEMMA NdTimes ==
    /\ DefaultReachableTime \in Nat \ {0} /\ DelayTime \in Nat \ {0}
    /\ RetransTime \in Nat \ {0} /\ MaxMulticast \in Nat \ {0} /\ MaxUnicast \in Nat \ {0}
BY NdTimeAssumption

\* A neighbour with its probes counted anew is sound in any state.
LEMMA SoundNeighbor ==
    ASSUME NEW mac \in Macs \cup {NoMac}, NEW state \in NdStates, NEW age \in Nat,
           NEW backups \in Seq(Macs), IsInjective(backups)
    PROVE  NeighborOK([mac |-> mac, state |-> state, age |-> age, probes |-> 0,
                       backups |-> backups])
BY NdTimes DEF NeighborOK, Neighbor

\* What a neighbour consists of.
LEMMA NeighborParts ==
    ASSUME NEW e, NeighborOK(e)
    PROVE  /\ e \in Neighbor
           /\ e.mac \in Macs \cup {NoMac} /\ e.state \in NdStates /\ e.age \in Nat
           /\ e.probes \in Nat /\ e.backups \in Seq(Macs) /\ IsInjective(e.backups)
           /\ e.state = "INCOMPLETE" => e.probes <= MaxMulticast
           /\ e.state = "PROBE" => e.probes <= MaxUnicast
<1> USE DEF NeighborOK
<1>1. e \in Neighbor
  OBVIOUS
<1>2. /\ e.mac \in Macs \cup {NoMac} /\ e.state \in NdStates /\ e.age \in Nat
      /\ e.probes \in Nat /\ e.backups \in Seq(Macs)
  BY <1>1 DEF Neighbor
<1> QED BY <1>1, <1>2

\* A neighbour may change its MAC, its age, its backups and its state, the last
\* to one in which no probes are sent.
LEMMA NeighborChanged ==
    ASSUME NEW e, NeighborOK(e), NEW mac \in Macs \cup {NoMac}, NEW age \in Nat,
           NEW state \in NdStates, state = e.state \/ state \notin {"INCOMPLETE", "PROBE"},
           NEW backups \in Seq(Macs), IsInjective(backups)
    PROVE  NeighborOK([mac |-> mac, state |-> state, age |-> age, probes |-> e.probes,
                       backups |-> backups])
<1>1. /\ e.probes \in Nat /\ (e.state = "INCOMPLETE" => e.probes <= MaxMulticast)
      /\ e.state = "PROBE" => e.probes <= MaxUnicast
  BY NeighborParts
<1> QED BY <1>1 DEF NeighborOK, Neighbor

\* Failing over leaves a neighbour reachable and its backups different.
LEMMA FailedOverOK ==
    ASSUME NEW e, NeighborOK(e), e.backups # <<>>
    PROVE  /\ NeighborOK(FailedOver(e))
           /\ NeighborOK([FailedOver(e) EXCEPT !.backups = Tail(e.backups)])
<1> DEFINE rest == Tail(e.backups)
           more == IF e.mac = NoMac \/ e.mac \in ToSet(rest) THEN rest
                   ELSE Append(rest, e.mac)
<1>1. /\ e \in Neighbor
      /\ e.mac \in Macs \cup {NoMac} /\ e.backups \in Seq(Macs) /\ IsInjective(e.backups)
  BY NeighborParts
<1>2. Head(e.backups) \in Macs /\ rest \in Seq(Macs) /\ IsInjective(rest)
  BY <1>1, Shortened
<1> HIDE DEF rest
<1>3. more \in Seq(Macs) /\ IsInjective(more)
  BY <1>1, <1>2, Extended
<1>4. "REACHABLE" \in NdStates /\ 0 \in Nat
  BY DEF NdStates
<1> DEFINE u == FailedOver(e)
           v == [u EXCEPT !.backups = rest]
<1> HIDE DEF more
<1>5. u \in Neighbor /\ u.state = "REACHABLE" /\ u.backups = more
  <2>1. u = [NdEnter(e, "REACHABLE") EXCEPT !.mac = Head(e.backups), !.backups = more]
    BY DEF FailedOver, rest, more
  <2>2. /\ NdEnter(e, "REACHABLE") \in Neighbor
        /\ NdEnter(e, "REACHABLE").state = "REACHABLE"
    BY <1>1, <1>4 DEF NdEnter, Neighbor
  <2> DEFINE r == NdEnter(e, "REACHABLE")
  <2> HIDE DEF r, u
  <2>3. u = [r EXCEPT !.mac = Head(e.backups), !.backups = more]
    BY <2>1 DEF r
  <2> QED BY <1>2, <1>3, <2>2, <2>3 DEF Neighbor, r
<1> HIDE DEF u
<1>6. v \in Neighbor /\ v.state = "REACHABLE" /\ v.backups = rest
  BY <1>2, <1>5 DEF Neighbor
<1> HIDE DEF v
<1>7. NeighborOK(u) /\ NeighborOK(v)
  BY <1>2, <1>3, <1>5, <1>6 DEF NeighborOK
<1> QED BY <1>7 DEF u, v, rest

LEMMA LookedUpOK ==
    ASSUME NEW e, NeighborOK(e)
    PROVE  NeighborOK(LookedUp(e))
<1>1. /\ e \in Neighbor
      /\ e.mac \in Macs \cup {NoMac} /\ e.state \in NdStates /\ e.age \in Nat
      /\ e.backups \in Seq(Macs) /\ IsInjective(e.backups)
  BY NeighborParts
<1>2. CASE e.state \in {"REACHABLE", "PERMANENT"}
  <2>1. LookedUp(e) = [mac |-> e.mac, state |-> e.state, age |-> 0, probes |-> e.probes,
                       backups |-> e.backups]
    BY <1>1, <1>2 DEF LookedUp, Neighbor
  <2> QED BY <1>1, <2>1, NeighborChanged, 0 \in Nat
<1>3. CASE e.state \in {"STALE", "DELAY", "PROBE"} /\ e.backups # <<>>
  BY <1>3, FailedOverOK DEF LookedUp
<1>4. CASE e.state = "STALE" /\ e.backups = <<>>
  <2>1. LookedUp(e) = [mac |-> e.mac, state |-> "DELAY", age |-> 0, probes |-> e.probes,
                       backups |-> e.backups]
    BY <1>1, <1>4 DEF LookedUp, Neighbor
  <2>2. "DELAY" \in NdStates
    BY DEF NdStates
  <2> QED BY <1>1, <2>1, <2>2, NeighborChanged, 0 \in Nat
<1>5. CASE /\ e.state \notin {"REACHABLE", "PERMANENT"}
           /\ ~(e.state \in {"STALE", "DELAY", "PROBE"} /\ e.backups # <<>>)
           /\ ~(e.state = "STALE" /\ e.backups = <<>>)
  BY <1>5 DEF LookedUp
<1> QED BY <1>2, <1>3, <1>4, <1>5

LEMMA AdvertisedOK ==
    ASSUME NEW e, NeighborOK(e), NEW na, na.mac \in Macs \cup {NoMac}
    PROVE  NeighborOK(Advertised(e, na))
<1>1. /\ e \in Neighbor
      /\ e.mac \in Macs \cup {NoMac} /\ e.state \in NdStates /\ e.age \in Nat
      /\ e.backups \in Seq(Macs) /\ IsInjective(e.backups)
  BY NeighborParts
<1> DEFINE Changed(mac, state, age) ==
             [mac |-> mac, state |-> state, age |-> age, probes |-> e.probes,
              backups |-> e.backups]
<1>2. {"REACHABLE", "STALE"} \subseteq NdStates \ {"INCOMPLETE", "PROBE"} /\ 0 \in Nat
  BY DEF NdStates
<1>3. CASE e.state = "INCOMPLETE"
  <2>1. Advertised(e, na)
           = Changed(na.mac, IF na.solicited THEN "REACHABLE" ELSE "STALE", 0)
    BY <1>1, <1>3 DEF Advertised, Neighbor
  <2> QED BY <1>1, <1>2, <2>1, NeighborChanged
<1>4. CASE e.state # "INCOMPLETE" /\ na.mac # e.mac /\ ~na.override
  <2>1. Advertised(e, na)
           = Changed(e.mac, IF e.state = "REACHABLE" THEN "STALE" ELSE e.state, e.age)
    BY <1>1, <1>4 DEF Advertised, Neighbor
  <2> QED BY <1>1, <1>2, <2>1, NeighborChanged
<1>5. CASE e.state # "INCOMPLETE" /\ (na.override \/ na.mac = e.mac)
  <2>1. CASE na.solicited
    <3>1. Advertised(e, na) = Changed(na.mac, "REACHABLE", 0)
      BY <1>1, <1>5, <2>1 DEF Advertised, Neighbor
    <3> QED BY <1>1, <1>2, <3>1, NeighborChanged
  <2>2. CASE ~na.solicited
    <3>1. Advertised(e, na) = Changed(na.mac, e.state, e.age)
      BY <1>1, <1>5, <2>2 DEF Advertised, Neighbor
    <3> QED BY <1>1, <1>2, <3>1, NeighborChanged
  <2> QED BY <2>1, <2>2
<1> QED BY <1>3, <1>4, <1>5

LEMMA NdAgedOK ==
    ASSUME NEW e, NeighborOK(e), Exhausted(e) => e.backups # <<>>
    PROVE  NeighborOK(NdAged(e))
<1>1. /\ e \in Neighbor
      /\ e.mac \in Macs \cup {NoMac} /\ e.state \in NdStates /\ e.age \in Nat
      /\ e.probes \in Nat
      /\ e.backups \in Seq(Macs) /\ IsInjective(e.backups)
  BY NeighborParts
<1>2. CASE Exhausted(e)
  <2>1. NdAged(e) = FailedOver(e) \/ NdAged(e) = [FailedOver(e) EXCEPT !.backups = Tail(e.backups)]
    BY <1>2 DEF NdAged
  <2> QED BY <1>2, <2>1, FailedOverOK
<1>3. CASE ~Exhausted(e) /\ e.age >= NdLimit(e) /\ e.state \in {"INCOMPLETE", "PROBE"}
  <2> DEFINE most == IF e.state = "PROBE" THEN MaxUnicast ELSE MaxMulticast
  <2>1. NdAged(e) = NdProbed(e)
    BY <1>3 DEF NdAged
  <2>2. NdLimit(e) = RetransTime
    BY <1>3 DEF NdLimit
  <2>3. ~(e.probes >= most)
    BY <1>3, <2>2 DEF Exhausted
  <2>4. most \in Nat
    BY NdTimes
  <2>5. e.probes + 1 \in Nat /\ e.probes + 1 <= most
    <3> HIDE DEF most
    <3> QED BY <1>1, <2>3, <2>4
  <2> DEFINE u == NdProbed(e)
  <2>6. /\ u \in Neighbor /\ u.state = e.state /\ u.backups = e.backups
        /\ u.probes = e.probes + 1
    BY <1>1, <2>5 DEF NdProbed, Neighbor
  <2> HIDE DEF u
  <2>7. NeighborOK(u)
    BY <1>1, <1>3, <2>5, <2>6 DEF NeighborOK
  <2> QED BY <2>1, <2>7 DEF u
<1>4. CASE ~Exhausted(e) /\ e.age >= NdLimit(e) /\ e.state = "REACHABLE"
  <2>1. NdAged(e) = [mac |-> e.mac, state |-> "STALE", age |-> 0, probes |-> e.probes,
                     backups |-> e.backups]
    BY <1>1, <1>4 DEF NdAged, Neighbor
  <2>2. "STALE" \in NdStates /\ 0 \in Nat
    BY DEF NdStates
  <2> QED BY <1>1, <2>1, <2>2, NeighborChanged
<1>5. CASE ~Exhausted(e) /\ e.age >= NdLimit(e) /\ e.state = "DELAY"
  <2>1. NdAged(e) = [mac |-> e.mac, state |-> "PROBE", age |-> 0, probes |-> 0,
                     backups |-> e.backups]
    BY <1>1, <1>5 DEF NdAged, NdEnter, Neighbor
  <2>2. "PROBE" \in NdStates /\ 0 \in Nat
    BY DEF NdStates
  <2> QED BY <1>1, <2>1, <2>2, SoundNeighbor
<1>6. CASE /\ ~Exhausted(e)
           /\ \/ ~(e.age >= NdLimit(e))
              \/ e.state \notin {"INCOMPLETE", "PROBE", "REACHABLE", "DELAY"}
  BY <1>6 DEF NdAged
<1> QED BY <1>2, <1>3, <1>4, <1>5, <1>6

\* The times that an entry's age is capped by are numbers.
LEMMA NdLimitIsNat ==
    ASSUME NEW e, NeighborOK(e)
    PROVE  NdLimit(e) \in Nat
<1>1. e.state \in NdStates
  BY NeighborParts
<1> QED BY <1>1, NdTimes DEF NdLimit, NdStates

\* What NdIInv says of the neighbours, the prefixes and the DADs of a table.
NeighborsOK(n) == /\ n \in [DOMAIN n -> Neighbor]
                  /\ \A ip \in DOMAIN n : NeighborOK(n[ip])

PrefixEntries == [valid : Nat, age : Nat, done : BOOLEAN,
                  address : OwnAddresses \cup {NoAddress}]
PrefixesOK(f) == f \in [DOMAIN f -> PrefixEntries] /\ DOMAIN f \subseteq Nets

Dads == [probes : 0 .. MaxMulticast, wait : 0 .. RetransTime]
DadsOK(d, done) == /\ d \in [DOMAIN d -> Dads] /\ DOMAIN d \subseteq OwnAddresses
                   /\ done <=> LinkLocal \notin DOMAIN d

\* What it says of the address of an entry for the prefix p.
OwnExact(f, d, c, p) ==
    f[p].address # NoAddress => /\ f[p].address = Generated[p]
                                /\ f[p].address # LinkLocal
                                /\ f[p].done <=> f[p].address \notin DOMAIN d
                                /\ f[p].address \notin c
AllExact(f, d, c) == /\ c \subseteq OwnAddresses
                     /\ \A p \in DOMAIN f : OwnExact(f, d, c, p)

RoutersOK(r) == r \in [DOMAIN r -> [lifetime : Nat, age : Nat]]

LEMMA NdParts ==
    NdIInv <=> /\ NeighborsOK(neighbors) /\ RoutersOK(routers) /\ PrefixesOK(prefixes)
               /\ DadsOK(dad, linkLocalDone) /\ AllExact(prefixes, dad, clashed)
               /\ linkLocalDone \in BOOLEAN
BY DEF NdIInv, NdTypeOK, DadExact, NeighborsOK, RoutersOK, PrefixesOK, PrefixEntries,
       DadsOK, Dads, AllExact, OwnExact

LEMMA NdPartsNext ==
    NdIInv' <=> /\ NeighborsOK(neighbors') /\ RoutersOK(routers') /\ PrefixesOK(prefixes')
                /\ DadsOK(dad', linkLocalDone') /\ AllExact(prefixes', dad', clashed')
                /\ linkLocalDone' \in BOOLEAN
BY DEF NdIInv, NdTypeOK, DadExact, NeighborsOK, RoutersOK, PrefixesOK, PrefixEntries,
       DadsOK, Dads, AllExact, OwnExact

\* A neighbour put into the map, and neighbours taken out of it.
LEMMA WithNeighborOK ==
    ASSUME NEW n, NeighborsOK(n), NEW ip, NEW e, NeighborOK(e)
    PROVE  NeighborsOK(With(n, ip, e))
<1> DEFINE m == With(n, ip, e)
<1>1. /\ m = [l \in DOMAIN m |-> m[l]] /\ DOMAIN m = DOMAIN n \cup {ip} /\ m[ip] = e
      /\ \A l \in DOMAIN n : l # ip => m[l] = n[l]
  BY DEF With
<1> HIDE DEF m
<1>2. \A l \in DOMAIN m : NeighborOK(m[l])
  BY <1>1 DEF NeighborsOK
<1>3. \A l \in DOMAIN m : m[l] \in Neighbor
  BY <1>2, NeighborParts
<1>4. m \in [DOMAIN m -> Neighbor]
  BY <1>1, <1>3
<1>5. NeighborsOK(m)
  BY <1>2, <1>4 DEF NeighborsOK
<1> QED BY <1>5 DEF m

LEMMA WithoutNeighborOK ==
    ASSUME NEW n, NeighborsOK(n), NEW ips
    PROVE  NeighborsOK(Without(n, ips))
BY DEF NeighborsOK, Without

\* Changing one neighbour
LEMMA ChangedNeighborOK ==
    ASSUME NEW n, NeighborsOK(n), NEW ip \in DOMAIN n, NEW e, NeighborOK(e)
    PROVE  NeighborsOK([n EXCEPT ![ip] = e])
<1>1. e \in Neighbor
  BY NeighborParts
<1> QED BY <1>1 DEF NeighborsOK

LEMMA AddedOK ==
    ASSUME NEW n, NeighborsOK(n), NEW ip, NEW mac \in Macs \cup {NoMac},
           NEW state \in NdStates, NEW backups \in Seq(Macs), IsInjective(backups)
    PROVE  NeighborsOK(Added(n, ip, mac, state, backups))
<1> DEFINE to == IF ip \in DOMAIN n /\ n[ip].state = "PERMANENT" THEN "PERMANENT" ELSE state
<1>1. to \in NdStates /\ 0 \in Nat
  BY DEF NdStates
<1>2. Added(n, ip, mac, state, backups)
         = With(n, ip, [mac |-> mac, state |-> to, age |-> 0, probes |-> 0,
                        backups |-> backups])
  BY DEF Added
<1> HIDE DEF to
<1>3. NeighborOK([mac |-> mac, state |-> to, age |-> 0, probes |-> 0, backups |-> backups])
  BY <1>1, SoundNeighbor
<1> QED BY <1>2, <1>3, WithNeighborOK

LEMMA NoBackups == <<>> \in Seq(Macs) /\ IsInjective(<<>>)
BY DEF IsInjective
-----------------------------------------------------------------------------
(***************************************************************************)
(* NDCache: what a router advertisement does to the tables.                *)
(***************************************************************************)

TablesOf(n, f, d, c) == [neighbors |-> n, prefixes |-> f, dad |-> d, clashed |-> c]
SoundParts(n, f, d, c) == /\ NeighborsOK(n) /\ PrefixesOK(f) /\ DadsOK(d, linkLocalDone)
                          /\ AllExact(f, d, c)
SoundTables(s) == \E n, f, d, c : s = TablesOf(n, f, d, c) /\ SoundParts(n, f, d, c)

\* The link-local address is never one that may start anew: its DAD is under way
\* or has ended well.
LEMMA LinkLocalBusy ==
    ASSUME NEW n, NEW f, NEW d, NEW c, DadsOK(d, linkLocalDone),
           NEW a, MayStart(TablesOf(n, f, d, c), a)
    PROVE  a # LinkLocal /\ a \notin DOMAIN d /\ \A p \in DOMAIN f : f[p].address = a => ~f[p].done
BY DEF MayStart, TablesOf, Done, Assigned, DadsOK

LEMMA StartedIs ==
    ASSUME NEW n, NEW f, NEW d, NEW c, NEW a
    PROVE  Started(TablesOf(n, f, d, c), a) = TablesOf(n, f, With(d, a, FreshDad), c \ {a})
<1> DEFINE begun == With(d, a, FreshDad)
           first == TablesOf(n, f, begun, c)
<1>1. Started(TablesOf(n, f, d, c), a) = [first EXCEPT !.clashed = c \ {a}]
  <2>1. TablesOf(n, f, d, c).dad = d /\ TablesOf(n, f, d, c).clashed = c
    BY DEF TablesOf
  <2>2. [TablesOf(n, f, d, c) EXCEPT !.dad = begun] = first
    <3> HIDE DEF begun
    <3> QED BY DEF TablesOf
  <2> QED BY <2>1, <2>2 DEF Started
<1>2. [first EXCEPT !.clashed = c \ {a}] = TablesOf(n, f, begun, c \ {a})
  <2> HIDE DEF begun
  <2> QED BY DEF TablesOf
<1> QED BY <1>1, <1>2

\* The table with a DAD begun
LEMMA DadBegun ==
    ASSUME NEW d, DadsOK(d, linkLocalDone), NEW a \in OwnAddresses, a # LinkLocal
    PROVE  DadsOK(With(d, a, FreshDad), linkLocalDone)
<1>1. FreshDad \in Dads
  <2>1. 0 \in 0 .. MaxMulticast /\ 0 \in 0 .. RetransTime
    BY NdTimes
  <2> QED BY <2>1 DEF FreshDad, Dads
<1> QED BY <1>1 DEF DadsOK, With

\* An entry for a prefix whose address is the one made of it and in a DAD that
\* begins now, or none.
Giving(f, p, held) == [f EXCEPT ![p] = [f[p] EXCEPT !.address = held, !.done = FALSE]]

LEMMA PrefixGiven ==
    ASSUME NEW f, PrefixesOK(f), NEW p \in DOMAIN f, NEW held \in OwnAddresses \cup {NoAddress}
    PROVE  /\ PrefixesOK(Giving(f, p, held)) /\ DOMAIN Giving(f, p, held) = DOMAIN f
           /\ Giving(f, p, held)[p].address = held /\ ~Giving(f, p, held)[p].done
           /\ \A q \in DOMAIN f : q # p => Giving(f, p, held)[q] = f[q]
<1> DEFINE g == Giving(f, p, held)
           e == [f[p] EXCEPT !.address = held, !.done = FALSE]
<1>1. f[p] \in PrefixEntries
  BY DEF PrefixesOK
<1>2. /\ DOMAIN g = DOMAIN f /\ g = [q \in DOMAIN f |-> g[q]]
      /\ \A q \in DOMAIN f : q # p => g[q] = f[q]
      /\ g[p] = e
  <2> HIDE DEF e
  <2> QED BY DEF PrefixesOK, Giving, e
<1>3. e \in PrefixEntries /\ e.address = held /\ e.done = FALSE
  BY <1>1 DEF PrefixEntries
<1> HIDE DEF g, e
<1>4. PrefixesOK(g)
  BY <1>2, <1>3 DEF PrefixesOK
<1> QED BY <1>2, <1>3, <1>4 DEF g

\* Whatever configure_address_slaac does
LEMMA ConfiguredSound ==
    ASSUME NEW s, SoundTables(s), NEW p \in DOMAIN s.prefixes
    PROVE  SoundTables(Configured(s, p))
<1>1. PICK n, f, d, c : s = TablesOf(n, f, d, c) /\ SoundParts(n, f, d, c)
  BY DEF SoundTables
<1>2. p \in DOMAIN f /\ p \in Nets
  BY <1>1 DEF TablesOf, SoundParts, PrefixesOK
<1> DEFINE addr == Generated[p]
           g(held) == Giving(f, p, held)
<1>3. ASSUME NEW held
      PROVE  [s EXCEPT !.prefixes[p] = [@ EXCEPT !.address = held, !.done = FALSE]]
                = TablesOf(n, g(held), d, c)
  <2>1. s.prefixes[p] = f[p]
    BY <1>1 DEF TablesOf
  <2> DEFINE e == [f[p] EXCEPT !.address = held, !.done = FALSE]
  <2>2. [s EXCEPT !.prefixes[p] = [@ EXCEPT !.address = held, !.done = FALSE]]
           = [s EXCEPT !.prefixes[p] = e]
    BY <2>1
  <2> HIDE DEF e
  <2>3. [s EXCEPT !.prefixes[p] = e] = TablesOf(n, [f EXCEPT ![p] = e], d, c)
    BY <1>1 DEF TablesOf
  <2> QED BY <2>2, <2>3 DEF e, Giving
<1> HIDE DEF g
<1>4. CASE addr = NoAddress
  BY <1>4 DEF Configured
<1>5. CASE addr # NoAddress /\ MayStart(TablesOf(n, g(addr), d, c), addr)
  <2>1. Configured(s, p) = Started(TablesOf(n, g(addr), d, c), addr)
    BY <1>3, <1>5 DEF Configured
  <2>2. Started(TablesOf(n, g(addr), d, c), addr)
           = TablesOf(n, g(addr), With(d, addr, FreshDad), c \ {addr})
    BY StartedIs
  <2>3. addr # LinkLocal /\ addr \in OwnAddresses
    BY <1>1, <1>2, <1>5, LinkLocalBusy DEF SoundParts, OwnAddresses
  <2> DEFINE h == g(addr)
             e == With(d, addr, FreshDad)
  <2>4. /\ PrefixesOK(h) /\ DOMAIN h = DOMAIN f /\ h[p].address = addr /\ ~h[p].done
        /\ \A q \in DOMAIN f : q # p => h[q] = f[q]
    BY <1>1, <1>2, <2>3, PrefixGiven DEF SoundParts, g
  <2>5. DadsOK(e, linkLocalDone) /\ DOMAIN e = DOMAIN d \cup {addr}
    BY <1>1, <2>3, DadBegun DEF SoundParts, With
  <2>6. \A q \in DOMAIN f : q # p /\ f[q].address # NoAddress => f[q].address # addr
    BY <1>1, <1>2, <1>5, AddressAssumption DEF SoundParts, AllExact, OwnExact, PrefixesOK
  <2>7. \A q \in DOMAIN f : OwnExact(f, d, c, q)
    BY <1>1 DEF SoundParts, AllExact
  <2> HIDE DEF g, e, addr
  <2>8. \A q \in DOMAIN f : OwnExact(h, e, c \ {addr}, q)
    <3> TAKE q \in DOMAIN f
    <3>1. CASE q = p
      BY <2>3, <2>4, <2>5, <3>1 DEF OwnExact, addr
    <3>2. CASE q # p
      BY <2>4, <2>5, <2>6, <2>7, <3>2 DEF OwnExact
    <3> QED BY <3>1, <3>2
  <2>9. AllExact(h, e, c \ {addr})
    BY <1>1, <2>4, <2>8 DEF SoundParts, AllExact
  <2>10. SoundParts(n, h, e, c \ {addr})
    BY <1>1, <2>4, <2>5, <2>9 DEF SoundParts
  <2> QED BY <2>1, <2>2, <2>10 DEF SoundTables, e
<1>6. CASE addr # NoAddress /\ ~MayStart(TablesOf(n, g(addr), d, c), addr)
  <2>1. Configured(s, p) = TablesOf(n, g(NoAddress), d, c)
    BY <1>3, <1>6 DEF Configured
  <2> DEFINE h == g(NoAddress)
  <2>2. /\ PrefixesOK(h) /\ DOMAIN h = DOMAIN f /\ h[p].address = NoAddress
        /\ \A q \in DOMAIN f : q # p => h[q] = f[q]
    BY <1>1, <1>2, PrefixGiven DEF SoundParts, g
  <2>3. \A q \in DOMAIN f : OwnExact(f, d, c, q)
    BY <1>1 DEF SoundParts, AllExact
  <2> HIDE DEF g
  <2>4. \A q \in DOMAIN f : OwnExact(h, d, c, q)
    BY <2>2, <2>3 DEF OwnExact
  <2>5. SoundParts(n, h, d, c)
    BY <1>1, <2>2, <2>4 DEF SoundParts, AllExact
  <2> QED BY <2>1, <2>5 DEF SoundTables
<1> QED BY <1>4, <1>5, <1>6

LEMMA WithdrawnSound ==
    ASSUME NEW s, SoundTables(s), NEW p
    PROVE  SoundTables(Withdrawn(s, p))
<1>1. PICK n, f, d, c : s = TablesOf(n, f, d, c) /\ SoundParts(n, f, d, c)
  BY DEF SoundTables
<1>2. CASE p \notin DOMAIN s.prefixes
  BY <1>2 DEF Withdrawn
<1>3. CASE p \in DOMAIN s.prefixes
  <2> DEFINE m == Without(n, {f[p].address})
             g == Without(f, {p})
  <2>1. Withdrawn(s, p) = TablesOf(m, g, d, c)
    BY <1>1, <1>3 DEF Withdrawn, TablesOf
  <2>2. NeighborsOK(m)
    BY <1>1, WithoutNeighborOK DEF SoundParts
  <2>3. PrefixesOK(g) /\ AllExact(g, d, c)
    BY <1>1 DEF SoundParts, PrefixesOK, AllExact, OwnExact, Without
  <2> HIDE DEF m, g
  <2>4. SoundParts(m, g, d, c)
    BY <1>1, <2>2, <2>3 DEF SoundParts
  <2> QED BY <2>1, <2>4 DEF SoundTables
<1> QED BY <1>2, <1>3

LEMMA RefreshedSound ==
    ASSUME NEW s, SoundTables(s), NEW info, info.prefix \in Nets, info.valid \in Nat
    PROVE  SoundTables(Refreshed(s, info))
<1>1. PICK n, f, d, c : s = TablesOf(n, f, d, c) /\ SoundParts(n, f, d, c)
  BY DEF SoundTables
<1> DEFINE p    == info.prefix
           old  == IF p \in DOMAIN s.prefixes THEN s.prefixes[p]
                   ELSE [address |-> NoAddress, done |-> FALSE]
           e    == [valid |-> info.valid, age |-> 0, address |-> old.address, done |-> old.done]
           g    == With(f, p, e)
           kept == TablesOf(n, g, d, c)
<1>2. s.prefixes = f
  BY <1>1 DEF TablesOf
<1>3. Refreshed(s, info) = IF info.autonomous /\ old.address = NoAddress
                           THEN Configured(kept, p) ELSE kept
  <2>1. [s EXCEPT !.prefixes = g] = kept
    <3> HIDE DEF g
    <3> QED BY <1>1 DEF TablesOf
  <2>2. [s EXCEPT !.prefixes = With(@, p, e)] = [s EXCEPT !.prefixes = g]
    BY <1>2
  <2> QED BY <2>1, <2>2 DEF Refreshed
<1>4. old.address \in OwnAddresses \cup {NoAddress} /\ old.done \in BOOLEAN
  <2>1. CASE p \in DOMAIN f
    <3>1. f[p] \in PrefixEntries
      BY <1>1, <2>1 DEF SoundParts, PrefixesOK
    <3>2. old = f[p]
      BY <1>2, <2>1
    <3> QED BY <3>1, <3>2 DEF PrefixEntries
  <2>2. CASE p \notin DOMAIN f
    BY <1>2, <2>2
  <2> QED BY <2>1, <2>2
<1>5. p \in DOMAIN f => old = f[p]
  BY <1>2
<1>6. p \notin DOMAIN f => old.address = NoAddress
  BY <1>2
<1> HIDE DEF old
<1>7. e \in PrefixEntries /\ e.address = old.address /\ e.done = old.done
  BY <1>4 DEF PrefixEntries
<1> HIDE DEF e
<1>8. /\ DOMAIN g = DOMAIN f \cup {p} /\ g[p] = e
      /\ \A q \in DOMAIN f : q # p => g[q] = f[q]
      /\ g = [q \in DOMAIN g |-> g[q]]
  BY DEF With
<1> HIDE DEF g
<1>9. PrefixesOK(g)
  <2>1. \A q \in DOMAIN g : g[q] \in PrefixEntries
    BY <1>1, <1>7, <1>8 DEF SoundParts, PrefixesOK
  <2>2. DOMAIN g \subseteq Nets
    BY <1>1, <1>8 DEF SoundParts, PrefixesOK
  <2> QED BY <1>8, <2>1, <2>2 DEF PrefixesOK
<1>10. \A q \in DOMAIN g : OwnExact(g, d, c, q)
  <2> TAKE q \in DOMAIN g
  <2>1. \A r \in DOMAIN f : OwnExact(f, d, c, r)
    BY <1>1 DEF SoundParts, AllExact
  <2>2. CASE q \in DOMAIN f /\ q = p
    BY <1>5, <1>7, <1>8, <2>1, <2>2 DEF OwnExact
  <2>3. CASE q \in DOMAIN f /\ q # p
    BY <1>8, <2>1, <2>3 DEF OwnExact
  <2>4. CASE q \notin DOMAIN f
    BY <1>6, <1>7, <1>8, <2>4 DEF OwnExact
  <2> QED BY <2>2, <2>3, <2>4
<1>11. SoundTables(kept)
  <2>1. SoundParts(n, g, d, c)
    BY <1>1, <1>9, <1>10 DEF SoundParts, AllExact
  <2> QED BY <2>1 DEF SoundTables
<1>12. p \in DOMAIN kept.prefixes
  <2>1. kept.prefixes = g
    BY DEF TablesOf
  <2> QED BY <1>8, <2>1
<1> HIDE DEF kept
<1>13. SoundTables(Configured(kept, p))
  BY <1>11, <1>12, ConfiguredSound
<1> QED BY <1>3, <1>11, <1>13

LEMMA LearntPrefixSound ==
    ASSUME NEW s, SoundTables(s), NEW info, info.prefix \in Nets, info.valid \in Nat
    PROVE  SoundTables(LearntPrefix(s, info))
BY WithdrawnSound, RefreshedSound DEF LearntPrefix

\* What LearntPrefixes computes one by one.
Learning(s, infos, g, n) ==
    g = [i \in 0 .. n |-> IF i = 0 THEN s ELSE LearntPrefix(g[i - 1], infos[i])]

LEMMA LearningGoesOn ==
    ASSUME NEW s, NEW infos
    PROVE  \A n \in Nat : \E g : Learning(s, infos, g, n)
<1> DEFINE T == {n \in Nat : \E g : Learning(s, infos, g, n)}
<1>1. 0 \in T
  <2>1. Learning(s, infos, [i \in 0 .. 0 |-> s], 0)
    BY DEF Learning
  <2> QED BY <2>1
<1>2. ASSUME NEW n \in T PROVE n + 1 \in T
  <2>1. PICK g : Learning(s, infos, g, n)
    OBVIOUS
  <2> DEFINE h == [i \in 0 .. n + 1 |->
                      IF i <= n THEN g[i] ELSE LearntPrefix(g[n], infos[n + 1])]
  <2>2. \A i \in 0 .. n : g[i] = IF i = 0 THEN s ELSE LearntPrefix(g[i - 1], infos[i])
    BY <2>1 DEF Learning
  <2>3. \A i \in 0 .. n + 1 : h[i] = IF i = 0 THEN s ELSE LearntPrefix(h[i - 1], infos[i])
    <3> TAKE i \in 0 .. n + 1
    <3>1. CASE i <= n /\ i # 0
      <4>1. i \in 0 .. n /\ i - 1 \in 0 .. n + 1 /\ i - 1 <= n
        BY <3>1
      <4>2. h[i] = g[i] /\ h[i - 1] = g[i - 1]
        BY <4>1, <3>1
      <4> HIDE DEF h
      <4> QED BY <2>2, <4>1, <4>2, <3>1
    <3>2. CASE i = 0
      BY <2>2, <3>2
    <3>3. CASE i = n + 1
      BY <3>3
    <3> QED BY <3>1, <3>2, <3>3
  <2>4. h = [i \in 0 .. n + 1 |-> h[i]]
    OBVIOUS
  <2> HIDE DEF h
  <2>5. Learning(s, infos, h, n + 1)
    BY <2>3, <2>4 DEF Learning
  <2> QED BY <2>5
<1> HIDE DEF T
<1>3. T = Nat
  <2>1. T \in SUBSET Nat
    BY DEF T
  <2> QED BY <1>1, <1>2, <2>1, Induction
<1> QED BY <1>3 DEF T

LEMMA LearntPrefixesSound ==
    ASSUME NEW s, SoundTables(s), NEW infos, Len(infos) \in Nat,
           \A i \in 1 .. Len(infos) : infos[i].prefix \in Nets /\ infos[i].valid \in Nat
    PROVE  SoundTables(LearntPrefixes(s, infos))
<1> DEFINE g == CHOOSE learnt : Learning(s, infos, learnt, Len(infos))
<1>1. Learning(s, infos, g, Len(infos))
  BY LearningGoesOn
<1>2. LearntPrefixes(s, infos) = g[Len(infos)]
  BY DEF LearntPrefixes, Learning
<1> HIDE DEF g
<1>3. \A i \in 0 .. Len(infos) :
         g[i] = IF i = 0 THEN s ELSE LearntPrefix(g[i - 1], infos[i])
  BY <1>1 DEF Learning
<1> DEFINE T == {i \in Nat : i <= Len(infos) => SoundTables(g[i])}
<1>4. 0 \in T
  BY <1>3
<1>5. ASSUME NEW i \in T PROVE i + 1 \in T
  <2>1. CASE i + 1 <= Len(infos)
    <3>1. i \in Nat /\ i <= Len(infos) /\ i + 1 \in 1 .. Len(infos) /\ (i + 1) - 1 = i
      BY <2>1
    <3>2. SoundTables(g[i])
      BY <3>1
    <3>3. g[i + 1] = LearntPrefix(g[i], infos[i + 1])
      BY <1>3, <3>1
    <3>4. SoundTables(g[i + 1])
      BY <3>1, <3>2, <3>3, LearntPrefixSound
    <3> QED BY <3>1, <3>4
  <2>2. CASE ~(i + 1 <= Len(infos))
    BY <2>2
  <2> QED BY <2>1, <2>2
<1> HIDE DEF T
<1>6. T = Nat
  <2>1. T \in SUBSET Nat
    BY DEF T
  <2> QED BY <1>4, <1>5, <2>1, Induction
<1> QED BY <1>2, <1>6 DEF T
-----------------------------------------------------------------------------
(***************************************************************************)
(* NDCache: its steps.                                                     *)
(***************************************************************************)

LEMMA NdInitSound == NdInit => NdIInv
<1> SUFFICES ASSUME NdInit PROVE NdIInv
  OBVIOUS
<1>1. LinkLocal \in OwnAddresses
  BY AddressAssumption DEF OwnAddresses
<1>2. FreshDad \in Dads
  <2>1. 0 \in 0 .. MaxMulticast /\ 0 \in 0 .. RetransTime
    BY NdTimes
  <2> QED BY <2>1 DEF FreshDad, Dads
<1>3. DadsOK(dad, linkLocalDone)
  BY <1>1, <1>2 DEF NdInit, DadsOK, With, Empty
<1>4. NeighborsOK(neighbors) /\ RoutersOK(routers) /\ PrefixesOK(prefixes)
  BY DEF NdInit, Empty, NeighborsOK, RoutersOK, PrefixesOK
<1>5. AllExact(prefixes, dad, clashed) /\ linkLocalDone \in BOOLEAN
  BY DEF NdInit, Empty, AllExact
<1> QED BY <1>3, <1>4, <1>5, NdParts

\* A step that changes the neighbours only
LEMMA NeighborsOnly ==
    ASSUME NdIInv, NeighborsOK(neighbors'),
           UNCHANGED <<routers, prefixes, dad, linkLocalDone, clashed>>
    PROVE  NdIInv'
BY NdParts, NdPartsNext

LEMMA NdAddEntrySound == ASSUME NdIInv, NEW e \in NdEntries, NdAddEntry(e) PROVE NdIInv'
<1>1. /\ e.mac \in Macs \cup {NoMac} /\ e.state \in NdStates
      /\ e.backups \in Seq(Macs) /\ IsInjective(e.backups)
  BY NdInputAssumption
<1>2. NeighborsOK(neighbors')
  BY <1>1, NdParts, AddedOK DEF NdAddEntry
<1> QED BY <1>2, NeighborsOnly DEF NdAddEntry

LEMMA RemoveEntrySound == ASSUME NdIInv, NEW ip, RemoveEntry(ip) PROVE NdIInv'
<1>1. NeighborsOK(neighbors')
  BY NdParts, WithoutNeighborOK DEF RemoveEntry
<1> QED BY <1>1, NeighborsOnly DEF RemoveEntry

LEMMA NdAddBackupMacSound ==
    ASSUME NdIInv, NEW ip, NEW mac \in Macs, NdAddBackupMac(ip, mac)
    PROVE  NdIInv'
<1> DEFINE e == neighbors[ip]
           u == [e EXCEPT !.backups = Append(@, mac)]
<1>1. ip \in DOMAIN neighbors /\ NeighborsOK(neighbors)
  BY NdParts DEF NdAddBackupMac
<1>2. NeighborOK(e) /\ mac \notin ToSet(e.backups)
  BY <1>1 DEF NeighborsOK, NdAddBackupMac
<1>3. neighbors' = [neighbors EXCEPT ![ip] = u]
  BY <1>1 DEF NdAddBackupMac, NeighborsOK
<1> HIDE DEF e
<1>4. Append(e.backups, mac) \in Seq(Macs) /\ IsInjective(Append(e.backups, mac))
  BY <1>2, NeighborParts, Extended
<1>5. /\ u \in Neighbor /\ u.state = e.state /\ u.probes = e.probes
      /\ u.backups = Append(e.backups, mac)
  <2>1. e \in Neighbor
    BY <1>2, NeighborParts
  <2> QED BY <1>4, <2>1 DEF Neighbor
<1> HIDE DEF u
<1>6. NeighborOK(u)
  BY <1>2, <1>4, <1>5, NeighborParts DEF NeighborOK
<1>7. NeighborsOK(neighbors')
  BY <1>1, <1>3, <1>6, ChangedNeighborOK
<1> QED BY <1>7, NeighborsOnly DEF NdAddBackupMac

LEMMA NdLookupSound == ASSUME NdIInv, NEW ip, NdLookup(ip) PROVE NdIInv'
<1>1. NeighborsOK(neighbors)
  BY NdParts
<1>2. CASE ip \in DOMAIN neighbors
  <2>1. neighbors' = [neighbors EXCEPT ![ip] = LookedUp(neighbors[ip])]
    BY <1>2 DEF NdLookup
  <2>2. NeighborOK(LookedUp(neighbors[ip]))
    BY <1>1, <1>2, LookedUpOK DEF NeighborsOK
  <2>3. NeighborsOK(neighbors')
    BY <1>1, <1>2, <2>1, <2>2, ChangedNeighborOK
  <2> QED BY <2>3, NeighborsOnly DEF NdLookup
<1>3. CASE ip \notin DOMAIN neighbors
  <2>1. NoMac \in Macs \cup {NoMac} /\ "INCOMPLETE" \in NdStates
    BY DEF NdStates
  <2>2. NeighborsOK(neighbors')
    BY <1>1, <1>3, <2>1, NoBackups, AddedOK DEF NdLookup
  <2> QED BY <2>2, NeighborsOnly DEF NdLookup
<1> QED BY <1>2, <1>3

LEMMA NeighborAdvertisementSound ==
    ASSUME NdIInv, NEW na \in Adverts, NeighborAdvertisement(na)
    PROVE  NdIInv'
<1>1. NeighborsOK(neighbors) /\ na.mac \in Macs \cup {NoMac}
  BY NdParts, NdInputAssumption
<1> DEFINE ip == na.target
<1>2. CASE ip \in DOMAIN neighbors
  <2>1. neighbors' = [neighbors EXCEPT ![ip] = Advertised(neighbors[ip], na)]
    BY <1>2 DEF NeighborAdvertisement
  <2>2. NeighborOK(Advertised(neighbors[ip], na))
    BY <1>1, <1>2, AdvertisedOK DEF NeighborsOK
  <2>3. NeighborsOK(neighbors')
    BY <1>1, <1>2, <2>1, <2>2, ChangedNeighborOK
  <2> QED BY <2>3, NeighborsOnly DEF NeighborAdvertisement
<1>3. CASE ip \notin DOMAIN neighbors
  <2>1. "STALE" \in NdStates
    BY DEF NdStates
  <2>2. NeighborsOK(Added(neighbors, ip, na.mac, "STALE", <<>>))
    BY <1>1, <2>1, NoBackups, AddedOK
  <2>3. NeighborsOK(neighbors')
    BY <1>1, <1>3, <2>2 DEF NeighborAdvertisement
  <2> QED BY <2>3, NeighborsOnly DEF NeighborAdvertisement
<1> QED BY <1>2, <1>3

\* A step that leaves sound tables
LEMMA TablesAssigned ==
    ASSUME NdIInv, NEW s, SoundTables(s), Assign(s), RoutersOK(routers'),
           UNCHANGED linkLocalDone
    PROVE  NdIInv'
<1>1. PICK n, f, d, c : s = TablesOf(n, f, d, c) /\ SoundParts(n, f, d, c)
  BY DEF SoundTables
<1>2. neighbors' = n /\ prefixes' = f /\ dad' = d /\ clashed' = c
  BY <1>1 DEF Assign, TablesOf
<1> QED BY <1>1, <1>2, NdParts, NdPartsNext DEF SoundParts

LEMMA StartDadSound ==
    ASSUME NdIInv, NEW a \in OwnAddresses, StartDad(a)
    PROVE  NdIInv'
<1> DEFINE begun == With(dad, a, FreshDad)
<1>1. /\ NeighborsOK(neighbors) /\ PrefixesOK(prefixes) /\ DadsOK(dad, linkLocalDone)
      /\ AllExact(prefixes, dad, clashed) /\ RoutersOK(routers)
  BY NdParts
<1>2. Tables = TablesOf(neighbors, prefixes, dad, clashed)
  BY DEF Tables, TablesOf
<1>3. /\ a # LinkLocal /\ a \notin DOMAIN dad
      /\ \A p \in DOMAIN prefixes : prefixes[p].address = a => ~prefixes[p].done
  BY <1>1, <1>2, LinkLocalBusy DEF StartDad
<1>4. Assign(TablesOf(neighbors, prefixes, begun, clashed \ {a}))
  BY <1>2, StartedIs DEF StartDad
<1>5. DadsOK(begun, linkLocalDone) /\ DOMAIN begun = DOMAIN dad \cup {a}
  BY <1>1, <1>3, DadBegun DEF With
<1> HIDE DEF begun
<1>6. NoAddress \notin OwnAddresses
  BY DEF OwnAddresses
<1>7. \A p \in DOMAIN prefixes : OwnExact(prefixes, begun, clashed \ {a}, p)
  BY <1>1, <1>3, <1>5, <1>6 DEF AllExact, OwnExact
<1>8. SoundTables(TablesOf(neighbors, prefixes, begun, clashed \ {a}))
  <2>1. AllExact(prefixes, begun, clashed \ {a})
    BY <1>1, <1>7 DEF AllExact
  <2> QED BY <1>1, <1>5, <2>1 DEF SoundTables, SoundParts
<1> QED BY <1>1, <1>4, <1>8, TablesAssigned DEF StartDad

LEMMA TablesSound == NdIInv => SoundTables(Tables) /\ RoutersOK(routers)
BY NdParts DEF SoundTables, SoundParts, Tables, TablesOf

LEMMA ConfigureAddressSlaacSound ==
    ASSUME NdIInv, NEW p, ConfigureAddressSlaac(p)
    PROVE  NdIInv'
<1>1. Tables.prefixes = prefixes
  BY DEF Tables
<1>2. SoundTables(Configured(Tables, p))
  BY <1>1, TablesSound, ConfiguredSound DEF ConfigureAddressSlaac
<1> QED BY <1>2, TablesSound, TablesAssigned DEF ConfigureAddressSlaac

LEMMA RouterAdvertisementSound ==
    ASSUME NdIInv, NEW ra \in RouterAdverts, RouterAdvertisement(ra)
    PROVE  NdIInv'
<1>1. /\ ra.mac \in Macs \cup {NoMac} /\ ra.lifetime \in Nat
      /\ ra.prefixes \in Seq([prefix : Nets, onLink : BOOLEAN, autonomous : BOOLEAN,
                              valid : Nat])
  BY NdInputAssumption
<1>2. NeighborsOK(LearntRouter(ra))
  <2>1. {"INCOMPLETE", "REACHABLE"} \subseteq NdStates
    BY DEF NdStates
  <2>2. NeighborsOK(neighbors)
    BY NdParts
  <2> DEFINE to == IF ra.mac = NoMac THEN "INCOMPLETE" ELSE "REACHABLE"
  <2>3. to \in NdStates
    BY <2>1
  <2>4. \/ LearntRouter(ra) = neighbors
        \/ LearntRouter(ra) = Added(neighbors, ra.source, ra.mac, to, <<>>)
    BY DEF LearntRouter
  <2> HIDE DEF to
  <2>5. NeighborsOK(Added(neighbors, ra.source, ra.mac, to, <<>>))
    BY <1>1, <2>2, <2>3, NoBackups, AddedOK
  <2> QED BY <2>2, <2>4, <2>5
<1> DEFINE s == [Tables EXCEPT !.neighbors = LearntRouter(ra)]
<1>3. SoundTables(s)
  <2> DEFINE n == LearntRouter(ra)
  <2> HIDE DEF n
  <2>1. [Tables EXCEPT !.neighbors = n] = TablesOf(n, prefixes, dad, clashed)
    BY DEF Tables, TablesOf
  <2>2. SoundParts(n, prefixes, dad, clashed)
    BY <1>2, NdParts DEF SoundParts, n
  <2>3. SoundTables(TablesOf(n, prefixes, dad, clashed))
    BY <2>2 DEF SoundTables
  <2> QED BY <2>1, <2>3 DEF n
<1>4. /\ Len(ra.prefixes) \in Nat
      /\ \A i \in 1 .. Len(ra.prefixes) :
            ra.prefixes[i].prefix \in Nets /\ ra.prefixes[i].valid \in Nat
  <2> DEFINE Infos == [prefix : Nets, onLink : BOOLEAN, autonomous : BOOLEAN, valid : Nat]
             infos == ra.prefixes
  <2>1. infos \in Seq(Infos)
    BY <1>1
  <2>2. \A info \in Infos : info.prefix \in Nets /\ info.valid \in Nat
    OBVIOUS
  <2> HIDE DEF Infos, infos
  <2>3. Len(infos) \in Nat /\ \A i \in 1 .. Len(infos) : infos[i] \in Infos
    BY <2>1
  <2> QED BY <2>2, <2>3 DEF infos
<1> HIDE DEF s
<1>5. SoundTables(LearntPrefixes(s, ra.prefixes))
  BY <1>3, <1>4, LearntPrefixesSound
<1>6. RoutersOK(routers')
  <2>1. RoutersOK(routers)
    BY TablesSound
  <2>2. CASE ra.lifetime = 0
    BY <2>1, <2>2 DEF RouterAdvertisement, Without, RoutersOK
  <2>3. CASE ra.lifetime # 0
    <3> DEFINE e == [lifetime |-> ra.lifetime, age |-> 0]
    <3>1. e \in [lifetime : Nat, age : Nat]
      BY <1>1
    <3>2. routers' = With(routers, ra.source, e)
      BY <2>3 DEF RouterAdvertisement
    <3> HIDE DEF e
    <3> QED BY <2>1, <3>1, <3>2 DEF With, RoutersOK
  <2> QED BY <2>2, <2>3
<1>7. Assign(LearntPrefixes(s, ra.prefixes)) /\ UNCHANGED linkLocalDone
  BY DEF RouterAdvertisement, s
<1> QED BY <1>5, <1>6, <1>7, TablesAssigned

LEMMA DadConflictSound ==
    ASSUME NdIInv, NEW a \in OwnAddresses, DadConflict(a)
    PROVE  NdIInv'
<1>1. /\ NeighborsOK(neighbors) /\ PrefixesOK(prefixes) /\ DadsOK(dad, linkLocalDone)
      /\ AllExact(prefixes, dad, clashed) /\ RoutersOK(routers) /\ linkLocalDone \in BOOLEAN
  BY NdParts
<1>2. UNCHANGED <<neighbors, routers, dad>> /\ clashed' = clashed \cup {a}
  BY DEF DadConflict
<1>3. linkLocalDone' = linkLocalDone
  BY <1>1 DEF DadConflict, DadsOK
<1>4. /\ DOMAIN prefixes' = DOMAIN prefixes
      /\ prefixes' = [p \in DOMAIN prefixes |-> prefixes'[p]]
  BY DEF DadConflict
<1>5. ASSUME NEW p \in DOMAIN prefixes
      PROVE  /\ prefixes'[p] \in PrefixEntries
             /\ OwnExact(prefixes', dad, clashed \cup {a}, p)
  <2>1. prefixes[p] \in PrefixEntries /\ OwnExact(prefixes, dad, clashed, p)
    BY <1>1 DEF PrefixesOK, AllExact
  <2>2. CASE a # LinkLocal /\ prefixes[p].address = a
    <3> DEFINE u == [prefixes[p] EXCEPT !.address = NoAddress, !.done = FALSE]
    <3>1. prefixes'[p] = u
      BY <2>2 DEF DadConflict, Assigned
    <3>2. u \in PrefixEntries /\ u.address = NoAddress
      BY <2>1 DEF PrefixEntries
    <3> HIDE DEF u
    <3> QED BY <3>1, <3>2 DEF OwnExact
  <2>3. CASE ~(a # LinkLocal /\ prefixes[p].address = a)
    <3>1. prefixes'[p] = prefixes[p]
      BY <2>3 DEF DadConflict, Assigned
    <3>2. prefixes[p].address = a => prefixes[p].address = NoAddress
      BY <2>1, <2>3 DEF OwnExact
    <3> QED BY <2>1, <3>1, <3>2 DEF OwnExact
  <2> QED BY <2>2, <2>3
<1>6. PrefixesOK(prefixes')
  BY <1>1, <1>4, <1>5 DEF PrefixesOK
<1>7. AllExact(prefixes', dad', clashed')
  BY <1>1, <1>2, <1>4, <1>5 DEF AllExact
<1> QED BY <1>1, <1>2, <1>3, <1>6, <1>7, NdPartsNext

LEMMA NdTickSound == ASSUME NdIInv, NdTick PROVE NdIInv'
<1>1. /\ NeighborsOK(neighbors) /\ PrefixesOK(prefixes) /\ DadsOK(dad, linkLocalDone)
      /\ AllExact(prefixes, dad, clashed) /\ RoutersOK(routers) /\ linkLocalDone \in BOOLEAN
  BY NdParts
<1>2. linkLocalDone' = linkLocalDone /\ clashed' = clashed
  BY DEF NdTick
<1>3. NeighborsOK(neighbors')
  <2>1. /\ DOMAIN neighbors' = DOMAIN neighbors
        /\ neighbors' = [ip \in DOMAIN neighbors |-> neighbors'[ip]]
    BY DEF NdTick
  <2>2. ASSUME NEW ip \in DOMAIN neighbors PROVE NeighborOK(neighbors'[ip])
    <3> DEFINE e == neighbors[ip]
               later == AtMost(e.age + 1, NdLimit(e))
               u == [e EXCEPT !.age = later]
    <3>1. NeighborOK(e)
      BY <1>1 DEF NeighborsOK
    <3>2. neighbors'[ip] = u
      BY DEF NdTick
    <3> HIDE DEF e
    <3>3. later \in Nat
      <4>1. e.age \in Nat /\ NdLimit(e) \in Nat
        BY <3>1, NeighborParts, NdLimitIsNat
      <4>2. e.age + 1 \in Nat
        BY <4>1
      <4> QED BY <4>1, <4>2 DEF AtMost
    <3> HIDE DEF later
    <3>4. /\ u \in Neighbor /\ u.state = e.state /\ u.probes = e.probes
          /\ u.backups = e.backups
      <4>1. e \in Neighbor
        BY <3>1, NeighborParts
      <4> QED BY <3>3, <4>1 DEF Neighbor
    <3> HIDE DEF u
    <3>5. NeighborOK(u)
      BY <3>1, <3>4, NeighborParts DEF NeighborOK
    <3> QED BY <3>2, <3>5
  <2>3. \A ip \in DOMAIN neighbors : neighbors'[ip] \in Neighbor
    BY <2>2, NeighborParts
  <2> QED BY <2>1, <2>2, <2>3 DEF NeighborsOK
<1>4. RoutersOK(routers')
  <2> DEFINE Routers == [lifetime : Nat, age : Nat]
  <2>1. ASSUME NEW r \in DOMAIN routers PROVE routers'[r] \in Routers
    <3> DEFINE e == routers[r]
               later == AtMost(e.age + 1, e.lifetime + 1)
    <3>1. e \in Routers
      BY <1>1 DEF RoutersOK
    <3>2. routers'[r] = [e EXCEPT !.age = later]
      BY DEF NdTick
    <3> HIDE DEF e
    <3>3. later \in Nat
      <4>1. e.age + 1 \in Nat /\ e.lifetime + 1 \in Nat
        BY <3>1
      <4> QED BY <4>1 DEF AtMost
    <3> HIDE DEF later
    <3> QED BY <3>1, <3>2, <3>3
  <2>2. /\ DOMAIN routers' = DOMAIN routers
        /\ routers' = [r \in DOMAIN routers |-> routers'[r]]
    BY DEF NdTick
  <2> QED BY <2>1, <2>2 DEF RoutersOK
<1>5. ASSUME NEW p \in DOMAIN prefixes
      PROVE  /\ prefixes'[p] \in PrefixEntries
             /\ prefixes'[p].address = prefixes[p].address
             /\ prefixes'[p].done = prefixes[p].done
  <2> DEFINE e == prefixes[p]
             later == AtMost(e.age + 1, e.valid + 1)
  <2>1. e \in PrefixEntries
    BY <1>1 DEF PrefixesOK
  <2>2. prefixes'[p] = [e EXCEPT !.age = later]
    BY DEF NdTick
  <2> HIDE DEF e
  <2>3. later \in Nat
    <3>1. e.age + 1 \in Nat /\ e.valid + 1 \in Nat
      BY <2>1 DEF PrefixEntries
    <3> QED BY <3>1 DEF AtMost
  <2> HIDE DEF later
  <2>4. /\ [e EXCEPT !.age = later] \in PrefixEntries
        /\ [e EXCEPT !.age = later].address = e.address
        /\ [e EXCEPT !.age = later].done = e.done
    BY <2>1, <2>3 DEF PrefixEntries
  <2> QED BY <2>2, <2>4 DEF e
<1>6. /\ DOMAIN prefixes' = DOMAIN prefixes
      /\ prefixes' = [p \in DOMAIN prefixes |-> prefixes'[p]]
  BY DEF NdTick
<1>7. DadsOK(dad', linkLocalDone) /\ DOMAIN dad' = DOMAIN dad
  <2>1. /\ DOMAIN dad' = DOMAIN dad /\ dad' = [a \in DOMAIN dad |-> dad'[a]]
    BY DEF NdTick
  <2>2. ASSUME NEW a \in DOMAIN dad PROVE dad'[a] \in Dads
    <3> DEFINE d == dad[a]
               left == IF d.wait = 0 THEN 0 ELSE d.wait - 1
    <3>1. d \in Dads
      BY <1>1 DEF DadsOK
    <3>2. dad'[a] = [d EXCEPT !.wait = left]
      BY DEF NdTick
    <3> HIDE DEF d
    <3>3. left \in 0 .. RetransTime
      <4>1. d.wait \in 0 .. RetransTime
        BY <3>1 DEF Dads
      <4> QED BY <4>1, NdTimes
    <3> HIDE DEF left
    <3> QED BY <3>1, <3>2, <3>3 DEF Dads
  <2> QED BY <1>1, <2>1, <2>2 DEF DadsOK
<1>8. PrefixesOK(prefixes')
  BY <1>1, <1>5, <1>6 DEF PrefixesOK
<1>9. AllExact(prefixes', dad', clashed)
  BY <1>1, <1>5, <1>6, <1>7 DEF AllExact, OwnExact
<1> QED BY <1>1, <1>2, <1>3, <1>4, <1>7, <1>8, <1>9, NdPartsNext

LEMMA NdAgeEntriesSound == ASSUME NdIInv, NdAgeEntries PROVE NdIInv'
<1>1. /\ NeighborsOK(neighbors) /\ PrefixesOK(prefixes) /\ DadsOK(dad, linkLocalDone)
      /\ AllExact(prefixes, dad, clashed) /\ RoutersOK(routers) /\ linkLocalDone \in BOOLEAN
  BY NdParts
<1> DEFINE gone   == {ip \in DOMAIN neighbors : /\ Exhausted(neighbors[ip])
                                                 /\ neighbors[ip].backups = <<>>}
           alive  == {p \in DOMAIN prefixes : prefixes[p].age <= prefixes[p].valid}
           passed == {a \in DOMAIN dad : DadDone(a)}
<1>2. /\ neighbors' = [ip \in DOMAIN neighbors \ gone |-> NdAged(neighbors[ip])]
      /\ routers' = Without(routers,
                        {r \in DOMAIN routers : routers[r].age > routers[r].lifetime})
      /\ prefixes' = [p \in alive |->
             [prefixes[p] EXCEPT !.done = @ \/ prefixes[p].address \in passed \ {LinkLocal}]]
      /\ dad' = [a \in DOMAIN dad \ passed |->
             IF dad[a].wait = 0 THEN DadProbed(dad[a]) ELSE dad[a]]
      /\ linkLocalDone' = (linkLocalDone \/ LinkLocal \in passed)
      /\ clashed' = clashed
  BY DEF NdAgeEntries
<1>3. NeighborsOK(neighbors')
  <2>1. ASSUME NEW ip \in DOMAIN neighbors \ gone PROVE NeighborOK(NdAged(neighbors[ip]))
    <3>1. NeighborOK(neighbors[ip])
      BY <1>1 DEF NeighborsOK
    <3>2. Exhausted(neighbors[ip]) => neighbors[ip].backups # <<>>
      OBVIOUS
    <3> QED BY <3>1, <3>2, NdAgedOK
  <2> HIDE DEF gone
  <2>2. \A ip \in DOMAIN neighbors \ gone : NdAged(neighbors[ip]) \in Neighbor
    BY <2>1, NeighborParts
  <2> QED BY <1>2, <2>1, <2>2 DEF NeighborsOK
<1>4. RoutersOK(routers')
  BY <1>1, <1>2 DEF Without, RoutersOK
<1>5. /\ alive \subseteq DOMAIN prefixes /\ passed \subseteq DOMAIN dad
      /\ \A a \in DOMAIN dad \ passed : ~DadDone(a)
  OBVIOUS
<1> HIDE DEF gone, alive, passed
<1>6. DadsOK(dad', linkLocalDone') /\ DOMAIN dad' = DOMAIN dad \ passed
  <2>1. ASSUME NEW a \in DOMAIN dad \ passed PROVE dad'[a] \in Dads
    <3> DEFINE d == dad[a]
    <3>1. d \in Dads /\ ~DadDone(a)
      BY <1>1, <1>5 DEF DadsOK
    <3>2. CASE d.wait = 0
      <4>1. dad'[a] = DadProbed(d)
        BY <1>2, <3>2
      <4>2. d.probes # MaxMulticast
        BY <3>1, <3>2 DEF DadDone
      <4> HIDE DEF d
      <4>3. d.probes + 1 \in 0 .. MaxMulticast /\ RetransTime \in 0 .. RetransTime
        <5>1. d.probes \in 0 .. MaxMulticast
          BY <3>1 DEF Dads
        <5> QED BY <4>2, <5>1, NdTimes
      <4>4. DadProbed(d) \in Dads
        BY <3>1, <4>3 DEF DadProbed, Dads
      <4> QED BY <4>1, <4>4
    <3>3. CASE d.wait # 0
      BY <1>2, <3>1, <3>3
    <3> QED BY <3>2, <3>3
  <2>2. /\ DOMAIN dad' = DOMAIN dad \ passed
        /\ dad' = [a \in DOMAIN dad \ passed |-> dad'[a]]
    BY <1>2
  <2>3. linkLocalDone' <=> LinkLocal \notin DOMAIN dad'
    BY <1>1, <1>2, <2>2 DEF DadsOK
  <2> QED BY <1>1, <2>1, <2>2, <2>3 DEF DadsOK
<1>7. /\ DOMAIN prefixes' = alive /\ prefixes' = [p \in alive |-> prefixes'[p]]
  BY <1>2
<1>8. ASSUME NEW p \in alive
      PROVE  /\ prefixes'[p] \in PrefixEntries
             /\ OwnExact(prefixes', dad', clashed, p)
  <2> DEFINE e == prefixes[p]
             over == e.done \/ e.address \in passed \ {LinkLocal}
  <2>1. e \in PrefixEntries /\ OwnExact(prefixes, dad, clashed, p)
    BY <1>1, <1>5 DEF PrefixesOK, AllExact
  <2>2. prefixes'[p] = [e EXCEPT !.done = over]
    BY <1>2
  <2>3. over \in BOOLEAN
    BY <2>1 DEF PrefixEntries
  <2>4. e.address # NoAddress => (over <=> e.address \notin DOMAIN dad \ passed)
    BY <1>5, <2>1 DEF OwnExact
  <2> HIDE DEF over
  <2>5. /\ prefixes'[p] \in PrefixEntries /\ prefixes'[p].address = e.address
        /\ prefixes'[p].done = over
    <3> HIDE DEF e
    <3>1. /\ [e EXCEPT !.done = over] \in PrefixEntries
          /\ [e EXCEPT !.done = over].address = e.address
          /\ [e EXCEPT !.done = over].done = over
      BY <2>1, <2>3 DEF PrefixEntries
    <3> QED BY <2>2, <3>1
  <2> QED BY <1>6, <2>1, <2>4, <2>5 DEF OwnExact
<1>9. PrefixesOK(prefixes')
  BY <1>1, <1>5, <1>7, <1>8 DEF PrefixesOK
<1>10. AllExact(prefixes', dad', clashed')
  BY <1>1, <1>2, <1>7, <1>8 DEF AllExact
<1>11. linkLocalDone' \in BOOLEAN
  BY <1>1, <1>2
<1> QED BY <1>3, <1>4, <1>6, <1>9, <1>10, <1>11, NdPartsNext

LEMMA NdNextSound == NdIInv /\ [NdNext]_ndVars => NdIInv'
<1> SUFFICES ASSUME NdIInv, [NdNext]_ndVars PROVE NdIInv'
  OBVIOUS
<1>1. CASE \E e \in NdEntries : NdAddEntry(e)
  BY <1>1, NdAddEntrySound
<1>2. CASE \E ip \in Hosts : NdLookup(ip) \/ RemoveEntry(ip)
  BY <1>2, NdLookupSound, RemoveEntrySound
<1>3. CASE \E b \in NdBackups : NdAddBackupMac(b[1], b[2])
  <2>1. \A b \in NdBackups : b[2] \in Macs
    BY NdInputAssumption
  <2> QED BY <1>3, <2>1, NdAddBackupMacSound
<1>4. CASE \E na \in Adverts : NeighborAdvertisement(na)
  BY <1>4, NeighborAdvertisementSound
<1>5. CASE \E ra \in RouterAdverts : RouterAdvertisement(ra)
  BY <1>5, RouterAdvertisementSound
<1>6. CASE \E a \in OwnAddresses : DadConflict(a)
  BY <1>6, DadConflictSound
<1>7. CASE \E a \in Checked : StartDad(a)
  <2>1. Checked \subseteq OwnAddresses
    BY AddressAssumption
  <2> QED BY <1>7, <2>1, StartDadSound
<1>8. CASE \E p \in Nets : ConfigureAddressSlaac(p)
  BY <1>8, ConfigureAddressSlaacSound
<1>9. CASE NdTick \/ NdAgeEntries
  BY <1>9, NdTickSound, NdAgeEntriesSound
<1>10. CASE UNCHANGED ndVars
  BY <1>10, NdParts, NdPartsNext DEF ndVars
<1> QED BY <1>1, <1>2, <1>3, <1>4, <1>5, <1>6, <1>7, <1>8, <1>9, <1>10 DEF NdNext

\* The neighbours are sound, with no more probes sent than their state allows;
\* every address made of a prefix is in DAD or done and never both, is not the
\* link-local one, and is not one that another node claimed in its last DAD;
\* the link-local address is done exactly when its DAD is over.
THEOREM NdInductiveInvariant == NdSpec => []NdIInv
<1>1. NdInit => NdIInv
  BY NdInitSound
<1>2. NdIInv /\ [NdNext]_ndVars => NdIInv'
  BY NdNextSound
<1> QED BY <1>1, <1>2, PTL DEF NdSpec
-----------------------------------------------------------------------------
(***************************************************************************)
(* Lists that name sets.                                                   *)
(***************************************************************************)

LEMMA NamesIs ==
    \A s, ks : Names(s, ks) <=> s \in Seq(ks) /\ IsInjective(s) /\ ToSet(s) = ks
<1> SUFFICES ASSUME NEW s, NEW ks, s \in Seq(ks) PROVE ToSet(s) \subseteq ks
  BY DEF Names
<1> QED
  BY LenProperties DEF ToSet

\* A list of different members of a larger set names its members.
LEMMA NamesOwn ==
    ASSUME NEW S, NEW s \in Seq(S), IsInjective(s)
    PROVE  Names(s, ToSet(s))
<1>1. DOMAIN s = 1 .. Len(s) /\ Len(s) \in Nat /\ \A i \in 1 .. Len(s) : s[i] \in ToSet(s)
  BY LenProperties DEF ToSet
<1>2. s = [i \in 1 .. Len(s) |-> s[i]]
  BY LenProperties
<1> QED
  BY <1>1, <1>2 DEF Names

LEMMA NamesLeft ==
    ASSUME NEW s, NEW ks, NEW xs, Names(s, ks)
    PROVE  Names(Skipping(s, xs), ks \ xs)
<1>1. s \in Seq(ks) /\ IsInjective(s) /\ ToSet(s) = ks
  BY NamesIs
<1>2. /\ Skipping(s, xs) \in Seq(ks) /\ IsInjective(Skipping(s, xs))
      /\ ToSet(Skipping(s, xs)) = ks \ xs
  BY <1>1, Skipped
<1> QED
  BY <1>2, NamesOwn

LEMMA NamesMore ==
    ASSUME NEW s, NEW ks, NEW k, Names(s, ks), k \notin ks
    PROVE  Names(Append(s, k), ks \cup {k}) /\ Names(<<k>> \o s, ks \cup {k})
<1> DEFINE all == ks \cup {k}
<1>1. s \in Seq(ks) /\ IsInjective(s) /\ ToSet(s) = ks
  BY NamesIs
<1>2. s \in Seq(all) /\ k \in all
  BY <1>1, Widened
<1> HIDE DEF all
<1>3. Append(s, k) \in Seq(all) /\ IsInjective(Append(s, k)) /\ ToSet(Append(s, k)) = ks \cup {k}
  BY <1>1, <1>2, Extended
<1>4. <<k>> \o s \in Seq(all) /\ IsInjective(<<k>> \o s) /\ ToSet(<<k>> \o s) = ks \cup {k}
  BY <1>1, <1>2, Prepended
<1> QED
  BY <1>3, <1>4, NamesOwn

LEMMA NamesEnds ==
    ASSUME NEW s, NEW ks, Names(s, ks), s # <<>>
    PROVE  /\ Last(s) \in ks /\ Names(Front(s), ks \ {Last(s)})
           /\ Head(s) \in ks /\ Names(Tail(s), ks \ {Head(s)})
<1>1. s \in Seq(ks) /\ IsInjective(s) /\ ToSet(s) = ks
  BY NamesIs
<1>2. /\ Front(s) \in Seq(ks) /\ IsInjective(Front(s)) /\ Last(s) \in ks
      /\ ToSet(Front(s)) = ks \ {Last(s)}
  BY <1>1, WithoutLast
<1>3. /\ Tail(s) \in Seq(ks) /\ IsInjective(Tail(s)) /\ Head(s) \in ks
      /\ ToSet(Tail(s)) = ks \ {Head(s)}
  BY <1>1, Shortened
<1> QED
  BY <1>2, <1>3, NamesOwn

LEMMA NamesNone == Names(<<>>, {})
BY DEF Names, IsInjective, ToSet

LEMMA NamesEmpty == ASSUME NEW s, NEW ks, Names(s, ks) PROVE s = <<>> <=> ks = {}
<1>1. s \in Seq(ks) /\ ToSet(s) = ks
  BY NamesIs
<1>2. CASE s = <<>>
  BY <1>1, <1>2 DEF ToSet
<1>3. CASE s # <<>>
  <2>1. Head(s) \in ks
    BY <1>1, <1>3, HeadTailProperties
  <2> QED
    BY <1>3, <2>1
<1> QED
  BY <1>2, <1>3

(***************************************************************************)
(* Lists of frequency nodes.                                               *)
(***************************************************************************)

Nodes == [frequency : Nat \ {0}, keys : Seq(Keys)]

\* The node of those keys that have its frequency, used last to used first.
NodeFor(n, f, t) == /\ n.keys # <<>>
                    /\ Names(n.keys, {k \in DOMAIN f : f[k] = n.frequency})
                    /\ Mirrors(n.keys, t)

NodesFor(fs, f, t) ==
    /\ fs \in Seq(Nodes)
    /\ \A i, j \in DOMAIN fs : i < j => fs[i].frequency < fs[j].frequency
    /\ \A i \in DOMAIN fs : NodeFor(fs[i], f, t)
    /\ \A k \in DOMAIN f : \E i \in DOMAIN fs : fs[i].frequency = f[k]

LEMMA NodeLeft ==
    ASSUME NEW n \in Nodes, NEW f, NEW t \in Seq(Keys), NodeFor(n, f, t), NEW k,
           k \in DOMAIN f => f[k] # n.frequency
    PROVE  NodeFor(n, Without(f, {k}), Skipping(t, {k}))
<1> DEFINE g  == Without(f, {k})
           ks == {l \in DOMAIN f : f[l] = n.frequency}
<1>1. n.keys # <<>> /\ Names(n.keys, ks) /\ Mirrors(n.keys, t)
  BY DEF NodeFor
<1>2. {l \in DOMAIN g : g[l] = n.frequency} = ks /\ k \notin ks
  BY DEF Without
<1>3. ToSet(n.keys) \cap {k} = {}
  BY <1>1, <1>2, NamesIs
<1>4. Mirrors(n.keys, Skipping(t, {k}))
  <2>1. CASE Keys = {}
    <3>1. ToSet(n.keys) = {} /\ ToSet(n.keys) = ks
      BY <1>1, <2>1, NamesIs, LenProperties DEF Nodes, ToSet
    <3> QED
      BY <1>1, <3>1, NamesEmpty
  <2>2. CASE Keys # {}
    <3>1. PICK z \in Keys : TRUE
      BY <2>2
    <3> QED
      BY <1>1, <1>3, <3>1, OrdersKept
  <2> QED
    BY <2>1, <2>2
<1> HIDE DEF g
<1> QED
  BY <1>1, <1>2, <1>4 DEF NodeFor, g

LEMMA NodeMore ==
    ASSUME NEW n \in Nodes, NEW f, NEW t \in Seq(Keys), NodeFor(n, f, t),
           NEW k \in Keys \ DOMAIN f, NEW q, q # n.frequency
    PROVE  NodeFor(n, With(f, k, q), Append(t, k))
<1> DEFINE g  == With(f, k, q)
           ks == {l \in DOMAIN f : f[l] = n.frequency}
<1>1. n.keys # <<>> /\ Names(n.keys, ks) /\ Mirrors(n.keys, t)
  BY DEF NodeFor
<1>2. {l \in DOMAIN g : g[l] = n.frequency} = ks
  BY DEF With
<1>3. Mirrors(n.keys, Append(t, k))
  BY <1>1, AheadAppended, OrdersByPairs
<1> HIDE DEF g
<1> QED
  BY <1>1, <1>2, <1>3 DEF NodeFor, g

LEMMA NodeThinned ==
    ASSUME NEW n \in Nodes, NEW f, NEW t \in Seq(Keys), NodeFor(n, f, t),
           NEW k \in DOMAIN f, f[k] = n.frequency,
           NEW keys, keys # <<>>, Names(keys, ToSet(n.keys) \ {k}),
           \A x, y : Ahead(keys, x, y) => Ahead(n.keys, x, y)
    PROVE  /\ [n EXCEPT !.keys = keys] \in Nodes
           /\ NodeFor([n EXCEPT !.keys = keys], Without(f, {k}), Skipping(t, {k}))
<1> DEFINE g  == Without(f, {k})
           ks == {l \in DOMAIN f : f[l] = n.frequency}
           m  == [n EXCEPT !.keys = keys]
<1>1. n.keys # <<>> /\ Names(n.keys, ks) /\ Mirrors(n.keys, t)
  BY DEF NodeFor
<1>2. {l \in DOMAIN g : g[l] = n.frequency} = ks \ {k} /\ ToSet(n.keys) = ks
  BY <1>1, NamesIs DEF Without
<1>3. keys \in Seq(ToSet(n.keys) \ {k}) /\ ToSet(keys) \cap {k} = {}
  BY NamesIs
<1>4. ToSet(n.keys) \subseteq Keys
  BY LenProperties DEF Nodes, ToSet
<1>5. keys \in Seq(Keys)
  BY <1>3, <1>4, Widened
<1>6. m \in Nodes /\ m.frequency = n.frequency /\ m.keys = keys
  BY <1>5 DEF Nodes
<1>7. Mirrors(keys, t)
  BY <1>1, OrdersOfPart
<1>8. PICK z \in Keys : TRUE
  BY <1>4, <1>1, <1>2, NamesEmpty
<1>9. Mirrors(keys, Skipping(t, {k}))
  BY <1>3, <1>7, <1>8, OrdersKept
<1> HIDE DEF g, m
<1>10. NodeFor(m, g, Skipping(t, {k}))
  BY <1>2, <1>6, <1>9 DEF NodeFor
<1> QED
  BY <1>6, <1>10 DEF m, g

LEMMA NodeJoined ==
    ASSUME NEW n \in Nodes, NEW f, NEW t \in Seq(Keys), NodeFor(n, f, t),
           DOMAIN f \subseteq ToSet(t), NEW k \in Keys \ DOMAIN f
    PROVE  /\ [n EXCEPT !.keys = <<k>> \o @] \in Nodes
           /\ NodeFor([n EXCEPT !.keys = <<k>> \o @], With(f, k, n.frequency), Append(t, k))
<1> DEFINE g    == With(f, k, n.frequency)
           ks   == {l \in DOMAIN f : f[l] = n.frequency}
           keys == <<k>> \o n.keys
           m    == [n EXCEPT !.keys = keys]
<1>1. n.keys # <<>> /\ Names(n.keys, ks) /\ Mirrors(n.keys, t) /\ n.keys \in Seq(Keys)
  BY DEF NodeFor, Nodes
<1>2. {l \in DOMAIN g : g[l] = n.frequency} = ks \cup {k} /\ k \notin ks
  BY DEF With
<1>3. Names(keys, ks \cup {k})
  BY <1>1, <1>2, NamesMore
<1>4. keys \in Seq(Keys) /\ keys # <<>>
  <2>1. <<k>> \in Seq(Keys) /\ Len(<<k>>) = 1
    OBVIOUS
  <2>2. keys \in Seq(Keys)
    BY <1>1, <2>1, ConcatProperties
  <2>3. ks \cup {k} # {}
    OBVIOUS
  <2> QED
    BY <1>3, <2>2, <2>3, NamesEmpty
<1>5. m \in Nodes /\ m.frequency = n.frequency /\ m.keys = keys
  BY <1>4 DEF Nodes
<1>6. ToSet(n.keys) \subseteq ToSet(t)
  BY <1>1, NamesIs
<1>7. Mirrors(keys, Append(t, k))
  BY <1>1, <1>6, OrdersExtended
<1> HIDE DEF g, m, keys
<1>8. NodeFor(m, g, Append(t, k))
  BY <1>2, <1>3, <1>4, <1>5, <1>7 DEF NodeFor
<1> QED
  BY <1>5, <1>8 DEF m, g, keys

LEMMA NodeNew ==
    ASSUME NEW f, NEW t \in Seq(Keys), NEW k \in Keys \ DOMAIN f, NEW q \in Nat \ {0},
           \A l \in DOMAIN f : f[l] # q
    PROVE  /\ [frequency |-> q, keys |-> <<k>>] \in Nodes
           /\ NodeFor([frequency |-> q, keys |-> <<k>>], With(f, k, q), Append(t, k))
<1> DEFINE g    == With(f, k, q)
           keys == <<k>>
           m    == [frequency |-> q, keys |-> keys]
<1>1. {l \in DOMAIN g : g[l] = q} = {k}
  BY DEF With
<1>2. Names(keys, {k}) /\ keys # <<>> /\ keys \in Seq(Keys)
  BY DEF Names, IsInjective, ToSet
<1>3. Mirrors(keys, Append(t, k))
  BY DEF Mirrors
<1>4. m \in Nodes /\ m.frequency = q /\ m.keys = keys
  BY <1>2 DEF Nodes
<1> HIDE DEF g, m, keys
<1>5. NodeFor(m, g, Append(t, k))
  BY <1>1, <1>2, <1>3, <1>4 DEF NodeFor
<1> QED
  BY <1>4, <1>5 DEF m, g, keys

\* Taking a key from the node of its frequency, which goes if it was its last.
LEMMA KeyTaken ==
    ASSUME NEW f, NEW t \in Seq(Keys), NodesFor(freqs, f, t),
           NEW i \in DOMAIN freqs, NEW k \in ToSet(freqs[i].keys), NEW keys,
           Names(keys, ToSet(freqs[i].keys) \ {k}),
           \A x, y : Ahead(keys, x, y) => Ahead(freqs[i].keys, x, y)
    PROVE  LET rest == Keep(i, keys)
               next == IF Len(rest) < Len(freqs) THEN i ELSE i + 1
           IN  /\ NodesFor(rest, Without(f, {k}), Skipping(t, {k}))
               /\ next \in 1 .. Len(rest) + 1
               /\ \A j \in DOMAIN rest :
                     IF j < next THEN rest[j].frequency <= freqs[i].frequency
                     ELSE rest[j].frequency > freqs[i].frequency
<1> DEFINE rest == Keep(i, keys)
           next == IF Len(rest) < Len(freqs) THEN i ELSE i + 1
           L    == Len(freqs)
           g    == Without(f, {k})
           u    == Skipping(t, {k})
<1>1. /\ freqs \in Seq(Nodes)
      /\ \A m, n \in DOMAIN freqs : m < n => freqs[m].frequency < freqs[n].frequency
      /\ \A n \in DOMAIN freqs : NodeFor(freqs[n], f, t)
      /\ \A l \in DOMAIN f : \E n \in DOMAIN freqs : freqs[n].frequency = f[l]
  BY DEF NodesFor
<1>2. L \in Nat /\ DOMAIN freqs = 1 .. L /\ \A n \in 1 .. L : freqs[n] \in Nodes
  BY <1>1, LenProperties
<1>3. \A n \in 1 .. L : freqs[n].frequency \in Nat
  BY <1>2 DEF Nodes
<1>4. k \in DOMAIN f /\ f[k] = freqs[i].frequency
  BY <1>1, NamesIs DEF NodeFor
<1>5. \A n \in 1 .. L : n # i => f[k] # freqs[n].frequency
  <2>1. \A n \in 1 .. L : n < i \/ i < n \/ n = i
    BY <1>2
  <2> QED
    BY <1>1, <1>2, <1>3, <1>4, <2>1
<1>6. \A n \in 1 .. L : n # i => NodeFor(freqs[n], g, u)
  BY <1>1, <1>2, <1>5, NodeLeft
<1>7. DOMAIN g = DOMAIN f \ {k} /\ \A l \in DOMAIN g : g[l] = f[l]
  BY DEF Without
<1> HIDE DEF g, u
<1>8. CASE keys = <<>>
  <2>1. rest = RemoveAt(freqs, i)
    BY <1>8 DEF Keep
  <2>2. /\ rest \in Seq(Nodes) /\ Len(rest) = L - 1 /\ DOMAIN rest = 1 .. L - 1
        /\ \A j \in 1 .. L - 1 : rest[j] = IF j < i THEN freqs[j] ELSE freqs[j + 1]
    BY <1>1, <2>1, TakenOut
  <2> HIDE DEF rest, L
  <2>3. next = i
    BY <1>2, <2>2 DEF L
  <2>4. \A j \in 1 .. L - 1 : /\ j < i => j \in 1 .. L /\ j # i
                              /\ ~(j < i) => j + 1 \in 1 .. L /\ j + 1 # i /\ i < j + 1
    BY <1>2
  <2>5. \A m, n \in DOMAIN rest : m < n => rest[m].frequency < rest[n].frequency
    <3> SUFFICES ASSUME NEW m \in 1 .. L - 1, NEW n \in 1 .. L - 1, m < n
                 PROVE  rest[m].frequency < rest[n].frequency
      BY <2>2
    <3>1. CASE n < i
      <4>1. m < i
        BY <1>2, <3>1
      <4> QED
        BY <1>1, <1>2, <2>2, <2>4, <3>1, <4>1
    <3>2. CASE ~(n < i) /\ m < i
      <4>1. m < n + 1
        BY <1>2, <3>2
      <4> QED
        BY <1>1, <1>2, <2>2, <2>4, <3>2, <4>1
    <3>3. CASE ~(m < i)
      <4>1. ~(n < i) /\ m + 1 < n + 1
        BY <1>2, <3>3
      <4> QED
        BY <1>1, <1>2, <2>2, <2>4, <3>3, <4>1
    <3> QED
      BY <3>1, <3>2, <3>3
  <2>6. \A j \in DOMAIN rest : NodeFor(rest[j], g, u)
    BY <1>6, <2>2, <2>4
  <2>7. \A l \in DOMAIN g : \E j \in DOMAIN rest : rest[j].frequency = g[l]
    <3> SUFFICES ASSUME NEW l \in DOMAIN g PROVE \E j \in DOMAIN rest : rest[j].frequency = g[l]
      OBVIOUS
    <3>1. l \in DOMAIN f /\ l # k /\ g[l] = f[l]
      BY <1>7
    <3>2. PICK n \in 1 .. L : freqs[n].frequency = f[l]
      BY <1>1, <1>2, <3>1
    <3>3. n # i
      <4>1. ToSet(freqs[i].keys) \ {k} = {}
        BY <1>8, NamesEmpty
      <4>2. ToSet(freqs[i].keys) = {m \in DOMAIN f : f[m] = freqs[i].frequency}
        BY <1>1, NamesIs DEF NodeFor
      <4> QED
        BY <3>1, <3>2, <4>1, <4>2
    <3>4. CASE n < i
      <4>1. n \in 1 .. L - 1
        BY <1>2, <3>4
      <4> QED
        BY <2>2, <3>1, <3>2, <3>4, <4>1
    <3>5. CASE ~(n < i)
      <4>1. n - 1 \in 1 .. L - 1 /\ ~(n - 1 < i) /\ (n - 1) + 1 = n
        BY <1>2, <3>3, <3>5
      <4> QED
        BY <2>2, <3>1, <3>2, <4>1
    <3> QED
      BY <3>4, <3>5
  <2>8. NodesFor(rest, g, u)
    BY <2>2, <2>5, <2>6, <2>7 DEF NodesFor
  <2>9. next \in 1 .. Len(rest) + 1
    BY <1>2, <2>2, <2>3
  <2>10. \A j \in DOMAIN rest : IF j < next THEN rest[j].frequency <= freqs[i].frequency
                                 ELSE rest[j].frequency > freqs[i].frequency
    <3>1. \A j \in 1 .. L - 1 : j < i => rest[j].frequency < freqs[i].frequency
      BY <1>1, <1>2, <2>2, <2>4
    <3>2. \A j \in 1 .. L - 1 : ~(j < i) => freqs[i].frequency < rest[j].frequency
      BY <1>1, <1>2, <2>2, <2>4
    <3>3. \A j \in 1 .. L - 1 : rest[j].frequency \in Nat /\ freqs[i].frequency \in Nat
      BY <1>2, <1>3, <2>2, <2>4
    <3> HIDE DEF next
    <3> QED
      BY <2>2, <2>3, <3>1, <3>2, <3>3
  <2> QED
    BY <2>8, <2>9, <2>10 DEF rest, g, u
<1>9. CASE keys # <<>>
  <2>1. rest = [freqs EXCEPT ![i].keys = keys]
    BY <1>9 DEF Keep
  <2> DEFINE new == [freqs[i] EXCEPT !.keys = keys]
  <2>2. new \in Nodes /\ NodeFor(new, g, u)
    BY <1>1, <1>2, <1>4, <1>9, NodeThinned DEF g, u
  <2>3. new.frequency = freqs[i].frequency
    BY <1>2 DEF Nodes
  <2>4. rest = [n \in 1 .. L |-> IF n = i THEN new ELSE freqs[n]]
    BY <1>2, <2>1
  <2> HIDE DEF new
  <2>5. rest \in Seq(Nodes) /\ Len(rest) = L /\ DOMAIN rest = 1 .. L
    BY <1>2, <2>2, <2>4
  <2>6. \A n \in 1 .. L : rest[n].frequency = freqs[n].frequency
    BY <2>3, <2>4
  <2>7. \A n \in 1 .. L : NodeFor(rest[n], g, u)
    BY <1>6, <2>2, <2>4
  <2> HIDE DEF rest, L
  <2>8. NodesFor(rest, g, u)
    BY <1>1, <1>2, <1>7, <2>5, <2>6, <2>7 DEF NodesFor
  <2>9. next = i + 1
    BY <1>2, <2>5 DEF L
  <2>10. next \in 1 .. Len(rest) + 1
    BY <1>2, <2>5, <2>9
  <2>11. \A j \in DOMAIN rest : IF j < next THEN rest[j].frequency <= freqs[i].frequency
                                 ELSE rest[j].frequency > freqs[i].frequency
    <3>1. \A j \in 1 .. L : (j < i + 1 => j < i \/ j = i) /\ (~(j < i + 1) => i < j)
      BY <1>2
    <3>2. \A j \in 1 .. L : rest[j].frequency \in Nat /\ freqs[i].frequency \in Nat
      BY <1>2, <1>3, <2>6
    <3>3. \A j \in 1 .. L : j < i => rest[j].frequency < freqs[i].frequency
      BY <1>1, <1>2, <2>6
    <3>4. \A j \in 1 .. L : j = i => rest[j].frequency = freqs[i].frequency
      BY <2>6
    <3>5. \A j \in 1 .. L : i < j => rest[j].frequency > freqs[i].frequency
      <4>1. \A j \in 1 .. L : i < j => freqs[i].frequency < rest[j].frequency
        BY <1>1, <1>2, <2>6
      <4> QED
        BY <3>2, <4>1
    <3>6. \A j \in 1 .. L : j < i + 1 => rest[j].frequency <= freqs[i].frequency
      BY <3>1, <3>2, <3>3, <3>4
    <3> HIDE DEF next
    <3> QED
      BY <2>5, <2>9, <3>1, <3>5, <3>6
  <2> QED
    BY <2>8, <2>10, <2>11 DEF rest, g, u
<1> QED
  BY <1>8, <1>9

\* Putting a key into the node of frequency q, which is the one at p or comes
\* there.
LEMMA KeyLinked ==
    ASSUME NEW fs, NEW f, NEW t \in Seq(Keys), NodesFor(fs, f, t), DOMAIN f \subseteq ToSet(t),
           NEW k \in Keys \ DOMAIN f, NEW q \in Nat \ {0}, NEW p \in 1 .. Len(fs) + 1,
           \A j \in DOMAIN fs : IF j < p THEN fs[j].frequency < q ELSE fs[j].frequency >= q
    PROVE  NodesFor(Link(fs, p, q, k), With(f, k, q), Append(t, k))
<1> DEFINE more == Link(fs, p, q, k)
           L    == Len(fs)
           g    == With(f, k, q)
           u    == Append(t, k)
<1>1. /\ fs \in Seq(Nodes)
      /\ \A m, n \in DOMAIN fs : m < n => fs[m].frequency < fs[n].frequency
      /\ \A n \in DOMAIN fs : NodeFor(fs[n], f, t)
      /\ \A l \in DOMAIN f : \E n \in DOMAIN fs : fs[n].frequency = f[l]
  BY DEF NodesFor
<1>2. L \in Nat /\ DOMAIN fs = 1 .. L /\ \A n \in 1 .. L : fs[n] \in Nodes
  BY <1>1, LenProperties
<1>3. \A n \in 1 .. L : fs[n].frequency \in Nat
  BY <1>2 DEF Nodes
<1>4. \A n \in 1 .. L : fs[n].frequency # q => NodeFor(fs[n], g, u)
  BY <1>1, <1>2, NodeMore
<1>5. DOMAIN g = DOMAIN f \cup {k} /\ g[k] = q /\ \A l \in DOMAIN f : g[l] = f[l]
  BY DEF With
<1>6. \A j \in 1 .. L : /\ j < p => fs[j].frequency < q
                        /\ ~(j < p) => q <= fs[j].frequency
  BY <1>2, <1>3
<1> HIDE DEF g, u
<1>7. CASE p \in DOMAIN fs /\ fs[p].frequency = q
  <2> DEFINE new == [fs[p] EXCEPT !.keys = <<k>> \o @]
  <2>1. more = [fs EXCEPT ![p].keys = <<k>> \o @]
    BY <1>7 DEF Link
  <2>2. new \in Nodes /\ NodeFor(new, g, u)
    BY <1>1, <1>2, <1>7, NodeJoined DEF g, u
  <2>3. new.frequency = q
    BY <1>2, <1>7 DEF Nodes
  <2>4. more = [n \in 1 .. L |-> IF n = p THEN new ELSE fs[n]]
    BY <1>2, <2>1
  <2> HIDE DEF new
  <2>5. more \in Seq(Nodes) /\ DOMAIN more = 1 .. L
    BY <1>2, <2>2, <2>4
  <2>6. \A n \in 1 .. L : more[n].frequency = fs[n].frequency
    BY <1>7, <2>3, <2>4
  <2>7. \A n \in 1 .. L : n # p => fs[n].frequency # q
    <3>1. \A n \in 1 .. L : n < p \/ p < n \/ n = p
      BY <1>2
    <3>2. \A n \in 1 .. L : n < p => fs[n].frequency < q
      BY <1>1, <1>2, <1>7
    <3>3. \A n \in 1 .. L : p < n => q < fs[n].frequency
      BY <1>1, <1>2, <1>7
    <3>4. \A n \in 1 .. L : fs[n].frequency \in Nat /\ q \in Nat
      BY <1>2, <1>3
    <3> QED
      BY <3>1, <3>2, <3>3, <3>4
  <2>8. \A n \in 1 .. L : NodeFor(more[n], g, u)
    BY <1>4, <2>2, <2>4, <2>7
  <2> HIDE DEF more, L
  <2>9. \A l \in DOMAIN g : \E n \in DOMAIN more : more[n].frequency = g[l]
    BY <1>1, <1>2, <1>5, <1>7, <2>5, <2>6
  <2>10. NodesFor(more, g, u)
    BY <1>1, <1>2, <2>5, <2>6, <2>8, <2>9 DEF NodesFor
  <2> QED
    BY <2>10 DEF more, g, u
<1>8. CASE ~(p \in DOMAIN fs /\ fs[p].frequency = q)
  <2> DEFINE new == [frequency |-> q, keys |-> <<k>>]
  <2>1. more = InsertAt(fs, p, new)
    BY <1>8 DEF Link
  <2>2. \A j \in 1 .. L : /\ fs[j].frequency # q
                          /\ j < p => fs[j].frequency < q
                          /\ ~(j < p) => q < fs[j].frequency
    <3> SUFFICES ASSUME NEW j \in 1 .. L
                 PROVE  /\ fs[j].frequency # q
                        /\ j < p => fs[j].frequency < q
                        /\ ~(j < p) => q < fs[j].frequency
      OBVIOUS
    <3>1. CASE j < p
      BY <1>3, <1>6, <3>1
    <3>2. CASE j = p
      BY <1>2, <1>3, <1>6, <1>8, <3>2
    <3>3. CASE p < j
      <4>1. p \in 1 .. L /\ ~(p < p) /\ ~(j < p)
        BY <1>2, <3>3
      <4>2. q <= fs[p].frequency /\ fs[p].frequency < fs[j].frequency
        BY <1>1, <1>2, <1>6, <3>3, <4>1
      <4>3. fs[p].frequency \in Nat /\ fs[j].frequency \in Nat
        BY <1>3, <4>1
      <4> QED
        BY <4>1, <4>2, <4>3
    <3>4. j < p \/ j = p \/ p < j
      BY <1>2
    <3> QED
      BY <3>1, <3>2, <3>3, <3>4
  <2>3. \A l \in DOMAIN f : f[l] # q
    BY <1>1, <1>2, <2>2
  <2>4. new \in Nodes /\ NodeFor(new, g, u) /\ new.frequency = q
    BY <2>3, NodeNew DEF g, u
  <2> HIDE DEF new
  <2>5. /\ more \in Seq(Nodes) /\ DOMAIN more = 1 .. L + 1
        /\ \A j \in 1 .. L + 1 :
              more[j] = IF j < p THEN fs[j] ELSE IF j = p THEN new ELSE fs[j - 1]
    BY <1>1, <2>1, <2>4, PutIn
  <2> HIDE DEF more, L
  <2>6. \A j \in 1 .. L + 1 : /\ j < p => j \in 1 .. L
                              /\ p < j => j - 1 \in 1 .. L /\ ~(j - 1 < p)
                              /\ j < p \/ j = p \/ p < j
                              /\ ~(j < p /\ j = p) /\ ~(p < j /\ j = p) /\ ~(p < j /\ j < p)
    BY <1>2 DEF L
  <2>7. \A j \in 1 .. L + 1 : /\ j < p => more[j] = fs[j]
                              /\ j = p => more[j] = new
                              /\ p < j => more[j] = fs[j - 1]
    BY <2>5, <2>6
  <2>8. \A m, n \in DOMAIN more : m < n => more[m].frequency < more[n].frequency
    <3> SUFFICES ASSUME NEW m \in 1 .. L + 1, NEW n \in 1 .. L + 1, m < n
                 PROVE  more[m].frequency < more[n].frequency
      BY <2>5
    <3>1. CASE n < p
      <4>1. m < p
        BY <1>2, <3>1
      <4> QED
        BY <1>1, <1>2, <2>6, <2>7, <3>1, <4>1
    <3>2. CASE n = p
      <4>1. m < p
        BY <3>2
      <4> QED
        BY <2>2, <2>4, <2>6, <2>7, <3>2, <4>1
    <3>3. CASE p < n /\ m = p
      BY <2>2, <2>4, <2>6, <2>7, <3>3
    <3>4. CASE p < n /\ m < p
      <4>1. m < n - 1 /\ m \in 1 .. L /\ n - 1 \in 1 .. L
        <5>1. ~(n - 1 < p)
          BY <2>6, <3>4
        <5> QED
          BY <1>2, <2>6, <3>4, <5>1
      <4>2. more[m] = fs[m] /\ more[n] = fs[n - 1]
        BY <2>7, <3>4
      <4> QED
        BY <1>1, <1>2, <4>1, <4>2
    <3>5. CASE p < m
      <4>1. p < n /\ m - 1 < n - 1
        BY <1>2, <3>5
      <4>2. m - 1 \in 1 .. L /\ n - 1 \in 1 .. L
        BY <2>6, <3>5, <4>1
      <4>3. more[m] = fs[m - 1] /\ more[n] = fs[n - 1]
        BY <2>7, <3>5, <4>1
      <4> QED
        BY <1>1, <1>2, <4>1, <4>2, <4>3
    <3> QED
      BY <2>6, <3>1, <3>2, <3>3, <3>4, <3>5
  <2>9. \A j \in DOMAIN more : NodeFor(more[j], g, u)
    BY <1>4, <2>2, <2>4, <2>5, <2>6, <2>7
  <2>10. \A l \in DOMAIN g : \E n \in DOMAIN more : more[n].frequency = g[l]
    <3>1. p \in DOMAIN more /\ more[p].frequency = g[k]
      BY <1>2, <1>5, <2>4, <2>5, <2>7 DEF L
    <3>2. ASSUME NEW l \in DOMAIN f
          PROVE  \E n \in DOMAIN more : more[n].frequency = g[l]
      <4>1. PICK n \in 1 .. L : fs[n].frequency = f[l]
        BY <1>1, <1>2
      <4>2. CASE n < p
        <5>1. n \in 1 .. L + 1
          BY <1>2
        <5> QED
          BY <1>5, <2>5, <2>7, <4>1, <4>2, <5>1
      <4>3. CASE ~(n < p)
        <5>1. n + 1 \in 1 .. L + 1 /\ p < n + 1 /\ (n + 1) - 1 = n
          BY <1>2, <4>3
        <5> QED
          BY <1>5, <2>5, <2>7, <4>1, <5>1
      <4> QED
        BY <4>2, <4>3
    <3> QED
      BY <1>5, <3>1, <3>2
  <2>11. NodesFor(more, g, u)
    BY <2>5, <2>8, <2>9, <2>10 DEF NodesFor
  <2> QED
    BY <2>11 DEF more, g, u
<1> QED
  BY <1>7, <1>8

(***************************************************************************)
(* The invariant.                                                          *)
(***************************************************************************)

LEMMA LfuIs ==
    ASSUME EntriesTypeOK
    PROVE  LfuExact <=> node = uses /\ NodesFor(freqs, node, recent)
<1>1. node = uses => DOMAIN node = Cached
  BY DEF EntriesTypeOK
<1>2. freqs \in Seq(Nodes)
  BY DEF EntriesTypeOK, Nodes
<1> QED
  BY <1>1, <1>2 DEF LfuExact, Ascending, NodeExact, NodesFor, NodeFor

LEMMA LfuNext ==
    ASSUME EntriesTypeOK'
    PROVE  LfuExact' <=> node' = uses' /\ NodesFor(freqs', node', recent')
<1>1. node' = uses' => DOMAIN node' = Cached'
  BY DEF EntriesTypeOK
<1>2. freqs' \in Seq(Nodes)
  BY DEF EntriesTypeOK, Nodes
<1> QED
  BY <1>1, <1>2 DEF LfuExact, Ascending, NodeExact, NodesFor, NodeFor

LEMMA InitOrders == EntriesInit => OrdersExact
<1> SUFFICES ASSUME EntriesInit PROVE OrdersExact
  OBVIOUS
<1>1. Cached = {} /\ uses = [k \in {} |-> 0] /\ node = uses
  BY DEF EntriesInit, Empty, Cached
<1>2. IsFiniteSet({}) /\ Cardinality({}) = 0
  BY FS_EmptySet
<1>3. Names(<<>>, Cached)
  BY <1>1, NamesNone
<1>4. <<>> \in Seq([frequency : Nat \ {0}, keys : Seq(Keys)])
  OBVIOUS
<1>5. EntriesTypeOK
  BY <1>1, <1>2, <1>3, <1>4, CapacityAssumption DEF EntriesInit, EntriesTypeOK
<1>6. Mirrors(<<>>, <<>>) /\ Follows(<<>>, <<>>)
  BY DEF Mirrors, Follows
<1>7. LruExact /\ FifoExact
  BY <1>1, <1>3, <1>6 DEF EntriesInit, LruExact, FifoExact
<1>8. LfuExact
  BY <1>1 DEF EntriesInit, LfuExact, Ascending, NodeExact
<1> QED
  BY <1>5, <1>7, <1>8 DEF EntriesInit, OrdersExact

\* The history and the values after a call.
LEMMA HistoryAfter ==
    ASSUME OrdersExact, NEW ks, Cached' = ks, ks \subseteq Keys,
           \A k \in ks : data'[k] \in Values,
           IsFiniteSet(ks), Cardinality(ks) <= Capacity,
           Names(born', ks), Names(recent', ks), uses' \in [ks -> Nat \ {0}],
           freqs' \in Seq(Nodes), UNCHANGED policy
    PROVE  EntriesTypeOK'
BY DEF OrdersExact, EntriesTypeOK, Nodes

\* A key moved to the front of one list and to the end of its mirror.
LEMMA MirrorsMoved ==
    ASSUME NEW s, NEW t, NEW ks, Names(s, ks), Names(t, ks), Mirrors(s, t), NEW k \in ks
    PROVE  /\ Names(<<k>> \o Skipping(s, {k}), ks) /\ Names(Append(Skipping(t, {k}), k), ks)
           /\ Mirrors(<<k>> \o Skipping(s, {k}), Append(Skipping(t, {k}), k))
<1> DEFINE a == Skipping(s, {k})
           b == Skipping(t, {k})
<1>1. Names(a, ks \ {k}) /\ Names(b, ks \ {k})
  BY NamesLeft
<1>2. Names(<<k>> \o a, (ks \ {k}) \cup {k}) /\ Names(Append(b, k), (ks \ {k}) \cup {k})
  BY <1>1, NamesMore
<1>3. s \in Seq(ks) /\ t \in Seq(ks) /\ a \in Seq(ks) /\ b \in Seq(ks)
      /\ ToSet(a) = ks \ {k} /\ ToSet(b) = ks \ {k}
  BY <1>1, NamesIs, Skipped
<1>4. Mirrors(a, t)
  BY <1>3, AheadPicked, OrdersOfPart
<1>5. Mirrors(a, b)
  BY <1>3, <1>4, OrdersKept
<1> HIDE DEF a, b
<1>6. Mirrors(<<k>> \o a, Append(b, k))
  BY <1>3, <1>5, OrdersExtended
<1>7. (ks \ {k}) \cup {k} = ks
  OBVIOUS
<1> QED
  BY <1>2, <1>6, <1>7 DEF a, b

\* Where a key is among the nodes, and the keys of its node without it.
LEMMA KeyAt ==
    ASSUME NEW f, NodesFor(freqs, f, recent), node = f, NEW k \in DOMAIN f
    PROVE  LET i    == NodeAt(k)
               keys == Skipping(freqs[i].keys, {k})
           IN  /\ i \in DOMAIN freqs /\ freqs[i].frequency = node[k]
               /\ k \in ToSet(freqs[i].keys) /\ Names(keys, ToSet(freqs[i].keys) \ {k})
               /\ \A x, y : Ahead(keys, x, y) => Ahead(freqs[i].keys, x, y)
<1> DEFINE i    == NodeAt(k)
           like == {l \in DOMAIN f : f[l] = node[k]}
<1>1. i \in DOMAIN freqs /\ freqs[i].frequency = node[k]
  BY DEF NodesFor, NodeAt
<1> HIDE DEF i
<1>2. Names(freqs[i].keys, like)
  BY <1>1 DEF NodesFor, NodeFor
<1>3. k \in like
  OBVIOUS
<1> HIDE DEF like
<1>4. freqs[i].keys \in Seq(like) /\ ToSet(freqs[i].keys) = like
  BY <1>2, NamesIs
<1>5. Names(Skipping(freqs[i].keys, {k}), like \ {k})
  BY <1>2, NamesLeft
<1>6. \A x, y : Ahead(Skipping(freqs[i].keys, {k}), x, y) => Ahead(freqs[i].keys, x, y)
  BY <1>4, AheadPicked
<1> QED
  BY <1>1, <1>3, <1>4, <1>5, <1>6 DEF i

LEMMA RecordAccessOrders ==
    ASSUME OrdersExact, NEW k \in Cached, RecordAccess(k),
           Cached' = Cached, \A l \in Cached : data'[l] \in Values
    PROVE  OrdersExact'
<1>1. /\ Cached \subseteq Keys /\ IsFiniteSet(Cached) /\ Cardinality(Cached) <= Capacity
      /\ Names(born, Cached) /\ Names(recent, Cached) /\ uses \in [Cached -> Nat \ {0}]
      /\ freqs \in Seq(Nodes) /\ EntriesTypeOK
      /\ policy \in {"LRU", "FIFO", "LFU"}
  BY DEF OrdersExact, EntriesTypeOK, Nodes
<1>2. /\ recent' = Append(Skipping(recent, {k}), k)
      /\ UNCHANGED <<policy, located, fifo, born>>
  BY DEF RecordAccess
<1>3. Names(recent', Cached)
  <2>1. Names(Append(Skipping(recent, {k}), k), (Cached \ {k}) \cup {k})
    BY <1>1, NamesLeft, NamesMore
  <2>2. (Cached \ {k}) \cup {k} = Cached
    OBVIOUS
  <2> QED
    BY <1>2, <2>1, <2>2
<1>4. CASE policy = "LRU"
  <2>1. /\ lruOrder' = <<k>> \o Skipping(lruOrder, {k})
        /\ UNCHANGED <<freqs, node, uses>>
    BY <1>4 DEF RecordAccess
  <2>2. Names(lruOrder, Cached) /\ located = Cached /\ Mirrors(lruOrder, recent)
    BY <1>4 DEF OrdersExact, LruExact
  <2>3. Names(lruOrder', Cached) /\ Mirrors(lruOrder', recent')
    BY <1>1, <1>2, <2>1, <2>2, MirrorsMoved
  <2>4. EntriesTypeOK'
    BY <1>1, <1>2, <1>3, <2>1, HistoryAfter
  <2>5. LruExact'
    BY <1>2, <2>2, <2>3 DEF LruExact
  <2> QED
    BY <1>2, <1>4, <2>1, <2>4, <2>5 DEF OrdersExact
<1>5. CASE policy = "FIFO"
  <2>1. UNCHANGED <<lruOrder, freqs, node, uses>>
    BY <1>5 DEF RecordAccess
  <2>2. EntriesTypeOK'
    BY <1>1, <1>2, <1>3, <2>1, HistoryAfter
  <2>3. FifoExact'
    BY <1>2, <1>5 DEF OrdersExact, FifoExact
  <2> QED
    BY <1>2, <1>5, <2>1, <2>2, <2>3 DEF OrdersExact
<1>6. CASE policy = "LFU"
  <2> DEFINE i    == NodeAt(k)
             keys == Skipping(freqs[i].keys, {k})
             rest == Keep(i, keys)
             next == IF Len(rest) < Len(freqs) THEN i ELSE i + 1
             f    == Without(node, {k})
             t    == Skipping(recent, {k})
             q    == node[k] + 1
  <2>1. /\ freqs' = IncrementFrequency(k)
        /\ node' = [node EXCEPT ![k] = @ + 1]
        /\ uses' = [uses EXCEPT ![k] = @ + 1]
        /\ UNCHANGED lruOrder
    BY <1>6 DEF RecordAccess
  <2>2. node = uses /\ NodesFor(freqs, node, recent) /\ DOMAIN node = Cached
    BY <1>1, <1>6, LfuIs DEF OrdersExact
  <2>3. i \in DOMAIN freqs /\ freqs[i].frequency = node[k]
    BY <2>2, KeyAt
  <2>5. /\ k \in ToSet(freqs[i].keys) /\ Names(keys, ToSet(freqs[i].keys) \ {k})
        /\ \A x, y : Ahead(keys, x, y) => Ahead(freqs[i].keys, x, y)
    BY <2>2, KeyAt
  <2> HIDE DEF i
  <2>6. recent \in Seq(Keys) /\ t \in Seq(Keys) /\ ToSet(t) = Cached \ {k}
    <3>1. recent \in Seq(Cached) /\ ToSet(recent) = Cached
      BY <1>1, NamesIs
    <3>2. recent \in Seq(Keys)
      BY <1>1, <3>1, Widened
    <3> QED
      BY <3>1, <3>2, Skipped
  <2> HIDE DEF keys
  <2>7. /\ NodesFor(rest, f, t) /\ next \in 1 .. Len(rest) + 1
        /\ \A j \in DOMAIN rest : IF j < next THEN rest[j].frequency <= freqs[i].frequency
                                   ELSE rest[j].frequency > freqs[i].frequency
    BY <2>2, <2>3, <2>5, <2>6, KeyTaken
  <2>8. freqs' = Link(rest, next, q, k)
    BY <2>1 DEF IncrementFrequency, Unlink, keys, i
  <2> HIDE DEF rest, next, t
  <2>9. node[k] \in Nat \ {0} /\ q \in Nat \ {0} /\ k \in Keys \ DOMAIN f /\ DOMAIN f = Cached \ {k}
    BY <1>1, <2>2 DEF Without
  <2>10. \A j \in DOMAIN rest : IF j < next THEN rest[j].frequency < q
                                ELSE rest[j].frequency >= q
    <3>1. rest \in Seq(Nodes)
      BY <2>7 DEF NodesFor
    <3>2. \A j \in DOMAIN rest : rest[j] \in Nodes
      BY <3>1, LenProperties
    <3>3. \A j \in DOMAIN rest : rest[j].frequency \in Nat
      BY <3>2 DEF Nodes
    <3> QED
      BY <2>3, <2>7, <2>9, <3>3
  <2> HIDE DEF q, f
  <2>11. NodesFor(freqs', With(f, k, q), recent')
    BY <1>2, <2>6, <2>7, <2>8, <2>9, <2>10, KeyLinked DEF t
  <2>12. With(f, k, q) = node' /\ node' = uses' /\ uses' \in [Cached -> Nat \ {0}]
    <3>1. uses' \in [Cached -> Nat \ {0}]
      BY <1>1, <2>1
    <3>2. node' = uses'
      BY <2>1, <2>2
    <3>3. With(f, k, q) = [l \in Cached |-> IF l = k THEN node[k] + 1 ELSE node[l]]
      BY <2>2, <2>9 DEF With, Without, f, q
    <3>4. node' = [l \in Cached |-> IF l = k THEN node[k] + 1 ELSE node[l]]
      BY <1>1, <2>1, <2>2
    <3> QED
      BY <3>1, <3>2, <3>3, <3>4
  <2>13. freqs' \in Seq(Nodes)
    BY <2>11 DEF NodesFor
  <2>14. EntriesTypeOK'
    BY <1>1, <1>2, <1>3, <2>12, <2>13, HistoryAfter
  <2>15. LfuExact'
    BY <2>11, <2>12, <2>14, LfuNext
  <2> QED
    BY <1>2, <1>6, <2>1, <2>14, <2>15 DEF OrdersExact
<1> QED
  BY <1>1, <1>4, <1>5, <1>6

\* The victim, and how the orders are left without it, or without nobody.
LEMMA LruEvicts ==
    ASSUME OrdersExact, policy = "LRU", Cached # {}
    PROVE  /\ Victim \in Cached /\ \A l \in Cached \ {Victim} : Ahead(recent, Victim, l)
           /\ Names(Front(lruOrder), Cached \ {Victim})
           /\ Mirrors(Front(lruOrder), recent)
<1>1. Names(lruOrder, Cached) /\ Mirrors(lruOrder, recent)
  BY DEF OrdersExact, LruExact
<1>2. lruOrder \in Seq(Cached) /\ IsInjective(lruOrder) /\ ToSet(lruOrder) = Cached /\ lruOrder # <<>>
  BY <1>1, NamesIs, NamesEmpty
<1>3. Victim = Last(lruOrder)
  BY DEF Victim
<1>4. /\ Last(lruOrder) \in Cached /\ Names(Front(lruOrder), Cached \ {Last(lruOrder)})
      /\ \A x, y : Ahead(Front(lruOrder), x, y) => Ahead(lruOrder, x, y)
      /\ \A x \in Cached \ {Last(lruOrder)} : Ahead(lruOrder, x, Last(lruOrder))
  BY <1>1, <1>2, NamesEnds, WithoutLast
<1>5. Mirrors(Front(lruOrder), recent)
  BY <1>1, <1>4, OrdersOfPart
<1>6. \A x \in Cached \ {Last(lruOrder)} : Ahead(recent, Last(lruOrder), x)
  BY <1>1, <1>4, OrdersByPairs
<1> QED
  BY <1>3, <1>4, <1>5, <1>6

LEMMA FifoEvicts ==
    ASSUME OrdersExact, policy = "FIFO", Cached # {}
    PROVE  /\ Victim \in Cached /\ \A l \in Cached \ {Victim} : Ahead(born, Victim, l)
           /\ Names(Tail(fifo), Cached \ {Victim})
           /\ Follows(Tail(fifo), born)
<1>1. Names(fifo, Cached) /\ Follows(fifo, born)
  BY DEF OrdersExact, FifoExact
<1>2. fifo \in Seq(Cached) /\ IsInjective(fifo) /\ ToSet(fifo) = Cached /\ fifo # <<>>
  BY <1>1, NamesIs, NamesEmpty
<1>3. Victim = Head(fifo)
  BY DEF Victim
<1>4. /\ Head(fifo) \in Cached /\ Names(Tail(fifo), Cached \ {Head(fifo)})
      /\ \A x, y : Ahead(Tail(fifo), x, y) => Ahead(fifo, x, y)
      /\ \A x \in Cached \ {Head(fifo)} : Ahead(fifo, Head(fifo), x)
  BY <1>1, <1>2, NamesEnds, WithoutHead
<1>5. Follows(Tail(fifo), born)
  BY <1>1, <1>4, OrdersOfPart
<1>6. \A x \in Cached \ {Head(fifo)} : Ahead(born, Head(fifo), x)
  BY <1>1, <1>4, OrdersByPairs
<1> QED
  BY <1>3, <1>4, <1>5, <1>6

LEMMA LfuEvicts ==
    ASSUME OrdersExact, policy = "LFU", Cached # {}
    PROVE  LET least == {k \in Cached : \A l \in Cached : uses[k] <= uses[l]}
           IN  /\ Victim \in least /\ \A l \in least \ {Victim} : Ahead(recent, Victim, l)
               /\ NodesFor(EvictLfu, Without(node, {Victim}), Skipping(recent, {Victim}))
<1> DEFINE least == {k \in Cached : \A l \in Cached : uses[k] <= uses[l]}
           first == freqs[1].keys
<1>1. /\ node = uses /\ NodesFor(freqs, node, recent) /\ DOMAIN node = Cached
      /\ uses \in [Cached -> Nat \ {0}] /\ recent \in Seq(Keys)
  <2>1. EntriesTypeOK /\ LfuExact
    BY DEF OrdersExact
  <2>2. recent \in Seq(Cached) /\ Cached \subseteq Keys
    BY <2>1, NamesIs DEF EntriesTypeOK
  <2>3. recent \in Seq(Keys)
    BY <2>2, Widened
  <2> QED
    BY <2>1, <2>3, LfuIs DEF EntriesTypeOK
<1>2. /\ freqs \in Seq(Nodes)
      /\ \A i, j \in DOMAIN freqs : i < j => freqs[i].frequency < freqs[j].frequency
      /\ \A i \in DOMAIN freqs : NodeFor(freqs[i], node, recent)
      /\ \A k \in Cached : \E i \in DOMAIN freqs : freqs[i].frequency = node[k]
  BY <1>1 DEF NodesFor
<1>3. /\ 1 \in DOMAIN freqs
      /\ \A i \in DOMAIN freqs : i = 1 \/ 1 < i
  <2>1. DOMAIN freqs = 1 .. Len(freqs) /\ Len(freqs) \in Nat
    BY <1>2, LenProperties
  <2>2. \E i : i \in DOMAIN freqs
    BY <1>2
  <2> QED
    BY <2>1, <2>2
<1>4. /\ first # <<>> /\ Mirrors(first, recent)
      /\ Names(first, {k \in Cached : node[k] = freqs[1].frequency})
  BY <1>1, <1>2, <1>3 DEF NodeFor
<1>5. least = {k \in Cached : node[k] = freqs[1].frequency}
  <2>1. freqs[1].frequency \in Nat /\ \A k \in Cached : node[k] \in Nat
    <3>1. freqs[1] \in Nodes
      BY <1>2, <1>3, LenProperties
    <3> QED
      BY <1>1, <3>1 DEF Nodes
  <2>2. \A k \in Cached : freqs[1].frequency <= node[k]
    BY <1>2, <1>3, <2>1
  <2>3. {k \in Cached : node[k] = freqs[1].frequency} # {}
    BY <1>4, NamesEmpty
  <2>4. PICK l \in Cached : node[l] = freqs[1].frequency
    BY <2>3
  <2>5. \A k \in least : node[k] = freqs[1].frequency
    BY <1>1, <2>1, <2>2, <2>4
  <2> QED
    BY <1>1, <2>2, <2>5
<1> HIDE DEF least
<1>6. /\ first \in Seq(least) /\ IsInjective(first) /\ ToSet(first) = least
  BY <1>4, <1>5, NamesIs
<1>7. Victim = Last(first)
  BY DEF Victim
<1>8. /\ Last(first) \in least /\ Names(Front(first), least \ {Last(first)})
      /\ \A x, y : Ahead(Front(first), x, y) => Ahead(first, x, y)
      /\ \A x \in least \ {Last(first)} : Ahead(first, x, Last(first))
  BY <1>4, <1>5, <1>6, NamesEnds, WithoutLast
<1>9. \A x \in least \ {Last(first)} : Ahead(recent, Last(first), x)
  BY <1>4, <1>8, OrdersByPairs
<1>10. NodesFor(Keep(1, Front(first)), Without(node, {Victim}), Skipping(recent, {Victim}))
  BY <1>1, <1>3, <1>6, <1>7, <1>8, KeyTaken
<1>11. EvictLfu = Keep(1, Front(first))
  BY DEF EvictLfu
<1> QED
  BY <1>7, <1>8, <1>9, <1>10, <1>11 DEF least

LEMMA NodesSame ==
    ASSUME NEW fs, NEW f, NEW t \in Seq(Keys), NodesFor(fs, f, t), Keys # {}
    PROVE  NodesFor(fs, Without(f, {}), Skipping(t, {}))
<1> DEFINE g == Without(f, {})
           u == Skipping(t, {})
<1>1. DOMAIN g = DOMAIN f /\ \A l \in DOMAIN f : g[l] = f[l]
  BY DEF Without
<1>2. PICK z \in Keys : TRUE
  OBVIOUS
<1>3. \A i \in DOMAIN fs : Mirrors(fs[i].keys, u)
  <2> SUFFICES ASSUME NEW i \in DOMAIN fs PROVE Mirrors(fs[i].keys, u)
    OBVIOUS
  <2>1. Mirrors(fs[i].keys, t)
    BY DEF NodesFor, NodeFor
  <2> QED
    BY <1>2, <2>1, OrdersKept
<1>4. \A i \in DOMAIN fs : {k \in DOMAIN g : g[k] = fs[i].frequency} = {k \in DOMAIN f : f[k] = fs[i].frequency}
  BY <1>1
<1> HIDE DEF g, u
<1>5. \A i \in DOMAIN fs : NodeFor(fs[i], g, u)
  BY <1>3, <1>4 DEF NodesFor, NodeFor
<1> QED
  BY <1>1, <1>5 DEF NodesFor, g, u

LEMMA PutAbsentOrders ==
    ASSUME OrdersExact, NEW k \in Keys, NEW v \in Values, PutAbsent(k, v)
    PROVE  OrdersExact'
<1> DEFINE full == Cardinality(Cached) >= Capacity
           gone == IF full THEN {Victim} ELSE {}
           kept == Cached \ gone
           new  == kept \cup {k}
<1>1. /\ k \notin Cached
      /\ data' = With(Without(data, gone), k, v)
      /\ born' = Append(Skipping(born, gone), k)
      /\ recent' = Append(Skipping(recent, gone), k)
      /\ uses' = With(Without(uses, gone), k, 1)
      /\ UNCHANGED policy
  BY DEF PutAbsent
<1>2. /\ Cached \subseteq Keys /\ IsFiniteSet(Cached) /\ Cardinality(Cached) <= Capacity
      /\ \A l \in Cached : data[l] \in Values
      /\ Names(born, Cached) /\ Names(recent, Cached) /\ uses \in [Cached -> Nat \ {0}]
      /\ freqs \in Seq(Nodes) /\ policy \in {"LRU", "FIFO", "LFU"}
  BY DEF OrdersExact, EntriesTypeOK, Nodes
<1>3. full => Cached # {}
  BY CapacityAssumption, FS_EmptySet
<1>4. gone \subseteq Cached
  BY <1>2, <1>3, LruEvicts, FifoEvicts, LfuEvicts
<1>5. IsFiniteSet(new) /\ Cardinality(new) <= Capacity
  <2>1. Cardinality(Cached) \in Nat /\ Capacity \in Nat
    BY <1>2, FS_CardinalityType, CapacityAssumption
  <2>2. IsFiniteSet(kept) /\ k \notin kept
    BY <1>1, <1>2, FS_Subset
  <2>3. Cardinality(kept) + 1 <= Capacity /\ Cardinality(kept) \in Nat
    <3>1. CASE full
      <4>1. Victim \in Cached /\ kept = Cached \ {Victim}
        BY <1>4, <3>1
      <4>2. Cardinality(kept) = Cardinality(Cached) - 1
        BY <1>2, <4>1, FS_RemoveElement
      <4>3. Cardinality(kept) \in Nat
        BY <2>2, FS_CardinalityType
      <4> HIDE DEF kept
      <4> QED
        BY <1>2, <2>1, <4>2, <4>3
    <3>2. CASE ~full
      <4>1. kept = Cached
        BY <3>2
      <4> HIDE DEF kept
      <4> QED
        BY <2>1, <3>2, <4>1
    <3> QED
      BY <3>1, <3>2
  <2>4. IsFiniteSet(new) /\ Cardinality(new) = Cardinality(kept) + 1
    BY <2>2, FS_AddElement
  <2> QED
    BY <2>3, <2>4
<1>6. Cached' = new /\ new \subseteq Keys /\ \A l \in new : data'[l] \in Values
  BY <1>1, <1>2 DEF Cached, With, Without
<1>7. Names(born', new) /\ Names(recent', new)
  <2>1. Names(Skipping(born, gone), kept) /\ Names(Skipping(recent, gone), kept) /\ k \notin kept
    BY <1>1, <1>2, NamesLeft
  <2> QED
    BY <1>1, <2>1, NamesMore
<1>8. uses' \in [new -> Nat \ {0}]
  BY <1>1, <1>2, <1>4 DEF With, Without
<1>9. /\ recent \in Seq(Keys) /\ born \in Seq(Keys)
      /\ Skipping(recent, gone) \in Seq(Keys) /\ ToSet(Skipping(recent, gone)) = kept
      /\ Skipping(born, gone) \in Seq(Keys) /\ ToSet(Skipping(born, gone)) = kept
  <2>1. recent \in Seq(Cached) /\ ToSet(recent) = Cached /\ born \in Seq(Cached) /\ ToSet(born) = Cached
    BY <1>2, NamesIs
  <2>2. recent \in Seq(Keys) /\ born \in Seq(Keys)
    BY <1>2, <2>1, Widened
  <2> QED
    BY <2>1, <2>2, Skipped
<1> HIDE DEF new, full
<1>10. CASE policy = "LRU"
  <2> DEFINE left == IF full THEN Front(lruOrder) ELSE lruOrder
  <2>1. /\ lruOrder' = <<k>> \o left
        /\ located' = (located \ gone) \cup {k}
        /\ UNCHANGED <<fifo, freqs, node>>
    BY <1>10 DEF PutAbsent, full
  <2>2. Names(lruOrder, Cached) /\ located = Cached /\ Mirrors(lruOrder, recent)
        /\ fifo = <<>> /\ freqs = <<>> /\ node = Empty
    BY <1>10 DEF OrdersExact, LruExact
  <2>3. Names(left, kept) /\ Mirrors(left, recent)
    BY <1>3, <1>10, <2>2, LruEvicts
  <2> HIDE DEF left
  <2>4. ToSet(left) = kept /\ left \in Seq(Keys) /\ ToSet(left) \cap gone = {}
    <3>1. left \in Seq(kept) /\ ToSet(left) = kept /\ kept \subseteq Keys
      BY <1>2, <2>3, NamesIs
    <3> QED
      BY <3>1, Widened
  <2>5. Mirrors(left, Skipping(recent, gone))
    BY <1>9, <2>3, <2>4, OrdersKept
  <2>6. Mirrors(lruOrder', recent')
    BY <1>1, <1>9, <2>1, <2>4, <2>5, OrdersExtended
  <2>7. Names(lruOrder', new) /\ located' = new
    BY <1>1, <2>1, <2>2, <2>3, NamesMore DEF new
  <2>8. EntriesTypeOK'
    BY <1>1, <1>2, <1>5, <1>6, <1>7, <1>8, <2>1, HistoryAfter
  <2>9. LruExact'
    BY <1>6, <2>6, <2>7 DEF LruExact
  <2> QED
    BY <1>1, <1>10, <2>1, <2>2, <2>8, <2>9 DEF OrdersExact
<1>11. CASE policy = "FIFO"
  <2> DEFINE left == IF full THEN Tail(fifo) ELSE fifo
  <2>1. fifo' = Append(left, k) /\ UNCHANGED <<lruOrder, located, freqs, node>>
    BY <1>11 DEF PutAbsent, full
  <2>2. Names(fifo, Cached) /\ Follows(fifo, born)
        /\ lruOrder = <<>> /\ located = {} /\ freqs = <<>> /\ node = Empty
    BY <1>11 DEF OrdersExact, FifoExact
  <2>3. Names(left, kept) /\ Follows(left, born)
    BY <1>3, <1>11, <2>2, FifoEvicts
  <2> HIDE DEF left
  <2>4. ToSet(left) = kept /\ left \in Seq(Keys) /\ ToSet(left) \cap gone = {}
    <3>1. left \in Seq(kept) /\ ToSet(left) = kept /\ kept \subseteq Keys
      BY <1>2, <2>3, NamesIs
    <3> QED
      BY <3>1, Widened
  <2>5. Follows(left, Skipping(born, gone))
    BY <1>9, <2>3, <2>4, OrdersKept
  <2>6. Follows(fifo', born')
    BY <1>1, <1>9, <2>1, <2>4, <2>5, OrdersExtended
  <2>7. Names(fifo', new)
    BY <1>1, <2>1, <2>3, NamesMore DEF new
  <2>8. EntriesTypeOK'
    BY <1>1, <1>2, <1>5, <1>6, <1>7, <1>8, <2>1, HistoryAfter
  <2>9. FifoExact'
    BY <1>6, <2>6, <2>7 DEF FifoExact
  <2> QED
    BY <1>1, <1>11, <2>1, <2>2, <2>8, <2>9 DEF OrdersExact
<1>12. CASE policy = "LFU"
  <2> DEFINE left == IF full THEN EvictLfu ELSE freqs
             f    == Without(node, gone)
             t    == Skipping(recent, gone)
  <2>1. /\ freqs' = Link(left, 1, 1, k)
        /\ node' = With(Without(node, gone), k, 1)
        /\ UNCHANGED <<lruOrder, located, fifo>>
    BY <1>12 DEF PutAbsent, full
  <2>2. node = uses /\ NodesFor(freqs, node, recent) /\ DOMAIN node = Cached
        /\ lruOrder = <<>> /\ located = {} /\ fifo = <<>>
    <3>1. EntriesTypeOK /\ LfuExact
      BY <1>12 DEF OrdersExact
    <3> QED
      BY <1>2, <1>12, <3>1, LfuIs DEF OrdersExact
  <2>3. NodesFor(left, f, t)
    <3>1. CASE full
      BY <1>3, <1>12, <3>1, LfuEvicts
    <3>2. CASE ~full
      BY <1>9, <2>2, <3>2, NodesSame
    <3> QED
      BY <3>1, <3>2
  <2> HIDE DEF left, t
  <2>4. DOMAIN f = kept /\ k \in Keys \ DOMAIN f
    BY <1>1, <2>2 DEF Without
  <2> HIDE DEF f
  <2>5. /\ 1 \in 1 .. Len(left) + 1
        /\ \A j \in DOMAIN left : IF j < 1 THEN left[j].frequency < 1 ELSE left[j].frequency >= 1
    <3>1. left \in Seq(Nodes)
      BY <2>3 DEF NodesFor
    <3>2. Len(left) \in Nat /\ DOMAIN left = 1 .. Len(left) /\ \A j \in DOMAIN left : left[j] \in Nodes
      BY <3>1, LenProperties
    <3>3. \A j \in DOMAIN left : ~(j < 1) /\ left[j].frequency \in Nat \ {0}
      BY <3>2 DEF Nodes
    <3> QED
      BY <3>2, <3>3
  <2>6. t \in Seq(Keys) /\ ToSet(t) = kept
    BY <1>9 DEF t
  <2>12. 1 \in Nat \ {0}
    OBVIOUS
  <2>7. NodesFor(freqs', With(f, k, 1), recent')
    BY <1>1, <2>1, <2>3, <2>4, <2>5, <2>6, <2>12, KeyLinked DEF t
  <2>8. node' = With(f, k, 1) /\ node' = uses'
    BY <1>1, <2>1, <2>2 DEF f
  <2>9. freqs' \in Seq(Nodes)
    BY <2>7 DEF NodesFor
  <2>10. EntriesTypeOK'
    BY <1>1, <1>2, <1>5, <1>6, <1>7, <1>8, <2>9, HistoryAfter
  <2>11. LfuExact'
    BY <2>7, <2>8, <2>10, LfuNext
  <2> QED
    BY <1>1, <1>12, <2>1, <2>2, <2>10, <2>11 DEF OrdersExact
<1> QED
  BY <1>2, <1>10, <1>11, <1>12

LEMMA EraseOrders ==
    ASSUME OrdersExact, NEW k \in Keys, Erase(k)
    PROVE  OrdersExact'
<1> DEFINE kept == Cached \ {k}
<1>1. /\ k \in Cached /\ data' = Without(data, {k}) /\ UNCHANGED policy
      /\ born' = Skipping(born, {k}) /\ recent' = Skipping(recent, {k})
      /\ uses' = Without(uses, {k})
  BY DEF Erase, Forget
<1>2. /\ Cached \subseteq Keys /\ IsFiniteSet(Cached) /\ Cardinality(Cached) <= Capacity
      /\ \A l \in Cached : data[l] \in Values
      /\ Names(born, Cached) /\ Names(recent, Cached) /\ uses \in [Cached -> Nat \ {0}]
      /\ freqs \in Seq(Nodes) /\ policy \in {"LRU", "FIFO", "LFU"}
  BY DEF OrdersExact, EntriesTypeOK, Nodes
<1>3. IsFiniteSet(kept) /\ Cardinality(kept) <= Capacity
  <2>1. IsFiniteSet(kept) /\ Cardinality(kept) = Cardinality(Cached) - 1
    BY <1>1, <1>2, FS_RemoveElement
  <2>2. Cardinality(Cached) \in Nat /\ Capacity \in Nat
    BY <1>2, FS_CardinalityType, CapacityAssumption
  <2> HIDE DEF kept
  <2> QED
    BY <1>2, <2>1, <2>2
<1>4. Cached' = kept /\ kept \subseteq Keys /\ \A l \in kept : data'[l] \in Values
  BY <1>1, <1>2 DEF Cached, Without
<1>5. Names(born', kept) /\ Names(recent', kept)
  BY <1>1, <1>2, NamesLeft
<1>6. uses' \in [kept -> Nat \ {0}]
  BY <1>1, <1>2 DEF Without
<1>7. recent \in Seq(Keys) /\ born \in Seq(Keys) /\ k \in Keys
  <2>1. recent \in Seq(Cached) /\ born \in Seq(Cached)
    BY <1>2, NamesIs
  <2> QED
    BY <1>1, <1>2, <2>1, Widened
<1>8. ASSUME NEW s, Names(s, Cached)
      PROVE  /\ Names(Skipping(s, {k}), kept)
             /\ Mirrors(s, recent) => Mirrors(Skipping(s, {k}), Skipping(recent, {k}))
             /\ Follows(s, born) => Follows(Skipping(s, {k}), Skipping(born, {k}))
  <2> DEFINE left == Skipping(s, {k})
  <2>1. Names(left, kept) /\ s \in Seq(Cached)
    BY <1>8, NamesLeft, NamesIs
  <2>2. /\ Mirrors(s, recent) => Mirrors(left, recent)
        /\ Follows(s, born) => Follows(left, born)
    BY <2>1, AheadPicked, OrdersOfPart
  <2>3. ToSet(left) \cap {k} = {}
    BY <2>1, NamesIs
  <2> HIDE DEF left
  <2>4. /\ Mirrors(left, recent) => Mirrors(left, Skipping(recent, {k}))
        /\ Follows(left, born) => Follows(left, Skipping(born, {k}))
    BY <1>7, <2>3, OrdersKept
  <2> QED
    BY <2>1, <2>2, <2>4 DEF left
<1>9. freqs' \in Seq(Nodes) => EntriesTypeOK'
  BY <1>1, <1>3, <1>4, <1>5, <1>6, HistoryAfter
<1>10. CASE policy = "LRU"
  <2>1. lruOrder' = Skipping(lruOrder, {k}) /\ located' = located \ {k} /\ UNCHANGED <<fifo, freqs, node>>
    BY <1>10 DEF Erase
  <2>2. Names(lruOrder, Cached) /\ located = Cached /\ Mirrors(lruOrder, recent)
    BY <1>10 DEF OrdersExact, LruExact
  <2>3. LruExact'
    BY <1>1, <1>4, <1>8, <2>1, <2>2 DEF LruExact
  <2> QED
    BY <1>1, <1>2, <1>9, <1>10, <2>1, <2>3 DEF OrdersExact
<1>11. CASE policy = "FIFO"
  <2>1. fifo' = Skipping(fifo, {k}) /\ UNCHANGED <<lruOrder, located, freqs, node>>
    BY <1>11 DEF Erase
  <2>2. Names(fifo, Cached) /\ Follows(fifo, born)
    BY <1>11 DEF OrdersExact, FifoExact
  <2>3. FifoExact'
    BY <1>1, <1>4, <1>8, <2>1, <2>2 DEF FifoExact
  <2> QED
    BY <1>1, <1>2, <1>9, <1>11, <2>1, <2>3 DEF OrdersExact
<1>12. CASE policy = "LFU"
  <2> DEFINE i    == NodeAt(k)
             keys == Skipping(freqs[i].keys, {k})
  <2>1. freqs' = Keep(i, keys) /\ node' = Without(node, {k}) /\ UNCHANGED <<lruOrder, located, fifo>>
    BY <1>12 DEF Erase, Unlink
  <2>2. node = uses /\ NodesFor(freqs, node, recent) /\ DOMAIN node = Cached
    <3>1. EntriesTypeOK /\ LfuExact
      BY <1>12 DEF OrdersExact
    <3> QED
      BY <1>2, <3>1, LfuIs
  <2>3. i \in DOMAIN freqs /\ k \in ToSet(freqs[i].keys) /\ Names(keys, ToSet(freqs[i].keys) \ {k})
        /\ \A x, y : Ahead(keys, x, y) => Ahead(freqs[i].keys, x, y)
    BY <1>1, <2>2, KeyAt
  <2> HIDE DEF i, keys
  <2>4. NodesFor(freqs', node', recent')
    BY <1>1, <1>7, <2>1, <2>2, <2>3, KeyTaken
  <2>5. freqs' \in Seq(Nodes) /\ node' = uses'
    BY <1>1, <2>1, <2>2, <2>4 DEF NodesFor
  <2>6. LfuExact'
    BY <1>9, <2>4, <2>5, LfuNext
  <2> QED
    BY <1>1, <1>9, <1>12, <2>1, <2>5, <2>6 DEF OrdersExact
<1> QED
  BY <1>2, <1>10, <1>11, <1>12

LEMMA ClearOrders == ASSUME OrdersExact, Clear PROVE OrdersExact'
<1>1. /\ data' = Empty /\ UNCHANGED policy
      /\ born' = Skipping(born, Cached) /\ recent' = Skipping(recent, Cached)
      /\ uses' = Without(uses, Cached)
  BY DEF Clear, Forget
<1>2. /\ Names(born, Cached) /\ Names(recent, Cached) /\ uses \in [Cached -> Nat \ {0}]
      /\ policy \in {"LRU", "FIFO", "LFU"} /\ freqs \in Seq(Nodes)
  BY DEF OrdersExact, EntriesTypeOK, Nodes
<1>3. Cached' = {} /\ Cached \ Cached = {}
  BY <1>1 DEF Cached, Empty
<1>4. Names(born', {}) /\ Names(recent', {})
  BY <1>1, <1>2, <1>3, NamesLeft
<1>5. uses' = Empty
  BY <1>1, <1>2 DEF Without, Empty
<1>6. IsFiniteSet({}) /\ Cardinality({}) <= Capacity
  BY FS_EmptySet, CapacityAssumption
<1>7. uses' \in [{} -> Nat \ {0}]
  BY <1>5 DEF Empty
<1>8. freqs' \in Seq(Nodes) => EntriesTypeOK'
  BY <1>1, <1>3, <1>4, <1>6, <1>7, HistoryAfter
<1>9. Names(<<>>, {}) /\ Mirrors(<<>>, recent') /\ Follows(<<>>, born')
  BY NamesNone DEF Mirrors, Follows
<1>10. CASE policy = "LRU"
  BY <1>1, <1>2, <1>3, <1>8, <1>9, <1>10 DEF Clear, OrdersExact, LruExact
<1>11. CASE policy = "FIFO"
  BY <1>1, <1>2, <1>3, <1>8, <1>9, <1>11 DEF Clear, OrdersExact, FifoExact
<1>12. CASE policy = "LFU"
  <2>1. freqs' = <<>> /\ node' = Empty /\ UNCHANGED <<lruOrder, located, fifo>>
    BY <1>12 DEF Clear
  <2>2. freqs' \in Seq(Nodes)
    BY <2>1
  <2>3. LfuExact'
    BY <1>3, <1>5, <2>1 DEF LfuExact, Ascending
  <2> QED
    BY <1>1, <1>8, <1>12, <2>1, <2>2, <2>3 DEF OrdersExact
<1> QED
  BY <1>2, <1>10, <1>11, <1>12

LEMMA EntriesStepOrders == OrdersExact /\ [EntriesNext]_entryVars => OrdersExact'
<1> SUFFICES ASSUME OrdersExact, [EntriesNext]_entryVars PROVE OrdersExact'
  OBVIOUS
<1>1. ASSUME NEW k \in Keys, NEW v \in Values, PutPresent(k, v) PROVE OrdersExact'
  <2>1. k \in Cached /\ data' = [data EXCEPT ![k] = v] /\ RecordAccess(k)
    BY <1>1 DEF PutPresent
  <2>2. \A l \in Cached : data[l] \in Values
    BY DEF OrdersExact, EntriesTypeOK
  <2>3. Cached' = Cached /\ \A l \in Cached : data'[l] \in Values
    BY <2>1, <2>2 DEF Cached
  <2> QED
    BY <2>1, <2>3, RecordAccessOrders
<1>2. ASSUME NEW k \in Keys, Get(k) PROVE OrdersExact'
  <2>1. k \in Cached /\ UNCHANGED data /\ RecordAccess(k)
    BY <1>2 DEF Get
  <2>2. Cached' = Cached /\ \A l \in Cached : data'[l] \in Values
    BY <2>1 DEF OrdersExact, EntriesTypeOK, Cached
  <2> QED
    BY <2>1, <2>2, RecordAccessOrders
<1>3. CASE UNCHANGED entryVars
  BY <1>3 DEF entryVars, orders, history, OrdersExact, EntriesTypeOK, LruExact, FifoExact,
              LfuExact, Ascending, NodeExact, Cached
<1> QED
  BY <1>1, <1>2, <1>3, PutAbsentOrders, EraseOrders, ClearOrders DEF EntriesNext

\* The lists of the cache are those of its history, whatever calls came before.
THEOREM OrdersHold == EntriesSpec => []OrdersExact
BY InitOrders, EntriesStepOrders, PTL DEF EntriesSpec

(***************************************************************************)
(* The cache is a bounded cache.                                           *)
(***************************************************************************)

\* The abstract cache has the operators on sets, lists and maps of this one.
LEMMA SameSize == \A ks : Bounded!Cardinality(ks) = Cardinality(ks)
BY DEF Bounded!Cardinality, Cardinality

LEMMA SameHelpers ==
    /\ Bounded!Empty = Empty /\ Bounded!Cached = Cached
    /\ \A list, xs : Bounded!Skipping(list, xs) = Skipping(list, xs)
    /\ \A f, k, x : Bounded!With(f, k, x) = With(f, k, x)
    /\ \A f, ks : Bounded!Without(f, ks) = Without(f, ks)
    /\ \A list, x, y : Bounded!Ahead(list, x, y) = Ahead(list, x, y)
<1>1. \A list, xs : Bounded!Skipping(list, xs) = Skipping(list, xs)
  BY DEF Bounded!Skipping, Skipping, Bounded!Cardinality, Cardinality
<1> QED
  BY <1>1 DEF Bounded!Empty, Empty, Bounded!Cached, Cached, Bounded!With, With,
              Bounded!Without, Without, Bounded!Ahead, Ahead

\* No more than one member is ahead of all others.
LEMMA OneFirst ==
    ASSUME NEW s, NEW ks, Names(s, ks), NEW xs, NEW x \in xs, NEW y \in xs,
           \A l \in xs \ {x} : Ahead(s, x, l), \A l \in xs \ {y} : Ahead(s, y, l)
    PROVE  x = y
<1>1. s \in Seq(ks) /\ IsInjective(s)
  BY NamesIs
<1>2. ~(Ahead(s, x, y) /\ Ahead(s, y, x))
  BY <1>1, AheadOneWay
<1> QED
  BY <1>2

LEMMA HeadFirst ==
    ASSUME NEW s, NEW ks, Names(s, ks), ks # {}
    PROVE  Head(s) \in ks /\ \A l \in ks \ {Head(s)} : Ahead(s, Head(s), l)
<1>1. s \in Seq(ks) /\ IsInjective(s) /\ ToSet(s) = ks /\ s # <<>>
  BY NamesIs, NamesEmpty
<1> QED
  BY <1>1, NamesEnds, WithoutHead

LEMMA SameVictim == ASSUME OrdersExact, Cached # {} PROVE Bounded!Victim = Victim
<1>1. /\ Names(born, Cached) /\ Names(recent, Cached) /\ policy \in {"LRU", "FIFO", "LFU"}
  BY DEF OrdersExact, EntriesTypeOK
<1>2. CASE policy = "LRU"
  <2>1. Bounded!Victim = Head(recent)
    BY <1>2 DEF Bounded!Victim
  <2> QED
    BY <1>1, <1>2, <2>1, LruEvicts, HeadFirst, OneFirst
<1>3. CASE policy = "FIFO"
  <2>1. Bounded!Victim = Head(born)
    BY <1>3 DEF Bounded!Victim
  <2> QED
    BY <1>1, <1>3, <2>1, FifoEvicts, HeadFirst, OneFirst
<1>4. CASE policy = "LFU"
  <2> DEFINE least == {k \in Cached : \A l \in Cached : uses[k] <= uses[l]}
  <2>1. Bounded!Victim = CHOOSE k \in least : \A l \in least \ {k} : Ahead(recent, k, l)
    BY <1>4, SameHelpers DEF Bounded!Victim, Bounded!LeastUsed
  <2>2. Victim \in least /\ \A l \in least \ {Victim} : Ahead(recent, Victim, l)
    BY <1>4, LfuEvicts
  <2> HIDE DEF least
  <2>3. \A k \in least : (\A l \in least \ {k} : Ahead(recent, k, l)) => k = Victim
    BY <1>1, <2>2, OneFirst
  <2> QED
    BY <2>1, <2>2, <2>3
<1> QED
  BY <1>1, <1>2, <1>3, <1>4

LEMMA InitBounded == EntriesInit => Bounded!Init
BY SameHelpers DEF EntriesInit, Bounded!Init

LEMMA AccessBounded ==
    ASSUME NEW k \in Cached, RecordAccess(k)
    PROVE  Bounded!Use(k) /\ UNCHANGED <<policy, born>>
BY SameHelpers DEF RecordAccess, Bounded!Use

LEMMA InsertBounded ==
    ASSUME OrdersExact, NEW k \in Keys, NEW v \in Values, PutAbsent(k, v)
    PROVE  Bounded!Insert(k, v)
<1>1. IsFiniteSet(Cached) /\ Cardinality(Cached) <= Capacity
  BY DEF OrdersExact, EntriesTypeOK
<1>2. Cardinality(Cached) \in Nat /\ Capacity \in Nat \ {0}
  BY <1>1, FS_CardinalityType, CapacityAssumption
<1>3. Cardinality(Cached) >= Capacity <=> Cardinality(Cached) = Capacity
  BY <1>1, <1>2
<1>4. Cardinality(Cached) = Capacity => Cached # {}
  BY <1>2, FS_EmptySet
<1>5. Cardinality(Cached) = Capacity => Bounded!Victim = Victim
  BY <1>4, SameVictim
<1> DEFINE gone == IF Cardinality(Cached) >= Capacity THEN {Victim} ELSE {}
           away == IF Bounded!Cardinality(Bounded!Cached) = Capacity THEN {Bounded!Victim} ELSE {}
<1>6. away = gone
  BY <1>3, <1>5, SameHelpers, SameSize
<1>7. /\ k \notin Cached /\ data' = With(Without(data, gone), k, v)
      /\ born' = Append(Skipping(born, gone), k)
      /\ recent' = Append(Skipping(recent, gone), k)
      /\ uses' = With(Without(uses, gone), k, 1)
      /\ UNCHANGED policy
  BY DEF PutAbsent
<1> HIDE DEF gone
<1>8. /\ k \notin Bounded!Cached
      /\ data' = Bounded!With(Bounded!Without(data, away), k, v)
      /\ born' = Append(Bounded!Skipping(born, away), k)
      /\ recent' = Append(Bounded!Skipping(recent, away), k)
      /\ uses' = Bounded!With(Bounded!Without(uses, away), k, 1)
  BY <1>6, <1>7, SameHelpers
<1> QED
  BY <1>7, <1>8 DEF Bounded!Insert

LEMMA DiscardBounded ==
    ASSUME NEW ks, ks \subseteq Cached, data' = Without(data, ks), Forget(ks), UNCHANGED policy
    PROVE  Bounded!Discard(ks)
BY SameHelpers DEF Forget, Bounded!Discard

LEMMA StepBounded ==
    OrdersExact /\ [EntriesNext]_entryVars => [Bounded!Next]_(Bounded!vars)
<1> SUFFICES ASSUME OrdersExact, [EntriesNext]_entryVars
             PROVE  [Bounded!Next]_(Bounded!vars)
  OBVIOUS
<1>1. ASSUME NEW k \in Keys, NEW v \in Values, PutPresent(k, v) PROVE Bounded!Update(k, v)
  BY <1>1, AccessBounded, SameHelpers DEF PutPresent, Bounded!Update
<1>2. ASSUME NEW k \in Keys, Get(k) PROVE Bounded!Find(k)
  BY <1>2, AccessBounded, SameHelpers DEF Get, Bounded!Find
<1>3. ASSUME NEW k \in Keys, Erase(k) PROVE Bounded!Discard({k})
  <2>1. {k} \subseteq Cached /\ data' = Without(data, {k}) /\ Forget({k}) /\ UNCHANGED policy
    BY <1>3 DEF Erase
  <2> QED
    BY <2>1, DiscardBounded
<1>4. ASSUME Clear PROVE Bounded!Discard(Bounded!Cached)
  <2>1. data' = Empty /\ Forget(Cached) /\ UNCHANGED policy
    BY <1>4 DEF Clear
  <2>2. Without(data, Cached) = Empty
    BY DEF Without, Cached, Empty
  <2>3. Bounded!Discard(Cached)
    BY <2>1, <2>2, DiscardBounded
  <2> QED
    BY <2>3, SameHelpers
<1>5. CASE UNCHANGED entryVars
  BY <1>5 DEF entryVars, history, Bounded!vars
<1> QED
  BY <1>1, <1>2, <1>3, <1>4, <1>5, InsertBounded DEF EntriesNext, Bounded!Next

\* Every behaviour of the cache is one of the bounded cache: it answers with
\* the value put last, and drives out the key its policy names by the history.
THEOREM CacheImplementsBoundedCache == EntriesSpec => ImplementsBoundedCache
<1>1. EntriesSpec => []OrdersExact
  BY OrdersHold
<1> QED
  BY <1>1, InitBounded, StepBounded, PTL DEF EntriesSpec, ImplementsBoundedCache, Bounded!Spec
================================================================================
