# A TLA+ model of av-utils

av-utils is a library of C++17 headers (`src/include`, some 150 of them). Most
are sequential containers. This directory models the components where
several threads, processes or callbacks meet, and the sequential ones whose
structures must agree after any sequence of calls, checks them with TLC on small
instances, and proves what matters most with TLAPS for every size.

## Inventory

The headers share almost no code. A component is a header, or a few, and the
components interact only through their callers. `PROJECT.json` lists all of
them; those with a state worth a model are the following.

| component (header) | state | operations | what is hard | what makes it correct |
|---|---|---|---|---|
| `named_lock.h` | table key → (timed mutex, reference count) under a global mutex | `acquire`, `try_acquire`, `try_acquire_for`, `reset`, moves, `cleanup_unused`, counters, `clear` | the count is raised under the global mutex and lowered under none; cleanup in between | one owner per key; an entry in use is never removed; counts exact |
| `spsc.h` | two atomic indices, slots with ready flags | push and pop in blocking, timed and trying forms, `peek`, `clear` | stale loads, throwing constructors, spinning | FIFO, no two threads on a slot, operations that can complete do |
| `redis_id_allocator.h` | in Redis: init key, creator key with TTL, bitmap, expiry times; per instance: role, heartbeat and cleanup times | `createOrAttach`, allocate and reserve (single and range), free, `extendTTL`, cleanup, `clearAll`, destructor | processes crash, replies get lost, leases expire, operations take several commands | no ID in two hands, held IDs stay marked, one creator |
| `call_queue.h` | deque of tasks, map key → index, bound | `push`, `coalesce`, `cancel`, `drain_all`, `drain_one`, `clear` | tasks run outside the mutex, indices move, tasks throw | each task runs at most once and in order; a key leads to its own task; the bound |
| `AsyncEventQueue.h` | bounded deque, two condition variables, a callback | `put`, `get`, `try_get`, `register_callback` | notification after the unlock, spurious wake-ups, callback read without the mutex, throwing copies | FIFO, no lost wake-up, a callback that is called exists |
| `delayed_call.h` | timer thread, flags, condition variable | construct, `cancel`, `reschedule`, move, destroy | the timer races with every call | the task runs at most once, not after a cancel in time, and always if nobody cancels |
| `async_value.h`, `retain_latest.h` | a value, a version, callbacks | set, get, subscribe, consume, reset | callbacks run and are replaced outside the lock; versions are drawn before it | no callback is forgotten or run twice; a value is consumed once; later updates have later versions |
| `timer_wheel.h` | wheel of slots, current tick | add, cancel, tick | callbacks add and cancel timers in the middle of a tick; delays of more than a turn | a timer fires at its tick, periodic ones at each period |
| `thread_safe_cache.hpp` | map, order structures of LRU, LFU, FIFO | put, get, erase, clear | policy structures and data must name the same keys, in the order of use | same keys, bound, the right victim |
| `arp_cache.h` | entries with a reachability state, LRU list, policies, backup MACs, proxied subnets | packet handlers, `lookup`, ageing, eviction | timers, conflicts, eviction and failover meet | bound, policies hold, probing ends |
| `nd_cache.h` | neighbours with a reachability state, routers, prefixes and the addresses made of them, duplicate detections (DAD) under way | router and neighbour packets, `lookup`, `start_dad`, `configure_address_slaac`, ageing | prefixes come, go and come back while the DAD of their address runs; conflicts | an address counts as own only after its DAD; probing and DAD end |
| `skiplist.h` | nodes with atomic pointers, a shared finger, a memory pool with a cache per thread | insert, search, remove, clear | searches beside inserts, one finger for all, pools that share a cache | order at every level, no node lost or in two places, searches find |
| `tcam.h` | sorted rules, bitmaps and a decision tree built from them | add, batches, delete, age, compact, eliminate, back up and restore, three lookups | structures hold positions of a list that changes; subsumption of rules | structures match the list, lookups agree, clean-ups change no answer |

Everything else is sequential (trees, maps, arrays), statistical (Bloom
filters and sketches) or language sugar; `PROJECT.json` gives the reason for
each group. The hazards of the modelled and planned components are listed in
`PROJECT.json` at their lines.

## Modules

| module | what it is |
|---|---|
| `KeyedLock` | abstract: each key is held by at most one handle |
| `NamedLock` | `named_lock.h`, shown to implement `KeyedLock` |
| `BoundedFifo` | abstract: a first-in first-out buffer with a bound |
| `SpscRing` | `spsc.h`, shown to implement `BoundedFifo` |
| `AsyncEventQueue` | `AsyncEventQueue.h`, shown to implement `BoundedFifo` |
| `CallQueue` | `call_queue.h` |
| `QueueProofs` | of `AsyncEventQueue` the wake-up invariant and the refinement, of `CallQueue` the invariant and the fate and order of its tasks, proved |
| `RedisIdAllocator` | `redis_id_allocator.h` |
| `ExclusionProofs` | of `NamedLock` the invariant, mutual exclusion, the counters and the refinement, of `RedisIdAllocator` the invariant and that IDs and the creator are unique, proved |
| `DelayedCall` | `delayed_call.h` |
| `TimerWheel` | `timer_wheel.h` |
| `TimerProofs` | of `DelayedCall` the invariant and three properties, of `TimerWheel` that timers fire when due, proved |
| `AsyncValue` | `async_value.h` |
| `RetainLatest` | `retain_latest.h` |
| `HandoverProofs` | of `RetainLatest` the invariant and the order of versions, of `AsyncValue` that callbacks run once, of `SpscRing` the invariant, freedom from slot races and the refinement, proved |
| `Lists`, `ListProofs` | erasing from a `std::list`, who is ahead of whom in one, and lemmas about lists of different members |
| `Maps` | a `std::unordered_map` |
| `BoundedCache` | abstract: a cache that judges its victims by the whole history of calls |
| `ThreadSafeCache` | `thread_safe_cache.hpp`, shown to implement `BoundedCache` |
| `LinkLayer` | the MAC addresses `ArpCache` and `NdCache` share |
| `ArpCache` | `arp_cache.h` |
| `NdCache` | `nd_cache.h` |
| `CacheProofs` | of `ThreadSafeCache` the invariant and the refinement, of `ArpCache` the invariant, the `DROP_NEW` policy and eviction, of `NdCache` the invariant, proved |
| `SkipList`, `SkipListProofs` | `skiplist.h`; the invariant and that searches find, proved |
| `Tcam`, `TcamProofs` | `tcam.h`; the invariant, what the three lookups answer and that cleaning up changes no answer, proved |
| `MC...` | constants and symmetry for TLC; `MCQueues`, `MCTimers` and `MCLatestCells` each hold two components and `MCCaches` three, of which a behaviour moves one, `subject` |

An action is one critical section, one Lua script or one atomic access; what
the code does outside a mutex or between two commands is an action of its own.
Names follow the source: `GetOrCreateEntry` is `get_or_create_entry`, and so
on; `PROJECT.json` gives the lines of every definition. Operators whose
comment says `A mutant` are plausible bugs used to see that each property
can fail; they are in no `Next`.

**NamedLock.** A handle is a `Scoped` or `TimedScoped` object and the locals of
the call that fills it. `pc` says where each thread is. `LowerCount` after
`Unlock` is the second half of `reset()`. `StartScan`, `CleanupKey` or
`CountKey`, and `EndScan` are the loops over the table. `clear` is only called
as its comment allows. `After` is the callers' lock order: without one, two
threads that each hold a key and block on the other's deadlock, with any lock.

**SpscRing.** A load of the other side's index may return any value between the
one seen before and the current one (`seenHead`, `seenTail`); that is what
acquire loads of a release-stored index allow. The other side's slot writes
are visible with the index. The relaxed policy is not modelled. `waiting` and
`blocking` tell the retry loops of `pop` and `push` from the bounded ones.

**RedisIdAllocator.** A script or command is atomic, an operation is several of
them: `EnsureReady`, `MaybeCleanup`, then the script of the operation. `Crash`
may come between any two. A lost reply is `lost` in `Hand`, and `AttachOnError`.
One clock, in seconds, serves all; `grants` is the history of who was given
what until when, and an instance relies on an ID until that time. Callers free
and extend only what they hold, because the scripts do not check it.

**CallQueue.** Tasks carry a number and the place they were queued at. `batch`
is what a `drain_all` has taken and not run yet. `stale` remembers that
`drain_one` took a coalesced task and left its key in the map, after which the
map is no longer exact.

**AsyncEventQueue.** A waiting thread is in the wait set of its role's condition
variable. The notification, the test of `callback_registered_` and the call
are steps after the unlock. `Throw` is an item whose copy or move throws.

**DelayedCall.** `timer[o]` is where the thread of object `o` stands: `start` and
`wait` before the predicate, `drowsy` between predicate and sleep (a
notification is lost there), `late` when the delay is over, then the two looks
at `is_cancelled_`, `fire` and `call`. The flags are written without the mutex,
so each access is a step of its own. Any number of threads may be in `cancel`
and `reschedule` of an object (`Shared`), moves and the destructor have it to
themselves (`Owned`). A delay is over at any time, which covers all durations.
`raced` and `quiet` are histories that say when a task may run twice and when a
cancel has to hold: `reschedule` clears `is_cancelled_`, so a `cancel` beside a
`reschedule` may be undone, and one that comes after the timer's last look is
too late. A move out of an object whose timer is about to call the task takes
the task from under it: it is marked as fired and never runs. Nothing in the
repository promises otherwise, and `PendingFires` speaks of the flag only.

**TimerWheel.** One thread calls it, but callbacks call it in the middle of a
tick, so `tick` is a step per timer of the copied slot, and `EndCallback` is the
end of a callback. `due` is the history of the tick each timer was placed for.
`CancelOwn` is a periodic timer cancelled by its own callback: `cancelTimer` erases
a list node that `tick` has erased, and the model stops there (`corrupt`).

**AsyncValue.** `todo` is what is left of a setter's copy of the callbacks,
`immediate` the callbacks that `on_ready` found ready and has not run. What a
callback does to its own object is what another thread may do at that moment.
`dropped` and `late` say which callbacks a reset has discarded or crossed.

**RetainLatest.** A value lives in an object named by its version; `box` is the
object a thread points to, `at` what it is about to do with it outside the
mutex. `before` is the highest version stored when an update began.

**ThreadSafeCache.** Every operation is one critical section. List iterators are
the elements they name. `born`, `recent` and `uses` are the history that
`BoundedCache` judges victims by: under LFU the least used key that is ahead of
all others as little used in `recent`. But for the bound `MaxUses` no call reads it.

**ArpCache.** One thread, one step per call; `Tick` is a second. A time stamp is
the time since then, no further than its entry's state compares it. Packets,
backups and subnets are inputs, the zero MAC among them, as nothing in the code
keeps it out. `Named` are the MACs the inputs give for an address.

**NdCache.** One step per call, and `Tick` is a second, as in `ArpCache`. `dad` is
`dad_in_progress_`; `Generated` says which address a prefix leads to, if its
length allows one. `DadConflict` is a solicitation or advertisement for an address in
DAD: the code gives the address up and leaves its detection in the list, where
a prefix that is advertised again finds it and gets no address until it is over.
`clashed` is the history of addresses another node claimed during their last DAD.
Every entry has the default reachable time.

**SkipList.** One thread writes, and its inserts, which link level by level, run
beside searches, which load one pointer per step. Everything that frees nodes
or assigns has its list to itself (`Alone`), as the code needs it. `finger_` is a
plain pointer that every call sets and reads: `Starts` is what a call may find in
it. `cache` is the thread's `tl_cache`, shared by all lists; `owner` says whose
block a place is in, `used` is the history of whose node it holds.
`Outlived` says whether lists may be used after another has been destroyed.

**Tcam.** A field is one set of bits with a mask, which stands for the bytes of
addresses and protocols, and one port stands for two. A packet has the bytes of the
field or none at all (`empty`), and may end before its port; where it ends inside
the field, each byte it lacks is met as if it had none. `built` is the list that
bitmaps and tree were built from. `std::sort` may put ties in any order
(`Sortings`), so `Best` is a set. A lookup in the tree is the walk of `path`: the
nodes the packet leads through, each a set of positions, down to a leaf or to the
first node whose own rules answer.

## Runs

| run | expected | what it shows | bounds |
|---|---|---|---|
| `named_lock` | pass | `IInv`, `MutualExclusion`, `CountBracketed`, `ImplementsKeyedLock` | 3 threads, 4 handles (one thread has two, so it can hold two keys and move), 2 keys, 3 addresses |
| `spsc` | pass | `RingIInv`, `NoSlotRace`, `ImplementsFifo`, `OperationsComplete` | 4 slots, so views may lag by several steps and wrap; 2 values, to tell orders apart |
| `redis_ids` | pass | `IdsIInv`, `UniqueLease`, `OneCreatorUnlessLapsed` | 2 instances, 2 IDs (so there are ranges), time 0..3 with a creator lease of 2 and ID lifetime 1: both leases can run out and be renewed |
| `queues` | pass | of `CallQueue`: `CallsIInv`, `Accounted`, `RunInOrder`; of `AsyncEventQueue`: `IInv`, `ImplementsFifo`, `SleepersServed` | 2 keys, 2 drainers, 5 tasks, bound 3: queues fill, keys sit behind each other, two batches run at once; 2 producers, 2 consumers, 2 places: both sides can wait in twos |
| `timers` | pass | of `DelayedCall`: `IInv`, `RunsOnceUnlessRaced`, `CancelHolds`, `ScheduleJoined`, `PendingFires`; of `TimerWheel`: `WheelExact`, `FiresWhenDue` | 2 callers, of which one only cancels and reschedules, 2 objects, 2 tasks: two reschedules at once, moves between two pending calls, each of these beside a move or a destruction; 3 slots and delays of 1, 2, 4 and 6 ticks, so within a turn, beyond one and of exactly two; 3 timers, 8 ticks |
| `caches` | pass | of `ArpCache`: `IInv`, `KeptUnderDropNew`, `OverfullOnlyUnresolved`, `ProbingEnds`; of `NdCache`: `NdIInv`, `NdDoubtEnds`; of `ThreadSafeCache`: `OrdersExact`, `ImplementsBoundedCache` | 2 addresses, and room for one or no limit, as it is set (packets claim one of them, with a MAC or the zero one, the other is looked up and proxied), a backup that packets may name as well, the proxy's MAC, every state and time-out reached, two flaps; a router, 3 prefixes of which one yields an address of its own and one no address at all, 2 probes per DAD; 4 keys of which 3 fit, 2 values, 3 uses |
| `latest_cells` | pass | of `AsyncValue`: `RunExactlyOnce`; of `RetainLatest`: `IInv`, `VersionsFollowTime` | 2 setters, 4 callbacks; 3 threads, 4 values: two updates overlap and a third comes after |
| `skip_list` | pass | `IInv` (`PoolExact`, `ChainsExact`), `SearchFinds` | 2 lists, 3 keys, 2 levels, 1 reader, blocks of 2 nodes, a cache of 1: nodes go through cache, free list and back, from one list to the other |
| `tcam` | pass | `IInv`, `LookupsAgree`, `CleanupKeepsAnswers` | packets without bytes, without a port and with both; 6 descriptions of rules (wild; half-masked with a range; exact, with any port, one port or swapped ends), batches that fail in the middle, 3 rules of which the bitmaps know 2, a tree that splits and one that is cut off |
| `latest_cells_peek` | violation | `ReadersSeeWhole` | as `latest_cells` |
| `nd_conflict` | violation | `ConflictHolds` | as `caches` |
| `skip_list_reuse` | violation | `NodesInMemory` | as `skip_list`, with `Outlived` |

The passing runs explore their state spaces completely. TLC looks for deadlock in
all that need not stop, but some thread can nearly always move, a clean-up or a
count at least, so this tells little of threads that wait for each other. `MaxTasks`, `MaxTime`,
`MaxId`, `MaxTick`, `MaxVersion`, `MaxUses`, the places in `Memory` and the number of
entry addresses are bounds of the models, not of the code. The longest are
`timers` with 0.6 million states, `queues`, and `caches` with 0.18 million, each in
about a minute; `skip_list` has 0.34 million up to symmetry.

Symmetry is used where the elements of a set are alike and no liveness is
checked: entries in `named_lock`, instances in `redis_ids`, lists and places in
`skip_list`. The last has a `CHOOSE` among places, `Block`, which is sound for this
run only: it chooses places of no pool, and while no list has been destroyed
nothing is in them and nothing leads to them, so that another choice gives the
same state with places exchanged. `skip_list_reuse`, where freed places are used
again, has no symmetry. In `timers` the callers are alike as well, but
`PendingFires` is liveness; instead one of the two neither moves nor destroys. As a
call needs its objects, and a move needs both, only two destructions
at once are left out by that.

## Deviations

The three violations are disagreements between the code and what it says of
itself:

- `peek`, and the callback of an update, read the stored object after the
  unlock, and `consume` moves out of the same object after its unlock
  (`retain_latest.h:306`); the README calls all operations internally
  synchronized. `latest_cells_peek` has a reader that finds the value gone.
- `~SkipList` returns nodes to a cache of the thread that all lists of the element
  type share, and its pool then frees the memory they are in
  (`skiplist.h:346`, `236`); the next list is built in freed memory.
  `skip_list_reuse` needs a list that is made, destroyed and followed by another.
- A neighbour that answers for an address in DAD makes `process_dad_failure` give
  the address up, but nobody takes it out of `dad_in_progress_`, although the
  comments at both calls say so (`nd_cache.h:397`, `420`) and
  `tests/nd_cache_test.cpp:182` expects it. The detection goes on, and for the
  link-local address it ends in success: `nd_conflict`. For an address made of a
  prefix it ends in nothing, as the prefix has lost the address (`DadExact`).

Others were met while modelling; the models do what the code does, and the
properties say what holds all the same:

- `drain_all` of the thread-safe call queue swaps `max_size_` away: the queue is
  unlimited from then on (`call_queue.h:243`).
- `drain_one` keeps the key of the task it took, at index 0; a later `cancel` of
  that key erases another task (`call_queue.h:117`).
- `put` may call an empty callback when `register_callback(nullptr)` comes
  between its test and its call (`AsyncEventQueue.h:59`).
- A `put` whose item's copy throws after a wake-up loses that wake-up for the
  other puts (`AsyncEventQueue.h:52`).
- `reschedule` looks at `has_fired_` before it stops the timer only: a timer that
  fires in between runs the task, and the new one runs it again
  (`delayed_call.h:166`, `183`).
- `clearAll` lets an ID allocated between its two commands lose its expiry time
  (`redis_id_allocator.h:310`).
- A creator that pauses past its lease is replaced and keeps its role, so two
  instances may be `CREATOR`.
- A timer placed in the middle of a tick, a periodic one after its callback above
  all, is counted from the tick under way: it comes one tick early; and if its
  delay is one tick, or one tick more than whole turns, it lands in the slot
  under way, which has been copied, and comes a turn later (`timer_wheel.h:113`).
  A callback that cancels its own periodic timer erases a list node twice
  (`timer_wheel.h:76`).
- Nothing turns away the zero MAC: from a packet or a backup, `lookup` answers with
  it and returns true (`arp_cache.h:625`, `692`, `769`), which its comment (`304`) calls
  a usable MAC address. A packet with the zero MAC also confirms an unresolved entry,
  even under `DROP_NEW`, as its MAC is the same. `EntryExact` says what holds.
- `max_cache_size_` is not the "Maximum number of entries"
  (`docs/README_arp_cache.md:55`): a lookup inserts without evicting
  (`arp_cache.h:363`, `385`), and eviction passes over entries that are being resolved
  or probed (`133`). If all others are, a new address that a packet brings is itself
  evicted at once. `OverfullOnlyUnresolved` says what holds.
- `tests/arp_cache_test.cpp:202` expects `MAX_PROBES + 1` probes of an entry before its
  backup takes over; `age_entries` sends `MAX_PROBES` (`arp_cache.h:767`).
- Under `DROP_NEW` an entry in `INCOMPLETE` is not resolved by a reply, since its
  MAC differs from the empty one (`arp_cache.h:625`); a lookup of an unresolved
  address starts its waiting time anew (`arp_cache.h:389`), so somebody who asks
  often enough keeps it unresolved.
- A neighbour advertisement takes a `PERMANENT` entry out of that state, and a
  solicited one without a MAC makes an entry `REACHABLE` at the zero address
  (`nd_cache.h:430`, `438`).
- `AsyncValue::reset` drops the callbacks that wait, and a notification that it
  overtook clears the ones registered since (`async_value.h:51`).
- The decision tree looks at rules with a full mask only and may miss partly masked
  rules, or answer with a wild rule of lower priority (`tcam.h:470`);
  `eliminate_shadowed_rules` counts inactive rules as shadowing and then loses
  answers (`tcam.h:1328`); the bitmaps ignore rules past the 1024th; a port range
  with its ends swapped is one size in `add_rule_with_ranges` and another in
  `update_rules_atomic`. A packet without bytes matches a rule that ignores the field in
  the linear lookup and in the tree, and none in the bitmaps (`tcam.h:687`), so that
  the answer of `lookup_single` depends on the structure it picks.
- `update` and `emplace` draw their version before the mutex: of two that overlap, the
  one with the older version may be stored last (`retain_latest.h:203`).
- The callbacks of `update` and `emplace` run after the unlock (`retain_latest.h:211`), not, as
  `docs/README_retain_latest.md:154` says, "within the critical section".
- A skip-list search loads the last pointer anew and misses a key that is there if
  a node is linked in between (`skiplist.h:616`); `find` trusts the finger at an
  equal key, which another call may have moved; two writers may break the order,
  because an insert whose CAS fails does not search again (`skiplist.h:547`);
  `remove` frees a node whose unlinking failed, which a weak CAS may do for no
  reason (`skiplist.h:697`).

## Fairness

Only operations under way are fair; no caller has to start one.

- `SpscRing`: a thread goes on, a store becomes visible in the end, and a
  constructor does not throw for ever (strong fairness of `Construct`, since a
  throw leads back to the check). There is one thread on each side, so no
  scheduler beyond the operating system's is assumed.
- `AsyncEventQueue`: a thread inside `put` or `get` goes on and gets the mutex it
  asks for. `std::mutex` promises this only on platforms whose lock does not
  starve a waiter for ever; the C++ standard leaves it to the implementation.
  Which waiter `notify_one` wakes is free: no property says that a given
  thread is served, only that a role is.
- `DelayedCall`: calls and timer threads under way go on, and a delay ends
  however often the sleeping thread is woken before (strong fairness of
  `TimeOut`, since a notification leads back to the predicate). There is no
  queue for a mutex to be fair about: the timer thread has `wait_mutex_` to
  itself.
- `ArpCache`, `NdCache`: time passes, and the program calls `age_entries` now and then (weak
  fairness of `Tick` and `AgeEntries`); without either nothing ages. No fairness
  is asked of packets or lookups.

The other specifications are safety only. `TimerWheel` does nothing on its own:
`WheelExact` and `FiresWhenDue` say what must happen by which call of `tick`.

## Proofs

Each proof module EXTENDS the components it is about. Constants are arbitrary
up to the assumptions named in the component's module. Every theorem speaks of
all behaviours of the component's specification, of any length and for sets
of any size.

- **NamedLock** (handles finite, each with an owner; the "none" values lie
  outside the sets). `MutualExclusion` is not inductive: a second owner would
  need a second entry for the key, which cleanup could bring about. `IInv` adds
  that a count is the number of handles that use the entry (`RefcountExact`),
  that a used entry is the one in the table (`EntryStable`: a count of 0 means
  no users), that no entry serves two keys, and which handle owns each mutex.
  Given `IInv`, two owners of a key use the same entry, whose mutex names one of
  them. Counting needs `FiniteSetTheorems`. `ImplementsKeyedLock` follows step by
  step: `HoldersKnown` says who the holder of a key is, and only `Lock`, `Unlock` and
  the moves change it, each as a step of `KeyedLock`. `CountBracketed` is about a sum
  that changes while it is taken: `CountIInv` adds that the total covers what the
  entries passed still count, and that it and what is left to pass never exceed the
  sum the walk began with. Both hold because counts only fall during a walk: raising
  one takes the global mutex. A sum is the size of a disjoint union (`Sum`), so that the
  lemmas on it need no recursion.
- **SpscRing** (`Capacity` positive, `NoValue` not a value). `RingIInv` says that the
  stale views lie in order around the ring (`ViewsOrdered`), what each thread's
  check has established, and which slots hold objects and flags. `NoSlotRace`
  and the refinement to `BoundedFifo` with `Contents` as the buffer follow.
- **RedisIdAllocator** (the creator's TTL positive, as Redis refuses a zero `EX`).
  `IdsIInv` is `LeasesExact` and `ElectionExact`.
  `LeasesExact` adds `LeaseKept` to uniqueness: a held ID keeps its bit, and its
  recorded expiry time is not before the holder's. Hence a script that finds a
  bit clear finds no holder. `ElectionExact` says that as long as no creator has
  let its lease run out, whoever is creator holds the creator key until then;
  that only one is (`OneCreatorUnlessLapsed`) follows, as the key has one value.
- **AsyncEventQueue** (finite, disjoint sets of producers and consumers).
  `IInv` says that no wake-up is lost: a role that has something to do and sleeps
  has as many threads awake, or about to notify it, as it has things to do.
  Counting needs `FiniteSetTheorems`. The refinement to `BoundedFifo` needs only the
  types.
- **CallQueue** (any keys, drainers and bound). `Accounted` and `RunInOrder` speak of
  tasks that have run; what makes them hold is where the others stand. `CallsIInv`
  lines up, for each drainer, what it ran and what it still has to run, and
  says that places rise along each such line and along the queue
  (`LinesInOrder`), that no two lines share a task (`WorkApart`), that every task is
  held or taken back and none is both (`HeldOrGone`), and that the map leads each key to its own
  task until `drain_one` takes a coalesced one (`KeysExact`). The lemmas about
  places and numbers in a concatenation carry the steps; no induction is needed.
- **RetainLatest** (arbitrary threads and values). `IInv` follows each update
  through its atomic steps: what has a version, what is in the cell, what was
  consumed. `VersionsFollowTime` follows from a version being taken before the
  end of its update and counters never going back.
- **AsyncValue** (arbitrary setters and callbacks). `RunExactlyOnce` is not
  inductive: a callback must not stand in two places that will call it.
  `WaitsOnce` says so of the list, the setters' copies and the immediate calls;
  `Tracked` says that a registered callback which has not run is in one of them or
  was dropped, and `LateKnown` what a notification does that a reset has crossed.
- **DelayedCall** (arbitrary callers, objects and tasks). That a task runs once is
  not inductive: one must know that whoever still could start it (a timer thread
  before its call, a reschedule past its lock, a move that found it pending)
  cannot be there once it has run (`Over`). `IInv` says so (`RunsExact`), and what it
  rests on: owners have their objects to themselves (`CallsApart`), threads are joined
  before their objects change (`CallsExact`), a task is in one object and one thread
  (`TaskAlone`), an object without a task has fired (`TaskThere`), a reschedule
  past its test has a task that has not fired or counts as raced (`LockedPending`).
  There is a lemma for each action, with a step for each conjunct.
- **TimerWheel** (a wheel of any size and resolution, any delays). That a timer fires
  in the tick it was placed for (`FiresWhenDue`) needs to know, at every moment of
  a tick, when each waiting timer will fire: `DueExact` says that its due tick lies
  in its slot, and as many whole turns ahead as its record counts, plus one if
  the tick under way is over for it (`Turns`). Whether it is over depends on what
  `tick` copied, so `CopyExact` says what a copy may hold, and `SlotsExact` that the
  slots hold each waiting timer once. `Divided`, `WholeTurns` and `SameSlot` are the
  arithmetic: two ticks of the same slot less than a turn apart are the same tick.
  `Skipped` and the other lemmas of `ListProofs` say what erasing leaves of a slot.
- **ArpCache** (any addresses, times, limits and inputs). `IInv`: the LRU list names
  the cached addresses, each once, and every entry is one the state machine can
  be in (`EntryExact`; `SoundCache`, `SoundEntry` in the proof): what lookup may answer
  with is a MAC of `Named`, which backups must be too, or failover would bring in another,
  and as unresolved entries are blank, a packet that confirms one has brought the zero
  MAC itself. Each handler is a change to one
  entry or a choice of some to erase, so there is one lemma for each kind of change and
  one for each handler. `EvictionFits` counts: what eviction erases
  are the oldest entries that are neither unresolved nor probed, as many as are too
  many, or all of them. So none is missed and none goes needlessly; and as what it
  leaves fits, or has no new entry among it, only a lookup passes the limit.

- **ThreadSafeCache** (any keys and values, any positive capacity). That the right
  key is driven out needs to know how the policy's structure and the history lie
  to each other after any calls, and `OrdersExact` says it: the LRU list names the
  cached keys and `Mirrors` the order of last use, the FIFO queue `Follows` the order
  of arrival, and under LFU each frequency node names exactly the keys used that
  often, as the mirror of their last use, and the nodes ascend. It is inductive.
  `Ahead`, who has a place before whom, is all the proof looks at in a list: the
  lemmas of `ListProofs` say what erasing, appending and prepending do to it.
  `KeyTaken` and `KeyLinked` say the same of the list of nodes: a key leaves its node
  (which goes if it was the last) and joins the one of the next frequency (which
  comes if there is none). The refinement then follows call by call: at most one
  key can be ahead of all others (`OneFirst`), so the victim is the abstract one.
- **NdCache** (any neighbours, prefixes, times and messages of any length; a prefix
  leads to one address, and no two prefixes to the same). `NdIInv` is the soundness of
  each neighbour and `DadExact`, which ties three tables: an address made of a prefix
  is done exactly when it is not in `dad`, was not claimed by another node since its DAD
  began, and is never the link-local one, which is done exactly when its own DAD is
  over. The last two are what makes it inductive: without them a prefix could get
  the address of a DAD that is under way for something else. A router advertisement
  changes the tables prefix by prefix; `LearntPrefixesSound` follows that loop by
  induction over the message.
- **Tcam** (any rules, batches and limits; the field a finite set of bits that is not
  empty, as a packet's bytes are, `MaxPort` the greatest port of its width, and a
  missing port no port). `IInv` says that the list is sorted and the structures
  belong to it; it is inductive with `RangesKnown`, which knows a rule's range to be a real
  one: neither every port nor a single one. `Before` is a weak order, so in a
  sorted list the first live rule is a best one, and that is what the linear and the
  bitmap lookup find; a packet without bytes fits only rules that ignore the field, which
  the tree keeps at its root or in a leaf there. The tree is followed by induction over the depth: if no rule
  masks part of a field, every live rule is below the present node or among the wild ones
  passed. A subset in the sense of `is_subset` fits only packets that its superset fits
  (here `RangesKnown` is needed: a packet too short to have a port fits no range), and of two
  such rules the first is never beaten by the other; hence a redundant rule, and a
  shadowed one when none is inactive, is never the only best. `RestoreRules` is an induction
  over the backup: rule by rule, what the batch adds is alike to what was saved, in
  value, mask, ports, priority and specificity.
- **SkipList** (any keys, levels, lists, readers, cache and blocks; finite memory;
  `Outlived` false, as no list may be used after another was destroyed:
  `skip_list_reuse` shows what happens otherwise). The invariant speaks of single
  pointers: `LeadsOn` says that the pointer of a node at a level leads to the next of
  the nodes that are linked there (`Linked`), by its key, and the last one nowhere. So
  nothing needs a chain as a whole. `IInv` adds what the others rest on. Each place is in
  a node, a free list, the cache or no block, and only one of these (`PoolExact`), or a new
  node could be one that is in use. What is free leads nowhere (`MadeExact`). While an
  insert links level by level, `update` still names the last node before the new one at
  the levels to come (`WriterExact`). A search is at a linked node before its key
  (`ReadersExact`), whatever finger it began from, hence what it loads last is the key if
  it is there (`SearchFinds`). `Before` and `From` are recursive along the pointers. That
  they are defined is shown for the one by writing its values down (`Place`, of which
  there is one at each level), for the other by induction on how many nodes come after
  a node (`RunEnds`). There is a lemma for each action.

A list without some of its members is `Skipping` (in `Lists`), which picks the
places that are left by counting, because `SelectSeq` and `Remove` are recursive in
the library and the prover cannot expand them. Induction is over sets of numbers
(`Induction` in `ListProofs`, from the well-foundedness of the numbers), because the
library's theorem takes an operator and the provers cannot instantiate it; that a
recursive function exists is shown the same way (`LearningGoesOn`).

Only model-checked, and why:

- all liveness (`OperationsComplete`, `SleepersServed`, `PendingFires`, `ProbingEnds`,
  `NdDoubtEnds`): fairness and ENABLED are beyond the prover.

## Not modelled

- `DelayedCallWithFuture`, `remaining_time` and other observers of `DelayedCall`;
  `get` and `get_if` of `AsyncValue`; statistics (`ring_buffer_stats`, `getStats`, the
  counters of `tcam.h`), logging and formatting: they change nothing others see.
- `nd_cache.h`: what is written and never read (`is_router`, preferred lifetimes), the
  sending of packets, whose functions are placeholders, and reachable times other
  than the default. `arp_cache.h`: the setters of its times and flap limits, which are constants here; its DELAY
  state and `pending_packets` limits where no code reaches them.
- Direct calls of `process_dad_success` and `process_dad_failure`, which are public in
  `nd_cache.h` but which nobody but the cache itself has reason to call.
- `tcam.h`: `detect_conflicts`, the statistics, and which of several lookup
  structures `lookup_single` picks: each of them is modelled.
- `skiplist.h`: `find`, the bulk and range calls, which repeat the modelled search
  and insertion, and several writers at once; `skiplist_std.h`, a sequential variant.
- Memory orders weaker than acquire/release; clock skew, and the delay of a
  request between reading the clock and running the script; moving or destroying
  a container that is in use. An out-of-range index of a stale coalescing key is
  undefined behaviour in the code, and the model does not go on from there.
- The containers and utilities of the inventory's last rows: sequential,
  without state shared between callers, and best served by unit tests.

## Plan

What is left, most useful first:

1. Several writers in `SkipList`, and `DelayedCallWithFuture`.
2. `IDAllocator.h` (no ID lost; the wrap-around of `next_available_id_`),
   `GenerationalArena.h` and the slot maps (stale handles; `clear` drops the
   generations, although `GenerationalArena.h:301` calls all earlier handles invalid),
   `rate_limiter.h` and `batcher.h`, as sequential machines.

Runs stay complete; the longest take about a minute.
