# A verification project for Rakuten Unified Memory

RUM lets a program use the memory of other machines as if it were its own. The
client library allocates memory twice, as a block of a *slave* and as a
protected local mapping; the first touch of a page traps, the page is brought
into local RAM, and the page that was faulted longest ago is pushed out to the
slave. This directory holds TLA+ models of that code, the TLC configurations
that check them, and theorems about them that TLAPS proves.

Contents: [inventory](#inventory), [modules](#modules),
[runs](#runs-and-bounds), [what the code does not do](#where-the-code-and-its-documentation-part),
[proofs](#proofs), [plan](#plan), [not modelled](#not-modelled).

## Inventory

| part | state | operations | talks to | hard behaviour | what makes it correct |
|---|---|---|---|---|---|
| client page cache and allocator, `rum_master/rum.cpp` | `data_map`, `addr_space_map`, `dirty_map`, the LRU list, the protection and content of every page | `rum_init`, `rum_end`, `rum_flush_cache`, five ways to allocate, `rum_calloc`, `rum_realloc`, `rum_get`, three ways to free, `signal_callback_handler` | slave (through the transport), LRU list, heartbeat | a trap in the middle of any instruction; pages pushed out long after their own trap; a dirty bit that is set with `insert()`; processes that end anywhere and others that attach to what they left; threads, while only allocation is locked | the program sees plain memory; every trap finds the region it belongs to; nothing unprotected escapes the list; no write-back hits somebody else's memory; all is on the slave at the end |
| client LRU list, `rum_master/address_lru.cpp` | `history_`, `size_limit_` | `init`, `update`, `clear`, `purge` (and `size`, `contains`, `get_list`) | called by the handler and by free | the limit; a block that is listed already | bounded, no duplicates, pushes out the oldest, reports exactly what it pushed out |
| transport, `rum_master/dpdk_transition.cpp`, `packet.c` | window of requests, busy-wait flags, rings, tx and rx threads | `dpdk_alloc`, `dpdk_dealloc`, `dpdk_read`, `dpdk_write`, `dpdk_get_hash` | slave | packets are lost (README.md:56), nothing times out or is retried; the window wraps | a reply wakes its own request; reads after writes see them |
| memory slave, `rum_slave/hpc_slave.cpp` | heap, `data_map` (hash to pointer), `data_size_map`, `uuid_memory_map` | one case per packet type, `user_callback_function`, `backup`, `restore` | clients, heartbeat | a silent client's memory is freed by another thread; addresses are reused; backup and restart | no leak; nobody frees or overwrites another client's block; hashed memory is permanent |
| heartbeat, `heartbeat/Heartbeat.cpp` | clients with their timeouts, slaves | `add_slave`, the ping thread, reception, timeout callback | timer thread, slave | a lost registration; a ping racing its timeout | only silent clients are dropped, and each eventually is |
| timer thread, `paxos/paxos_timer.cpp` | timers, the queue by time, one condition variable | `worker`, `addTimer`, `clearTimer`, `destroy_impl` | Paxos, heartbeat | a timer cleared while its callback runs, or by it | a cleared timer never fires afterwards; a due one does |
| Paxos, `paxos/paxos_instance.cpp`, `paxos_id.cpp` | acceptor, learner and proposer of one node, lease, persistent state | `receive_*`, `propose_update`, `advance_instance`, `catchup`, drive and lease timers, `save_state`, `load_state` | transports, timer thread | reordered, lost, duplicated messages; restarts; leases | one value per instance, promises survive a restart |
| replicating slave, `rum_slave/SlavePaxos.cpp` | | | Paxos, slave | only with `USE_PAXOS`, which is commented out | |
| key value store and hash ring, `app/kvs`, copied in `app/s3cmd` | a ring of slaves; for each process, the pointers of the keys it has used | `add`, `get`, `remove`; ring lookups | client library | a key's slave depends on the servers a process knows; replacing a value frees it first | every process finds under a key what was added last |
| s3cmd, `app/s3cmd/s3cmd_rum.cpp` | one value with the listing of all buckets, one for each file | `mb`, `rb`, `ls`, `put`, `get`, `del`, `cp`, `mv`, each a process | key value store | data and listing change in different steps; a process dies anywhere, its pages are written back at its end | what is listed is there, once, as it was put |
| hash table, memory test | | | client library | | examples and tests |
| free-list allocator `fsm.cpp`, `paxos/driver.cpp` and its roles, stubs | | | | unused | |

## Modules

The client keeps pages, so the models do too: an address is a page and a word
in it, a region is a run of pages, and the slave's heap is a set of pages. The
contents of words are values that only need to be told apart.

| module | models | state and actions |
|---|---|---|
| `StdMap` | `std::map` as the code uses it | `insert()`, which keeps the value of a key that is there, and `operator[]`, which replaces it, are two operators: three of the findings below rest on the difference |
| `AddressLRU` | the operations of class `AddressLRU` | `Stale` and `Updated` are the result and the effect of `update()`, `Purged` that of `purge()`. Each runs under `cache_mutex`, so each is one step. `Without` says what `list::remove` leaves without saying how |
| `LRUCache` | the class by itself | `history_`, the last result; any sequence of calls, also those the handler never makes |
| `Recency` | abstract: a bounded cache that gives up the least recently faulted page | `resident` and the relation `newer` |
| `SlaveStore` | the slave's side of a packet | `slave_mem`, malloc's `arena`, `data_size_map`, `hash_map` (the slave's `data_map`); one operator per packet type |
| `FlatMemory` | abstract: memory as `malloc` gives it | what is allocated, what each word holds, what the last step loaded |
| `PageCache` | the client library under a program of one thread, composed with `SlaveStore` | the client's maps, list, page protections and RAM; `Load` and `Store` with the whole trap they may cause, and one action for each library call |
| `Slave` | a slave and several clients (uuids), composed of the packets of `SlaveStore`, `uuid_memory_map`, `user_callback_function` and backup and restore | `Alloc`, `Dealloc`, `AllocHash`, `DeallocHash` are packets with all the books they change; `Start`, `Silence`, `Timeout` are what the heartbeat tells; `Find`, `Free`, `Forget`, `Done` are the steps of the callback; `Backup` is the signal handler between two packets, `Midway` in the middle of one, `Restart` is `restore()`. `held` are the pointers that clients have. `lent` and `breach` are history variables: whose a block is, and whether one was freed that was not its sender's |
| `Lending` | abstract: whose each block of a slave is | each block with its holder (a client, what a client left, everyone who knows its hash, nobody), the hashes known, who has a process |
| `Heartbeat` | registration, the ping thread, timeouts, in discrete time | `Start`, `Ping`, `Allocate`, `End` of a client's process, `reception_thread` and `callback` of the slave, `Tick` |
| `TimerThread` | `paxos_timer.cpp`: the worker and the threads that set and clear timers, in the steps between which the mutex is free | `Look` (the loop's top as far as a wait or a handler), `Alarm`, `Returned` of the worker; `addTimer`, `clearTimer`, `clear`, `Destroy` and what they do after they give the mutex up: `Notify`, `Woken`, `Join`; `Tick`. `asked` and `cleared` are history variables |
| `Timers` | abstract: what a timer thread promises | each timer is unset, set, firing or over, and due in so many ticks; what was asked to be cleared, and what of that was answered |
| `Transport` | `dpdk_transition.cpp`, `packet.c`: calling threads, the tx and the rx thread | one action for each `dpdk_` call as far as its number, then `Enqueue` and `dpdkWaitFor`; `dpdk_lcore_tx`, the rounds and the end of `send_burst_fast`; `dpdk_recv_worker` and the flag it sets. NIC, network and slaves (`Serve`) are external. `latest`, `sent`, `lost`, `leaked` are history variables |
| `Consensus` | abstract: one decision for each instance, for good | |
| `Paxos` | `paxos_instance.cpp`: acceptor, proposer, learner of every node, leases, the chain of instances, what is saved | one action for each message, for the lease and the drive timers, for a client's value, for catching up, for a restart, and for a timer that was leaked (`send_accept_REAL`). `log` and `breach` are history variables |
| `HashRing` | the ring's lookups, operators only | |
| `KVS` | `KVS.cpp` over the packets it causes: what slaves name and hold, what a process knows and has not written back | `get`, `rum_free` and `rum_alloc` (the two halves of `add`), `flush`, `Exec` |
| `S3cmd` | the commands of s3cmd, composed with `KVS` | a command is worked out from the listing it reads (`Plan`) as a sequence of calls of the store, each then a step; `Kill` |
| `ObjectStore` | abstract: buckets of files, each command one step | |
| `MC*` | instances for TLC | |
| `*Theorems` | proofs | |

**What is one step.** The handler runs on the thread that touched the page;
that thread does nothing else until it returns and the instruction is retried.
The packets of a client go through one ring to one port of one slave, which
takes them in order and finishes one before it looks at the next. For a program
of one thread, then, nobody can see between the steps of a trap, and a packet
without a reply (WRITE, DEALLOC) may be taken for handled. Threads and lost
packets break this; the latter are the subject of `Transport`.

**The program.** It stores only in memory it has and loads only words with a
determinate content (`heap[p][w] # Undef`), as C asks; `misaccess` lets it
touch anything, which ends it through the handler's `exit()`. It does not
attach twice to the same hash in one process, and asks for a hash by its size.
`Api` names the calls it makes, so that each run is about a class of programs.
`heap`, `named` and `reply` are history variables: what the program put where,
what ended processes left under each hash, and what the last step loaded. No
action's effect on the other variables depends on them; they only restrict the
program to the rules above.

**The slave and its clients.** The packet loop runs on one core and finishes a
packet before it takes the next; the callback runs on the timer's thread with
no lock. `Overlap` says whether packets are handled between the callback's
steps. The passing runs have it FALSE, since with it the books go wrong (finding
10); what C++ makes of two threads in one `std::map` is beyond that, and not
modelled. The signal handler runs on the thread of the packet loop: between
two packets, or in the middle of one. Only two of the points where it may break
in see the maps as no packet leaves them, between the two inserts of ALLOC_HASH
and the two erasures of DEALLOC_HASH (`Midway`). What is left of the packet is
done after it. That a client times out only when it is silent, and does not come back
while its callback runs, is an assumption of `Slave`; `Heartbeat` is about when
it is true. `Ops` names what clients and operators do: the passing runs leave
out exactly what the findings show to go wrong: giving memory back before
falling silent, another size under a known hash, and (`"stale"`) pointers that
outlive what they were given for. DEALLOC frees whatever is recorded at the
address it is given (837); who may send it is the client's `held`, the pointers
of its regions, and a slave that restarts changes nothing there. Without
`"stale"` a client forgets them then.

**The timer thread.** What is done under the mutex is one step. The callbacks
run without it, on the worker, and may call the interface themselves; so may
two other threads. `Faults` names what a run allows beyond the code's own
promises: a clock that repeats an instant, a wait that ends by itself, a member
that the constructor does not set, an id cleared twice, a `clear` while a handler
runs. The failing assertion of a `clear` that finds a timer added behind its back
needs no fault and is in the run: safety is shown for what the other threads do
then too, and liveness as long as it does not happen.

**The transport.** Threads, tx, rx, NIC and slaves take steps in any order.
A request carries its thread's variables, so that a reply is written there
whoever waits there by then. `InWindow` is the demand of the comment at
dpdk_transition.cpp:82. `PageCache` uses the transport as a lossless channel
in order; `ReadsWhatWasWritten` is what allows it to, and a slave keeps one
value for each key here. What is between the NIC and the slaves is one sequence,
from which each slave takes, or loses, the first packet that is for it: the
packets of one slave stay in order, and those of two slaves do not wait for
each other.

**Paxos.** A handler is one step with all it sends, on one node; the code has
one thread for each transport and the timer's, and no lock, which is not modelled.
`msgs` only grows, and any of it may be taken at any time or never: loss,
delay, reordering and repetition are one thing. A retransmit timer sends what its
node holds when it fires: it is cleared before that changes, so that it repeats
what is in `msgs`, except for the one that `drive_to_resolution` overwrites.
That one is never cleared, and offers its id and value for good, in whatever
instance the node is in by then (`leaked`). A promise that comes twice is counted
twice (`copies`), as in the code. A node only
proposes itself or, as the master, a value of a client.

Each behaviour picks one `Bound`: who proposes how often, who restarts, who learns,
who catches up, whether messages of an id of count 0 arrive, and whether addresses of
ids compare in any order; their product is out of reach, and `Six` has one for
each thing that can go wrong. `Breaches` is true of a step after which
agreement may be lost: a proposer forgets an id (17, 18 below), is elected by a
promise counted twice (16), passes over a vote (29), or a leaked timer sends (33).
`breach` records it, and a `Bound` says whether such steps are taken. All but one of
the run's exclude them, since the properties fail after them; the theorems
exclude none, and hold up to the first.

**s3cmd.** A process reads the listing when it starts; what it will do follows
from that and its command line, so it is worked out then. What it frees, it
frees at once; what it writes, it writes to its own pages, and those go to the
slaves one by one when it ends. It may be killed between any two of these.

**Time.** A tick of `Heartbeat` is 2.5 seconds in the runs: 2 ticks between
heartbeats, 4 to the timeout. Everything due in a tick happens in it, in any
order; a message takes up to `Delay` ticks, which also stands for a thread that
oversleeps.

**Abstractions.** Sizes are in pages (the client rounds up, rum.cpp:583-593).
One slave, so the loop over slaves of `rum_alloc` is its first round. `mlock`
and statistics are left out. `rum_calloc` is the same allocation (`Promised`:
what the program may take the memory to hold). A slave without room replies with
NULL, which it records; so does the call then. Where the client has no room for the
mapping there is an action for each overload: `rum_alloc(size)` gives the
block back, `rum_alloc(size, location)` leaves it (`leaked`, disagreement 31), and
the hashed ones leave the hash, with its memory, as if a process had.

## Runs and bounds

| run | instance | shows |
|---|---|---|
| `lru_list` | limit 3, 5 blocks | the list reports exactly what it drops (`StaleIsWhatLeft`), and implements `Recency`; deadlock is checked |
| `plain_program` | 3 client pages, 2 slave pages, 2 words, regions of 1 or 2 pages, 2 values, cache of 1 page; both allocations without a hash, mappings that fail, free, end, bad accesses | `BlocksMatchRegions`, `CacheExact`, `FindsOwner`, `OnlyOwnPagesWritten`, `EndIsDurable`, and the refinement of `FlatMemory` (of which `Coherent` is the part about pages: a wrong word is loaded in the next step) |
| `flushing_program` | as `plain_program`, with `rum_flush_cache` and without free | `Coherent`: flushing does not lose data while nothing is freed |
| `hashed_memory` | cache of 2 pages out of 3, 2 slave pages, one hash, 1 value, restarts; both hashed allocations, get, free | `BlocksMatchRegions` across restarts; `Recency` where there is an order to get wrong, with regions freed in between |
| `leases` | 2 clients, 1 hash, 3 pages, blocks of 1 or 2 pages; silence and return, no DEALLOC | `LiveKeepTheirs`, `ClearedUp`, the refinement of `Lending`, and `SilenceClears` under fairness |
| `packets` | 1 client, 1 hash, 3 pages, blocks of 1 or 2 pages; DEALLOC, any number of stops (between packets and in the middle of one) and crashes, no silence, and no pointers from before a restart | `BooksMatchHeap`, `HashHasSize`, `NoDoubleFree`, `BackupIsWhole` |
| `heartbeats` | 2 hosts with a process each, no message lost, delay of a tick | `NeverFromLive`, `FreedInTime`, and `SilentCleared` under fairness |
| `timers` | 2 threads, 2 timers, delays and periods up to 2 ticks, the worker up to a tick late | `ClearedStaysQuiet`, `NoneForgotten`, the refinement of `Timers`; `EveryTimerFires` and `EveryCallReturns` under fairness |
| `transport` | 2 threads, 2 slaves, a page and a hash, 3 requests, a window, a ring and a burst of 2, a pool of 3, one packet lost, a NIC that takes a burst or refuses it | `OwnReply`, `ReadsWhatWasWritten`, `SentOrFreedOnce`, `NoMbufLeaks`, `OnItsWay` |
| `paxos` | 3 nodes; two candidates and an acceptor that restarts; two with addresses in any order; one alone whose announcement is answered; one that tries again; a master with a client's value and a follower that catches up; a master that leaks a timer | the refinement of `Consensus`, `OutcomesAreChosen`, `OneValuePerId`, `SaidIsSaved`, `PromisesKept` |
| `objects` | 2 buckets, 2 files, 2 contents, one of the local files perhaps missing, 3 slaves, any number of processes | `ListingHolds`, `ListedOnce`, and the refinement of `ObjectStore` |
| `reuse_after_flush` | small, one property | disagreement 5 below |

`TypeOK` of each module gives the shape of its variables. It is proved for
`LRUCache`, `PageCache`, `Slave`, `Heartbeat`, `TimerThread` and `Transport`; the
cfgs have the properties that go beyond it.

*Why the bounds are enough.* With one page of cache every trap pushes a page
out, so fetch, dirtying and write-back meet in every order within a few steps.
Two pages in a region are needed for an offset to matter, a third client page
for a neighbour, and for an address to be mapped again differently; fewer slave
pages than client pages make allocation fail and blocks be reused. Two words
tell a page fetched whole from one stored in; two values tell the last store
from the one before. Two pages of cache out of three are the least where the
order of eviction is not forced. The list by itself is checked at 3 of 5. All
state spaces are finite without further bounds. The two values are
interchangeable (`ValueSymmetry`); nothing else is treated as symmetric, since
addresses are ordered. The run `plain_program` takes states that differ in
`reply` for one (`ButReply`): no step reads it, and TLC checks an action property
on every step, also on those to states it has seen.

For the slave, three pages with blocks of one or two give fragmentation, a heap
that is full, and an address that is lent again as part of another block; two
clients are the least for one to be hurt by the other's timeout; without
timeouts one client does, since packets do not ask who sends them. After a
restart a hash and the file name that `restore()` took for one compete for one
file. For the heartbeat a tick of
half the ping interval lets a message arrive before, with and after its neighbours.

Two timers are the least for one to be due before, with or after the other,
for a handler to clear the other's or its own, and for a new one to come first
in the queue while the worker sleeps for the old one; two threads are the least
for one to clear what the other waits for. (Three timers and delays of one tick
pass as well.) Three requests through a window of two make a number come round
while an older call is about; two fill a ring and a burst of two, and the third,
for which a pool of three still has an mbuf, finds the ring full. Two candidates and three nodes have two quorums that share one
node, and that node restarts; two links of the chain are the least for what is
left from one to be wrong in the next. Two buckets and two names let a file be
copied, moved, put and removed again where another one is; each slave holds as
many blocks as it has keys, so that data left behind is found again.

`CHECK_DEADLOCK FALSE` is set where the process may end for good.

*Fairness.* A client of one thread owes nobody a step: `PageCache` has no
liveness. In `TimerThread` time goes on, handlers return, and a thread that
can go on does: nothing there waits for anything but these and a notification.
In `Slave`, `Timeout` is strongly fair: it is blocked while another
callback runs, and `TimerThread` calls what is due in the order in which it is
due. The callback's own steps are weakly fair, being straight-line code. In
`Heartbeat` the clock, the two threads and the timer are weakly fair; the
program (`Start`, `Allocate`, `End`) owes nothing.

Every property of a passing run is paired with a mutant, a definition changed
the way a slip in that code would change it (they stand next to the
definition, marked `mutant`), and the run reports the property violated. Several are
tempting changes: `WriteBackClears` is the line rum.cpp:1551 with its comment
removed, `Protected` is the repair that the note at rum.cpp:492 suggests.

## Where the code and its documentation part

1. `rum_calloc` does not clear memory (rum.cpp:988, against rum.h:69).
2. A second `rum_flush_cache` reaches nothing that the first one flushed: the
   flushed pages stay unprotected and unlisted (rum.cpp:492, against rum.h:131).
3. `rum_alloc(size, hash)` records an end address one too far (rum.cpp:867); a
   region mapped right behind it loses its first address to it.
4. A store to a page of attached memory does not fetch the page, so writing
   back one stored word overwrites the others (rum.cpp:1478, against README.md:13).
   And a page that is first loaded from is not marked by the stores that follow,
   which do not trap: they are lost at its eviction. Both concern memory with a
   content from the start: attached, or of `rum_calloc`.
5. `dirty_map` outlives the memory it describes: after a flush, a free and a
   new mapping of the same page, stores to that page are lost (rum.cpp:475, 1503,
   against README.md:12).
6. A block given back stays in the list of its client; the callback frees
   whatever is at that address later, hashed memory included
   (hpc_slave.cpp:477, against the comment at 483).
7. A hash asked for with another size keeps its old pointer (hpc_slave.cpp:887,
   against the comment at 746). s3cmd does so when a copy that was left behind
   by a `mv` had another size.
8. `restore()` loses the pointers it reads to, and the name of the hash
   (hpc_slave.cpp:1370, against the comment at 1522).
9. A slave that restarted serves clients it does not watch (Heartbeat.cpp:173,
   against README.md:40).
10. The callback's `free` and `erase` are two steps, between which the block may
    be lent again (hpc_slave.cpp:486, against README.md:40).
11. A thread of the heartbeat may end before it has begun, since the flag of its
    loop is set after it is started: the client's (Heartbeat.cpp:52), which then
    sends nothing, and the slave's (Heartbeat.cpp:58), which then watches nobody.
12. A registration does not restart the timer of the host's last process, which
    then takes the memory of the next one (Heartbeat.cpp:151).
13. The second process of a host is not watched until its first heartbeat
    (Heartbeat.cpp:144).
14. Nothing enforces that the window is big enough: a call that lasts a window
    of other requests finds another's flag (dpdk_transition.cpp:82).
15. After a burst of which the NIC took a part, `send_burst_fast` offers the
    beginning of the burst again: packets are sent twice, and the last ones are
    neither sent nor freed (packet.c:29; the comment at 37 has "free packets
    not send"). `send_burst_wait` is the same.
16. A promise that comes twice counts as two, since senders are compared by
    address (paxos_instance.cpp:1159). A prepare that is sent again while its answer
    is on the way is enough (921).
17. The ids a proposer uses are not saved: after a restart it begins with the
    first one again, for another value (paxos_instance.cpp:109, 1112).
18. `proposer_observe_proposal` compares the addresses of two ids, so that what
    it keeps as the highest may not be (paxos_instance.cpp:1127).
19. A node that catches up learns the number of the instance, not its value: it
    reads a member that the message does not carry (paxos_instance.cpp:541).
    Smaller ones: nacks are never counted, and a master candidate whose second
    lease runs out has no lease timer any more.
20. The queue of timers erases by instant, not by id: two timers of one instant
    go together, and the other is never called (paxos_timer.cpp:231).
21. `clearTimer` waits without a predicate (225), its first act may compare with
    a member that the constructor does not set (170), a second `clearTimer` of an
    id whose handler runs destroys the timer under it, and `clear` fails the
    assertion of `destroy_impl` (205) while a handler runs, or when a timer is added
    after it has given up the mutex and before it tests `active` again (181;
    against paxos_timer.h:116).
22. `del` and `rb` free the data first: killed before they save, they leave
    entries without data (s3cmd_rum.cpp:606, 251).
23. A command that is killed while it replaces the listing leaves none that
    parses, after which every command dies (KVS.cpp:141).
24. Of two commands at a time, the later one saves the listing without what the
    other did (s3cmd_rum.cpp:119).
25. `mv` within a bucket copies the data from pages that it has just freed (1043),
    and `mv` to a file, which is a TODO, loses the file (s3cmd_rum.cpp:1015).
26. `put` compares whole local paths with names: a file given with its directory
    is listed each time it is put (s3cmd_rum.cpp:401).
27. A process that finds other servers in its file looks for keys at other
    slaves (hashring.cpp:297); nothing moves them.
28. `mv` leaves the data under the old name, and a `put` that cannot open a file
    leaves what it stored: nobody can remove it (s3cmd_rum.cpp:1043, 413).
29. `_highest_accepted_id` is never reset (paxos_instance.cpp:41, 1164): a
    proposer that was told of an accepted value in one instance passes over what
    was accepted under a lower id in the next, and two values may be chosen there
    (against README.md:60, "Paxos works"). The instances of a chain have ids of
    their own, and only the proposer's memory of the accepted ones is shared.
30. DEALLOC frees any address that is recorded, without asking whose it is. A
    client that outlives a restart of its slave, or that the slave has given up
    as silent, has its pointers still; what malloc has put there since is freed,
    a hash's block too, whose pointer `data_map` keeps and the next packet for
    that hash frees again (hpc_slave.cpp:837, against the comments at 839, "we
    assume that the DEALLOC_HASH is used for pointers alloced by ALLOC_HASH", and
    746).
31. `rum_alloc(size, location)` leaves the block on the slave when the mapping
    fails (rum.cpp:738, 749, against the TODO there, "should free all memory so
    far"); so, with the hash, do the hashed ones (842, 936).
32. A request that finds the ring full is lost, and its mbuf leaks, since the
    result of `rte_ring_enqueue` is ignored (dpdk_transition.cpp:638). With up to
    four ports the ring has room for the whole pool (61, 74, 1555), and
    `NoneDropped` shows that it is never full then.
33. `drive_to_resolution` sets the timer of the prepare over that of the accept that
    a master of id 1 has just sent, which is then never cleared
    (paxos_instance.cpp:911, 916); `stop_driving`, which ends retransmissions when an
    instance is over (791, 827), clears the other one. It offers the old id and value in later instances too, where
    nobody has promised that id, and two values may be chosen there.

The run `reuse_after_flush` shows 5. The others show in the same way: the
property named fails in the instance given, and holds in the passing runs, which
leave out what it takes. What is not named is as in the cfg of the module's run.

| | property | instance |
|---|---|---|
| 1 | `CallocReadsZero` | `MCPageCache`, `Api = {"rum_calloc"}` |
| 2 | `FlushReachesSlave` | `MCPageCache`, `Api <- FlushApi` |
| 3 | `FindsOwner` | `MCPageCache`, 3 client pages, `Api = {"rum_alloc", "rum_alloc_hash"}` |
| 4 | `EndIsDurable` | `MCPageCache`, `Api <- HashApi`, 2 words |
| 4 | `Coherent` | `MCPageCache`, `Api` with `"rum_calloc"` |
| 6 | `HashesAllocated` | `MCSlave`, `MaxLen = 1`, `Ops = {"alloc", "dealloc", "hash", "silence"}` |
| 7 | `HashHasSize` | `MCSlave`, `Ops` with `"resize"` and `"dealloc"` |
| 7 | `ListingHolds` | `MCS3cmd`, `Pages <- Growing`, `LocalFiles <- Either`, `MaxPut = 1` |
| 8 | `HashesRestored` | `MCSlave`, `Ops` with `"hash"` and `"stop"` |
| 9 | `ClearedUp` | `MCSlave`, `Ops = {"alloc", "silence", "stop"}` |
| 10 | `ClearedUp` | `MCSlave`, `Overlap = TRUE` |
| 30 | `HashHasSize`, `BooksMatchHeap`, `NoDoubleFree`, `LiveKeepTheirs` | `MCSlave`, cfg of `packets`, `Ops` with `"stale"` |
| 31 | `NothingLeaks` | `MCPageCache`, `Api <- PlainApi` |
| 11 | `NeverFromLive` (the client's thread), `SilentCleared` (the slave's) | `MCHeartbeat`, `LateFlag = TRUE` |
| 12 | `NeverFromLive` | `MCHeartbeat`, 1 host, `Lives = 2`, `Patience = 3` |
| 13 | `SilentCleared` | `MCHeartbeat`, `Lives = 2`, `Patience = 6`, `FairSpec` |
| 14 | `OwnReply`, `ReadsWhatWasWritten`, `OnItsWay` | `MCTransport`, `BigEnough = FALSE` |
| 15 | `SentOrFreedOnce`, `OwnReply`, `ReadsWhatWasWritten`, `OnItsWay` | `MCTransport`, `NicTakes = {"all", "some"}` |
| 32 | `leaked = 0` | `MCTransport` |
| 16 | `IsConsensus` | `MCPaxos`, `Contest` with `breaches` |
| 17 | `OneValuePerId`, `IsConsensus` | `MCPaxos`, `Quiet` with `breaches`, nodes 1 and 2 of `count` 2, `impatient` and restarting in instance 0, by simulation |
| 18 | `OneValuePerId`, `IsConsensus` | `MCPaxos`, `Quiet` with `breaches` and `addresses`, nodes 1 and 2 of `count` 2 and `impatient`, by simulation |
| 20 | `NoneForgotten`, `EveryTimerFires` | `MCTimerThread`, `Faults = {"coarse"}` |
| 21 | `ClearedStaysQuiet` | `MCTimerThread`, `Faults = {"spurious"}`, or `{"uninitialised"}` |
| 21 | `ClearedStaysQuiet` | `MCTimerThread`, `Faults = {"cleared_twice"}` |
| 21 | `AssertHolds` | `MCTimerThread` as in the run; `Faults = {"clear_busy"}` |
| 22 | `ListingHolds` | `MCS3cmd`, `Killed` with `"rb"` and `"del"` |
| 23 | `IsObjectStore` | `MCS3cmd`, `Faults = {"killed as it saves"}` |
| 24 | `ListingHolds`, `IsObjectStore` | `MCS3cmd`, `Faults = {"together"}`, `Processes = {p, q}`, `LocalFiles <- Either`, `MaxPut = 1`, `Killed = {}`, `Blocks <- MoreThanKeys` |
| 25 | `ListingHolds`, `IsObjectStore` | `MCS3cmd`, `Faults = {"to itself"}`; `{"to file"}` |
| 26 | `ListingHolds`, `ListedOnce`, `IsObjectStore` | `MCS3cmd`, `Paths = {"dir/n1"}`, `LocalFiles <- InDirectory` |
| 27 | `ListingHolds`, `IsObjectStore` | `MCS3cmd`, `MachineFiles <- OtherFile`, `Blocks <- MoreThanKeys` |
| 28 | `NoOrphans` | `MCS3cmd` |
| 29 | `IsConsensus` | `MCPaxos`, `Quiet` with `breaches`, `count` 2, 4 and 4, `instance` 2, `impatient` `{2, 3}`, `learners` `{3}` and `followers` `{1, 2}`, along the steps below |
| 33 | `IsConsensus` | `MCPaxos`, `Quiet` with `breaches` and `addresses`, `count` 1, 2 and 0, `instance` 2, all learners, `impatient` `{2}`, node 3 restarting in instance 1, along the steps below |

The first and third need no more than two calls; 4 and 5 need four or more, and
a page to be pushed out in between. 6 needs three packets and a timeout; 12 and
13 need two processes of one host within the times given. With the bounds of 17
and 18 and no `breaches`, the same simulation finds nothing.

29 was met when `Fresh` (below) could not be proved, and takes 36 steps, too many
for a search. In the first instance node 2 gets promises for
its id (2, 2) and a vote of node 3; node 3 gets promises for (3, 3), its own
telling of (2, 2), offers that value, and learns it chosen with the votes of 2
and 3; nodes 1 and 2 catch up. In the second, node 1 gets promises and votes of 1
and 3 for (2, 1), which chooses node 1. Node 3 gets promises of 2 and 3 for
(4, 3). Its own tells of (2, 1), which is not above (2, 2): it offers itself,
and 2 and 3 vote for it.

33 takes 26 steps. The lease of node 2 runs out twice before it learns its own
election under (1, 2), so that it proposes itself again as it goes on, and its
accept timer leaks. 1 and 3 learn too, but 1's comparison of addresses does not
observe (1, 2). Node 3 restarts: what it promised its new master was not saved. The
lease runs out, and node 1 is elected with (1, 1), chosen by 1 and 3. Then the
leaked timer offers ((1, 2), node 2) in this instance, and a quorum votes for it.

## Proofs

All theorems hold for every value of the constants that satisfies the named
assumptions: `LimitAssumption` (the cache holds at least one page),
`StoreAssumption`, `ClientAssumption` (addresses are positive numbers, stored
values are contents, `Undef` is none), `AddrsAssumption`, `NamesAssumption` (no
hash has the empty name, which marks a region without one), `SlaveAssumption`,
`HeapAssumption` (the heap ends somewhere), `FilesAssumption` (no hash has the
name of a file of `backup()`), `HeartbeatAssumption` (times are natural
numbers), `TimerAssumption` (delays are natural numbers, and the worker is no
caller), `TransportAssumption` (finitely many threads, and a window, ring,
burst and number of retries of at least one), `PaxosAssumption` (nodes are
positive numbers, finitely many, and no value of the application is a node:
`Value` tells them apart by `is_master`). The runs check them.

| module | theorems |
|---|---|
| `AddressLRUTheorems` | what `update` and `purge` leave: a list without duplicates, the blocks it has, its order, the size it keeps |
| `LRUCacheTheorems` | `ListOK`, `StaleReported`, `EvictsTheOldest` |
| `PageCacheTheorems` | what `insert`, `[]=`, `erase` and each packet leave of the maps; `TypeCorrect`, `CacheIsExact`, `RecencyImplemented`, `BlocksMatch`, `OwnerIsFound`, `OwnPagesOnly`, `MemoryIsCoherent`, `EndKeepsEverything`, `ClientIsFlatMemory` |
| `SlaveTheorems` | `NobodyIsRobbed`, `HashesPersist`, `BooksAreRight`, `NothingFreedTwice`, `BackupHoldsHashes`, `NothingIsLeft`, `SlaveLends`, `RulesKept`, `TameLending`, `TameBackup` |
| `HeartbeatTheorems` | `TypeCorrect`, `KeepsTheLive`, `FreesInTime` |
| `TimerThreadTheorems` | `TypeCorrect`, `NoTimerForgotten`, `ClearingIsFinal`, `TimersImplemented` |
| `TransportTheorems` | `TypeCorrect`, `NoneLeaks`, `NoneDropped`, `EachSentOnce`, `RepliesAreOwn`, `NobodyWaitsInVain`, `RepliesAreCurrent` |
| `PaxosTheorems` | `NothingForgotten`, `NeverGoesBack`, `IdsAreUnique`, `OutcomesChosen`, `ConsensusImplemented` |

*The list.* `TypeOK` of `LRUCache` is inductive as it stands, because it
contains both the limit and the absence of duplicates: without the latter, the
removal of a listed block could take two, and without the former one pop might
not be enough. `StaleReported` and the refinement are then step properties
under it. The order of the list is carried by the relation `NewerThan`, about
which `AddressLRUTheorems` proves how appending, dropping the head and removing
a set change it, so that no later proof has to speak of indices.

*The client.* `TypeOK` is inductive. `CacheExact` is not for programs that
flush, and the theorem says so: its hypothesis is that the program does not call
`rum_flush_cache`, and disagreement 2 is what happens otherwise.
Under it, `TypeOK /\ CacheExact` is inductive: the lemma `CacheSteps` sorts all
actions into those that leave list and protections alone, traps, frees, ends and
restarts, and each of the five is treated once. A trap needs that the page
trapped on is not listed (it is protected, and what is listed is not), so that
`update()` appends it; a free needs that purging takes exactly the region's
pages. `RecencyImplemented` maps the unprotected pages to the resident ones and
the list to its order, and a trap to a fault of the abstract cache.

*Who has which memory.* `Books` of `PageCacheTheorems` holds for every program,
whatever it calls: the blocks of the slave's heap do not overlap, regions do not
either and have exactly the mapped pages, what is listed is mapped, and `Owned`
relates the two sides, each region and each hash having a block of its own and
no block being anything else, save those of disagreement 31, which it counts. `BlocksMatchRegions` alone is not inductive: that
freeing a region leaves the others theirs needs that regions, and blocks, are
apart, and that a restarted process finds the blocks of the hashes needs what
`named` says of those it left. `EndsKnown` adds that the keys of
`addr_space_map` are the last addresses of the regions, which `rum_alloc_hash`
breaks by one (disagreement 3), so that the theorems which need it exclude
that call: `OwnerIsFound`, since `lower_bound` of a page then gives the end of
the region it is in, and `OwnPagesOnly`.

*What is in it.* `Memory` is about the words. `Kept`: what the program stored in
a page is in the RAM of its mapping, protected or not, and if the page was pushed
out it is on the slave too, and the page is still known as dirty. `DirtyKept`:
a page that is listed would be written back. This holds for programs that begin
with fresh memory (`SetsBeforeUse` excludes `rum_calloc` and `rum_get`, see
disagreements 1 and 4), and do not free memory after a flush (5). `Client`, the
conjunction of all this, is inductive: a fetch brings back what was pushed out
because the owner found is the page's own and no other page is written over it.
`MemoryIsCoherent` follows at once. `ClientIsFlatMemory` maps `heap` to the
memory, and each call, load and store to its own step there, a fault by itself
to a stutter; the loaded words are right because of `Kept`. `EndKeepsEverything`
needs in addition `CacheExact`: what is not listed has been written already.

*The slave.* The theorems are about every `Ops` and `Overlap`, all that goes
wrong included, and say what holds up to the first `breach`. The slave does not
notice a breach. It is a packet, or a step of the callback, that frees a block
which is not its sender's to free, or a packet that is handled while the
callback runs. Stops, crashes, restarts, signals in the middle of packets and
DEALLOCs that hit nothing are no breaches. `Sound` is inductive up to there. It says
that the books list exactly the blocks in use with their sizes, up to those
that `restore()` lost and the one that the callback is about to forget; that
each hash has a block of its own; and that the callback runs for a client that
is silent. `LiveKeepTheirs` by itself says nothing of the books that the next
packet goes by. `NothingIsLeft` adds `Cleared`: whoever has a process is watched, what
was lent is listed, and what the callback has still to free is in its hands; it
excludes restarts of the slave (9). `BackupHoldsHashes` is of the step in which
the signal comes. That a file holds the block that is named by its hash follows
from the order in which `backup()` goes through the addresses, NULL first.
`SlaveLends` maps malloc's blocks, their holders and the hashes to those of
`Lending`: up to the first breach each step is one there, or a stutter.

`RulesKept` says who commits no breach. Each part of its hypothesis `Tame` is
there because the code goes wrong without it: packets and callback take turns
(disagreement 10), a hash has one size (7), memory is not given back before its client
falls silent (6), and pointers are not kept beyond the lease or the slave they
are from (30). `Rules`, which is inductive with `Sound`, says that clients hold
what they were lent, that a list names only what was lent to its client, and
that the callback has only what its client left in its hands. `TameLending` is
the refinement for such programs, `TameBackup` the property `BackupIsWhole`. The run `leases` checks it for timeouts; the theorem is also
about giving back and restarts, for which `packets` checks the books.

*The heartbeat.* Both theorems assume `Prompt` (a sleep and a message together
take less than the timeout) and that both threads find their flags set.
`KeepsTheLive` also assumes `Patient` (a host waits longer than the timeout and
a message before it runs its next process): disagreements 11 and 12 are what
happens otherwise. Neither property is inductive. The invariant `HInv` adds
`Alive`, that the timer of a running process is going to be renewed in time, by
a beat on its way that arrives before the timer fires or by the next one; and
`Quiet`, that the messages of an ended process are at least as old as its end,
so that a timer still running ends within a timeout and a message of it.
`Alive` says that a timer at 0 is not that of a running process; `Quiet` that
the next process of a patient host finds no timer. `FreesInTime` assumes one
process for each host (disagreement 13 is what happens otherwise) and adds
`Watched`: for what is or was allocated, a timer runs, or a registration that
is to start it is on its way. The run `heartbeats` checks the same properties
with times for which the hypotheses hold.

*The timer thread.* Four invariants build on each other, and each theorem uses the
least it needs. `TypeInv` (`TypeOK`, and that the handler is that of a timer
which is due) is inductive whatever the `Faults`. `QueueInv` adds that queue
and handler share out the active timers, none being queued twice: inserting keeps
this only because the handler's timer is not queued, and erasing because instants
are distinct (disagreement 20), which `NoTimerForgotten` assumes. `QuietInv`
adds that a timer runs in its handler only, that who waits, waits for the
handler the worker is in, and that a timer whose clearing has been answered, or
has only to be, is gone: `ClearedStaysQuiet` by itself says nothing of a
thread that is about to return. `Disciplined`, the hypothesis of
`ClearingIsFinal`, excludes what breaks it (disagreement 21). `PromiseInv` adds
that the queue is in the order of the instants, and that what somebody has
asked to clear is neither queued nor marked as running. `TimersImplemented`
needs all of it: what the worker takes is the most overdue of all that are set, since
its head is the least of a sorted queue that holds them all, and a timer is
over before its clearing is answered. The steps of the mutex and of the condition
variables are stutters of `Timers`. It assumes that there are no `Faults`.

*The transport.* The proofs see what is on its way to the slaves as one
sequence: `Pipe`, the wire, then what is left of the burst in hand, then the ring.
Enqueueing appends to it, the tx thread and an accepted burst leave it as it
is, and serving or giving up takes something out of it. Three invariants build on
each other. `Once`: no two of the requests at hand or in the pipe have one
number, and each was sent as often as its place says. `Match`: a request that
gets an answer is in the pipe while its thread waits, or there is one reply to
it, or the flag of its number is set, and never two of these; numbers of calls at hand are less
than a window apart, so that no two share a flag (`WindowApart`). `Values`: were
the pipe served in order, each request would leave under its key what was expected of it
when it was enqueued (`Chain`, which relates a request to the next one of its
key). `TypeCorrect` holds without hypotheses. `NoneLeaks` counts mbufs in every
state, also those with a full ring or a burst given up, and `NoneDropped` adds that a
ring with room for the pool is never full: whoever is about to enqueue holds an mbuf
that is not in it. All but `TypeCorrect` exclude
a NIC that takes part of a burst, and those about replies a call that outlasts
the window: disagreements 15 and 14 are what happens otherwise. Losses are not
excluded; `ReadsWhatWasWritten` and `OnItsWay` say themselves what they leave
open then.

*Paxos.* What a node has said in a message, its disk is no less than: neither
messages that come late or twice, nor restarts, nor the bounds of a run matter to
that. `SaidIsSaved` is not inductive. The invariant `PInv` adds
`Saves` (what is saved is at most what is promised in memory, which the promise
to a new master, made without a message, exceeds; and all that is accepted) and
that no node has said anything in an instance that it has not reached, without
which going on to the next one would have to keep promises made there. `Sorted`
sorts all steps into five: those that say nothing, a promise, a vote, going on
to another instance and a restart. `Shape` is weaker than `TypeOK`, with ids of
any size, since a master that goes on draws an id past its bound.

The three other theorems hold up to the first `breach`, for all bounds: with
repeated promises, address comparisons, restarts of proposers, several proposers
over several instances and leaked timers, of which each is harmless until one of the four
events that `Breaches` names. Those are disagreements 16 to 18, 29 and 33; after
them the properties fail. The events are of one step, and say nothing of what
anybody votes for or learns.
The invariant `AInv` says where what is known came from. Each vote is for an
offer, each offer was asked for by a prepare of its proposer under the id it has
drawn, which is the highest it knows of; the last vote that a promise tells of
is one that its sender cast and the last it cast below that id (`PromisedKept`);
and what a proposer that gathers promises has kept is no lower than what any of
them told, and of this instance if one told anything (`GatheredKept`). A node that
finds itself master of id 1 has drawn another id since, so that it never offers a value
without promises (`ProposersKept`); only its leaked timer does.
`IdsAreUnique` is a part of `AInv`. `OutcomesChosen` adds `LearnersKept` (what a
learner counts for an id is no more than the nodes whose latest vote it took to
be that id) and `LogKept` (an outcome has a quorum of votes of one id).

`ConsensusImplemented` adds `AllSafe`: of whatever is offered, a quorum has voted
for that value or will not vote at all, for each lower id. It is kept because a
quorum of promises meets every other quorum (`FiniteSetTheorems`), and the
highest vote told is the one offered. That needs `Fresh`: the value that a proposer
holds is the one offered under the highest vote it remembers, if that is of the
instance it is in; it is never of a later one. What is chosen is mapped to
`Consensus`, as in the run, and each step up to the first breach is one there or
leaves what is chosen.

*Only model-checked:* `ListingHolds`, `ListedOnce` and `IsObjectStore` of
`S3cmd`, and liveness: `SilentCleared` of `Heartbeat`, `SilenceClears` of
`Slave`, `EveryTimerFires` and `EveryCallReturns` of `TimerThread`. A `put` of
`S3cmd` goes through its files and through the listing entry by entry, which
the model writes as a fold: what that leaves for a listing of any length takes
induction over the sequence. The folds of the library are defined by recursion
over sets, and the theorems that would unfold them take operators as parameters.
*Beyond the prover:* liveness, and what recursive definitions compute for all
inputs. The modules use no recursion of their own.

## Plan

1. *Done:* the list, the slave's store, the client of one thread, their
   abstract specifications and first theorems.
2. *Done:* `Slave` and `Heartbeat`. With the abstract specification `Lending`:
   every block has one holder, and only its holder, or the holder's silence, frees it.
3. *Done:* `TimerThread` with `Timers`, `Transport`, `Paxos`, `HashRing`, `KVS`, `S3cmd`.
4. `PageCache` over `Transport`, as an implementation of the lossless one when
   nothing is lost.
5. `PageCacheMT`: threads, and the handler in the steps that others can see.
6. `Paxos` with its timers on threads of their own, over `TimerThread`.
7. Proofs. *Done:* the list, the client down to the refinement of `FlatMemory`,
   the slave's books and leases down to the refinement of `Lending`, the heartbeat,
   the timer thread down to that of `Timers`, the transport, agreement of Paxos.
   To do: the listing of s3cmd.

## Not modelled

* `rum_realloc`: as far as pages go a sequence of calls and accesses that are
  modelled; the byte counts it compares are planned.
* `rum_free(Location, hash)` of the client advances an iterator it has just
  erased; `KVS` has the packet it sends. So does `KVS::remove`, which reads a
  map's entry after erasing it: in the builds its value is still there.
* Programs of several threads: the handler makes a page accessible before it is
  fetched (rum.cpp:1454), writes back a page that others still store to (1573),
  and `rum_flush_cache` walks a copy of the list (493), with no lock on the
  maps. What the code then does is mostly undefined.
* Handlers of Paxos that run beside each other, on the timer's thread and the
  transports', on shared members without a lock.
* The hash ring's `data_table` (`put_data`, `get_data`, `remove_node`,
  `relocate_data`): no caller, or behind a condition that is never true, since
  the node that follows a new node's place is the new node.
* The client's page cache under s3cmd: values are of a page or two there and
  written back at the end, though an eviction may write a page earlier.
* s3cmd's `sync`, `setacl`, `accesslog`, `sign`, `fixbucket` (empty or only
  parsed), `la`, `du`, `info` and `jd` (they read and print).
* `SlavePaxos.cpp`, built only with `USE_PAXOS`, which is commented out.
* What a mapping that was made, but could not be protected, takes of the address
  space. `rum_alloc(size)` ends the process there (656), with its block on the slave
  until the heartbeats miss the client.
* What is not safe in a signal handler: `backup()` allocates and prints, and may
  find `malloc()` or `printf()` locked by the packet it interrupts. A crash in
  the middle of `backup()`, which leaves files half written. And what a file of
  NULL has in it (1360: the size, and for a long block nothing else).
* The slave ending because `bzero` of a failed `malloc` faults: the step is not
  taken.
* Paxos message text, sockets, the examples' command lines, JSON, the vendored
  libraries, `fsm.cpp` ("fsm is broken for now", rum.cpp:608), the superseded
  Paxos driver and roles.
