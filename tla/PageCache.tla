----------------------------- MODULE PageCache ------------------------------
(***************************************************************************)
(* The RUM client library under a sequential program (rum_master/rum.cpp): *)
(* memory is allocated both as a block of a slave and as a protected local *)
(* mapping; the first touch of a page traps into signal_callback_handler,  *)
(* which unprotects the page, fetches it from the slave when the access is *)
(* a load, and pushes the least recently faulted page out to the slave.    *)
(*                                                                         *)
(* The handler runs on the thread that touched the page, and a client's    *)
(* packets reach a slave in the order they were sent (one ring for each    *)
(* port), so for a program of one thread a trap together with the retried  *)
(* instruction, and each library call, is one step, and a packet without a *)
(* reply is one the slave has already handled.  Packets are not lost here. *)
(*                                                                         *)
(* The program is a C program that keeps the rules of C: it touches only   *)
(* memory it has and loads only words with a determinate content, and asks *)
(* for hashed memory by the size the hash already has.  Api is the part of *)
(* rum.h it uses; "misaccess" lets it break the first of these rules.      *)
(***************************************************************************)
EXTENDS AddressLRU, SlaveStore

CONSTANTS
    Pages,      \* the pages of the client's address space
    LastWord,   \* Words = 0..LastWord
    MaxLen,     \* the largest allocation, in pages
    Values,     \* what the program stores
    Undef,      \* the content of a word the program may not load
    Api         \* the calls of rum.h the program makes

Calls == {"rum_init", "rum_alloc", "rum_alloc_at", "rum_calloc", "rum_alloc_hash",
          "rum_alloc_hash_at", "rum_get", "rum_free", "rum_free_hash",
          "rum_flush_cache", "rum_end", "misaccess"}

ASSUME ClientAssumption ==
    /\ Pages \subseteq Nat \ {0}
    /\ LastWord \in Nat \ {0}
    /\ Words = 0..LastWord
    /\ MaxLen \in Nat \ {0}
    /\ Values \subseteq Contents
    /\ Undef \notin Contents
    /\ Api \subseteq Calls
    \* What a dead process leaves behind other than hashed memory is for the
    \* heartbeats to clean up, which are not modelled here.
    /\ "rum_init" \in Api => Api \cap {"rum_alloc", "rum_alloc_at", "rum_calloc"} = {}

VARIABLES
    data_map,       \* start of a region -> its ACT_STRUCT
    addr_space_map, \* last address of a region -> its start
    dirty_map,      \* page -> 0 or 1
    history_,       \* the list of local_mem_block_cache
    prot,           \* what mprotect() last said of each page
    mem,            \* the client's RAM
    running,        \* FALSE once the process has ended
    heap,           \* history: what the program put in each word
    named,          \* history: what processes that ended left in each hash
    leaked,         \* history: the blocks that nobody has a pointer to
    reply           \* history: what the last step loaded

clientVars == <<data_map, addr_space_map, dirty_map, history_, prot, mem>>
vars == <<clientVars, slaveVars, running, heap, named, leaked, reply>>

Blank == Filled(Undef)

\* A process that has called rum_init().
Init ==
    /\ SlaveInit
    /\ data_map = NoEntries /\ addr_space_map = NoEntries
    /\ dirty_map = NoEntries
    /\ history_ = <<>>
    /\ prot = [p \in Pages |-> "unmapped"]
    /\ mem = [p \in Pages |-> Filled(Zero)]
    /\ running = TRUE
    /\ heap = [p \in Pages |-> Blank]
    /\ named = NoEntries
    /\ leaked = {}
    /\ reply = <<>>

-----------------------------------------------------------------------------
(* Regions.  An address is a page and a word in it.                        *)

AddrLE(a, b) == a[1] < b[1] \/ (a[1] = b[1] /\ a[2] <= b[2])

Span(s) == Extent(s, data_map[s].len)
LivePages == UNION {Span(s) : s \in DOMAIN data_map}

\* addr_space_map.lower_bound(a): the first key that is not before a.
After(a) ==                 \* mutant: upper_bound
    {e \in DOMAIN addr_space_map : AddrLE(a, e) /\ a # e}

NotBefore(a) == {e \in DOMAIN addr_space_map : AddrLE(a, e)}
lower_bound(a) == CHOOSE e \in NotBefore(a) : \A f \in NotBefore(a) : AddrLE(e, f)
last_key == CHOOSE e \in DOMAIN addr_space_map :
                \A f \in DOMAIN addr_space_map : AddrLE(f, e)

\* The region the handler takes a faulting address for.  It ends the process
\* when there is none: "you probably mis-accessed some memory".
Trappable(a) ==
    /\ NotBefore(a) # {}
    /\ AddrLE(<<addr_space_map[lower_bound(a)], 0>>, a)

\* base_ptr of a page that is in the cache: "no checking here, as should be
\* checked upon cache entry".
Base(a) == IF NotBefore(a) = {}
           THEN addr_space_map[last_key]
           ELSE addr_space_map[lower_bound(a)]

\* Where on the slave the handler looks for the page p, found through a.
RemoteStart(p, a) == data_map[Base(a)].remote   \* mutant: no offset

Remote(p, a) == data_map[Base(a)].remote + (p - Base(a))
RemoteOf(p) == Remote(p, <<p, 0>>)

-----------------------------------------------------------------------------
(* signal_callback_handler                                                 *)

\* The client's RAM once the handler is done with a fault on p: a load has the
\* page fetched (dpdk_read), a store leaves what the mapping held.
Fetched(p, w, write) ==
    IF write THEN mem ELSE [mem EXCEPT ![p] = READ(Remote(p, <<p, w>>))]

\* The handler's dirty_map.insert({memblk_base, 1}).
Marked(p, write) == IF write THEN Insert(dirty_map, p, 1) ELSE dirty_map

IsDirty(d, p) == p \in DOMAIN d /\ d[p] = 1

WriteBackClears(stale, d, ram) ==   \* mutant: the bit really is cleared
    IF stale # NoBlock /\ IsDirty(d, stale)
    THEN /\ slave_mem' = WRITE(slave_mem, RemoteOf(stale), ram[stale])
         /\ dirty_map' = Assign(d, stale, 0)
    ELSE /\ UNCHANGED slave_mem
         /\ dirty_map' = d

\* The page pushed out goes to the slave if its dirty bit was ever set; the
\* insert() that should clear the bit finds the key present.
WriteBack(stale, d, ram) ==
    IF stale # NoBlock /\ IsDirty(d, stale)
    THEN /\ slave_mem' = WRITE(slave_mem, RemoteOf(stale), ram[stale])
         /\ dirty_map' = Insert(d, stale, 0)
    ELSE /\ UNCHANGED slave_mem
         /\ dirty_map' = d

signal_callback_handler(p, w, write) ==
    LET stale == Stale(history_, p)
    IN  /\ prot[p] = "none"
        /\ Trappable(<<p, w>>)
        /\ history_' \in Updated(history_, p)
        /\ prot' = [q \in Pages |-> IF q = stale THEN "none"
                                    ELSE IF q = p THEN "rw" ELSE prot[q]]
        /\ WriteBack(stale, Marked(p, write), Fetched(p, w, write))
        /\ UNCHANGED <<data_map, addr_space_map, arena, data_size_map, hash_map>>

-----------------------------------------------------------------------------
(* The program's loads and stores                                          *)

Load(p, w) ==
    /\ heap[p][w] # Undef
    /\ \/ prot[p] = "rw" /\ UNCHANGED <<clientVars, slaveVars>>
       \/ signal_callback_handler(p, w, FALSE) /\ mem' = Fetched(p, w, FALSE)
    /\ reply' = <<p, w, mem'[p][w]>>
    /\ UNCHANGED <<running, heap, named, leaked>>

Store(p, w, v) ==
    /\ p \in LivePages
    /\ \/ prot[p] = "rw"
          /\ UNCHANGED <<data_map, addr_space_map, dirty_map, history_, prot,
                         slaveVars>>
       \/ signal_callback_handler(p, w, TRUE)
    /\ mem' = [mem EXCEPT ![p][w] = v]
    /\ heap' = [heap EXCEPT ![p][w] = v]
    /\ reply' = <<>>
    /\ UNCHANGED <<running, named, leaked>>

-----------------------------------------------------------------------------
(* The library calls                                                       *)

\* The starts of the mappings mmap(NULL, ...) may return for n pages.
Mmap(n) == {s \in Pages : Extent(s, n) \subseteq
                             {p \in Pages : prot[p] = "unmapped"}}

\* A region of n pages at s, backed by the block at r: mmap of /dev/zero,
\* PROT_NONE, and its entries in data_map and addr_space_map under the end
\* address the caller computed.
MapRegion(s, n, r, h, end) ==
    /\ s \in Mmap(n)
    /\ data_map' = Insert(data_map, s, [len |-> n, remote |-> r, hash |-> h, end |-> end])
    /\ addr_space_map' = Insert(addr_space_map, end, s)
    /\ prot' = [p \in Pages |-> IF p \in Extent(s, n) THEN "none" ELSE prot[p]]
    /\ mem' = [p \in Pages |-> IF p \in Extent(s, n) THEN Filled(Zero) ELSE mem[p]]
    /\ UNCHANGED <<dirty_map, history_>>

\* What the program may rely on in the pages S.
Holding(S, content) ==
    heap' = [p \in Pages |-> IF p \in S THEN content[p] ELSE heap[p]]

\* The end address of rum_alloc(size, hash): one too far.
FirstAfter(s, n) == <<s + n, 0>>

\* "because we count from 0th position"
LastAddress(s, n) == <<s + n - 1, LastWord>>

NoHash == ""                \* has_hash = 0
ASSUME NamesAssumption == NoHash \notin Hashes

Allocated(s, n, initial) ==
    \E r \in RPages :
        /\ ALLOC(n, r)
        /\ MapRegion(s, n, r, NoHash, LastAddress(s, n))
        /\ Holding(Extent(s, n), [p \in Extent(s, n) |-> Filled(initial)])
        /\ UNCHANGED <<named, leaked>>

\* rum_alloc(size), rum_alloc(size, location), and rum_calloc, which is rum_alloc
\* and nothing more: only what the program takes the words to hold is another.
Promised == (IF {"rum_alloc", "rum_alloc_at"} \cap Api # {} THEN {Undef} ELSE {})
                \cup (IF "rum_calloc" \in Api THEN {Zero} ELSE {})
rum_alloc(s, n) == \E initial \in Promised : Allocated(s, n, initial)

\* The slave is out of memory: it replies with NULL, and so does rum_alloc.
rum_alloc_fails(n) ==
    /\ {"rum_alloc", "rum_alloc_at", "rum_calloc"} \cap Api # {}
    /\ ALLOC(n, NULL)
    /\ UNCHANGED <<clientVars, heap, named, leaked>>

KeptBack(n, r) == ALLOC(n, r)       \* mutant: the block is not given back

\* ALLOC, and the DEALLOC of the block it replied with.
GivenBack(n, r) ==
    /\ r \in Malloc(n)
    /\ arena' = Erase(Assign(arena, r, n), r)
    /\ data_size_map' = Erase(Insert(data_size_map, r, n), r)
    /\ UNCHANGED <<slave_mem, hash_map>>

\* The slave has memory, and the client no room for a mapping: mmap fails.
\* rum_alloc(size) gives the block back.
rum_alloc_unmapped(n) ==
    /\ {"rum_alloc", "rum_calloc"} \cap Api # {}
    /\ \E r \in RPages : GivenBack(n, r)
    /\ UNCHANGED <<clientVars, heap, named, leaked>>

\* rum_alloc(size, location) does not ("should free all memory so far"), nor
\* when mprotect fails.  (What a mapping that was made but not protected takes
\* of the address space is left out.)
rum_alloc_at_unmapped(n) ==
    /\ "rum_alloc_at" \in Api
    /\ \E r \in RPages : ALLOC(n, r) /\ leaked' = leaked \cup {r}
    /\ UNCHANGED <<clientVars, heap, named>>

\* What both ways of allocating hashed memory do, for a hash that is not in
\* use here already.
Attached(h) == \E s \in DOMAIN data_map : data_map[s].hash = h

HasSize(h, n) == DOMAIN named[h] = 0 .. n - 1

AllocatedHash(s, n, h, end) ==
    /\ ~Attached(h)
    /\ h \in DOMAIN named => HasSize(h, n)
    /\ \E r \in RPages :
          /\ ALLOC_HASH(h, n, r)
          /\ MapRegion(s, n, r, h, end)
          /\ Holding(Extent(s, n), [p \in Extent(s, n) |-> Blank])
    /\ UNCHANGED <<named, leaked>>

rum_alloc_hash(s, n, h) ==
    "rum_alloc_hash" \in Api /\ AllocatedHash(s, n, h, FirstAfter(s, n))

\* rum_alloc(size, hash, l)
rum_alloc_hash_at(s, n, h) ==
    "rum_alloc_hash_at" \in Api /\ AllocatedHash(s, n, h, LastAddress(s, n))

\* The same of a client that has no room for a mapping: the hash is allocated.
rum_alloc_hash_unmapped(n, h) ==
    /\ {"rum_alloc_hash", "rum_alloc_hash_at"} \cap Api # {}
    /\ ~Attached(h)
    /\ h \in DOMAIN named => HasSize(h, n)
    /\ \E r \in RPages : ALLOC_HASH(h, n, r)
    /\ named' = Insert(named, h, [k \in 0 .. n - 1 |-> Blank])
    /\ UNCHANGED <<clientVars, heap, leaked>>

\* rum_get(hash, l): GET replies with the pointer and the size of the hash,
\* whose memory should be as the last process left it.
LeftIn(h, k) == IF k \in DOMAIN named[h] THEN named[h][k] ELSE Blank

rum_get(s, h) ==
    /\ "rum_get" \in Api
    /\ ~Attached(h)
    /\ h \in DOMAIN named
    /\ h \in DOMAIN hash_map
    /\ hash_map[h] \in DOMAIN data_size_map
    /\ LET r == hash_map[h]
           n == data_size_map[r]
       IN  /\ MapRegion(s, n, r, h, LastAddress(s, n))
           /\ Holding(Extent(s, n), [p \in Extent(s, n) |-> LeftIn(h, p - s)])
    /\ UNCHANGED <<slaveVars, named, leaked>>

\* What both ways of freeing a region do here: its pages leave the cache and
\* the address space; dirty_map keeps its entries.
UnmapRegion(s) ==
    /\ history_' \in Purged(history_, Span(s))
    /\ prot' = [p \in Pages |-> IF p \in Span(s) THEN "unmapped" ELSE prot[p]]
    /\ mem' = [p \in Pages |-> IF p \in Span(s) THEN Filled(Zero) ELSE mem[p]]
    /\ addr_space_map' = Erase(addr_space_map, data_map[s].end)
    /\ data_map' = Erase(data_map, s)
    /\ Holding(Span(s), [p \in Span(s) |-> Blank])
    /\ UNCHANGED dirty_map

rum_free(s) ==
    /\ "rum_free" \in Api
    /\ data_map[s].hash = NoHash
    /\ DEALLOC(data_map[s].remote)
    /\ UnmapRegion(s)
    /\ UNCHANGED <<named, leaked>>

rum_free_hash(s) ==
    /\ "rum_free_hash" \in Api
    /\ data_map[s].hash # NoHash
    /\ DEALLOC_HASH(data_map[s].hash)
    /\ UnmapRegion(s)
    /\ named' = Erase(named, data_map[s].hash)
    /\ UNCHANGED leaked

\* rum_flush_cache: every resident page is unprotected and, if dirty, written
\* to the slave, in the order of the list; then the list is emptied, and the
\* pages stay as they are: "we do not turn protection back on".
FlushedButFirst ==          \* mutant: the oldest page is skipped
    {i \in DOMAIN history_ : i > 1 /\ IsDirty(dirty_map, history_[i])}
Flushed == {i \in DOMAIN history_ : IsDirty(dirty_map, history_[i])}
LastTo(r) == {i \in Flushed : /\ RemoteOf(history_[i]) = r
                             /\ \A j \in Flushed : RemoteOf(history_[j]) = r => j <= i}

Protected == "none"         \* mutant: a flush turns protection back on
AfterFlush == "rw"

FlushCache ==
    /\ slave_mem' = [r \in RPages |->
          IF LastTo(r) # {}
          THEN mem[history_[CHOOSE i \in LastTo(r) : TRUE]]
          ELSE slave_mem[r]]
    /\ dirty_map' = [p \in DOMAIN dirty_map |->
          IF p \in Blocks(history_) THEN 0 ELSE dirty_map[p]]
    /\ prot' = [p \in Pages |-> IF p \in Blocks(history_) THEN AfterFlush ELSE prot[p]]
    /\ history_' = <<>>
    /\ UNCHANGED <<mem, arena, data_size_map, hash_map>>

rum_flush_cache ==
    /\ "rum_flush_cache" \in Api
    /\ FlushCache
    /\ UNCHANGED <<data_map, addr_space_map, running, heap, named, leaked>>

\* rum_end(), which atexit() runs too: the last flush, after which the maps
\* are gone.  What it leaves behind are the hashes.
HashRegion(h) == CHOOSE s \in DOMAIN data_map : data_map[s].hash = h

Exit ==
    /\ FlushCache
    /\ data_map' = NoEntries
    /\ addr_space_map' = NoEntries
    /\ running' = FALSE
    /\ heap' = [p \in Pages |-> Blank]
    /\ named' = [h \in {g \in Hashes : Attached(g)} \cup DOMAIN named |->
          IF Attached(h)
          THEN LET s == HashRegion(h)
               IN  [k \in 0 .. data_map[s].len - 1 |-> heap[s + k]]
          ELSE named[h]]
    /\ UNCHANGED leaked

rum_end == "rum_end" \in Api /\ Exit

\* An access to memory the program does not have: the handler calls exit().
SegmentationFault(p, w) ==
    /\ p \in LivePages \/ "misaccess" \in Api
    /\ prot[p] # "rw"
    /\ DOMAIN addr_space_map # {}
    /\ ~Trappable(<<p, w>>)
    /\ Exit

\* rum_init() of the next process on this client.
rum_init ==
    /\ "rum_init" \in Api
    /\ ~running
    /\ running' = TRUE
    /\ dirty_map' = NoEntries
    /\ history_' = <<>>
    /\ prot' = [p \in Pages |-> "unmapped"]
    /\ mem' = [p \in Pages |-> Filled(Zero)]
    /\ reply' = <<>>
    /\ UNCHANGED <<data_map, addr_space_map, slaveVars, heap, named, leaked>>

Access(p, w) ==
    \/ Load(p, w)
    \/ \E v \in Values : Store(p, w, v)
    \/ SegmentationFault(p, w) /\ reply' = <<>>

Call ==
    \/ /\ \/ \E n \in 1..MaxLen :
                \/ rum_alloc_fails(n) \/ rum_alloc_unmapped(n) \/ rum_alloc_at_unmapped(n)
                \/ \E h \in Hashes : rum_alloc_hash_unmapped(n, h)
                \/ \E s \in Pages :
                      \/ rum_alloc(s, n)
                      \/ \E h \in Hashes :
                            rum_alloc_hash(s, n, h) \/ rum_alloc_hash_at(s, n, h)
          \/ \E s \in Pages, h \in Hashes : rum_get(s, h)
          \/ \E s \in DOMAIN data_map : rum_free(s) \/ rum_free_hash(s)
       /\ UNCHANGED running
    \/ rum_flush_cache
    \/ rum_end

Next ==
    \/ /\ running
       /\ \/ \E p \in Pages, w \in Words : Access(p, w)
          \/ Call /\ reply' = <<>>
    \/ rum_init

Spec == Init /\ [][Next]_vars

-----------------------------------------------------------------------------
(* Properties                                                              *)

Addresses == (Pages \cup {p + 1 : p \in Pages}) \X Words

RegionTypeOK ==
    /\ IsMap(data_map, Pages, [len : Nat \ {0}, remote : RPages,
                               hash : Hashes \cup {NoHash}, end : Addresses])
    /\ \A s \in DOMAIN data_map : Span(s) \subseteq Pages
    /\ IsMap(addr_space_map, Addresses, Pages)

ClientTypeOK ==
    /\ RegionTypeOK
    /\ IsMap(dirty_map, Pages, {0, 1})
    /\ history_ \in Seq(Pages)
    /\ prot \in [Pages -> {"unmapped", "none", "rw"}]
    /\ mem \in [Pages -> [Words -> Contents]]

ProgramTypeOK ==
    /\ running \in BOOLEAN
    /\ heap \in [Pages -> [Words -> Contents \cup {Undef}]]
    /\ DOMAIN named \subseteq Hashes
    /\ \A h \in DOMAIN named :
          IsMap(named[h], Nat, [Words -> Contents \cup {Undef}])
    /\ leaked \subseteq RPages
    /\ reply \in {<<>>} \cup (Pages \X Words \X Contents)

\* The state has the shape its declarations say, and every region lies within
\* the address space.
TypeOK == SlaveTypeOK /\ ClientTypeOK /\ ProgramTypeOK

\* The pages the program can touch without a trap are exactly the ones the
\* LRU list knows, each once, and never more than its limit: what is locked
\* into RAM stays bounded and nothing escapes write-back
\* (rum.cpp:1454-1460, 1511, 1566-1573).
CacheExact ==
    running =>
        /\ {p \in Pages : prot[p] = "rw"} = Blocks(history_)
        /\ NoDuplicates(history_)
        /\ Len(history_) <= size_limit_

\* A fault anywhere in a region, and the eviction of any of its pages, is
\* resolved by lower_bound() to that region and no other
\* (rum.cpp:1419-1440, 1515-1524).
FindsOwner ==
    \A s \in DOMAIN data_map : \A p \in Span(s), w \in Words :
        Trappable(<<p, w>>) /\ Base(<<p, w>>) = s

\* Wherever the next access to a word will find it - in RAM when its page is
\* unprotected, on the slave when it is not - is what the program last put
\* there (rum.cpp:1478-1574).
Coherent ==
    \A p \in LivePages, w \in Words : heap[p][w] # Undef =>
        heap[p][w] = IF prot[p] = "rw" THEN mem[p][w]
                     ELSE slave_mem[RemoteOf(p)][w]

\* Every block the slave lends is the backing store of one region of the
\* client, of the same size, or the memory of a hash, or one of those that a
\* failing rum_alloc(size, location) leaves, and the other way round: nothing
\* else is leaked, and no block is shared or given back while it is in use
\* (rum.cpp:606-684, 722-778, 1147-1163).
BlocksMatchRegions ==
    running =>
        LET backing == {data_map[s].remote : s \in DOMAIN data_map}
            hashed  == {hash_map[h] : h \in DOMAIN hash_map}
        IN  /\ DOMAIN arena = backing \cup hashed \cup leaked
            /\ leaked \cap (backing \cup hashed) = {}
            /\ \A s \in DOMAIN data_map : arena[data_map[s].remote] = data_map[s].len
            /\ \A s, t \in DOMAIN data_map : s # t =>
                  Span(s) \cap Span(t) = {} /\ data_map[s].remote # data_map[t].remote

\* Page k of a region's block is only ever overwritten with page k of that
\* region, except that a block may be cleared as it is lent: no write lands in
\* somebody else's memory (rum.cpp:1524, 1550).
OnlyOwnPagesWritten ==
    [][\A r \in RPages : slave_mem'[r] # slave_mem[r] =>
          \/ r \in InUse' \ InUse
          \/ \E s \in DOMAIN data_map : \E k \in 0 .. data_map[s].len - 1 :
                r = data_map[s].remote + k /\ slave_mem'[r] = mem[s + k]]_vars

\* Every word of the program is on the slave when the process ends
\* (README.md:13, rum.cpp:497-511).
EndIsDurable ==
    [][running /\ ~running' =>
          \A p \in LivePages, w \in Words : heap[p][w] # Undef =>
              slave_mem'[RemoteOf(p)][w] = heap[p][w]]_vars

\* The pages that can be touched without a trap are those an LRU cache would
\* hold, and a trap takes from the program only the page with the oldest fault
\* (rum.cpp:1454, 1511, 1573).
R == INSTANCE Recency WITH Limit <- size_limit_, newer <- NewerThan(history_),
        resident <- IF running THEN {p \in Pages : prot[p] = "rw"} ELSE {}
IsRecency == R!Spec

\* The program sees plain memory: each load returns what the last store put
\* there, and allocations do not disturb one another.
Flat == INSTANCE FlatMemory WITH Values <- Values, live <- LivePages
IsFlatMemory == Flat!Spec

-----------------------------------------------------------------------------
(* What rum.h and README.md say and the code does not do                   *)

\* "should free all memory so far" (rum.cpp:740, 751): an allocation that fails
\* leaves nothing on the slave.
NothingLeaks == leaked = {}

\* rum_calloc "initializes all its bits to zero": a word nothing was stored in
\* since reads as zero (rum.h:68, rum.cpp:981-993).
CallocReadsZero ==
    [][\A p \in Pages, w \in Words :
          Load(p, w) /\ heap[p][w] = Zero => reply'[3] = Zero]_vars

\* rum_flush_cache flushes "any locally stored data to the slaves"
\* (rum.h:131, rum.cpp:436-495).
FlushReachesSlave ==
    [][rum_flush_cache =>
          \A p \in LivePages, w \in Words : heap[p][w] # Undef =>
              slave_mem'[RemoteOf(p)][w] = heap[p][w]]_vars

=============================================================================
