-------------------------------- MODULE KVS --------------------------------
(* The key value store (app/kvs/KVS.cpp, and the same in app/s3cmd): a       *)
(* process keeps each value in hashed memory, under its key, at the slave    *)
(* that follows the key on the ring.  The slaves know their names and their  *)
(* heaps; a process has the pointers it got and the pages it wrote, which    *)
(* the slaves only see when it ends.                                         *)
EXTENDS HashRing, Sequences

CONSTANTS
    Processes,
    Keys,           \* the keys: numbers, as the ring compares them with its nodes
    Machines,       \* the slaves
    MachineFiles,   \* the sets of machines a process may find in the servers' file
    Place,          \* the hash of a machine, its place on the ring
    Blocks,         \* bound: the blocks each slave has, by address
    NoBlock, Zero, Gone     \* NULL, a block full of zeros, a freed block

ASSUME KVSAssumption ==
    /\ Blocks \in [Machines -> SUBSET Nat]
    /\ \A m1, m2 \in Machines : m1 # m2 => Blocks[m1] \cap Blocks[m2] = {}
    /\ MachineFiles \subseteq (SUBSET Machines) \ {{}}
    /\ Keys \subseteq Nat /\ Place \in [Machines -> Nat]

VARIABLES
    hash_map,   \* slave -> key -> block: the slave's data_map
    heap,       \* block -> its data, and its pages in the slave's data_size_map
    rings,      \* process -> its node_ring
    known,      \* process -> key -> the block behind user_key_to_ptr
    dirty       \* process -> its dirty blocks and their data, oldest first

slaves == <<hash_map, heap>>
kvsVars == <<slaves, rings, known, dirty>>

AllBlocks == UNION {Blocks[m] : m \in Machines}

NothingKnown == [k \in Keys |-> NoBlock]
Freed == [pages |-> 0, data |-> Gone]

KVSInit ==
    /\ hash_map = [m \in Machines |-> NothingKnown]
    /\ heap = [b \in AllBlocks |-> Freed]
    /\ rings \in [Processes -> {RingOf(f, Place) : f \in MachineFiles}]
    /\ known = [p \in Processes |-> NothingKnown]
    /\ dirty = [p \in Processes |-> <<>>]

-----------------------------------------------------------------------------
(* The packets, as a slave handles them.                                    *)

\* ALLOC_HASH of a name that is there with as many pages hands out the same block
\* again, as it is.  With another number of pages the block is freed, but insert()
\* replaces nothing: the name stays with it, and so do its pages.
ALLOC_HASH(m, k, pages, r) ==
    LET old == hash_map[m][k]
        fresh(b) == [pages |-> IF heap[b].pages = 0 THEN pages ELSE heap[b].pages, data |-> Zero]
    IN  IF old # NoBlock /\ heap[old].pages = pages
        THEN r = old /\ UNCHANGED slaves
        ELSE /\ r = Min({b \in Blocks[m] : heap[b].data = Gone})
             /\ IF old = NoBlock
                THEN /\ hash_map' = [hash_map EXCEPT ![m][k] = r]
                     /\ heap' = [heap EXCEPT ![r] = fresh(r)]
                ELSE /\ heap' = [heap EXCEPT ![old].data = Gone, ![r] = fresh(r)]
                     /\ UNCHANGED hash_map

DEALLOC_HASH(m, k) ==
    IF hash_map[m][k] = NoBlock THEN UNCHANGED slaves
    ELSE /\ heap' = [heap EXCEPT ![hash_map[m][k]] = Freed]
         /\ hash_map' = [hash_map EXCEPT ![m][k] = NoBlock]

\* A page is written back, to wherever its block was.
WRITE(b, v) ==
    /\ heap' = IF heap[b].data = Gone THEN heap ELSE [heap EXCEPT ![b].data = v]
    /\ UNCHANGED hash_map

-----------------------------------------------------------------------------
(* The calls of process p.  The data of a block is what p wrote to it, or    *)
(* what the slave has.                                                       *)

node(p, k) == get_next_node_by_key(rings[p], k)

Read(p, b) ==
    LET mine == SelectSeq(dirty[p], LAMBDA d : d[1] = b)
    IN  IF mine = <<>> THEN heap[b].data ELSE mine[Len(mine)][2]

Found(p, k) == known[p][k] # NoBlock \/ hash_map[node(p, k)][k] # NoBlock

\* The block of a key that is Found, and its value, which get() returns.
ptr(p, k) == IF known[p][k] # NoBlock THEN known[p][k] ELSE hash_map[node(p, k)][k]

Value(p, k) == Read(p, ptr(p, k))

get(p, k) ==
    /\ known' = [known EXCEPT ![p][k] = ptr(p, k)]
    /\ UNCHANGED <<slaves, rings, dirty>>

\* The first half of add(), for a key that is known, and remove(): rum_free()
\* drops the pages the process has of the block.
rum_free(p, k) ==
    /\ DEALLOC_HASH(node(p, k), k)
    /\ dirty' = [dirty EXCEPT ![p] = SelectSeq(@, LAMBDA d : d[1] # known[p][k])]
    /\ known' = [known EXCEPT ![p][k] = NoBlock]
    /\ UNCHANGED rings

\* The second half of add().  insert() keeps the old pointer of a known key: the
\* new block is taken to be mapped where the old one was.
rum_alloc(p, k, v, pages) ==
    \E r \in AllBlocks :
        /\ ALLOC_HASH(node(p, k), k, pages, r)
        /\ known' = [known EXCEPT ![p][k] = r]
        /\ dirty' = [dirty EXCEPT ![p] = Append(@, <<r, v>>)]
        /\ UNCHANGED rings

\* One page of rum_flush_cache(), as the process ends.
flush(p) ==
    /\ dirty[p] # <<>>
    /\ WRITE(Head(dirty[p])[1], Head(dirty[p])[2])
    /\ dirty' = [dirty EXCEPT ![p] = Tail(@)]
    /\ UNCHANGED <<rings, known>>

\* A new process, with what it finds in the servers' file.
Exec(p, found) ==
    /\ rings' = [rings EXCEPT ![p] = RingOf(found, Place)]
    /\ known' = [known EXCEPT ![p] = NothingKnown]
    /\ dirty' = [dirty EXCEPT ![p] = <<>>]
    /\ UNCHANGED slaves

=============================================================================
