----------------------------- MODULE SlaveStore -----------------------------
(***************************************************************************)
(* The memory a slave node lends out (rum_slave/hpc_slave.cpp): its heap,  *)
(* page by page, and the maps in which l2fwd_simple_forward() records what *)
(* it allocated.  One operator per packet type; each stands for the whole  *)
(* case of that packet, which the slave runs to its end before it looks at *)
(* the next packet.                                                        *)
(***************************************************************************)
EXTENDS Naturals, StdMap

CONSTANTS
    RPages,     \* the pages of the slave's heap
    Words,      \* the words of a page
    Contents,   \* what a word can hold
    Zero,       \* the word bzero() leaves
    Junk,       \* what malloc()ed memory holds before anything is put there
    Hashes      \* the names of hashed memory

ASSUME StoreAssumption ==
    /\ RPages \subseteq Nat \ {0}
    /\ Zero \in Contents /\ Junk \in Contents

VARIABLES
    slave_mem,      \* the content of the heap
    arena,          \* malloc's own record: start of a block -> its pages
    data_size_map,  \* data_size_map: pointer -> pages
    hash_map        \* the slave's data_map: hash -> pointer

slaveVars == <<slave_mem, arena, data_size_map, hash_map>>

NULL == 0
Filled(v) == [w \in Words |-> v]

\* The shape of the slave's state.  A block that malloc() did not find is
\* recorded too, under NULL.
SlaveTypeOK ==
    /\ slave_mem \in [RPages -> [Words -> Contents]]
    /\ IsMap(arena, RPages, Nat \ {0})
    /\ IsMap(data_size_map, RPages \cup {NULL}, Nat \ {0})
    /\ IsMap(hash_map, Hashes, RPages)

SlaveInit ==
    /\ slave_mem = [r \in RPages |-> Filled(Junk)]
    /\ arena = NoEntries
    /\ data_size_map = NoEntries
    /\ hash_map = NoEntries

\* The n pages from r on.
Extent(r, n) == r .. (r + n - 1)

InUse == UNION {Extent(r, arena[r]) : r \in DOMAIN arena}

\* The pointers malloc() may return for n pages; none means it returns NULL.
Malloc(n) == {r \in RPages : Extent(r, n) \subseteq RPages \ InUse}

\* ALLOC: the block is recorded, whether or not malloc found one, and its
\* pointer is the reply.
ALLOC(n, r) ==
    /\ IF Malloc(n) = {} THEN r = NULL ELSE r \in Malloc(n)
    /\ arena' = IF r = NULL THEN arena ELSE Assign(arena, r, n)
    /\ data_size_map' = Insert(data_size_map, r, n)
    /\ UNCHANGED <<slave_mem, hash_map>>

DEALLOC_Unfreed(r) ==       \* mutant: forgotten, but not freed
    /\ data_size_map' = Erase(data_size_map, r)
    /\ UNCHANGED <<slave_mem, arena, hash_map>>

\* DEALLOC: the pointer of an unknown block is ignored.
DEALLOC(r) ==
    /\ IF r \in DOMAIN data_size_map
       THEN /\ arena' = Erase(arena, r)
            /\ data_size_map' = Erase(data_size_map, r)
       ELSE UNCHANGED <<arena, data_size_map>>
    /\ UNCHANGED <<slave_mem, hash_map>>

\* A hash that is known and of the size asked for: its block is the reply.
Reusable(h, n) ==
    /\ h \in DOMAIN hash_map
    /\ hash_map[h] \in DOMAIN data_size_map
    /\ data_size_map[hash_map[h]] = n

\* ALLOC_HASH.  A known hash of another size has its block freed, but neither
\* its size forgotten nor, insert() being what it is, its pointer replaced.
\* (bzero() of a failed malloc ends the slave: the step is then not taken.)
ALLOC_HASH(h, n, r) ==
    IF Reusable(h, n)
    THEN r = hash_map[h] /\ UNCHANGED slaveVars
    ELSE LET freed == IF h \in DOMAIN hash_map
                      THEN Erase(arena, hash_map[h]) ELSE arena
             used  == UNION {Extent(b, freed[b]) : b \in DOMAIN freed}
         IN  /\ r \in RPages
             /\ Extent(r, n) \subseteq RPages \ used
             /\ arena' = Assign(freed, r, n)
             /\ slave_mem' = [f \in RPages |->
                   IF f \in Extent(r, n) THEN Filled(Zero) ELSE slave_mem[f]]
             /\ hash_map' = Insert(hash_map, h, r)
             /\ data_size_map' = Insert(data_size_map, r, n)

DEALLOC_HASH_Named(h) ==    \* mutant: the hash keeps its entry in data_map
    IF h \in DOMAIN hash_map
    THEN /\ data_size_map' = Erase(data_size_map, hash_map[h])
         /\ arena' = Erase(arena, hash_map[h])
         /\ UNCHANGED <<slave_mem, hash_map>>
    ELSE UNCHANGED slaveVars

\* DEALLOC_HASH
DEALLOC_HASH(h) ==
    IF h \in DOMAIN hash_map
    THEN /\ data_size_map' = Erase(data_size_map, hash_map[h])
         /\ arena' = Erase(arena, hash_map[h])
         /\ hash_map' = Erase(hash_map, h)
         /\ UNCHANGED slave_mem
    ELSE UNCHANGED slaveVars

\* READ: the page at r, whoever it belongs to.  Beyond the heap modelled
\* there is nothing a client could count on.
READ(r) == IF r \in RPages THEN slave_mem[r] ELSE Filled(Junk)

\* WRITE: "we assume that we do not get bad data values, so no checking".
WRITE(m, r, page) == IF r \in RPages THEN [m EXCEPT ![r] = page] ELSE m

=============================================================================
