--------------------------- MODULE SlaveTheorems ---------------------------
(***************************************************************************)
(* Proofs about Slave, for every heap, any clients and hashes, every size  *)
(* of allocation, and whatever the environment does: stops and crashes of  *)
(* the slave, programs that outlive them, signals in the middle of a       *)
(* packet, silence.  The books are right up to the first breach, the step  *)
(* with which a block is freed that was not the sender's to free, or which *)
(* is handled beside the callback; and where programs keep to the rules of *)
(* Tame there is none.                                                     *)
(***************************************************************************)
EXTENDS Slave, FiniteSetTheorems, WellFoundedInduction, TLAPS

-----------------------------------------------------------------------------
(* The maps                                                                *)

\* insert() keeps the keys in K and the values in V.
LEMMA InsertIsMap ==
    ASSUME NEW K, NEW V, NEW m, IsMap(m, K, V), NEW k \in K, NEW v \in V
    PROVE  IsMap(Insert(m, k, v), K, V)
BY DEF IsMap, Insert

\* So does operator[].
LEMMA AssignIsMap ==
    ASSUME NEW K, NEW V, NEW m, IsMap(m, K, V), NEW k \in K, NEW v \in V
    PROVE  IsMap(Assign(m, k, v), K, V)
BY DEF IsMap, Assign

\* So does erase().
LEMMA EraseIsMap ==
    ASSUME NEW K, NEW V, NEW m, IsMap(m, K, V), NEW k
    PROVE  IsMap(Erase(m, k), K, V)
BY DEF IsMap, Erase

\* The empty map has keys and values of any type.
LEMMA NoEntriesIsMap ==
    ASSUME NEW K, NEW V
    PROVE  IsMap(NoEntries, K, V)
BY DEF IsMap, NoEntries

\* A block begins with its first page.
LEMMA StartInExtent ==
    ASSUME NEW r \in Nat, NEW n \in Nat \ {0}
    PROVE  r \in Extent(r, n)
BY DEF Extent

LEMMA NullIsNoPage == NULL \notin RPages /\ RPages \subseteq Nat
BY StoreAssumption DEF NULL

-----------------------------------------------------------------------------
(* The invariant                                                           *)

\* Somebody has each block, or has lost it.
Owned == DOMAIN lent = DOMAIN arena

\* What the callback has freed, but not yet taken from the books.
Unforgotten == IF cb.stage = "freed" THEN {cb.addr} \ {NULL} ELSE {}

\* The books list the blocks that restore() has not lost, with their sizes,
\* and what the callback is about to forget.
Recorded ==
    /\ \A r \in RPages : r \in DOMAIN data_size_map <=>
          \/ r \in DOMAIN arena /\ lent[r] # Lost
          \/ r \in Unforgotten
    /\ \A r \in DOMAIN data_size_map \cap DOMAIN arena : data_size_map[r] = arena[r]
    /\ Unforgotten \cap DOMAIN arena = {}

\* A hash has a block of its own.
HashesBacked ==
    /\ \A h \in DOMAIN hash_map \cap Hashes :
          /\ hash_map[h] \in DOMAIN arena
          /\ lent[hash_map[h]] = Hashed
    /\ \A h, g \in DOMAIN hash_map \cap Hashes : hash_map[h] = hash_map[g] => h = g

\* No file is for a hash by the hash's own name, and each has a size.
FilesNamed(files) ==
    /\ DOMAIN files \cap Hashes = {}
    /\ \A f \in DOMAIN files : files[f] \in Nat \ {0}

\* What restore() leaves under the name of a file is no block.
FilesSound ==
    /\ \A f \in DOMAIN hash_map \ Hashes : hash_map[f] = NULL
    /\ FilesNamed(disk)

\* The addresses the callback has yet to free.
ToClear == cb.todo \cup IF cb.stage = "found" THEN {cb.addr} ELSE {}

\* The callback runs for a client that is silent.
Walking ==
    /\ cb.stage = "idle" => cb = Idle
    /\ cb.stage # "idle" => cb.uuid \in Clients
    /\ cb.valid
    /\ cb.uuid \notin live
    /\ cb.stage = "found" => cb.addr \in DOMAIN data_size_map
    /\ cb.addr \notin cb.todo \/ cb.addr = NULL
    /\ "silence" \notin Ops => watched \subseteq live /\ cb.stage = "idle"

\* Only a client with a process is lent memory.
Leases == \A r \in DOMAIN lent, c \in Clients : lent[r] = LentTo(c) => c \in live

Books == Owned /\ Recorded /\ HashesBacked /\ FilesSound
Sound == TypeOK /\ NoDoubleFree /\ Books /\ Walking /\ Leases

-----------------------------------------------------------------------------
(* Numbers, owners and the callback at rest                                *)

LEMMA Least ==
    ASSUME NEW V \in SUBSET Nat, V # {}
    PROVE  \E u \in V : \A v \in V : u <= v
<1> DEFINE R == OpToRel(<, Nat)
<1>1. IsWellFoundedOn(R, Nat)
  BY NatLessThanWellFounded
<1>2. R = {ss \in Nat \X Nat : ss[1] < ss[2]}
  BY DEF OpToRel
<1> HIDE DEF R
<1>3. \A m, n \in Nat : m < n => <<m, n>> \in R
  BY <1>2
<1>4. \E x \in V : \A y \in V : ~ (<<y, x>> \in R)
  <2>1. PICK S : S = Nat
    OBVIOUS
  <2>2. IsWellFoundedOn(R, S) /\ V \subseteq S
    BY <1>1, <2>1
  <2> HIDE <2>1
  <2> QED  BY <2>2, WFMin
<1>5. PICK u \in V : \A v \in V : <<v, u>> \notin R
  BY <1>4
<1>6. ASSUME NEW v \in V
      PROVE  u <= v
  <2>1. v \in Nat /\ u \in Nat /\ ~(v < u)
    BY <1>3, <1>5
  <2> QED  BY <2>1
<1> QED  BY <1>6

LEMMA Greatest ==
    ASSUME NEW top \in Nat, NEW T \in SUBSET (0 .. top), T # {}
    PROVE  \E x \in T : \A y \in T : y <= x
<1> DEFINE U == {top - x : x \in T}
<1>2. U \subseteq Nat /\ U # {}
  <2>1. PICK y \in T : TRUE
    OBVIOUS
  <2>2. top - y \in U
    OBVIOUS
  <2>3. \A x \in T : top - x \in Nat
    OBVIOUS
  <2>4. U \subseteq Nat
    BY <2>3
  <2> QED  BY <2>2, <2>4
<1>3. PICK u \in U : \A v \in U : u <= v
  BY <1>2, Least
<1>5. PICK x \in T : u = top - x
  OBVIOUS
<1>6. ASSUME NEW y \in T
      PROVE  y <= x
  <2>1. u <= top - y
    BY <1>3
  <2> QED  BY <1>5, <2>1
<1> QED  BY <1>6

Holders == {Hashed, Lost} \cup {LentTo(c) : c \in Clients} \cup {LeftBy(c) : c \in Clients}

LEMMA HoldersDiffer ==
    /\ Hashed # Lost
    /\ \A c, d : /\ LentTo(c) # LeftBy(d)
                 /\ LentTo(c) # Hashed /\ LentTo(c) # Lost
                 /\ LeftBy(c) # Hashed /\ LeftBy(c) # Lost
                 /\ LentTo(c) = LentTo(d) => c = d
                 /\ LeftBy(c) = LeftBy(d) => c = d
BY DEF LentTo, LeftBy, Hashed, Lost

LEMMA AtRest ==
    ASSUME Walking, cb.stage = "idle"
    PROVE  /\ cb = Idle /\ cb.uuid = NoClient /\ cb.uuid \notin Clients
           /\ ToClear = {} /\ Unforgotten = {}
BY SlaveAssumption DEF Walking, Idle, ToClear, Unforgotten

LEMMA Lengths == 1..MaxLen \subseteq Nat \ {0} /\ HashLen \in Nat \ {0}
BY SlaveAssumption

-----------------------------------------------------------------------------
(* What a backup writes                                                    *)

\* The addresses a slave can write down are numbers, and finitely many.
LEMMA AddrsBounded ==
    \E top \in Nat : Addrs \subseteq 0 .. top /\ IsFiniteSet(Addrs)
<1>1. PICK top \in RPages : \A r \in RPages : r <= top
  BY HeapAssumption
<1>2. top \in Nat /\ Addrs \subseteq 0 .. top
  BY <1>1, NullIsNoPage DEF Addrs, NULL
<1>3. IsFiniteSet(0 .. top)
  BY <1>2, FS_Interval
<1>4. IsFiniteSet(Addrs)
  BY <1>2, <1>3, FS_Subset
<1> QED  BY <1>2, <1>4

\* No file has the name of a hash.
LEMMA FilesAreNoHashes ==
    ASSUME NEW sizes, IsMap(sizes, Addrs, Nat \ {0}), NEW hashes, NEW r
    PROVE  NameOf(sizes, hashes, r) \notin Hashes
<1> DEFINE names == {h \in DOMAIN hashes : hashes[h] = r}
           below == {q \in DOMAIN sizes : q <= r}
           some  == CHOOSE h \in names : TRUE
<1>1. CASE names # {}
  <2>1. some \in names
    BY <1>1
  <2>2. NameOf(sizes, hashes, r) = FileOf(some)
    BY <1>1 DEF NameOf
  <2> HIDE DEF some, names
  <2>3. FileOf(some) \notin Hashes
    BY FilesAssumption DEF FileOf
  <2> QED  BY <2>2, <2>3
<1>2. CASE names = {}
  <2>1. below \subseteq Addrs
    BY DEF IsMap
  <2>2. NameOf(sizes, hashes, r) = <<"unknown_", Cardinality(below)>>
    BY <1>2 DEF NameOf
  <2> HIDE DEF below
  <2>3. Cardinality(below) \in 0 .. Cardinality(Addrs)
    <3>1. IsFiniteSet(Addrs) /\ Cardinality(Addrs) \in Nat
      BY AddrsBounded, FS_CardinalityType
    <3>2. IsFiniteSet(below) /\ Cardinality(below) <= Cardinality(Addrs)
      BY <2>1, <3>1, FS_Subset
    <3> QED  BY <3>1, <3>2, FS_CardinalityType
  <2> QED  BY <2>2, <2>3, FilesAssumption
<1> QED  BY <1>1, <1>2

\* The block that a file holds in the end.
LEMMA WrittenLast ==
    ASSUME NEW sizes, IsMap(sizes, Addrs, Nat \ {0}), NEW hashes, NEW r \in DOMAIN sizes
    PROVE  LET f == NameOf(sizes, hashes, r)
               w == Written(sizes, hashes, f)
           IN  /\ w \in DOMAIN sizes /\ NameOf(sizes, hashes, w) = f
               /\ \A q \in DOMAIN sizes : NameOf(sizes, hashes, q) = f => q <= w
<1> DEFINE f == NameOf(sizes, hashes, r)
           T == {q \in DOMAIN sizes : NameOf(sizes, hashes, q) = f}
<1>1. PICK top \in Nat : Addrs \subseteq 0 .. top
  BY AddrsBounded
<1>2. T \in SUBSET (0 .. top) /\ T # {}
  BY <1>1 DEF IsMap
<1>3. PICK x \in T : \A y \in T : y <= x
  <2> HIDE DEF T
  <2> QED  BY <1>2, Greatest
<1>4. /\ x \in DOMAIN sizes
      /\ NameOf(sizes, hashes, x) = f
      /\ \A q \in DOMAIN sizes : NameOf(sizes, hashes, q) = f => q <= x
  BY <1>3
<1> QED  BY <1>4 DEF Written

LEMMA SavedNamed ==
    ASSUME NEW sizes, IsMap(sizes, Addrs, Nat \ {0}), NEW hashes, FilesNamed(disk)
    PROVE  FilesNamed(Saved(sizes, hashes))
<1> DEFINE files == {NameOf(sizes, hashes, r) : r \in DOMAIN sizes}
<1>1. Saved(sizes, hashes) =
          [f \in DOMAIN disk \cup files |->
              IF f \in files THEN sizes[Written(sizes, hashes, f)] ELSE disk[f]]
  BY DEF Saved
<1>2. files \cap Hashes = {}
  BY FilesAreNoHashes
<1>3. \A f \in files : sizes[Written(sizes, hashes, f)] \in Nat \ {0}
  BY WrittenLast DEF IsMap
<1> HIDE DEF files
<1> QED  BY <1>1, <1>2, <1>3 DEF FilesNamed

\* So it is whether or not the signal comes.
LEMMA MidwayNamed ==
    ASSUME NEW sizes, IsMap(sizes, Addrs, Nat \ {0}), NEW hashes, FilesNamed(disk),
           Midway(sizes, hashes), up # "aborted"
    PROVE  FilesNamed(disk') /\ up' # "aborted" /\ (up \in {"up", "quitting", "aborted"} =>
                                                    up' \in {"up", "quitting"})
<1>1. CASE UNCHANGED processVars
  BY <1>1 DEF processVars
<1>2. CASE Signal(sizes, hashes)
  BY <1>2, SavedNamed DEF Signal
<1> QED  BY <1>1, <1>2 DEF Midway

-----------------------------------------------------------------------------
(* Blocks come and go                                                      *)

\* A block of free pages is not yet one.
LEMMA FreePages ==
    ASSUME IsMap(arena, RPages, Nat \ {0}), NEW r \in RPages, NEW n \in Nat \ {0},
           Extent(r, n) \subseteq RPages \ InUse
    PROVE  r \notin DOMAIN arena
<1> SUFFICES ASSUME r \in DOMAIN arena PROVE FALSE
  OBVIOUS
<1>1. r \in Extent(r, n) /\ r \in Extent(r, arena[r])
  BY StartInExtent, NullIsNoPage DEF IsMap
<1> QED  BY <1>1 DEF InUse

\* A new block, recorded and given to somebody.
LEMMA NewBlock ==
    ASSUME TypeOK, Owned, Recorded, cb.stage = "idle", cb' = cb,
           NEW r \in RPages, r \notin DOMAIN arena,
           NEW n \in Nat \ {0}, NEW o \in Holders, o # Lost,
           arena' = Assign(arena, r, n), data_size_map' = Insert(data_size_map, r, n),
           lent' = Assign(lent, r, o)
    PROVE  /\ Owned' /\ Recorded'
           /\ IsMap(arena', RPages, Nat \ {0}) /\ IsMap(data_size_map', Addrs, Nat \ {0})
           /\ IsMap(lent', RPages, Holders)
           /\ r \notin DOMAIN lent /\ r \notin DOMAIN data_size_map
           /\ DOMAIN arena' = DOMAIN arena \cup {r} /\ arena'[r] = n
           /\ DOMAIN lent' = DOMAIN arena' /\ lent'[r] = o
           /\ \A b \in DOMAIN arena : arena'[b] = arena[b] /\ lent'[b] = lent[b]
<1>1. r \notin DOMAIN lent
  BY DEF Owned
<1>2. r \notin DOMAIN data_size_map /\ Unforgotten = {} /\ Unforgotten' = {}
  BY <1>1 DEF Recorded, Unforgotten
<1>3. /\ DOMAIN arena' = DOMAIN arena \cup {r} /\ arena'[r] = n
      /\ \A b \in DOMAIN arena : arena'[b] = arena[b]
  BY DEF Assign
<1>4. /\ DOMAIN lent' = DOMAIN arena' /\ lent'[r] = o
      /\ \A b \in DOMAIN arena : lent'[b] = lent[b]
  BY <1>3 DEF Assign, Owned
<1>5. /\ DOMAIN data_size_map' = DOMAIN data_size_map \cup {r} /\ data_size_map'[r] = n
      /\ \A b \in DOMAIN data_size_map : data_size_map'[b] = data_size_map[b]
  BY <1>2 DEF Insert
<1>6. Recorded'
  <2>1. ASSUME NEW b \in RPages
        PROVE  b \in DOMAIN data_size_map' <=> b \in DOMAIN arena' /\ lent'[b] # Lost
    BY <1>2, <1>3, <1>4, <1>5 DEF Recorded
  <2>2. \A b \in DOMAIN data_size_map' \cap DOMAIN arena' : data_size_map'[b] = arena'[b]
    BY <1>2, <1>3, <1>5 DEF Recorded
  <2> QED  BY <1>2, <2>1, <2>2 DEF Recorded
<1>7. IsMap(arena', RPages, Nat \ {0}) /\ IsMap(lent', RPages, Holders)
  <2>1. IsMap(lent, RPages, Holders) /\ IsMap(arena, RPages, Nat \ {0})
    BY DEF TypeOK, Holders
  <2> QED  BY <2>1, AssignIsMap
<1>8. IsMap(data_size_map', Addrs, Nat \ {0})
  <2>1. IsMap(data_size_map, Addrs, Nat \ {0}) /\ r \in Addrs
    BY DEF TypeOK, Addrs
  <2> QED  BY <2>1, InsertIsMap
<1> QED  BY <1>1, <1>2, <1>3, <1>4, <1>6, <1>7, <1>8 DEF Owned

\* A block that is freed, and taken from the books.
LEMMA BlockGone ==
    ASSUME TypeOK, Owned, Recorded, cb.stage = "idle", cb' = cb,
           NEW r \in DOMAIN arena,
           arena' = Erase(arena, r), data_size_map' = Erase(data_size_map, r),
           lent' = Erase(lent, r)
    PROVE  /\ Owned' /\ Recorded'
           /\ IsMap(arena', RPages, Nat \ {0}) /\ IsMap(data_size_map', Addrs, Nat \ {0})
           /\ IsMap(lent', RPages, Holders)
           /\ DOMAIN arena' = DOMAIN arena \ {r} /\ DOMAIN lent' = DOMAIN arena'
           /\ \A b \in DOMAIN arena' : arena'[b] = arena[b] /\ lent'[b] = lent[b]
<1>1. Unforgotten = {} /\ Unforgotten' = {}
  BY DEF Unforgotten
<1>2. /\ DOMAIN arena' = DOMAIN arena \ {r} /\ DOMAIN lent' = DOMAIN arena'
      /\ \A b \in DOMAIN arena' : arena'[b] = arena[b] /\ lent'[b] = lent[b]
  BY DEF Erase, Owned
<1>3. /\ DOMAIN data_size_map' = DOMAIN data_size_map \ {r}
      /\ \A b \in DOMAIN data_size_map' : data_size_map'[b] = data_size_map[b]
  BY DEF Erase
<1>4. Recorded'
  BY <1>1, <1>2, <1>3 DEF Recorded
<1>5. /\ IsMap(arena', RPages, Nat \ {0}) /\ IsMap(data_size_map', Addrs, Nat \ {0})
      /\ IsMap(lent', RPages, Holders)
  BY EraseIsMap DEF TypeOK, Holders
<1> QED  BY <1>2, <1>4, <1>5 DEF Owned

-----------------------------------------------------------------------------
(* Packets                                                                 *)

LEMMA AllocKeeps ==
    ASSUME Sound, ~breach', NEW c \in Clients, NEW n \in 1..MaxLen, NEW r \in Addrs,
           Alloc(c, n, r)
    PROVE  Sound'
<1>1. cb.stage = "idle" /\ up # "aborted"
  BY DEF Alloc, Receives, Breaches, Beside
<1>2. /\ c \in live /\ n \in Nat \ {0}
      /\ data_size_map' = Insert(data_size_map, r, n)
      /\ arena' = IF r = NULL THEN arena ELSE Assign(arena, r, n)
      /\ lent' = IF r = NULL THEN lent ELSE Assign(lent, r, LentTo(c))
      /\ uuid_memory_map' = Assign(uuid_memory_map, c,
           {r} \cup IF c \in DOMAIN uuid_memory_map THEN uuid_memory_map[c] ELSE {})
      /\ held' = [held EXCEPT ![c] = @ \cup ({r} \ {NULL})]
      /\ UNCHANGED <<hash_map, cb, watched, live, up, disk>>
  BY Lengths DEF Alloc, ALLOC, processVars
<1>3. cb = Idle /\ cb.uuid = NoClient /\ ToClear = {} /\ Unforgotten = {}
      /\ ToClear' = {}
  BY <1>1, <1>2, AtRest DEF Sound, ToClear
<1>4. LentTo(c) \in Holders /\ LentTo(c) # Lost /\ LentTo(c) # Hashed
  BY HoldersDiffer DEF Holders
<1>5. /\ Owned' /\ Recorded'
      /\ IsMap(arena', RPages, Nat \ {0}) /\ IsMap(data_size_map', Addrs, Nat \ {0})
      /\ IsMap(lent', RPages, Holders)
      /\ DOMAIN arena' = DOMAIN arena \cup ({r} \ {NULL})
      /\ DOMAIN lent' = DOMAIN arena' /\ DOMAIN lent = DOMAIN arena
      /\ r # NULL => lent'[r] = LentTo(c) /\ r \notin DOMAIN arena
      /\ \A b \in DOMAIN arena : arena'[b] = arena[b] /\ lent'[b] = lent[b]
  <2>1. CASE r = NULL
    <3>1. arena' = arena /\ lent' = lent /\ Unforgotten' = Unforgotten
      BY <1>2, <2>1 DEF Unforgotten
    <3>2. NULL \notin RPages /\ NULL \in Addrs
      BY NullIsNoPage DEF Addrs
    <3>3. IsMap(data_size_map', Addrs, Nat \ {0})
      BY <1>2, <2>1, <3>2, InsertIsMap DEF Sound, TypeOK
    <3>4. DOMAIN arena \subseteq RPages
      BY DEF Sound, TypeOK, IsMap
    <3>5. Recorded'
      <4>1. \A b \in RPages : b \in DOMAIN data_size_map' <=> b \in DOMAIN data_size_map
        BY <1>2, <2>1, <3>2 DEF Insert
      <4>2. \A b \in DOMAIN data_size_map' \cap DOMAIN arena' :
                data_size_map'[b] = data_size_map[b] /\ b \in DOMAIN data_size_map
        BY <1>2, <2>1, <3>1, <3>2, <3>4 DEF Insert
      <4> QED  BY <3>1, <4>1, <4>2 DEF Sound, Books, Recorded
    <3> QED  BY <2>1, <3>1, <3>3, <3>4, <3>5 DEF Sound, Books, Owned, TypeOK, Holders
  <2>2. CASE r # NULL
    <3>1. r \in RPages /\ Extent(r, n) \subseteq RPages \ InUse
      BY <2>2 DEF Alloc, ALLOC, Malloc
    <3>2. r \notin DOMAIN arena
      BY <1>2, <3>1, FreePages DEF Sound, TypeOK
    <3>3. arena' = Assign(arena, r, n) /\ lent' = Assign(lent, r, LentTo(c))
      BY <1>2, <2>2
    <3> QED  BY <1>1, <1>2, <1>4, <2>2, <3>1, <3>2, <3>3, NewBlock DEF Sound, Books, Owned
  <2> QED  BY <2>1, <2>2
<1>6. /\ DOMAIN uuid_memory_map' = DOMAIN uuid_memory_map \cup {c}
      /\ \A d \in DOMAIN uuid_memory_map \ {c} : uuid_memory_map'[d] = uuid_memory_map[d]
      /\ uuid_memory_map'[c] = {r} \cup IF c \in DOMAIN uuid_memory_map
                                        THEN uuid_memory_map[c] ELSE {}
  BY <1>2 DEF Assign
<1>7. TypeOK'
  <2>1. IsMap(uuid_memory_map, Clients, SUBSET Addrs)
    BY DEF Sound, TypeOK
  <2>2. {r} \cup (IF c \in DOMAIN uuid_memory_map THEN uuid_memory_map[c] ELSE {})
            \in SUBSET Addrs
    BY <2>1 DEF IsMap
  <2>3. IsMap(uuid_memory_map', Clients, SUBSET Addrs)
    BY <1>2, <2>1, <2>2, AssignIsMap
  <2>4. held' \in [Clients -> SUBSET RPages]
    BY <1>2 DEF Sound, TypeOK, Addrs
  <2> QED  BY <1>2, <1>5, <2>3, <2>4 DEF Sound, TypeOK, Holders
<1>8. HashesBacked'
  BY <1>2, <1>5 DEF Sound, Books, HashesBacked
<1>9. FilesSound' /\ Walking' /\ NoDoubleFree'
  <2>1. cb.stage # "found"
    BY <1>1
  <2> QED  BY <1>1, <1>2, <2>1 DEF Sound, Books, FilesSound, Walking, NoDoubleFree
<1>10. Leases'
  <2>1. ASSUME NEW b \in DOMAIN lent', NEW d \in Clients, lent'[b] = LentTo(d)
        PROVE  d \in live'
    BY <1>2, <1>5, <2>1, HoldersDiffer DEF Sound, Leases
  <2> QED  BY <2>1 DEF Leases
<1> QED  BY <1>5, <1>7, <1>8, <1>9, <1>10 DEF Sound, Books

\* A program frees what it was lent, or what the slave has no record of.
LEMMA DeallocKeeps ==
    ASSUME Sound, ~breach', NEW c \in Clients, NEW r \in RPages, Dealloc(c, r)
    PROVE  Sound'
<1>1. /\ cb.stage = "idle" /\ up # "aborted"
      /\ r \in DOMAIN data_size_map => Holds(LentTo(c), r)
  BY DEF Dealloc, Receives, Breaches, Beside
<1>2. /\ cb = Idle /\ cb.uuid = NoClient /\ ToClear = {} /\ Unforgotten = {}
      /\ held' = [held EXCEPT ![c] = @ \ {r}] /\ held' \in [Clients -> SUBSET RPages]
      /\ UNCHANGED <<watched, live>>
  BY <1>1, AtRest DEF Sound, Dealloc, TypeOK
<1>3. CASE r \notin DOMAIN data_size_map
  <2>1. UNCHANGED <<slaveVars, lent, cb, uuid_memory_map, processVars>>
    BY <1>1, <1>3 DEF Dealloc, DEALLOC, Invalidated, slaveVars
  <2> QED  BY <1>2, <2>1 DEF Sound, TypeOK, NoDoubleFree, Books, Owned, Recorded, Unforgotten,
                       HashesBacked, FilesSound, Walking, Leases, ToClear, slaveVars,
                       processVars
<1>4. CASE r \in DOMAIN data_size_map
  <2>1. r \in DOMAIN lent /\ lent[r] = LentTo(c) /\ r \in DOMAIN arena
        /\ DOMAIN lent = DOMAIN arena
    BY <1>1, <1>4 DEF Holds, Sound, Books, Owned
  <2>2. /\ arena' = Erase(arena, r) /\ data_size_map' = Erase(data_size_map, r)
        /\ lent' = Erase(lent, r)
        /\ cb' = cb
        /\ UNCHANGED <<hash_map, uuid_memory_map, up, disk>>
    BY <1>1, <1>4, <2>1 DEF Dealloc, DEALLOC, Freeable, Invalidated, GivenBack, Holds, processVars
  <2>3. /\ Owned' /\ Recorded'
        /\ IsMap(arena', RPages, Nat \ {0}) /\ IsMap(data_size_map', Addrs, Nat \ {0})
        /\ IsMap(lent', RPages, Holders)
        /\ DOMAIN arena' = DOMAIN arena \ {r} /\ DOMAIN lent' = DOMAIN arena'
        /\ \A b \in DOMAIN arena' : arena'[b] = arena[b] /\ lent'[b] = lent[b]
    BY <1>1, <2>1, <2>2, BlockGone DEF Sound, Books
  <2>4. TypeOK'
    BY <1>2, <2>2, <2>3 DEF Sound, TypeOK, Holders
  <2>5. HashesBacked'
    BY <2>1, <2>2, <2>3, HoldersDiffer DEF Sound, Books, HashesBacked
  <2>6. FilesSound' /\ Walking' /\ NoDoubleFree'
    BY <1>1, <1>2, <2>2 DEF Sound, Books, FilesSound, Walking, NoDoubleFree
  <2>7. Leases'
    <3>1. DOMAIN lent' \subseteq DOMAIN lent /\ \A b \in DOMAIN lent' : lent'[b] = lent[b]
      BY <2>1, <2>3
    <3> QED  BY <1>2, <3>1 DEF Sound, Leases
  <2> QED  BY <2>3, <2>4, <2>5, <2>6, <2>7 DEF Sound, Books
<1> QED  BY <1>3, <1>4

\* Hashed memory, new or known, and of the size it has.
LEMMA AllocHashKeeps ==
    ASSUME Sound, ~breach', NEW c \in Clients, NEW h \in Hashes, NEW n \in 1..MaxLen,
           NEW r \in Addrs, AllocHash(c, h, n, r)
    PROVE  Sound'
<1>1. /\ cb.stage = "idle" /\ up # "aborted" /\ n \in Nat \ {0}
      /\ h \in DOMAIN hash_map => Reusable(h, n)
  BY Lengths DEF AllocHash, Receives, Breaches, Beside
<1>2. /\ cb = Idle /\ cb.uuid = NoClient /\ ToClear = {} /\ Unforgotten = {}
      /\ DOMAIN lent = DOMAIN arena
      /\ UNCHANGED <<uuid_memory_map, cb, clientVars>>
      /\ Midway(data_size_map, hash_map')
  BY <1>1, AtRest DEF Sound, Books, Owned, AllocHash
<1>a. FilesNamed(disk') /\ up' \in {"up", "quitting"}
  BY <1>1, <1>2, MidwayNamed DEF Sound, Books, FilesSound, TypeOK
<1>3. CASE h \in DOMAIN hash_map
  <2>1. /\ hash_map[h] \in DOMAIN arena /\ lent[hash_map[h]] = Hashed
        /\ hash_map[h] \in RPages /\ hash_map[h] \in DOMAIN lent
    BY <1>2, <1>3 DEF Sound, Books, HashesBacked, TypeOK, IsMap
  <2>3. /\ UNCHANGED slaveVars /\ r = hash_map[h]
        /\ lent' = Assign(Erase(lent, hash_map[h]), r, Hashed)
    BY <1>1, <1>3, <2>1 DEF AllocHash, ALLOC_HASH, GivenBack, Holds
  <2>4. /\ DOMAIN lent' = DOMAIN lent
        /\ \A b \in DOMAIN lent : lent'[b] = lent[b]
    BY <1>2, <2>1, <2>3 DEF Assign, Erase
  <2>5. IsMap(lent', RPages, Holders)
    <3>1. IsMap(lent, RPages, Holders) /\ Hashed \in Holders
      BY DEF Sound, TypeOK, Holders
    <3>2. IsMap(Erase(lent, hash_map[h]), RPages, Holders)
      BY <3>1, EraseIsMap
    <3> QED  BY <2>1, <2>3, <3>1, <3>2, AssignIsMap
  <2>6. TypeOK'
    BY <1>2, <1>a, <2>3, <2>5 DEF Sound, TypeOK, Holders, slaveVars, clientVars
  <2>7. Books'
    BY <1>2, <1>a, <2>3, <2>4 DEF Sound, Books, Owned, Recorded, Unforgotten, HashesBacked,
                            FilesSound, slaveVars
  <2>8. Walking' /\ NoDoubleFree'
    BY <1>2, <1>a, <2>3 DEF Sound, Walking, NoDoubleFree, slaveVars, clientVars
  <2>9. Leases'
    BY <1>2, <2>4 DEF Sound, Leases, clientVars
  <2> QED  BY <2>6, <2>7, <2>8, <2>9 DEF Sound
<1>4. CASE h \notin DOMAIN hash_map
  <2>1. ALLOC_HASH(h, n, r) /\ lent' = Assign(lent, r, Hashed)
    BY <1>4 DEF AllocHash
  <2>2. /\ r \in RPages
        /\ Extent(r, n) \subseteq RPages \ InUse
        /\ arena' = Assign(arena, r, n)
        /\ hash_map' = Insert(hash_map, h, r)
        /\ data_size_map' = Insert(data_size_map, r, n)
    BY <1>4, <2>1 DEF ALLOC_HASH, Reusable, InUse
  <2>3. r \notin DOMAIN arena
    BY <1>1, <2>2, FreePages DEF Sound, TypeOK
  <2>4. Hashed \in Holders /\ Hashed # Lost /\ r # NULL
    BY <2>2, HoldersDiffer, NullIsNoPage DEF Holders
  <2>5. /\ Owned' /\ Recorded'
        /\ IsMap(arena', RPages, Nat \ {0}) /\ IsMap(data_size_map', Addrs, Nat \ {0})
        /\ IsMap(lent', RPages, Holders)
        /\ DOMAIN arena' = DOMAIN arena \cup {r} /\ arena'[r] = n
        /\ DOMAIN lent' = DOMAIN arena' /\ lent'[r] = Hashed
        /\ \A b \in DOMAIN arena : arena'[b] = arena[b] /\ lent'[b] = lent[b]
    BY <1>1, <1>2, <2>1, <2>2, <2>3, <2>4, NewBlock DEF Sound, Books
  <2>6. /\ DOMAIN hash_map' = DOMAIN hash_map \cup {h} /\ hash_map'[h] = r
        /\ \A g \in DOMAIN hash_map : hash_map'[g] = hash_map[g]
    BY <1>4, <2>2 DEF Insert
  <2>7. TypeOK'
    <3>1. h \in Names /\ r \in Addrs
      BY DEF Names
    <3>2. IsMap(hash_map', Names, Addrs)
      BY <2>2, <3>1, InsertIsMap DEF Sound, TypeOK
    <3> QED  BY <1>2, <1>a, <2>5, <3>2 DEF Sound, TypeOK, Holders, clientVars
  <2>8. HashesBacked'
    <3>1. \A g \in DOMAIN hash_map \cap Hashes : hash_map[g] \in DOMAIN arena
      BY DEF Sound, Books, HashesBacked
    <3> QED  BY <1>1, <2>3, <2>5, <2>6, <3>1 DEF Sound, Books, HashesBacked
  <2>9. FilesSound'
    BY <1>a, <2>6 DEF Sound, Books, FilesSound
  <2>10. Walking' /\ NoDoubleFree'
    BY <1>1, <1>2, <1>a DEF Sound, Walking, NoDoubleFree, clientVars
  <2>11. Leases'
    BY <1>2, <2>5, HoldersDiffer DEF Sound, Leases, clientVars
  <2> QED  BY <2>5, <2>7, <2>8, <2>9, <2>10, <2>11 DEF Sound, Books
<1> QED  BY <1>3, <1>4

LEMMA DeallocHashKeeps ==
    ASSUME Sound, ~breach', NEW c \in Clients, NEW h \in Hashes, DeallocHash(c, h)
    PROVE  Sound'
<1>1. cb.stage = "idle" /\ up # "aborted"
  BY DEF DeallocHash, Receives, Breaches, Beside
<1>2. /\ cb = Idle /\ cb.uuid = NoClient /\ ToClear = {} /\ Unforgotten = {}
      /\ DOMAIN lent = DOMAIN arena
      /\ \A g \in DOMAIN hash_map \cap Hashes : hash_map[g] \in DOMAIN arena
  BY <1>1, AtRest DEF Sound, Books, Owned, HashesBacked
<1>a. /\ UNCHANGED <<uuid_memory_map, clientVars>> /\ DEALLOC_HASH(h)
      /\ lent' = IF h \in DOMAIN hash_map THEN GivenBack(Hashed, hash_map[h]) ELSE lent
      /\ cb' = IF h \in DOMAIN hash_map THEN Invalidated(hash_map[h]) ELSE cb
      /\ Midway(data_size_map', hash_map)
  BY <1>2 DEF DeallocHash, Freeable
<1>b. FilesNamed(disk') /\ up' \in {"up", "quitting"}
  <2>1. IsMap(data_size_map', Addrs, Nat \ {0})
    BY <1>a, EraseIsMap DEF Sound, TypeOK, DEALLOC_HASH, slaveVars
  <2> QED  BY <1>1, <1>a, <2>1, MidwayNamed DEF Sound, Books, FilesSound, TypeOK
<1>3. CASE h \notin DOMAIN hash_map
  <2>1. UNCHANGED <<slaveVars, lent, cb, uuid_memory_map, clientVars>>
    BY <1>3, <1>a DEF DEALLOC_HASH
  <2>2. TypeOK'
    BY <1>b, <2>1 DEF Sound, TypeOK, slaveVars, clientVars
  <2>3. Books'
    BY <1>b, <2>1 DEF Sound, Books, Owned, Recorded, Unforgotten, HashesBacked, FilesSound,
                      slaveVars
  <2> QED  BY <1>b, <2>1, <2>2, <2>3 DEF Sound, NoDoubleFree, Walking, Leases, slaveVars,
                                         clientVars
<1>4. CASE h \in DOMAIN hash_map
  <2> DEFINE r == hash_map[h]
  <2>1. r \in DOMAIN arena /\ lent[r] = Hashed
    BY <1>4 DEF Sound, Books, HashesBacked
  <2>2. /\ arena' = Erase(arena, r) /\ data_size_map' = Erase(data_size_map, r)
        /\ hash_map' = Erase(hash_map, h)
        /\ lent' = Erase(lent, r) /\ cb' = cb
    BY <1>1, <1>2, <1>4, <1>a, <2>1 DEF DEALLOC_HASH, Invalidated, GivenBack, Holds
  <2>3. /\ Owned' /\ Recorded'
        /\ IsMap(arena', RPages, Nat \ {0}) /\ IsMap(data_size_map', Addrs, Nat \ {0})
        /\ IsMap(lent', RPages, Holders)
        /\ DOMAIN arena' = DOMAIN arena \ {r} /\ DOMAIN lent' = DOMAIN arena'
        /\ \A b \in DOMAIN arena' : arena'[b] = arena[b] /\ lent'[b] = lent[b]
    BY <1>1, <2>1, <2>2, BlockGone DEF Sound, Books
  <2>4. /\ DOMAIN hash_map' = DOMAIN hash_map \ {h}
        /\ \A g \in DOMAIN hash_map' : hash_map'[g] = hash_map[g]
    BY <2>2 DEF Erase
  <2>5. TypeOK'
    <3>1. IsMap(hash_map', Names, Addrs)
      BY <2>2, EraseIsMap DEF Sound, TypeOK
    <3> QED  BY <1>a, <1>b, <2>2, <2>3, <3>1 DEF Sound, TypeOK, Holders, clientVars
  <2>6. HashesBacked'
    <3>1. \A g \in DOMAIN hash_map' \cap Hashes : hash_map[g] \in DOMAIN arena \ {r}
      BY <1>4, <2>4 DEF Sound, Books, HashesBacked
    <3> QED  BY <2>3, <2>4, <3>1 DEF Sound, Books, HashesBacked
  <2>7. FilesSound'
    BY <1>b, <2>2, <2>4 DEF Sound, Books, FilesSound
  <2>8. Walking' /\ NoDoubleFree'
    BY <1>1, <1>a, <1>b, <2>2 DEF Sound, Walking, NoDoubleFree, clientVars
  <2>9. Leases'
    <3>1. DOMAIN lent' \subseteq DOMAIN lent /\ \A b \in DOMAIN lent' : lent'[b] = lent[b]
      BY <1>2, <2>3
    <3> QED  BY <1>a, <3>1 DEF Sound, Leases, clientVars
  <2> QED  BY <2>3, <2>5, <2>6, <2>7, <2>8, <2>9 DEF Sound, Books
<1> QED  BY <1>3, <1>4

-----------------------------------------------------------------------------
(* Clients come and go                                                     *)

LEMMA StartKeeps ==
    ASSUME Sound, NEW c \in Clients, Start(c)
    PROVE  Sound'
<1>1. /\ c # cb.uuid /\ live' = live \cup {c} /\ watched' = watched \cup {c}
      /\ UNCHANGED <<slaveVars, uuid_memory_map, cb, held, lent, processVars>>
  BY DEF Start
<1>2. TypeOK' /\ NoDoubleFree' /\ Books'
  BY <1>1 DEF Sound, TypeOK, NoDoubleFree, Books, Owned, Recorded, Unforgotten, HashesBacked,
              FilesSound, slaveVars, processVars
<1>3. Walking' /\ Leases'
  BY <1>1 DEF Sound, Walking, Leases, slaveVars
<1> QED  BY <1>2, <1>3 DEF Sound

LEMMA SilenceKeeps ==
    ASSUME Sound, NEW c \in Clients, Silence(c)
    PROVE  Sound'
<1>1. /\ "silence" \in Ops /\ c \in live /\ live' = live \ {c}
      /\ lent' = [r \in DOMAIN lent |-> IF lent[r] = LentTo(c) THEN LeftBy(c) ELSE lent[r]]
      /\ held' \in {held, [held EXCEPT ![c] = {}]}
      /\ UNCHANGED <<slaveVars, uuid_memory_map, cb, watched, processVars>>
  BY DEF Silence
<1>2. DOMAIN lent' = DOMAIN lent
  BY <1>1
<1>3. ASSUME NEW r \in DOMAIN lent
      PROVE  /\ lent[r] = LentTo(c) => lent'[r] = LeftBy(c)
             /\ lent[r] # LentTo(c) => lent'[r] = lent[r]
             /\ lent'[r] = Lost <=> lent[r] = Lost
             /\ lent'[r] = Hashed <=> lent[r] = Hashed
             /\ \A d : lent'[r] = LentTo(d) => d # c /\ lent[r] = LentTo(d)
             /\ \A d : lent[r] = LeftBy(d) => lent'[r] = LeftBy(d)
             /\ \A d : lent[r] = LentTo(d) => lent'[r] \in {LentTo(d), LeftBy(d)}
  BY <1>1, HoldersDiffer
<1>4. TypeOK'
  <2>1. IsMap(lent, RPages, Holders) /\ LeftBy(c) \in Holders
    BY DEF Sound, TypeOK, Holders
  <2>2. IsMap(lent', RPages, Holders)
    BY <1>1, <2>1 DEF IsMap
  <2>3. held' \in [Clients -> SUBSET RPages]
    BY <1>1 DEF Sound, TypeOK
  <2> QED  BY <1>1, <2>2, <2>3 DEF Sound, TypeOK, Holders, slaveVars, processVars
<1>5. Books'
  <2>1. Owned' /\ FilesSound'
    BY <1>1, <1>2 DEF Sound, Books, Owned, FilesSound, slaveVars, processVars
  <2>2. DOMAIN arena = DOMAIN lent
    BY DEF Sound, Books, Owned
  <2>3. Recorded'
    BY <1>1, <1>3, <2>2 DEF Sound, Books, Recorded, Unforgotten, slaveVars
  <2>4. HashesBacked'
    BY <1>1, <1>3, <2>2 DEF Sound, Books, HashesBacked, slaveVars
  <2> QED  BY <2>1, <2>3, <2>4 DEF Books
<1>6. NoDoubleFree' /\ Walking'
  BY <1>1 DEF Sound, NoDoubleFree, Walking, slaveVars, processVars
<1>7. Leases'
  BY <1>1, <1>2, <1>3 DEF Sound, Leases
<1> QED  BY <1>4, <1>5, <1>6, <1>7 DEF Sound

LEMMA TimeoutKeeps ==
    ASSUME Sound, NEW c \in Clients, Timeout(c)
    PROVE  Sound'
<1>1. /\ cb.stage = "idle" /\ c \in watched \ live /\ watched' = watched \ {c}
      /\ UNCHANGED <<slaveVars, uuid_memory_map, live, held, lent, processVars>>
  BY DEF Timeout
<1>2. "silence" \in Ops
  BY <1>1 DEF Sound, Walking
<1>3. cb = Idle /\ cb.uuid = NoClient /\ ToClear = {} /\ Unforgotten = {}
  BY <1>1, AtRest DEF Sound
<1>4. Unforgotten' = {}
      /\ (cb' = cb \/ /\ c \in DOMAIN uuid_memory_map
                      /\ cb' = [uuid |-> c, todo |-> uuid_memory_map[c], addr |-> NULL,
                                stage |-> "walk", valid |-> TRUE])
  BY <1>3 DEF Timeout, Idle, Unforgotten
<1>5. Books'
  <2>1. Owned' /\ HashesBacked' /\ FilesSound'
    BY <1>1 DEF Sound, Books, Owned, HashesBacked, FilesSound, slaveVars, processVars
  <2>2. Recorded'
    BY <1>1, <1>3, <1>4 DEF Sound, Books, Recorded, slaveVars
  <2> QED  BY <2>1, <2>2 DEF Books
<1>6. CASE cb' = cb
  <2>1. TypeOK' /\ NoDoubleFree' /\ Walking' /\ Leases'
    BY <1>1, <1>2, <1>6 DEF Sound, TypeOK, NoDoubleFree, Walking, Leases, slaveVars,
                             processVars
  <2> QED  BY <1>5, <2>1 DEF Sound
<1>7. CASE cb' # cb
  <2>1. /\ c \in DOMAIN uuid_memory_map
        /\ cb' = [uuid |-> c, todo |-> uuid_memory_map[c], addr |-> NULL,
                  stage |-> "walk", valid |-> TRUE]
    BY <1>4, <1>7
  <2>2. uuid_memory_map[c] \subseteq Addrs
    BY <2>1 DEF Sound, TypeOK, IsMap
  <2>3. cb' \in [uuid : Clients \cup {NoClient}, todo : SUBSET Addrs, addr : Addrs,
                 stage : {"idle", "walk", "found", "freed"}, valid : BOOLEAN]
    BY <2>1, <2>2 DEF Addrs
  <2>4. TypeOK'
    BY <1>1, <2>3 DEF Sound, TypeOK, slaveVars, processVars
  <2>5. NoDoubleFree' /\ Walking'
    <3>1. cb'.stage = "walk" /\ cb'.uuid = c /\ cb'.valid /\ cb'.addr = NULL
      BY <2>1
    <3> QED  BY <1>1, <1>2, <3>1 DEF Sound, NoDoubleFree, Walking, processVars
  <2>6. Leases'
    BY <1>1 DEF Sound, Leases
  <2> QED  BY <1>5, <2>4, <2>5, <2>6 DEF Sound
<1> QED  BY <1>6, <1>7

-----------------------------------------------------------------------------
(* user_callback_function                                                  *)

\* The shape of cb, which EXCEPT needs.
LEMMA CbType ==
    ASSUME TypeOK
    PROVE  cb \in [uuid : Clients \cup {NoClient}, todo : SUBSET Addrs, addr : Addrs,
                   stage : {"idle", "walk", "found", "freed"}, valid : BOOLEAN]
BY DEF TypeOK

LEMMA FindKeeps ==
    ASSUME Sound, Find
    PROVE  Sound'
<1>1. /\ cb.stage = "walk" /\ cb.uuid \in Clients /\ "silence" \in Ops
      /\ UNCHANGED <<slaveVars, uuid_memory_map, clientVars, lent, processVars>>
  BY DEF Find, Sound, Walking
<1>2. PICK r \in cb.todo :
          cb' = IF r \in DOMAIN data_size_map
                THEN [cb EXCEPT !.todo = @ \ {r}, !.addr = r, !.stage = "found",
                                !.valid = TRUE]
                ELSE [cb EXCEPT !.todo = @ \ {r}]
  BY DEF Find
<1>3. /\ cb' \in [uuid : Clients \cup {NoClient}, todo : SUBSET Addrs, addr : Addrs,
                  stage : {"idle", "walk", "found", "freed"}, valid : BOOLEAN]
      /\ cb'.uuid = cb.uuid /\ cb'.todo = cb.todo \ {r} /\ cb'.valid
      /\ \/ cb'.stage = "found" /\ cb'.addr = r /\ r \in DOMAIN data_size_map
         \/ cb'.stage = "walk" /\ cb'.addr = cb.addr
  BY <1>1, <1>2, CbType DEF Sound, Walking
<1>4. TypeOK' /\ NoDoubleFree'
  BY <1>1, <1>3 DEF Sound, TypeOK, NoDoubleFree, slaveVars, clientVars, processVars
<1>5. Books'
  <2>1. Unforgotten = {} /\ Unforgotten' = {}
    BY <1>1, <1>3 DEF Unforgotten
  <2>2. Owned' /\ HashesBacked' /\ FilesSound'
    BY <1>1 DEF Sound, Books, Owned, HashesBacked, FilesSound, slaveVars, processVars
  <2>3. Recorded'
    BY <1>1, <2>1 DEF Sound, Books, Recorded, slaveVars
  <2> QED  BY <2>2, <2>3 DEF Books
<1>6. Walking'
  BY <1>1, <1>3 DEF Sound, Walking, slaveVars, clientVars
<1>7. Leases'
  BY <1>1 DEF Sound, Leases, clientVars
<1> QED  BY <1>4, <1>5, <1>6, <1>7 DEF Sound

\* What is freed was lent to the silent client, and is nobody else's.
LEMMA FreeKeeps ==
    ASSUME Sound, ~breach', Free
    PROVE  Sound'
<1> DEFINE a == cb.addr
<1>1. /\ cb.stage = "found" /\ cb.uuid \in Clients /\ "silence" \in Ops
      /\ a \in DOMAIN data_size_map
      /\ a # NULL => Holds(LeftBy(cb.uuid), a)
  BY DEF Free, Sound, Walking, Breaches
<1>2. /\ a # NULL => a \in DOMAIN lent /\ lent[a] = LeftBy(cb.uuid)
      /\ DOMAIN lent = DOMAIN arena /\ DOMAIN arena \subseteq RPages
  BY <1>1 DEF Holds, Sound, Books, Owned, TypeOK, IsMap
<1>3. /\ arena' = Erase(arena, a)
      /\ cb' = [cb EXCEPT !.stage = "freed"]
      /\ lent' = IF a \in DOMAIN lent /\ lent[a] = LeftBy(cb.uuid)
                 THEN Erase(lent, a) ELSE lent
      /\ UNCHANGED <<slave_mem, data_size_map, hash_map, uuid_memory_map, clientVars,
                     processVars>>
  BY <1>2 DEF Free, Freeable, GivenBack, Holds
<1>4. /\ cb' \in [uuid : Clients \cup {NoClient}, todo : SUBSET Addrs, addr : Addrs,
                  stage : {"idle", "walk", "found", "freed"}, valid : BOOLEAN]
      /\ cb'.uuid = cb.uuid /\ cb'.todo = cb.todo /\ cb'.addr = a
      /\ cb'.valid = cb.valid /\ cb'.stage = "freed"
  BY <1>3, CbType DEF Sound
<1>5. /\ DOMAIN arena' = DOMAIN arena \ {a} /\ DOMAIN lent' = DOMAIN arena'
      /\ \A b \in DOMAIN arena' : arena'[b] = arena[b] /\ lent'[b] = lent[b]
      /\ a \notin DOMAIN arena'
  <2>1. a = NULL => a \notin DOMAIN lent
    BY <1>2, NullIsNoPage
  <2> QED  BY <1>2, <1>3, <2>1 DEF Erase
<1>6. TypeOK'
  <2>1. IsMap(arena', RPages, Nat \ {0}) /\ IsMap(lent', RPages, Holders)
    BY <1>3, EraseIsMap DEF Sound, TypeOK, Holders
  <2> QED  BY <1>3, <1>4, <2>1 DEF Sound, TypeOK, Holders, clientVars, processVars
<1>7. Unforgotten = {} /\ Unforgotten' = {a} \ {NULL}
  BY <1>1, <1>4 DEF Unforgotten
<1>8. Books'
  <2>1. Owned' /\ FilesSound'
    BY <1>3, <1>5 DEF Sound, Books, Owned, FilesSound, processVars
  <2>2. Recorded'
    <3>1. ASSUME NEW b \in RPages
          PROVE  b \in DOMAIN data_size_map' <=>
                     \/ b \in DOMAIN arena' /\ lent'[b] # Lost
                     \/ b \in Unforgotten'
      BY <1>1, <1>2, <1>3, <1>5, <1>7, NullIsNoPage DEF Sound, Books, Recorded
    <3>2. \A b \in DOMAIN data_size_map' \cap DOMAIN arena' : data_size_map'[b] = arena'[b]
      BY <1>3, <1>5 DEF Sound, Books, Recorded
    <3> QED  BY <1>5, <1>7, <3>1, <3>2 DEF Recorded
  <2>3. HashesBacked'
    <3>1. \A h \in DOMAIN hash_map \cap Hashes : hash_map[h] # a /\ hash_map[h] \in DOMAIN arena
      BY <1>2, HoldersDiffer, NullIsNoPage DEF Sound, Books, HashesBacked
    <3> QED  BY <1>3, <1>5, <3>1 DEF Sound, Books, HashesBacked
  <2> QED  BY <2>1, <2>2, <2>3 DEF Books
<1>9. NoDoubleFree' /\ Walking'
  BY <1>1, <1>3, <1>4 DEF Sound, NoDoubleFree, Walking, clientVars, processVars
<1>10. Leases'
  BY <1>2, <1>3, <1>5 DEF Sound, Leases, clientVars
<1> QED  BY <1>6, <1>8, <1>9, <1>10 DEF Sound

LEMMA ForgetKeeps ==
    ASSUME Sound, Forget
    PROVE  Sound'
<1> DEFINE a == cb.addr
<1>1. /\ cb.stage = "freed" /\ cb.uuid \in Clients /\ "silence" \in Ops /\ cb.valid
  BY DEF Forget, Sound, Walking
<1>2. /\ data_size_map' = Erase(data_size_map, a)
      /\ cb' = [cb EXCEPT !.stage = "walk", !.addr = NULL]
      /\ UNCHANGED <<slave_mem, arena, hash_map, uuid_memory_map, clientVars, lent, processVars>>
  BY <1>1 DEF Forget
<1>3. /\ cb' \in [uuid : Clients \cup {NoClient}, todo : SUBSET Addrs, addr : Addrs,
                  stage : {"idle", "walk", "found", "freed"}, valid : BOOLEAN]
      /\ cb'.uuid = cb.uuid /\ cb'.todo = cb.todo /\ cb'.addr = NULL
      /\ cb'.valid = cb.valid /\ cb'.stage = "walk"
  BY <1>2, CbType DEF Sound, Addrs
<1>4. TypeOK'
  <2>1. IsMap(data_size_map', Addrs, Nat \ {0})
    BY <1>2, EraseIsMap DEF Sound, TypeOK
  <2> QED  BY <1>2, <1>3, <2>1 DEF Sound, TypeOK, clientVars, processVars
<1>5. Unforgotten = {a} \ {NULL} /\ Unforgotten' = {}
  BY <1>1, <1>3 DEF Unforgotten
<1>6. Books'
  <2>1. Owned' /\ HashesBacked' /\ FilesSound'
    BY <1>2 DEF Sound, Books, Owned, HashesBacked, FilesSound, processVars
  <2>2. /\ DOMAIN data_size_map' = DOMAIN data_size_map \ {a}
        /\ \A b \in DOMAIN data_size_map' : data_size_map'[b] = data_size_map[b]
    BY <1>2 DEF Erase
  <2>3. DOMAIN arena \subseteq RPages /\ NULL \notin RPages
    BY NullIsNoPage DEF Sound, TypeOK, IsMap
  <2>4. Recorded'
    BY <1>2, <1>5, <2>2, <2>3 DEF Sound, Books, Recorded
  <2> QED  BY <2>1, <2>4 DEF Books
<1>7. NoDoubleFree' /\ Walking'
  BY <1>1, <1>2, <1>3 DEF Sound, NoDoubleFree, Walking, clientVars, processVars
<1>8. Leases'
  BY <1>2 DEF Sound, Leases, clientVars
<1> QED  BY <1>4, <1>6, <1>7, <1>8 DEF Sound

LEMMA DoneKeeps ==
    ASSUME Sound, Done
    PROVE  Sound'
<1>1. /\ cb.stage = "walk" /\ cb.uuid \in Clients /\ cb.todo = {} /\ "silence" \in Ops
      /\ uuid_memory_map' = Erase(uuid_memory_map, cb.uuid)
      /\ cb' = Idle
      /\ UNCHANGED <<slaveVars, clientVars, lent, processVars>>
  BY DEF Done, Sound, Walking
<1>2. /\ cb'.uuid = NoClient /\ cb'.stage = "idle" /\ cb'.todo = {} /\ cb'.addr = NULL
      /\ cb'.valid
      /\ cb' \in [uuid : Clients \cup {NoClient}, todo : SUBSET Addrs, addr : Addrs,
                  stage : {"idle", "walk", "found", "freed"}, valid : BOOLEAN]
  BY <1>1 DEF Idle, Addrs
<1>3. TypeOK'
  <2>1. IsMap(uuid_memory_map', Clients, SUBSET Addrs)
    BY <1>1, EraseIsMap DEF Sound, TypeOK
  <2> QED  BY <1>1, <1>2, <2>1 DEF Sound, TypeOK, slaveVars, clientVars, processVars
<1>4. Books'
  <2>1. Unforgotten = {} /\ Unforgotten' = {}
    BY <1>1, <1>2 DEF Unforgotten
  <2>2. Owned' /\ HashesBacked' /\ FilesSound'
    BY <1>1 DEF Sound, Books, Owned, HashesBacked, FilesSound, slaveVars, processVars
  <2>3. Recorded'
    BY <1>1, <2>1 DEF Sound, Books, Recorded, slaveVars
  <2> QED  BY <2>2, <2>3 DEF Books
<1>5. NoDoubleFree' /\ Walking'
  <2>1. NoClient \notin live
    BY SlaveAssumption DEF Sound, TypeOK
  <2> QED  BY <1>1, <1>2, <2>1 DEF Sound, NoDoubleFree, Walking, clientVars, processVars
<1>6. Leases'
  BY <1>1 DEF Sound, Leases, clientVars
<1> QED  BY <1>3, <1>4, <1>5, <1>6 DEF Sound

-----------------------------------------------------------------------------
(* Backup and restart                                                      *)

LEMMA BackupKeeps ==
    ASSUME Sound, Backup
    PROVE  Sound'
<1>1. /\ disk' = Saved(data_size_map, hash_map)
      /\ up' = "quitting"
      /\ UNCHANGED <<slaveVars, uuid_memory_map, cb, clientVars, lent>>
  BY DEF Backup, Signal
<1>2. FilesNamed(disk')
  BY <1>1, SavedNamed DEF Sound, Books, FilesSound, TypeOK
<1>3. FilesSound'
  BY <1>1, <1>2 DEF Sound, Books, FilesSound, slaveVars
<1>4. TypeOK' /\ NoDoubleFree' /\ Walking' /\ Leases'
  BY <1>1 DEF Sound, TypeOK, NoDoubleFree, Walking, Leases, slaveVars, clientVars
<1>5. Owned' /\ Recorded' /\ HashesBacked'
  BY <1>1 DEF Sound, Books, Owned, Recorded, Unforgotten, HashesBacked, slaveVars
<1> QED  BY <1>3, <1>4, <1>5 DEF Sound, Books

LEMMA RestartKeeps ==
    ASSUME Sound, Restart
    PROVE  Sound'
<1>1. PICK p \in Placements :
          LET placed == {p[f] : f \in DOMAIN disk} \ {NULL}
          IN  /\ arena' = [r \in placed |-> disk[CHOOSE f \in DOMAIN disk : p[f] = r]]
              /\ lent' = [r \in placed |-> Lost]
  BY DEF Restart
<1> DEFINE placed == {p[f] : f \in DOMAIN disk} \ {NULL}
<1>2. /\ hash_map' = [f \in DOMAIN disk \cap Names |-> NULL]
      /\ uuid_memory_map' = NoEntries
      /\ cb' = Idle /\ watched' = {} /\ up' = "up"
      /\ held' \in {held, [c \in Clients |-> {}]}
      /\ UNCHANGED <<live, disk>>
  BY DEF Restart
<1>3. DOMAIN data_size_map' \subseteq {NULL}
      /\ \A r \in DOMAIN data_size_map' : data_size_map'[r] \in Nat \ {0}
  BY DEF Restart, NoEntries, Assign, Sound, Books, FilesSound, FilesNamed
<1>4. placed \subseteq RPages
  BY DEF Placements, Addrs
<1>5. /\ DOMAIN arena' = placed /\ DOMAIN lent' = placed
      /\ \A r \in placed : lent'[r] = Lost /\ arena'[r] \in Nat \ {0}
  BY <1>1 DEF Sound, Books, FilesSound, FilesNamed
<1>6. NULL \notin RPages /\ NULL \in Addrs /\ NoClient \notin Clients
  BY NullIsNoPage, SlaveAssumption DEF Addrs
<1>7. TypeOK'
  <2>1. IsMap(arena', RPages, Nat \ {0}) /\ IsMap(lent', RPages, Holders)
    BY <1>1, <1>4, <1>5 DEF IsMap, Holders
  <2>2. IsMap(data_size_map', Addrs, Nat \ {0})
    <3>1. data_size_map' = [r \in DOMAIN data_size_map' |-> data_size_map'[r]]
      BY DEF Restart, NoEntries, Assign
    <3> QED  BY <1>3, <1>6, <3>1 DEF IsMap
  <2>3. IsMap(hash_map', Names, Addrs)
    BY <1>2, <1>6 DEF IsMap
  <2>4. IsMap(uuid_memory_map', Clients, SUBSET Addrs)
    BY <1>2, NoEntriesIsMap
  <2>5. cb' \in [uuid : Clients \cup {NoClient}, todo : SUBSET Addrs, addr : Addrs,
                 stage : {"idle", "walk", "found", "freed"}, valid : BOOLEAN]
    BY <1>2, <1>6 DEF Idle
  <2>6. held' \in [Clients -> SUBSET RPages]
    BY <1>2 DEF Sound, TypeOK
  <2> QED  BY <1>2, <2>1, <2>2, <2>3, <2>4, <2>5, <2>6 DEF Sound, TypeOK, Holders
<1> HIDE DEF placed
<1>8. Unforgotten' = {} /\ cb'.uuid = NoClient
  BY <1>2 DEF Unforgotten, Idle
<1>9. Books'
  <2>1. Owned' /\ Recorded'
    BY <1>3, <1>4, <1>5, <1>6, <1>8 DEF Owned, Recorded
  <2>2. DOMAIN hash_map' \cap Hashes = {} /\ \A f \in DOMAIN hash_map' : hash_map'[f] = NULL
    BY <1>2 DEF Sound, Books, FilesSound, FilesNamed
  <2>3. FilesSound'
    BY <1>2, <2>2 DEF Sound, Books, FilesSound
  <2> QED  BY <2>1, <2>2, <2>3 DEF Books, HashesBacked
<1>10. NoDoubleFree' /\ Walking'
  <2>1. cb'.uuid \notin live'
    BY <1>2, <1>6, <1>8 DEF Sound, TypeOK
  <2> QED  BY <1>2, <2>1 DEF NoDoubleFree, Walking, Idle
<1>11. Leases'
  BY <1>5, HoldersDiffer DEF Leases
<1> QED  BY <1>7, <1>9, <1>10, <1>11 DEF Sound

-----------------------------------------------------------------------------
(* The books are right                                                     *)

LEMMA SoundNext ==
    ASSUME Sound, ~breach', [Next]_vars
    PROVE  Sound'
<1>1. CASE Packet
  <2>1. ASSUME NEW c \in Clients, NEW n \in 1..MaxLen, NEW r \in Addrs, Alloc(c, n, r)
        PROVE  Sound'
    BY <2>1, AllocKeeps
  <2>2. ASSUME NEW c \in Clients, NEW r \in RPages, Dealloc(c, r)
        PROVE  Sound'
    BY <2>2, DeallocKeeps
  <2>3. ASSUME NEW c \in Clients, NEW h \in Hashes, NEW n \in 1..MaxLen, NEW r \in Addrs,
               AllocHash(c, h, n, r)
        PROVE  Sound'
    BY <2>3, AllocHashKeeps
  <2>4. ASSUME NEW c \in Clients, NEW h \in Hashes, DeallocHash(c, h)
        PROVE  Sound'
    BY <2>4, DeallocHashKeeps
  <2> QED  BY <1>1, <2>1, <2>2, <2>3, <2>4 DEF Packet
<1>2. CASE Clocks
  BY <1>2, StartKeeps, SilenceKeeps, TimeoutKeeps DEF Clocks
<1>3. CASE user_callback_function
  BY <1>3, FindKeeps, FreeKeeps, ForgetKeeps, DoneKeeps DEF user_callback_function
<1>4. CASE Backup
  BY <1>4, BackupKeeps
<1>5. CASE Restart
  BY <1>5, RestartKeeps
<1>6. CASE UNCHANGED vars
  BY <1>6 DEF Sound, TypeOK, NoDoubleFree, Books, Owned, Recorded, Unforgotten, HashesBacked,
              FilesSound, Walking, Leases, vars, slaveVars, clientVars, processVars
<1> QED  BY <1>1, <1>2, <1>3, <1>4, <1>5, <1>6 DEF Next

LEMMA SoundInit == Init => Sound
<1> SUFFICES ASSUME Init PROVE Sound
  OBVIOUS
<1>1. /\ DOMAIN arena = {} /\ DOMAIN data_size_map = {} /\ DOMAIN hash_map = {}
      /\ DOMAIN uuid_memory_map = {} /\ DOMAIN lent = {} /\ DOMAIN disk = {}
      /\ cb = Idle /\ watched = {} /\ live = {} /\ up = "up"
  BY DEF Init, SlaveInit, NoEntries
<1>2. TypeOK
  <2>1. cb \in [uuid : Clients \cup {NoClient}, todo : SUBSET Addrs, addr : Addrs,
                stage : {"idle", "walk", "found", "freed"}, valid : BOOLEAN]
    BY <1>1 DEF Idle, Addrs
  <2>2. held \in [Clients -> SUBSET RPages]
    BY DEF Init
  <2> QED  BY <1>1, <2>1, <2>2, NoEntriesIsMap DEF Init, SlaveInit, TypeOK
<1>3. Unforgotten = {}
  BY <1>1 DEF Unforgotten, Idle
<1>4. NoDoubleFree /\ Books
  BY <1>1, <1>3 DEF NoDoubleFree, Books, Owned, Recorded, HashesBacked, FilesSound, FilesNamed
<1>5. Walking /\ Leases
  BY <1>1, <1>3 DEF Walking, Leases, Idle
<1> QED  BY <1>2, <1>4, <1>5 DEF Sound

\* Once there is a breach, there has been one.
LEMMA BreachStays ==
    ASSUME breach, [Next]_vars
    PROVE  breach'
<1>1. CASE \/ Packet \/ Clocks \/ user_callback_function
  BY <1>1 DEF Packet, Alloc, Dealloc, AllocHash, DeallocHash, Breaches, Clocks, Start, Silence,
              Timeout, user_callback_function, Find, Free, Forget, Done
<1>2. CASE Backup \/ Restart \/ UNCHANGED vars
  BY <1>2 DEF Backup, Restart, vars
<1> QED  BY <1>1, <1>2 DEF Next

LEMMA SoundAlways == Spec => [](breach \/ Sound)
<1>1. (breach \/ Sound) /\ [Next]_vars => (breach \/ Sound)'
  BY SoundNext, BreachStays
<1>2. Init => (breach \/ Sound)
  BY SoundInit
<1> QED  BY <1>1, <1>2, PTL DEF Spec

\* Up to the first breach, what a live client was lent, and hashed memory,
\* stays allocated and recorded, whoever else falls silent, and whenever the
\* slave stops, crashes and restarts (the cases of l2fwd_simple_forward(),
\* user_callback_function() and restore()).
THEOREM NobodyIsRobbed == Spec => [](breach \/ LiveKeepTheirs)
<1>1. ASSUME Sound
      PROVE  LiveKeepTheirs
  <2> SUFFICES ASSUME NEW r \in DOMAIN lent, lent[r] \in {Hashed} \cup {LentTo(c) : c \in live}
               PROVE  /\ r \in DOMAIN arena
                      /\ r \in DOMAIN data_size_map /\ data_size_map[r] = arena[r]
    BY DEF LiveKeepTheirs
  <2>1. r \in DOMAIN arena /\ r \in RPages /\ lent[r] # Lost
    BY <1>1, HoldersDiffer DEF Sound, Books, Owned, TypeOK, IsMap
  <2> QED  BY <1>1, <2>1 DEF Sound, Books, Recorded
<1> QED  BY <1>1, SoundAlways, PTL

\* The memory of a hash, and the record of its size.
LEMMA HashedIsBacked ==
    ASSUME Sound, NEW h \in DOMAIN hash_map \cap Hashes
    PROVE  hash_map[h] \in DOMAIN arena /\ hash_map[h] \in DOMAIN data_size_map
<1>1. hash_map[h] \in DOMAIN arena /\ lent[hash_map[h]] = Hashed /\ hash_map[h] \in RPages
  BY DEF Sound, Books, HashesBacked, TypeOK, IsMap
<1> QED  BY <1>1, HoldersDiffer DEF Sound, Books, Recorded

\* Up to the first breach, the memory of a hash is never freed while the hash is
\* known, and the slave knows the size of the block it answers with.
THEOREM HashesPersist == Spec => [](breach \/ (HashesAllocated /\ HashHasSize))
<1>1. Sound => HashesAllocated /\ HashHasSize
  BY HashedIsBacked DEF HashesAllocated, HashHasSize
<1> QED  BY <1>1, SoundAlways, PTL

\* Up to the first breach, the sizes recorded are those of the heap's blocks.
THEOREM BooksAreRight == Spec => [](breach \/ BooksMatchHeap)
<1>1. ASSUME Sound
      PROVE  BooksMatchHeap
  <2> DEFINE known == {r \in DOMAIN arena : r \in DOMAIN lent => lent[r] # Lost}
  <2> SUFFICES ASSUME cb.stage # "freed"
               PROVE  /\ DOMAIN data_size_map \ {NULL} = known
                      /\ \A r \in known : arena[r] = data_size_map[r]
    BY DEF BooksMatchHeap
  <2>1. DOMAIN data_size_map \ {NULL} \subseteq RPages /\ DOMAIN arena \subseteq RPages
        /\ NULL \notin RPages /\ DOMAIN lent = DOMAIN arena /\ Unforgotten = {}
    BY <1>1, NullIsNoPage DEF Sound, TypeOK, IsMap, Addrs, Books, Owned, Unforgotten
  <2>2. \A r \in RPages : r \in DOMAIN data_size_map <=> r \in known
    BY <1>1, <2>1 DEF Sound, Books, Recorded
  <2> QED  BY <1>1, <2>1, <2>2 DEF Sound, Books, Recorded
<1> QED  BY <1>1, SoundAlways, PTL

\* Up to the first breach, free() is never given what is no block.
THEOREM NothingFreedTwice == Spec => [](breach \/ NoDoubleFree)
<1>1. Sound => NoDoubleFree
  BY DEF Sound
<1> QED  BY <1>1, SoundAlways, PTL

LEMMA FileNames ==
    /\ \A h \in Hashes : FileOf(h) = <<"file of", h>>
    /\ \A g, h \in Hashes : FileOf(g) = FileOf(h) => g = h
    /\ \A k, h : <<"unknown_", k>> # <<"file of", h>>
<1>1. \A h \in Hashes : FileOf(h) = <<"file of", h>>
  BY DEF FileOf
<1>2. ASSUME NEW g, NEW h, <<"file of", g>> = <<"file of", h>>
      PROVE  g = h
  BY <1>2
<1>3. ASSUME NEW k, NEW h
      PROVE  <<"unknown_", k>> # <<"file of", h>>
  OBVIOUS
<1> QED  BY <1>1, <1>2, <1>3

\* Two blocks never end in the file of one hash, whatever state the maps are in
\* when they are saved, as long as no other hash names its block.
LEMMA FileOfHash ==
    ASSUME NEW sizes, IsMap(sizes, Addrs, Nat \ {0}),
           NEW hashes, \A f \in DOMAIN hashes \ Hashes : hashes[f] = NULL,
           NEW h \in DOMAIN hashes \cap Hashes,
           hashes[h] \in RPages, hashes[h] \in DOMAIN sizes,
           \A g \in DOMAIN hashes \cap Hashes : hashes[g] = hashes[h] => g = h
    PROVE  /\ FileOf(h) \in DOMAIN Saved(sizes, hashes)
           /\ Saved(sizes, hashes)[FileOf(h)] = sizes[hashes[h]]
<1> DEFINE r == hashes[h]
<1>1. r \in RPages /\ r \in DOMAIN sizes /\ DOMAIN sizes \subseteq Addrs
  BY DEF IsMap
<1>3. ASSUME NEW q \in RPages
      PROVE  \A g \in DOMAIN hashes : hashes[g] = q => g \in Hashes
  BY NullIsNoPage
<1>4. \A g \in DOMAIN hashes : hashes[g] = r => g = h
  BY <1>1, <1>3
<1>5. NameOf(sizes, hashes, r) = FileOf(h)
  BY <1>4 DEF NameOf
<1>6. ASSUME NEW q \in DOMAIN sizes, NameOf(sizes, hashes, q) = FileOf(h), q # NULL
      PROVE  q = r
  <2> DEFINE names == {g \in DOMAIN hashes : hashes[g] = q}
             some  == CHOOSE g \in names : TRUE
  <2>1. q \in RPages
    BY <1>1, <1>6 DEF Addrs
  <2>2. names # {}
    <3> SUFFICES ASSUME names = {} PROVE FALSE
      OBVIOUS
    <3>1. PICK k : NameOf(sizes, hashes, q) = <<"unknown_", k>>
      BY DEF NameOf
    <3>2. NameOf(sizes, hashes, q) = <<"file of", h>>
      BY <1>6, FileNames
    <3> QED  BY <3>1, <3>2, FileNames
  <2>3. some \in names /\ NameOf(sizes, hashes, q) = FileOf(some)
    BY <2>2 DEF NameOf
  <2>4. some \in Hashes /\ hashes[some] = q
    BY <1>3, <2>1, <2>3
  <2> HIDE DEF some
  <2>5. some = h
    BY <1>6, <2>3, <2>4, FileNames
  <2> QED  BY <2>4, <2>5
<1>7. Written(sizes, hashes, FileOf(h)) = r
  <2> DEFINE x == Written(sizes, hashes, FileOf(h))
  <2>1. /\ x \in DOMAIN sizes /\ NameOf(sizes, hashes, x) = FileOf(h)
        /\ \A q \in DOMAIN sizes : NameOf(sizes, hashes, q) = FileOf(h) => q <= x
    BY <1>1, <1>5, WrittenLast
  <2>2. r <= x /\ r \in Nat \ {0}
    BY <1>1, <1>5, <2>1, StoreAssumption
  <2> HIDE DEF x
  <2>3. x # NULL
    BY <2>2 DEF NULL
  <2> QED  BY <1>6, <2>1, <2>3 DEF x
<1> DEFINE files == {NameOf(sizes, hashes, q) : q \in DOMAIN sizes}
<1>8. Saved(sizes, hashes) =
          [f \in DOMAIN disk \cup files |->
              IF f \in files THEN sizes[Written(sizes, hashes, f)] ELSE disk[f]]
  BY DEF Saved
<1>9. FileOf(h) \in files
  BY <1>1, <1>5
<1> HIDE DEF files
<1> QED  BY <1>7, <1>8, <1>9

\* A backup between packets, in the middle of ALLOC_HASH, or of DEALLOC_HASH.
LEMMA SignalWrites ==
    ASSUME Sound, ~breach', Next, up = "up", up' = "quitting"
    PROVE  \/ disk' = Saved(data_size_map, hash_map)
           \/ \E h \in Hashes, r \in RPages :
                 /\ disk' = Saved(data_size_map, Insert(hash_map, h, r))
                 /\ r \notin DOMAIN arena
           \/ \E h \in DOMAIN hash_map \cap Hashes :
                 /\ disk' = Saved(Erase(data_size_map, hash_map[h]), hash_map)
                 /\ DOMAIN hash_map' = DOMAIN hash_map \ {h}
<1>1. CASE Packet
  <2>1. ASSUME NEW c \in Clients, NEW n \in 1..MaxLen, NEW r \in Addrs, Alloc(c, n, r)
        PROVE  FALSE
    BY <2>1 DEF Alloc, processVars
  <2>2. ASSUME NEW c \in Clients, NEW r \in RPages, Dealloc(c, r)
        PROVE  FALSE
    BY <2>2 DEF Dealloc, Abort, processVars
  <2>3. ASSUME NEW c \in Clients, NEW h \in Hashes, NEW n \in 1..MaxLen, NEW r \in Addrs,
               AllocHash(c, h, n, r)
        PROVE  \/ disk' = Saved(data_size_map, hash_map)
               \/ /\ disk' = Saved(data_size_map, Insert(hash_map, h, r))
                  /\ r \in RPages /\ r \notin DOMAIN arena
    <3>1. /\ h \in DOMAIN hash_map => Reusable(h, n)
          /\ ALLOC_HASH(h, n, r)
          /\ disk' = Saved(data_size_map, hash_map')
      BY <2>3 DEF AllocHash, Breaches, Midway, Signal, processVars, Abort
    <3>2. CASE h \in DOMAIN hash_map
      BY <3>1, <3>2 DEF ALLOC_HASH, slaveVars
    <3>3. CASE h \notin DOMAIN hash_map
      <4>1. /\ r \in RPages
            /\ Extent(r, n) \subseteq RPages \ InUse
            /\ hash_map' = Insert(hash_map, h, r)
        BY <3>1, <3>3 DEF ALLOC_HASH, Reusable, InUse
      <4>2. r \notin DOMAIN arena
        BY <4>1, FreePages, Lengths DEF Sound, TypeOK
      <4> QED  BY <3>1, <4>1, <4>2
    <3> QED  BY <3>2, <3>3
  <2>4. ASSUME NEW c \in Clients, NEW h \in Hashes, DeallocHash(c, h)
        PROVE  \/ disk' = Saved(data_size_map, hash_map)
               \/ /\ h \in DOMAIN hash_map
                  /\ disk' = Saved(Erase(data_size_map, hash_map[h]), hash_map)
                  /\ DOMAIN hash_map' = DOMAIN hash_map \ {h}
    <3>1. DEALLOC_HASH(h) /\ disk' = Saved(data_size_map', hash_map)
      BY <2>4 DEF DeallocHash, Midway, Signal, processVars, Abort
    <3> QED  BY <3>1 DEF DEALLOC_HASH, slaveVars, Erase
  <2> QED  BY <1>1, <2>1, <2>2, <2>3, <2>4 DEF Packet
<1>2. CASE Clocks
  BY <1>2 DEF Clocks, Start, Silence, Timeout, processVars
<1>3. CASE user_callback_function
  BY <1>3 DEF user_callback_function, Find, Free, Forget, Done, Abort, processVars
<1>4. CASE Backup
  BY <1>4 DEF Backup, Signal
<1>5. CASE Restart
  BY <1>5 DEF Restart
<1> QED  BY <1>1, <1>2, <1>3, <1>4, <1>5 DEF Next

\* Up to the first breach, a backup holds every hash that has been given out and
\* is not being given up, with the size of its block, at whatever point of a
\* packet the signal comes, and whatever was in the files and the books before
\* (signal_handler(), backup()).
THEOREM BackupHoldsHashes == Spec => [][breach' \/ HashesWritten]_vars
<1>1. ASSUME Sound, [Next]_vars
      PROVE  [breach' \/ HashesWritten]_vars
  <2> SUFFICES ASSUME ~breach', up = "up", up' = "quitting", Next,
                      NEW h \in DOMAIN hash_map \cap DOMAIN hash_map' \cap Hashes
               PROVE  /\ FileOf(h) \in DOMAIN disk'
                      /\ disk'[FileOf(h)] = arena[hash_map[h]]
    BY <1>1 DEF HashesWritten
  <2>1. /\ hash_map[h] \in DOMAIN arena /\ hash_map[h] \in RPages
        /\ hash_map[h] \in DOMAIN data_size_map
        /\ data_size_map[hash_map[h]] = arena[hash_map[h]]
        /\ \A g \in DOMAIN hash_map \cap Hashes : hash_map[g] = hash_map[h] => g = h
        /\ \A f \in DOMAIN hash_map \ Hashes : hash_map[f] = NULL
        /\ IsMap(data_size_map, Addrs, Nat \ {0})
    <3>1. hash_map[h] \in DOMAIN arena /\ hash_map[h] \in DOMAIN data_size_map
      BY <1>1, HashedIsBacked
    <3> QED  BY <1>1, <3>1 DEF Sound, Books, HashesBacked, Recorded, FilesSound, TypeOK, IsMap
  <2>2. CASE disk' = Saved(data_size_map, hash_map)
    BY <2>1, <2>2, FileOfHash
  <2>3. ASSUME NEW g \in Hashes, NEW r \in RPages, r \notin DOMAIN arena,
               disk' = Saved(data_size_map, Insert(hash_map, g, r))
        PROVE  /\ FileOf(h) \in DOMAIN disk'
               /\ disk'[FileOf(h)] = arena[hash_map[h]]
    <3> DEFINE hashes == Insert(hash_map, g, r)
    <3>1. /\ h \in DOMAIN hashes \cap Hashes /\ hashes[h] = hash_map[h]
          /\ \A f \in DOMAIN hashes \ Hashes : hashes[f] = NULL
          /\ \A f \in DOMAIN hashes \cap Hashes : hashes[f] = hashes[h] => f = h
      BY <2>1, <2>3 DEF Insert
    <3> HIDE DEF hashes
    <3>2. /\ FileOf(h) \in DOMAIN Saved(data_size_map, hashes)
          /\ Saved(data_size_map, hashes)[FileOf(h)] = data_size_map[hashes[h]]
      BY <2>1, <3>1, FileOfHash
    <3> QED  BY <2>1, <2>3, <3>1, <3>2 DEF hashes
  <2>4. ASSUME NEW g \in DOMAIN hash_map \cap Hashes, DOMAIN hash_map' = DOMAIN hash_map \ {g},
               disk' = Saved(Erase(data_size_map, hash_map[g]), hash_map)
        PROVE  /\ FileOf(h) \in DOMAIN disk'
               /\ disk'[FileOf(h)] = arena[hash_map[h]]
    <3> DEFINE sizes == Erase(data_size_map, hash_map[g])
    <3>1. h # g /\ hash_map[g] # hash_map[h]
      BY <2>1, <2>4
    <3>2. /\ hash_map[h] \in DOMAIN sizes /\ sizes[hash_map[h]] = data_size_map[hash_map[h]]
      BY <2>1, <3>1 DEF Erase
    <3>3. IsMap(sizes, Addrs, Nat \ {0})
      BY <2>1, EraseIsMap
    <3> HIDE DEF sizes
    <3>4. /\ FileOf(h) \in DOMAIN Saved(sizes, hash_map)
          /\ Saved(sizes, hash_map)[FileOf(h)] = sizes[hash_map[h]]
      BY <2>1, <3>2, <3>3, FileOfHash
    <3> QED  BY <2>1, <2>4, <3>2, <3>4 DEF sizes
  <2> QED  BY <1>1, <2>2, <2>3, <2>4, SignalWrites
<1>2. ASSUME breach, [Next]_vars
      PROVE  [breach' \/ HashesWritten]_vars
  BY <1>2, BreachStays
<1> QED  BY <1>1, <1>2, SoundAlways, PTL DEF Spec

-----------------------------------------------------------------------------
(* What silent clients leave is cleared up                                 *)

\* As long as the slave itself does not stop: a timeout runs for whoever has a
\* process, what a client was lent is listed under it, and the callback has
\* taken up the whole list.
Cleared ==
    /\ up = "up"
    /\ live \subseteq watched
    /\ \A r \in DOMAIN lent, c \in Clients \ (watched \cup {cb.uuid}) : lent[r] # LeftBy(c)
    /\ \A r \in DOMAIN lent, c \in Clients \ {cb.uuid} : lent[r] \in {LentTo(c), LeftBy(c)} =>
          c \in DOMAIN uuid_memory_map /\ r \in uuid_memory_map[c]
    /\ \A r \in DOMAIN lent : cb.stage # "idle" /\ lent[r] = LeftBy(cb.uuid) => r \in ToClear

\* A step that lends nothing to a client and takes no client's list away.
LEMMA ClearedStays ==
    ASSUME Cleared, cb.stage = "idle", UNCHANGED <<watched, live, cb, uuid_memory_map>>, up' = "up",
           \A r \in DOMAIN lent', c \in Clients :
               lent'[r] \in {LentTo(c), LeftBy(c)} => r \in DOMAIN lent /\ lent[r] = lent'[r]
    PROVE  Cleared'
<1>1. ASSUME NEW r \in DOMAIN lent', NEW c \in Clients \ (watched \cup {cb.uuid})
      PROVE  lent'[r] # LeftBy(c)
  BY <1>1 DEF Cleared
<1>2. ASSUME NEW r \in DOMAIN lent', NEW c \in Clients \ {cb.uuid},
             lent'[r] \in {LentTo(c), LeftBy(c)}
      PROVE  c \in DOMAIN uuid_memory_map /\ r \in uuid_memory_map[c]
  <2>1. r \in DOMAIN lent /\ lent[r] \in {LentTo(c), LeftBy(c)}
    BY <1>2
  <2> QED  BY <1>2, <2>1 DEF Cleared
<1> QED  BY <1>1, <1>2 DEF Cleared

LEMMA PacketClears ==
    ASSUME "stop" \notin Ops, Sound, ~breach', Sound', Cleared, Packet
    PROVE  Cleared'
<1>1. /\ cb.stage = "idle" /\ cb' = cb /\ cb.uuid = NoClient /\ ToClear' = {}
      /\ up' = "up" /\ UNCHANGED <<watched, live>>
  <2>1. cb.stage = "idle"
    BY DEF Packet, Alloc, Dealloc, AllocHash, DeallocHash, Breaches, Beside
  <2>2. cb' = cb /\ up' \in {up, "aborted"} /\ UNCHANGED <<watched, live>>
    BY <2>1 DEF Packet, Alloc, Dealloc, AllocHash, DeallocHash, Abort, Invalidated, clientVars,
                processVars, Midway, Signal
  <2> QED  BY <2>1, <2>2, AtRest DEF Sound, NoDoubleFree, Cleared, ToClear
<1>2. ASSUME NEW c \in Clients, NEW n \in 1..MaxLen, NEW r \in Addrs, Alloc(c, n, r)
      PROVE  Cleared'
  <2>1. /\ c \in live
        /\ lent' = IF r = NULL THEN lent ELSE Assign(lent, r, LentTo(c))
        /\ uuid_memory_map' = Assign(uuid_memory_map, c,
             {r} \cup IF c \in DOMAIN uuid_memory_map THEN uuid_memory_map[c] ELSE {})
    BY <1>2 DEF Alloc
  <2>2. ASSUME NEW q \in DOMAIN lent'
        PROVE  \/ q = r /\ lent'[q] = LentTo(c)
               \/ q \in DOMAIN lent /\ lent'[q] = lent[q]
    BY <2>1 DEF Assign
  <2>3. /\ \A d \in DOMAIN uuid_memory_map : d \in DOMAIN uuid_memory_map'
                                             /\ uuid_memory_map[d] \subseteq uuid_memory_map'[d]
        /\ c \in DOMAIN uuid_memory_map' /\ r \in uuid_memory_map'[c]
    BY <2>1 DEF Assign
  <2>4. ASSUME NEW q \in DOMAIN lent', NEW d \in Clients \ (watched' \cup {cb'.uuid})
        PROVE  lent'[q] # LeftBy(d)
    BY <1>1, <2>2, HoldersDiffer DEF Cleared
  <2>5. ASSUME NEW q \in DOMAIN lent', NEW d \in Clients \ {cb'.uuid},
               lent'[q] \in {LentTo(d), LeftBy(d)}
        PROVE  d \in DOMAIN uuid_memory_map' /\ q \in uuid_memory_map'[d]
    BY <1>1, <2>2, <2>3, <2>5, HoldersDiffer DEF Cleared
  <2> QED  BY <1>1, <2>4, <2>5 DEF Cleared
<1>3. ASSUME NEW c \in Clients, NEW r \in RPages, Dealloc(c, r)
      PROVE  Cleared'
  <2>1. lent' \in {lent, Erase(lent, r)} /\ UNCHANGED uuid_memory_map
    BY <1>3 DEF Dealloc, Abort, GivenBack
  <2>2. \A q \in DOMAIN lent' : q \in DOMAIN lent /\ lent'[q] = lent[q]
    BY <2>1 DEF Erase
  <2> QED  BY <1>1, <2>1, <2>2, ClearedStays
<1>4. ASSUME NEW c \in Clients, NEW h \in Hashes, NEW n \in 1..MaxLen, NEW r \in Addrs,
             AllocHash(c, h, n, r)
      PROVE  Cleared'
  <2>1. /\ \/ lent' = lent
           \/ lent' = Assign(lent, r, Hashed)
           \/ lent' = Assign(Erase(lent, hash_map[h]), r, Hashed)
        /\ UNCHANGED uuid_memory_map
    BY <1>4 DEF AllocHash, Abort, GivenBack
  <2>2. \A q \in DOMAIN lent' : lent'[q] # Hashed => q \in DOMAIN lent /\ lent'[q] = lent[q]
    <3>1. ASSUME NEW m, \A q \in DOMAIN m : q \in DOMAIN lent /\ m[q] = lent[q],
                 lent' = Assign(m, r, Hashed)
          PROVE  \A q \in DOMAIN lent' : lent'[q] # Hashed => q \in DOMAIN lent /\ lent'[q] = lent[q]
      BY <3>1 DEF Assign
    <3>2. \A q \in DOMAIN Erase(lent, hash_map[h]) :
              q \in DOMAIN lent /\ Erase(lent, hash_map[h])[q] = lent[q]
      BY DEF Erase
    <3> QED  BY <2>1, <3>1, <3>2
  <2> QED  BY <1>1, <2>1, <2>2, HoldersDiffer, ClearedStays
<1>5. ASSUME NEW c \in Clients, NEW h \in Hashes, DeallocHash(c, h)
      PROVE  Cleared'
  <2>1. lent' \in {lent, Erase(lent, hash_map[h])} /\ UNCHANGED uuid_memory_map
    BY <1>5 DEF DeallocHash, Abort, GivenBack
  <2>2. \A q \in DOMAIN lent' : q \in DOMAIN lent /\ lent'[q] = lent[q]
    BY <2>1 DEF Erase
  <2> QED  BY <1>1, <2>1, <2>2, ClearedStays
<1> QED  BY <1>2, <1>3, <1>4, <1>5 DEF Packet

LEMMA ClocksClear ==
    ASSUME Sound, Cleared, Clocks
    PROVE  Cleared'
<1>1. ASSUME NEW c \in Clients, Start(c)
      PROVE  Cleared'
  BY <1>1 DEF Start, Cleared, ToClear, processVars
<1>2. ASSUME NEW c \in Clients, Silence(c)
      PROVE  Cleared'
  <2>1. /\ c \in live /\ live' = live \ {c} /\ c # cb.uuid
        /\ lent' = [r \in DOMAIN lent |-> IF lent[r] = LentTo(c) THEN LeftBy(c) ELSE lent[r]]
        /\ UNCHANGED <<uuid_memory_map, cb, watched, up>>
    BY <1>2 DEF Silence, Sound, Walking, processVars
  <2>2. c \in watched
    BY <2>1 DEF Cleared
  <2>3. DOMAIN lent' = DOMAIN lent
    BY <2>1
  <2>4. ASSUME NEW r \in DOMAIN lent
        PROVE  \/ lent[r] = LentTo(c) /\ lent'[r] = LeftBy(c)
               \/ lent[r] # LentTo(c) /\ lent'[r] = lent[r]
    BY <2>1
  <2>5. ASSUME NEW r \in DOMAIN lent', NEW d \in Clients \ (watched' \cup {cb'.uuid})
        PROVE  lent'[r] # LeftBy(d)
    BY <2>1, <2>2, <2>3, <2>4, HoldersDiffer DEF Cleared
  <2>6. ASSUME NEW r \in DOMAIN lent', NEW d \in Clients \ {cb'.uuid},
               lent'[r] \in {LentTo(d), LeftBy(d)}
        PROVE  d \in DOMAIN uuid_memory_map' /\ r \in uuid_memory_map'[d]
    <3>1. lent[r] \in {LentTo(d), LeftBy(d)}
      BY <2>3, <2>4, <2>6, HoldersDiffer
    <3> QED  BY <2>1, <2>3, <2>6, <3>1 DEF Cleared
  <2>7. ASSUME NEW r \in DOMAIN lent', cb'.stage # "idle", lent'[r] = LeftBy(cb'.uuid)
        PROVE  r \in ToClear'
    <3>1. lent[r] = LeftBy(cb.uuid)
      BY <2>1, <2>3, <2>4, <2>7, HoldersDiffer
    <3>2. r \in ToClear
      BY <2>1, <2>3, <2>7, <3>1 DEF Cleared
    <3> QED  BY <2>1, <3>2 DEF ToClear
  <2>8. up' = "up" /\ live' \subseteq watched'
    BY <2>1 DEF Cleared
  <2> QED  BY <2>5, <2>6, <2>7, <2>8 DEF Cleared
<1>3. ASSUME NEW c \in Clients, Timeout(c)
      PROVE  Cleared'
  <2>1. /\ cb.stage = "idle" /\ c \in watched \ live /\ watched' = watched \ {c}
        /\ UNCHANGED <<uuid_memory_map, live, lent, up>>
    BY <1>3 DEF Timeout, processVars
  <2>2. cb = Idle /\ cb.uuid = NoClient /\ NoClient \notin Clients
    BY <2>1, AtRest DEF Sound
  <2>3. CASE c \notin DOMAIN uuid_memory_map
    <3>1. cb' = cb
      BY <1>3, <2>3 DEF Timeout
    <3>2. \A r \in DOMAIN lent : lent[r] # LeftBy(c)
      BY <2>2, <2>3 DEF Cleared
    <3> QED  BY <2>1, <2>2, <3>1, <3>2 DEF Cleared
  <2>4. CASE c \in DOMAIN uuid_memory_map
    <3>1. cb'.uuid = c /\ cb'.stage = "walk" /\ cb'.todo = uuid_memory_map[c]
      BY <1>3, <2>4 DEF Timeout, Idle
    <3>2. ToClear' = uuid_memory_map[c]
      BY <3>1 DEF ToClear
    <3>3. \A r \in DOMAIN lent : lent[r] = LeftBy(c) => r \in uuid_memory_map[c]
      BY <2>2 DEF Cleared
    <3> QED  BY <2>1, <2>2, <3>1, <3>2, <3>3 DEF Cleared
  <2> QED  BY <2>3, <2>4
<1> QED  BY <1>1, <1>2, <1>3 DEF Clocks

LEMMA CallbackClears ==
    ASSUME Sound, ~breach', Sound', Cleared, user_callback_function
    PROVE  Cleared'
<1>1. CASE Find
  <2>1. /\ cb.stage = "walk"
        /\ UNCHANGED <<uuid_memory_map, watched, live, lent, up>>
    BY <1>1 DEF Find, clientVars, processVars
  <2>2. PICK r \in cb.todo :
          cb' = IF r \in DOMAIN data_size_map
                THEN [cb EXCEPT !.todo = @ \ {r}, !.addr = r, !.stage = "found",
                                !.valid = TRUE]
                ELSE [cb EXCEPT !.todo = @ \ {r}]
    BY <1>1 DEF Find
  <2>3. /\ cb'.uuid = cb.uuid /\ cb'.todo = cb.todo \ {r}
        /\ \/ cb'.stage = "found" /\ cb'.addr = r
           \/ cb'.stage = "walk" /\ r \notin DOMAIN data_size_map
    BY <2>1, <2>2, CbType DEF Sound
  <2>4. ASSUME NEW q \in DOMAIN lent, lent[q] = LeftBy(cb.uuid)
        PROVE  q \in DOMAIN data_size_map
    <3>1. q \in DOMAIN arena /\ q \in RPages /\ lent[q] # Lost
      BY <2>4, HoldersDiffer DEF Sound, Books, Owned, TypeOK, IsMap
    <3> QED  BY <3>1 DEF Sound, Books, Recorded
  <2>5. ASSUME NEW q \in DOMAIN lent, lent[q] = LeftBy(cb.uuid)
        PROVE  q \in ToClear'
    BY <2>1, <2>3, <2>4, <2>5 DEF Cleared, ToClear
  <2> QED  BY <2>1, <2>3, <2>5 DEF Cleared
<1>2. CASE Free
  <2>1. cb.stage = "found" /\ up' # "aborted"
    BY <1>2 DEF Free, Sound, NoDoubleFree
  <2>2. /\ cb' = [cb EXCEPT !.stage = "freed"]
        /\ lent' = IF cb.addr \in DOMAIN lent /\ lent[cb.addr] = LeftBy(cb.uuid)
                   THEN Erase(lent, cb.addr) ELSE lent
        /\ UNCHANGED <<uuid_memory_map, watched, live, up>>
    BY <1>2, <2>1 DEF Free, Abort, GivenBack, Holds, clientVars, processVars
  <2>3. cb'.uuid = cb.uuid /\ cb'.todo = cb.todo /\ cb'.stage = "freed"
    BY <2>2, CbType DEF Sound
  <2>4. \A r \in DOMAIN lent' : r \in DOMAIN lent /\ lent'[r] = lent[r]
    BY <2>2 DEF Erase
  <2>5. ASSUME NEW r \in DOMAIN lent', lent'[r] = LeftBy(cb.uuid)
        PROVE  r \in ToClear'
    <3>1. r # cb.addr
      BY <2>2, <2>4, <2>5 DEF Erase
    <3> QED  BY <2>1, <2>3, <2>4, <2>5, <3>1 DEF Cleared, ToClear
  <2> QED  BY <2>2, <2>3, <2>4, <2>5 DEF Cleared
<1>3. CASE Forget
  <2>1. cb.stage = "freed" /\ up' # "aborted"
    BY <1>3 DEF Forget, Sound, NoDoubleFree
  <2>2. /\ cb' = [cb EXCEPT !.stage = "walk", !.addr = NULL]
        /\ UNCHANGED <<uuid_memory_map, watched, live, up, lent>>
    BY <1>3, <2>1 DEF Forget, Abort, clientVars, processVars
  <2>3. cb'.uuid = cb.uuid /\ cb'.todo = cb.todo /\ cb'.stage = "walk"
    BY <2>2, CbType DEF Sound
  <2> QED  BY <2>1, <2>2, <2>3 DEF Cleared, ToClear
<1>4. CASE Done
  <2>1. /\ cb.stage = "walk" /\ ToClear = {} /\ cb' = Idle
        /\ cb'.uuid = NoClient /\ cb'.stage = "idle" /\ NoClient \notin Clients
        /\ UNCHANGED <<watched, live, up, lent>>
    BY <1>4, SlaveAssumption DEF Done, ToClear, Idle, clientVars, processVars
  <2>2. /\ DOMAIN uuid_memory_map' = DOMAIN uuid_memory_map \ {cb.uuid}
        /\ \A d \in DOMAIN uuid_memory_map' : uuid_memory_map'[d] = uuid_memory_map[d]
    BY <1>4 DEF Done, Erase
  <2>3. cb.uuid \in Clients /\ cb.uuid \notin live
    BY <2>1 DEF Sound, Walking
  <2>4. \A r \in DOMAIN lent : lent[r] \notin {LentTo(cb.uuid), LeftBy(cb.uuid)}
    BY <2>1, <2>3 DEF Cleared, Sound, Leases
  <2> QED  BY <2>1, <2>2, <2>3, <2>4 DEF Cleared
<1> QED  BY <1>1, <1>2, <1>3, <1>4 DEF user_callback_function

LEMMA ClearedNext ==
    ASSUME Ops \cap {"stop", "crash"} = {}, Sound, ~breach', Sound', Cleared, [Next]_vars
    PROVE  Cleared'
<1>1. CASE Packet
  BY <1>1, PacketClears
<1>2. CASE Clocks
  BY <1>2, ClocksClear
<1>3. CASE user_callback_function
  BY <1>3, CallbackClears
<1>4. CASE Backup \/ Restart
  BY <1>4 DEF Backup, Signal, Restart, Cleared
<1>5. CASE UNCHANGED vars
  BY <1>5 DEF Cleared, ToClear, vars, clientVars, processVars
<1> QED  BY <1>1, <1>2, <1>3, <1>4, <1>5 DEF Next

\* Up to the first breach, and as long as the slave itself does not stop: once a
\* silent client's timeout has passed and its callback is done, nothing it left
\* behind is still allocated.
THEOREM NothingIsLeft ==
    ASSUME Ops \cap {"stop", "crash"} = {}
    PROVE  Spec => [](breach \/ ClearedUp)
<1>1. Init => (breach \/ Cleared)
  BY DEF Init, NoEntries, Idle, Cleared
<1>2. (breach \/ Sound) /\ (breach \/ Sound)' /\ (breach \/ Cleared) /\ [Next]_vars
        => (breach \/ Cleared)'
  BY ClearedNext, BreachStays
<1>3. Cleared => ClearedUp
  BY DEF Cleared, ClearedUp
<1> QED  BY <1>1, <1>2, <1>3, SoundAlways, PTL DEF Spec

-----------------------------------------------------------------------------
(* A slave lends memory                                                    *)

\* What is given is a block of free pages.
LEMMA Given ==
    ASSUME NEW r, NEW n, NEW who, Extent(r, n) \subseteq RPages \ InUse,
           arena' = Assign(arena, r, n), lent' = Assign(lent, r, who)
    PROVE  Lenders!Give(r, n, who)
<1>1. \A q \in DOMAIN arena : Extent(q, arena[q]) \subseteq InUse
  BY DEF InUse
<1>2. \A q \in DOMAIN arena : Extent(r, n) \cap Extent(q, arena[q]) = {}
  BY <1>1
<1>3. \A q, m : Lenders!At(q, m) = Extent(q, m)
  BY DEF Lenders!At, Extent
<1> QED  BY <1>2, <1>3 DEF Lenders!Give, Lenders!Assign, Assign

LEMMA Taken ==
    ASSUME NEW r, arena' = Erase(arena, r), lent' = Erase(lent, r)
    PROVE  Lenders!Take(r)
BY DEF Lenders!Take, Lenders!Erase, Erase

\* Whoever holds a block is called the same.
LEMMA SameHolders == \A c : Lenders!LentTo(c) = LentTo(c) /\ Lenders!LeftBy(c) = LeftBy(c)
BY DEF Lenders!LentTo, Lenders!LeftBy, LentTo, LeftBy

LEMMA AllocLends ==
    ASSUME Sound, ~breach', NEW c \in Clients, NEW n \in 1..MaxLen, NEW r \in Addrs,
           Alloc(c, n, r)
    PROVE  [Lenders!Next]_(Lenders!vars)
<1>1. /\ c \in live /\ UNCHANGED <<hash_map, live>>
      /\ IF Malloc(n) = {} THEN r = NULL ELSE r \in Malloc(n)
      /\ arena' = IF r = NULL THEN arena ELSE Assign(arena, r, n)
      /\ lent' = IF r = NULL THEN lent ELSE Assign(lent, r, LentTo(c))
  BY DEF Alloc, ALLOC, clientVars
<1>2. Named' = Named
  BY <1>1 DEF Named
<1>3. CASE r = NULL
  BY <1>1, <1>2, <1>3 DEF Lenders!vars
<1>4. CASE r # NULL
  <2>1. r \in RPages /\ Extent(r, n) \subseteq RPages \ InUse
    BY <1>1, <1>4 DEF Malloc
  <2>2. Lenders!Give(r, n, LentTo(c))
    BY <1>1, <1>4, <2>1, Given
  <2>3. Lenders!Lend(c)
    BY <1>1, <1>2, <2>1, <2>2, SameHolders DEF Lenders!Lend
  <2> QED  BY <2>3 DEF Lenders!Next
<1> QED  BY <1>3, <1>4

LEMMA DeallocReturns ==
    ASSUME Sound, ~breach', NEW c \in Clients, NEW r \in RPages, Dealloc(c, r)
    PROVE  [Lenders!Next]_(Lenders!vars)
<1>1. CASE r \notin DOMAIN data_size_map
  BY <1>1 DEF Dealloc, DEALLOC, slaveVars, Named, Lenders!vars
<1>2. CASE r \in DOMAIN data_size_map
  <2>1. c \in live /\ r \in DOMAIN lent /\ lent[r] = LentTo(c) /\ r \in DOMAIN arena
    BY <1>2 DEF Dealloc, Breaches, Holds, Sound, Books, Owned
  <2>2. /\ arena' = Erase(arena, r) /\ lent' = Erase(lent, r)
        /\ UNCHANGED <<hash_map, live>>
    BY <1>2, <2>1 DEF Dealloc, DEALLOC, Freeable, GivenBack, Holds
  <2>3. Named' = Named
    BY <2>2 DEF Named
  <2>4. Lenders!Return(c)
    BY <2>1, <2>2, <2>3, Taken, SameHolders DEF Lenders!Return
  <2> QED  BY <2>4 DEF Lenders!Next
<1> QED  BY <1>1, <1>2

LEMMA AllocHashNames ==
    ASSUME Sound, ~breach', NEW c \in Clients, NEW h \in Hashes, NEW n \in 1..MaxLen,
           NEW r \in Addrs, AllocHash(c, h, n, r)
    PROVE  [Lenders!Next]_(Lenders!vars)
<1>1. DOMAIN lent = DOMAIN arena /\ UNCHANGED live
  BY DEF AllocHash, Sound, Books, Owned, clientVars
<1>2. CASE h \in DOMAIN hash_map
  <2>1. /\ hash_map[h] \in DOMAIN arena /\ lent[hash_map[h]] = Hashed
        /\ hash_map[h] \in RPages
    BY <1>1, <1>2 DEF Sound, Books, HashesBacked, TypeOK, IsMap
  <2>2. Reusable(h, n)
    BY <1>2 DEF AllocHash, Breaches
  <2>3. UNCHANGED <<arena, hash_map>> /\ lent' = Assign(Erase(lent, hash_map[h]), hash_map[h], Hashed)
    BY <1>1, <1>2, <2>1, <2>2 DEF AllocHash, ALLOC_HASH, slaveVars, GivenBack, Holds
  <2>4. lent' = lent
    <3>1. IsMap(lent, RPages, Holders)
      BY DEF Sound, TypeOK, Holders
    <3>2. lent = [b \in DOMAIN lent |-> lent[b]]
      BY <3>1 DEF IsMap
    <3>3. /\ lent' = [b \in DOMAIN lent' |-> lent'[b]] /\ DOMAIN lent' = DOMAIN lent
          /\ \A b \in DOMAIN lent : lent'[b] = lent[b]
      BY <1>1, <2>1, <2>3 DEF Assign, Erase
    <3> QED  BY <3>2, <3>3
  <2> QED  BY <1>1, <2>3, <2>4 DEF Lenders!vars, Named
<1>3. CASE h \notin DOMAIN hash_map
  <2>1. ALLOC_HASH(h, n, r) /\ lent' = Assign(lent, r, Hashed)
    BY <1>3 DEF AllocHash
  <2>2. /\ r \in RPages /\ Extent(r, n) \subseteq RPages \ InUse
        /\ arena' = Assign(arena, r, n) /\ hash_map' = Insert(hash_map, h, r)
    BY <1>3, <2>1 DEF ALLOC_HASH, Reusable, InUse
  <2>3. Lenders!Give(r, n, Hashed)
    BY <2>1, <2>2, Given
  <2>4. Named' = Lenders!Assign(Named, h, r) /\ h \notin DOMAIN Named
    <3>1. DOMAIN Named = DOMAIN hash_map \cap Hashes /\ DOMAIN Named' = DOMAIN Named \cup {h}
      BY <1>3, <2>2 DEF Named, Insert
    <3> QED  BY <1>3, <2>2, <3>1 DEF Named, Insert, Lenders!Assign
  <2>5. Lenders!Name(h)
    BY <1>1, <2>2, <2>3, <2>4 DEF Lenders!Name
  <2> QED  BY <2>5 DEF Lenders!Next
<1> QED  BY <1>2, <1>3

LEMMA DeallocHashForgets ==
    ASSUME Sound, ~breach', NEW c \in Clients, NEW h \in Hashes, DeallocHash(c, h)
    PROVE  [Lenders!Next]_(Lenders!vars)
<1>1. CASE h \notin DOMAIN hash_map
  BY <1>1 DEF DeallocHash, DEALLOC_HASH, slaveVars, clientVars, Lenders!vars, Named
<1>2. CASE h \in DOMAIN hash_map
  <2>1. /\ hash_map[h] \in DOMAIN arena /\ hash_map[h] \in DOMAIN lent
        /\ lent[hash_map[h]] = Hashed
    BY <1>2 DEF Sound, Books, Owned, HashesBacked
  <2>2. /\ arena' = Erase(arena, hash_map[h]) /\ lent' = Erase(lent, hash_map[h])
        /\ hash_map' = Erase(hash_map, h) /\ UNCHANGED live
    BY <1>2, <2>1 DEF DeallocHash, DEALLOC_HASH, Freeable, GivenBack, Holds, clientVars
  <2>3. h \in DOMAIN Named /\ Named[h] = hash_map[h] /\ Named' = Lenders!Erase(Named, h)
    <3>1. DOMAIN Named = DOMAIN hash_map \cap Hashes /\ DOMAIN Named' = DOMAIN Named \ {h}
      BY <2>2 DEF Named, Erase
    <3> QED  BY <1>2, <2>2, <3>1 DEF Named, Erase, Lenders!Erase
  <2>4. Lenders!Forget(h)
    BY <2>1, <2>2, <2>3, Taken DEF Lenders!Forget
  <2> QED  BY <2>4 DEF Lenders!Next
<1> QED  BY <1>1, <1>2

\* The callback frees only what its client has left, and it is still silent.
LEMMA FreeClears ==
    ASSUME Sound, ~breach', Free
    PROVE  [Lenders!Next]_(Lenders!vars)
<1>1. cb.uuid \in Clients /\ cb.uuid \notin live
  BY DEF Free, Sound, Walking
<1>2. /\ cb.addr # NULL => cb.addr \in DOMAIN lent /\ lent[cb.addr] = LeftBy(cb.uuid)
      /\ DOMAIN lent = DOMAIN arena /\ DOMAIN arena \subseteq RPages
      /\ IsMap(arena, RPages, Nat \ {0})
  BY DEF Free, Breaches, Holds, Sound, Books, Owned, TypeOK, IsMap
<1>3. /\ arena' = Erase(arena, cb.addr)
      /\ lent' = IF cb.addr \in DOMAIN lent /\ lent[cb.addr] = LeftBy(cb.uuid)
                 THEN Erase(lent, cb.addr) ELSE lent
      /\ UNCHANGED <<hash_map, live>>
  BY <1>2 DEF Free, Freeable, GivenBack, Holds, clientVars
<1>4. Named' = Named
  BY <1>3 DEF Named
<1>5. CASE cb.addr = NULL
  <2>1. cb.addr \notin DOMAIN arena
    BY <1>2, <1>5, NullIsNoPage
  <2>2. arena' = arena
    BY <1>2, <1>3, <2>1 DEF Erase, IsMap
  <2> QED  BY <1>2, <1>3, <1>4, <2>1, <2>2 DEF Lenders!vars
<1>6. CASE cb.addr # NULL
  <2>1. Lenders!Clear(cb.uuid)
    BY <1>1, <1>2, <1>3, <1>4, <1>6, Taken, SameHolders DEF Lenders!Clear
  <2> QED  BY <1>1, <2>1 DEF Lenders!Next
<1> QED  BY <1>5, <1>6

\* What restore() allocates is apart, whoever will know of it.
LEMMA RestartForgets ==
    ASSUME Sound, Restart
    PROVE  [Lenders!Next]_(Lenders!vars)
<1>1. PICK p \in Placements :
          LET placed == {p[f] : f \in DOMAIN disk} \ {NULL}
          IN  /\ arena' = [r \in placed |-> disk[CHOOSE f \in DOMAIN disk : p[f] = r]]
              /\ lent' = [r \in placed |-> Lost]
  BY DEF Restart
<1> DEFINE placed == {p[f] : f \in DOMAIN disk} \ {NULL}
           file(r) == CHOOSE f \in DOMAIN disk : p[f] = r
<1>2. /\ DOMAIN arena' = placed /\ DOMAIN lent' = placed
      /\ \A r \in placed : lent'[r] = Lost /\ arena'[r] = disk[file(r)]
  BY <1>1
<1>3. \A r \in placed : file(r) \in DOMAIN disk /\ p[file(r)] = r /\ r # NULL
  OBVIOUS
<1>4. /\ \A f \in DOMAIN disk : p[f] # NULL => Extent(p[f], disk[f]) \subseteq RPages
      /\ \A f, g \in DOMAIN disk : f # g /\ p[f] # NULL /\ p[g] # NULL =>
            Extent(p[f], disk[f]) \cap Extent(p[g], disk[g]) = {}
  BY DEF Placements
<1> HIDE DEF placed, file
<1>5. Lenders!Apart(arena')
  <2>1. ASSUME NEW r \in placed
        PROVE  Extent(r, arena'[r]) \subseteq RPages
    BY <1>2, <1>3, <1>4
  <2>2. ASSUME NEW r \in placed, NEW q \in placed, q # r
        PROVE  Extent(r, arena'[r]) \cap Extent(q, arena'[q]) = {}
    <3>1. file(r) # file(q)
      BY <1>3, <2>2
    <3> QED  BY <1>2, <1>3, <1>4, <3>1
  <2>3. \A q, m : Lenders!At(q, m) = Extent(q, m)
    BY DEF Lenders!At, Extent
  <2> QED  BY <1>2, <2>1, <2>2, <2>3 DEF Lenders!Apart
<1>6. Named' = Lenders!NoEntries
  <2>1. DOMAIN hash_map' \cap Hashes = {}
    BY DEF Restart, Sound, Books, FilesSound, FilesNamed
  <2> QED  BY <2>1 DEF Named, Lenders!NoEntries
<1>7. UNCHANGED live
  BY DEF Restart
<1>8. Lenders!Restart
  BY <1>2, <1>5, <1>6, <1>7 DEF Lenders!Restart
<1> QED  BY <1>8 DEF Lenders!Next

\* Up to the first breach, a block changes hands only as Lending has it, for every heap, any clients and
\* hashes, and however timeouts, packets, stops and crashes follow each other:
\* what the callback frees was left by the client it runs for, which has not come
\* back; what is lent is apart from everything held; and a hash keeps its block
\* until it is given up or the slave begins again (hpc_slave.cpp:469-491, the
\* cases of l2fwd_simple_forward(), and restore()).
THEOREM SlaveLends ==
    Spec => Lenders!Init /\ [][breach' \/ Lenders!Next]_(Lenders!vars)
<1>1. Init => Lenders!Init
  BY DEF Init, SlaveInit, Named, NoEntries, Lenders!Init, Lenders!NoEntries
<1>2. (breach \/ Sound) /\ [Next]_vars => [breach' \/ Lenders!Next]_(Lenders!vars)
  <2> SUFFICES ASSUME Sound, ~breach', [Next]_vars
               PROVE  [Lenders!Next]_(Lenders!vars)
    BY BreachStays
  <2>1. CASE Packet
    BY <2>1, AllocLends, DeallocReturns, AllocHashNames, DeallocHashForgets DEF Packet
  <2>2. CASE \E c \in Clients : Start(c) \/ Silence(c)
    <3>1. PICK c \in Clients : Start(c) \/ Silence(c)
      BY <2>2
    <3>2. Named' = Named /\ UNCHANGED arena
      BY <3>1 DEF Start, Silence, Named, slaveVars
    <3>3. Lenders!Start(c) \/ Lenders!Silence(c)
      BY <3>1, <3>2, SameHolders DEF Start, Silence, Lenders!Start, Lenders!Silence
    <3> QED  BY <3>3 DEF Lenders!Next
  <2>3. CASE Free
    BY <2>3, FreeClears
  <2>4. CASE Restart
    BY <2>4, RestartForgets
  <2>5. CASE (\E c \in Clients : Timeout(c)) \/ Find \/ Forget \/ Done \/ Backup \/ UNCHANGED vars
    <3>1. UNCHANGED <<arena, lent, hash_map, live>>
      BY <2>5 DEF Timeout, Find, Forget, Done, Backup, Abort, vars, slaveVars, clientVars
    <3> QED  BY <3>1 DEF Lenders!vars, Named
  <2> QED  BY <2>1, <2>2, <2>3, <2>4, <2>5 DEF Next, Clocks, user_callback_function
<1> QED  BY <1>1, <1>2, SoundAlways, PTL DEF Spec

-----------------------------------------------------------------------------
(* Where there is no breach                                                *)

\* Packets and callbacks take turns; a program asks for a hash with the one
\* size; pointers do not outlive the lease or the slave they are from; and,
\* since the callback goes by a list that DEALLOC leaves alone, a program that
\* may fall silent gives nothing back before.
Tame ==
    /\ Overlap = FALSE
    /\ "resize" \notin Ops /\ "stale" \notin Ops
    /\ "silence" \in Ops => "dealloc" \notin Ops

\* Each hash has the one size, what clients hold they have been lent, and what
\* the callback will free was left by its client: it takes it from a list that
\* names only what the client was lent.
HashSizes == \A h \in DOMAIN hash_map \cap Hashes : arena[hash_map[h]] = HashLen
HeldLent == \A c \in Clients : \A r \in held[c] : Holds(LentTo(c), r)
Left == \A r \in ToClear \ {NULL} : Holds(LeftBy(cb.uuid), r)
Listed ==
    "dealloc" \notin Ops =>
        \A c \in DOMAIN uuid_memory_map \ {cb.uuid} : \A r \in uuid_memory_map[c] \ {NULL} :
            r \in DOMAIN lent /\ lent[r] \in {LentTo(c), LeftBy(c)}
Rules == HashSizes /\ HeldLent /\ Left /\ Listed

\* No step of a tame program is a breach.
LEMMA NoBreach ==
    ASSUME Tame, Sound, Rules, ~breach, [Next]_vars
    PROVE  ~breach'
<1>1. CASE Packet
  <2>1. cb.stage = "idle"
    BY <1>1 DEF Packet, Alloc, Dealloc, AllocHash, DeallocHash, Receives, Tame
  <2>2. ASSUME NEW c \in Clients, NEW r \in RPages, Dealloc(c, r)
        PROVE  ~breach'
    BY <2>1, <2>2 DEF Dealloc, Breaches, Beside, Rules, HeldLent
  <2>3. ASSUME NEW c \in Clients, NEW h \in Hashes, NEW n \in 1..MaxLen, NEW r \in Addrs,
               AllocHash(c, h, n, r)
        PROVE  ~breach'
    <3>1. n = HashLen
      BY <2>3 DEF AllocHash, Tame
    <3>2. ASSUME h \in DOMAIN hash_map
          PROVE  Reusable(h, n)
      <4>1. hash_map[h] \in DOMAIN arena /\ hash_map[h] \in DOMAIN data_size_map
        BY <3>2, HashedIsBacked
      <4> QED  BY <3>1, <3>2, <4>1 DEF Rules, HashSizes, Sound, Books, Recorded, Reusable
    <3> QED  BY <2>1, <2>3, <3>2 DEF AllocHash, Breaches, Beside
  <2> QED  BY <1>1, <2>1, <2>2, <2>3 DEF Packet, Alloc, DeallocHash, Breaches, Beside
<1>2. CASE Clocks \/ Backup \/ Restart \/ UNCHANGED vars
  BY <1>2 DEF Clocks, Start, Silence, Timeout, Backup, Restart, vars
<1>3. CASE user_callback_function
  <2>1. CASE Free
    BY <2>1 DEF Free, Breaches, Rules, Left, ToClear
  <2> QED  BY <1>3, <2>1 DEF user_callback_function, Find, Forget, Done
<1> QED  BY <1>1, <1>2, <1>3 DEF Next

\* What a packet leaves of the rules when nothing is being cleared.
LEMMA RulesAtRest ==
    ASSUME Sound', cb'.stage = "idle", HashSizes', HeldLent', Listed'
    PROVE  Rules'
<1>1. ToClear' = {}
  BY DEF Sound, Walking, Idle, ToClear
<1> QED  BY <1>1 DEF Rules, Left

LEMMA AllocRules ==
    ASSUME Tame, Sound, Sound', ~breach', Rules, NEW c \in Clients, NEW n \in 1..MaxLen,
           NEW r \in Addrs, Alloc(c, n, r)
    PROVE  Rules'
<1>1. /\ cb.stage = "idle" /\ cb' = cb /\ hash_map' = hash_map
      /\ arena' = IF r = NULL THEN arena ELSE Assign(arena, r, n)
      /\ lent' = IF r = NULL THEN lent ELSE Assign(lent, r, LentTo(c))
      /\ uuid_memory_map' = Assign(uuid_memory_map, c,
           {r} \cup IF c \in DOMAIN uuid_memory_map THEN uuid_memory_map[c] ELSE {})
      /\ held' = [held EXCEPT ![c] = @ \cup ({r} \ {NULL})]
  BY DEF Alloc, ALLOC, Breaches, Beside
<1>2. cb.uuid \notin Clients
  BY <1>1, AtRest DEF Sound
<1>3. r # NULL => r \notin DOMAIN arena
  <2>1. r # NULL => r \in Malloc(n)
    BY DEF Alloc, ALLOC
  <2> QED  BY <2>1, FreePages, Lengths DEF Malloc, Sound, TypeOK
<1>4. /\ \A b \in DOMAIN arena : b \in DOMAIN arena' /\ arena'[b] = arena[b]
      /\ \A b \in DOMAIN lent : b \in DOMAIN lent' /\ lent'[b] = lent[b]
      /\ r # NULL => r \in DOMAIN lent' /\ lent'[r] = LentTo(c)
  BY <1>1, <1>3 DEF Assign, Sound, Books, Owned
<1>5. HashSizes'
  BY <1>1, <1>4 DEF Rules, HashSizes, Sound, Books, HashesBacked
<1>6. HeldLent'
  <2> SUFFICES ASSUME NEW d \in Clients, NEW b \in held'[d]
               PROVE  b \in DOMAIN lent' /\ lent'[b] = LentTo(d)
    BY DEF HeldLent, Holds
  <2>1. held \in [Clients -> SUBSET RPages]
    BY DEF Sound, TypeOK
  <2>2. b \in held[d] \/ (d = c /\ b = r /\ r # NULL)
    BY <1>1, <2>1
  <2> QED  BY <1>4, <2>2 DEF Rules, HeldLent, Holds
<1>7. Listed'
  <2> SUFFICES ASSUME "dealloc" \notin Ops, NEW d \in DOMAIN uuid_memory_map',
                      NEW b \in uuid_memory_map'[d] \ {NULL}
               PROVE  b \in DOMAIN lent' /\ lent'[b] \in {LentTo(d), LeftBy(d)}
    BY DEF Listed
  <2>1. \/ d = c /\ b = r
        \/ d \in DOMAIN uuid_memory_map /\ b \in uuid_memory_map[d]
    BY <1>1 DEF Assign
  <2>2. DOMAIN uuid_memory_map \subseteq Clients
    BY DEF Sound, TypeOK, IsMap
  <2> QED  BY <1>2, <1>4, <2>1, <2>2 DEF Rules, Listed
<1> QED  BY <1>1, <1>5, <1>6, <1>7, RulesAtRest

\* A step at rest that gives back one block, of nobody else's.
LEMMA TakenRules ==
    ASSUME Sound, Sound', Rules, cb.stage = "idle", UNCHANGED <<cb, uuid_memory_map>>,
           NEW r, lent' = Erase(lent, r), arena' = Erase(arena, r),
           \A h \in DOMAIN hash_map' \cap Hashes : h \in DOMAIN hash_map /\ hash_map'[h] = hash_map[h],
           \A c \in Clients : held'[c] \subseteq held[c] \ {r},
           "dealloc" \notin Ops =>
               \A c \in DOMAIN uuid_memory_map : r \notin uuid_memory_map[c] \ {NULL}
    PROVE  Rules'
<1>1. \A b \in DOMAIN lent \ {r} : b \in DOMAIN lent' /\ lent'[b] = lent[b]
  BY DEF Erase
<1>2. HashSizes'
  <2> SUFFICES ASSUME NEW h \in DOMAIN hash_map' \cap Hashes
               PROVE  arena'[hash_map'[h]] = HashLen
    BY DEF HashSizes
  <2>1. hash_map'[h] \in DOMAIN arena'
    BY DEF Sound, Books, HashesBacked
  <2> QED  BY <2>1 DEF Erase, Rules, HashSizes
<1>3. HeldLent'
  BY <1>1 DEF Rules, HeldLent, Holds
<1>4. Listed'
  BY <1>1 DEF Rules, Listed
<1> QED  BY <1>2, <1>3, <1>4, RulesAtRest

LEMMA DeallocRules ==
    ASSUME Tame, Sound, Sound', ~breach', Rules, NEW c \in Clients, NEW r \in RPages,
           Dealloc(c, r)
    PROVE  Rules'
<1>1. /\ cb.stage = "idle" /\ "dealloc" \in Ops /\ r \in held[c]
      /\ held' = [held EXCEPT ![c] = @ \ {r}]
  BY DEF Dealloc, Breaches, Beside, Receives
<1>2. r \in DOMAIN lent /\ lent[r] = LentTo(c) /\ r \in DOMAIN arena
  BY <1>1 DEF Rules, HeldLent, Holds, Sound, Books, Owned
<1>3. r \in DOMAIN data_size_map
  BY <1>2, HoldersDiffer DEF Sound, Books, Recorded
<1>4. /\ arena' = Erase(arena, r) /\ lent' = Erase(lent, r)
      /\ UNCHANGED <<hash_map, cb, uuid_memory_map>>
  BY <1>1, <1>2, <1>3 DEF Dealloc, DEALLOC, Freeable, GivenBack, Holds, Invalidated
<1>5. ASSUME NEW d \in Clients
      PROVE  held'[d] \subseteq held[d] \ {r}
  <2>1. held \in [Clients -> SUBSET RPages]
    BY DEF Sound, TypeOK
  <2>2. CASE d = c
    BY <1>1, <2>1, <2>2
  <2>3. CASE d # c
    <3>1. held'[d] = held[d]
      BY <1>1, <2>1, <2>3
    <3>2. r \notin held[d]
      BY <1>2, <2>3, HoldersDiffer DEF Rules, HeldLent, Holds
    <3> QED  BY <3>1, <3>2
  <2> QED  BY <2>2, <2>3
<1> QED  BY <1>1, <1>4, <1>5, TakenRules

\* What a hash names is nobody's, and on no list.
LEMMA HashedUnlisted ==
    ASSUME Sound, Rules, cb.stage = "idle", NEW r \in DOMAIN lent, lent[r] = Hashed
    PROVE  /\ \A c \in Clients : r \notin held[c]
           /\ "dealloc" \notin Ops =>
                 \A c \in DOMAIN uuid_memory_map : r \notin uuid_memory_map[c] \ {NULL}
<1>1. \A c \in Clients : r \notin held[c]
  BY HoldersDiffer DEF Rules, HeldLent, Holds
<1>2. cb.uuid \notin Clients /\ DOMAIN uuid_memory_map \subseteq Clients
  BY AtRest DEF Sound, TypeOK, IsMap
<1>3. ASSUME "dealloc" \notin Ops, NEW c \in DOMAIN uuid_memory_map
      PROVE  r \notin uuid_memory_map[c] \ {NULL}
  BY <1>2, <1>3, HoldersDiffer DEF Rules, Listed
<1> QED  BY <1>1, <1>3

LEMMA AllocHashRules ==
    ASSUME Tame, Sound, Sound', ~breach', Rules, NEW c \in Clients, NEW h \in Hashes,
           NEW n \in 1..MaxLen, NEW r \in Addrs, AllocHash(c, h, n, r)
    PROVE  Rules'
<1>1. /\ cb.stage = "idle" /\ n = HashLen /\ held' = held /\ up' # "aborted"
      /\ h \in DOMAIN hash_map => Reusable(h, n)
  BY DEF AllocHash, Breaches, Beside, Tame, clientVars, Sound, NoDoubleFree
<1>2. /\ ALLOC_HASH(h, n, r) /\ UNCHANGED <<cb, uuid_memory_map>>
      /\ lent' = Assign(IF h \in DOMAIN hash_map THEN GivenBack(Hashed, hash_map[h])
                        ELSE lent, r, Hashed)
  BY <1>1 DEF AllocHash
<1>3. CASE h \in DOMAIN hash_map
  <2>1. /\ hash_map[h] \in DOMAIN arena /\ hash_map[h] \in DOMAIN lent
        /\ lent[hash_map[h]] = Hashed
    BY <1>3 DEF Sound, Books, Owned, HashesBacked
  <2>2. /\ r = hash_map[h] /\ UNCHANGED <<arena, hash_map>>
        /\ lent' = Assign(Erase(lent, r), r, Hashed)
    BY <1>1, <1>2, <1>3, <2>1 DEF ALLOC_HASH, slaveVars, GivenBack, Holds
  <2>3. \A b \in DOMAIN lent : b \in DOMAIN lent' /\ lent'[b] = lent[b]
    BY <2>1, <2>2 DEF Assign, Erase
  <2>4. HashSizes' /\ HeldLent' /\ Listed'
    BY <1>1, <1>2, <2>2, <2>3 DEF Rules, HashSizes, HeldLent, Holds, Listed
  <2> QED  BY <1>1, <1>2, <2>4, RulesAtRest
<1>4. CASE h \notin DOMAIN hash_map
  <2>1. /\ r \in RPages /\ Extent(r, n) \subseteq RPages \ InUse
        /\ arena' = Assign(arena, r, n) /\ hash_map' = Insert(hash_map, h, r)
        /\ lent' = Assign(lent, r, Hashed)
    BY <1>2, <1>4 DEF ALLOC_HASH, Reusable, InUse
  <2>2. r \notin DOMAIN arena
    BY <2>1, FreePages, Lengths DEF Sound, TypeOK
  <2>3. /\ \A b \in DOMAIN arena : b \in DOMAIN arena' /\ arena'[b] = arena[b]
        /\ \A b \in DOMAIN lent : b \in DOMAIN lent' /\ lent'[b] = lent[b]
        /\ arena'[r] = n
    BY <2>1, <2>2 DEF Assign, Sound, Books, Owned
  <2>4. HashSizes'
    BY <1>1, <1>4, <2>1, <2>3 DEF Insert, Rules, HashSizes, Sound, Books, HashesBacked
  <2>5. HeldLent' /\ Listed'
    BY <1>1, <1>2, <2>3 DEF Rules, HeldLent, Holds, Listed
  <2> QED  BY <1>1, <1>2, <2>4, <2>5, RulesAtRest
<1> QED  BY <1>3, <1>4

LEMMA DeallocHashRules ==
    ASSUME Tame, Sound, Sound', ~breach', Rules, NEW c \in Clients, NEW h \in Hashes,
           DeallocHash(c, h)
    PROVE  Rules'
<1>1. cb.stage = "idle" /\ held' = held /\ up' # "aborted"
  BY DEF DeallocHash, Breaches, Beside, clientVars, Sound, NoDoubleFree
<1>2. CASE h \notin DOMAIN hash_map
  <2>1. UNCHANGED <<cb, uuid_memory_map, lent, arena, hash_map>>
    BY <1>2 DEF DeallocHash, DEALLOC_HASH, slaveVars
  <2>2. HashSizes' /\ HeldLent' /\ Listed'
    BY <1>1, <2>1 DEF Rules, HashSizes, HeldLent, Holds, Listed
  <2> QED  BY <1>1, <2>1, <2>2, RulesAtRest
<1>3. CASE h \in DOMAIN hash_map
  <2>1. /\ hash_map[h] \in DOMAIN arena /\ hash_map[h] \in DOMAIN lent
        /\ lent[hash_map[h]] = Hashed
    BY <1>3 DEF Sound, Books, Owned, HashesBacked
  <2>2. /\ arena' = Erase(arena, hash_map[h]) /\ lent' = Erase(lent, hash_map[h])
        /\ hash_map' = Erase(hash_map, h) /\ UNCHANGED <<cb, uuid_memory_map>>
    BY <1>1, <1>3, <2>1 DEF DeallocHash, DEALLOC_HASH, Freeable, GivenBack, Holds, Invalidated
  <2>3. /\ \A g \in DOMAIN hash_map' \cap Hashes : g \in DOMAIN hash_map /\ hash_map'[g] = hash_map[g]
    BY <2>2 DEF Erase
  <2> QED  BY <1>1, <2>1, <2>2, <2>3, HashedUnlisted, TakenRules
<1> QED  BY <1>2, <1>3

LEMMA ClocksRules ==
    ASSUME Tame, Sound, Sound', Rules, Clocks
    PROVE  Rules'
<1>1. ASSUME NEW c \in Clients, Start(c)
      PROVE  Rules'
  BY <1>1 DEF Start, Rules, HashSizes, HeldLent, Holds, Left, Listed, ToClear, slaveVars
<1>2. ASSUME NEW c \in Clients, Silence(c)
      PROVE  Rules'
  <2>1. /\ c \in live /\ held' = [held EXCEPT ![c] = {}] /\ c # cb.uuid
        /\ lent' = [r \in DOMAIN lent |-> IF lent[r] = LentTo(c) THEN LeftBy(c) ELSE lent[r]]
        /\ UNCHANGED <<arena, hash_map, uuid_memory_map, cb>>
    BY <1>2 DEF Silence, Tame, slaveVars, Sound, Walking
  <2>2. ASSUME NEW r \in DOMAIN lent
        PROVE  r \in DOMAIN lent' /\ (\/ lent[r] = LentTo(c) /\ lent'[r] = LeftBy(c)
                                      \/ lent[r] # LentTo(c) /\ lent'[r] = lent[r])
    BY <2>1
  <2>3. HashSizes'
    BY <2>1 DEF Rules, HashSizes
  <2>4. HeldLent'
    <3> SUFFICES ASSUME NEW d \in Clients, NEW r \in held'[d]
                 PROVE  r \in DOMAIN lent' /\ lent'[r] = LentTo(d)
      BY DEF HeldLent, Holds
    <3>1. held \in [Clients -> SUBSET RPages]
      BY DEF Sound, TypeOK
    <3>2. d # c /\ r \in held[d]
      BY <2>1, <3>1
    <3> QED  BY <2>2, <3>2, HoldersDiffer DEF Rules, HeldLent, Holds
  <2>5. Left'
    <3> SUFFICES ASSUME NEW r \in ToClear \ {NULL}
                 PROVE  r \in DOMAIN lent' /\ lent'[r] = LeftBy(cb.uuid)
      BY <2>1 DEF Left, Holds, ToClear
    <3> QED  BY <2>2, HoldersDiffer DEF Rules, Left, Holds
  <2>6. Listed'
    <3> SUFFICES ASSUME "dealloc" \notin Ops, NEW d \in DOMAIN uuid_memory_map \ {cb.uuid},
                        NEW r \in uuid_memory_map[d] \ {NULL}
                 PROVE  r \in DOMAIN lent' /\ lent'[r] \in {LentTo(d), LeftBy(d)}
      BY <2>1 DEF Listed
    <3>1. r \in DOMAIN lent /\ lent[r] \in {LentTo(d), LeftBy(d)}
      BY DEF Rules, Listed
    <3> QED  BY <2>2, <3>1, HoldersDiffer
  <2> QED  BY <2>3, <2>4, <2>5, <2>6 DEF Rules
<1>3. ASSUME NEW c \in Clients, Timeout(c)
      PROVE  Rules'
  <2>1. /\ cb.stage = "idle" /\ c \in watched \ live /\ cb.uuid \notin Clients
        /\ UNCHANGED <<arena, hash_map, uuid_memory_map, lent, held>>
    BY <1>3, AtRest DEF Timeout, slaveVars, Sound
  <2>2. HashSizes' /\ HeldLent'
    BY <2>1 DEF Rules, HashSizes, HeldLent, Holds
  <2>3. Listed'
    BY <2>1 DEF Rules, Listed, Sound, TypeOK, IsMap
  <2>4. CASE c \notin DOMAIN uuid_memory_map
    <3>1. cb' = cb
      BY <1>3, <2>4 DEF Timeout
    <3> QED  BY <2>1, <2>2, <2>3, <3>1, RulesAtRest
  <2>5. CASE c \in DOMAIN uuid_memory_map
    <3>1. cb'.uuid = c /\ ToClear' = uuid_memory_map[c]
      BY <1>3, <2>5 DEF Timeout, Idle, ToClear
    <3>2. "dealloc" \notin Ops
      BY <2>1 DEF Tame, Sound, Walking
    <3>3. ASSUME NEW r \in uuid_memory_map[c] \ {NULL}
          PROVE  r \in DOMAIN lent /\ lent[r] = LeftBy(c)
      <4>1. r \in DOMAIN lent /\ lent[r] \in {LentTo(c), LeftBy(c)}
        BY <2>1, <2>5, <3>2 DEF Rules, Listed
      <4> QED  BY <2>1, <4>1 DEF Sound, Leases
    <3>4. Left'
      BY <2>1, <3>1, <3>3 DEF Left, Holds
    <3> QED  BY <2>2, <2>3, <3>4 DEF Rules
  <2> QED  BY <2>4, <2>5
<1> QED  BY <1>1, <1>2, <1>3 DEF Clocks

LEMMA CallbackRules ==
    ASSUME Tame, Sound, Sound', ~breach', Rules, user_callback_function
    PROVE  Rules'
<1>1. CASE Find
  <2>1. /\ cb.stage = "walk"
        /\ UNCHANGED <<arena, hash_map, uuid_memory_map, lent, held>>
    BY <1>1 DEF Find, slaveVars, clientVars
  <2>2. PICK r \in cb.todo :
          cb' = IF r \in DOMAIN data_size_map
                THEN [cb EXCEPT !.todo = @ \ {r}, !.addr = r, !.stage = "found",
                                !.valid = TRUE]
                ELSE [cb EXCEPT !.todo = @ \ {r}]
    BY <1>1 DEF Find
  <2>3. cb'.uuid = cb.uuid /\ ToClear' \subseteq ToClear
    BY <2>1, <2>2, CbType DEF Sound, ToClear
  <2> QED  BY <2>1, <2>3 DEF Rules, HashSizes, HeldLent, Holds, Left, Listed
<1>2. CASE Free
  <2> DEFINE a == cb.addr
  <2>1. cb.stage = "found" /\ up' # "aborted" /\ a \in ToClear
        /\ cb.uuid \in Clients
    BY <1>2 DEF Free, Sound, NoDoubleFree, Walking, ToClear
  <2>2. /\ cb' = [cb EXCEPT !.stage = "freed"]
        /\ lent' = GivenBack(LeftBy(cb.uuid), a) /\ arena' = Erase(arena, a)
        /\ UNCHANGED <<uuid_memory_map, hash_map, held>>
    BY <1>2, <2>1 DEF Free, Abort, clientVars
  <2>3. cb'.uuid = cb.uuid /\ ToClear' = cb.todo /\ (a = NULL \/ a \notin cb.todo)
    BY <2>1, <2>2, CbType DEF Sound, Walking, ToClear
  <2>4. a # NULL => a \in DOMAIN lent /\ lent[a] = LeftBy(cb.uuid)
    BY <2>1 DEF Rules, Left, Holds
  <2>5. \A b \in DOMAIN lent : b # a => b \in DOMAIN lent' /\ lent'[b] = lent[b]
    BY <2>2 DEF GivenBack, Erase
  <2>6. NULL \notin DOMAIN lent
    BY NullIsNoPage DEF Sound, TypeOK, IsMap
  <2> HIDE DEF a
  <2>7. HashSizes'
    <3> SUFFICES ASSUME NEW h \in DOMAIN hash_map' \cap Hashes
                 PROVE  arena'[hash_map'[h]] = HashLen
      BY DEF HashSizes
    <3>1. hash_map'[h] \in DOMAIN arena'
      BY DEF Sound, Books, HashesBacked
    <3> QED  BY <2>2, <3>1 DEF Erase, Rules, HashSizes
  <2>8. HeldLent'
    BY <2>2, <2>4, <2>5, <2>6, HoldersDiffer DEF Rules, HeldLent, Holds
  <2>9. Left'
    <3>1. cb.todo \subseteq ToClear
      BY DEF ToClear
    <3> QED  BY <2>3, <2>5, <3>1 DEF Rules, Left, Holds
  <2>10. Listed'
    <3> SUFFICES ASSUME "dealloc" \notin Ops, NEW d \in DOMAIN uuid_memory_map \ {cb.uuid},
                        NEW r \in uuid_memory_map[d] \ {NULL}
                 PROVE  r \in DOMAIN lent' /\ lent'[r] \in {LentTo(d), LeftBy(d)}
      BY <2>2, <2>3 DEF Listed
    <3>1. r \in DOMAIN lent /\ lent[r] \in {LentTo(d), LeftBy(d)}
      BY DEF Rules, Listed
    <3> QED  BY <2>4, <2>5, <3>1, HoldersDiffer
  <2> QED  BY <2>7, <2>8, <2>9, <2>10 DEF Rules
<1>3. CASE Forget
  <2>1. cb.stage = "freed" /\ up' # "aborted"
    BY <1>3 DEF Forget, Sound, NoDoubleFree
  <2>2. /\ cb' = [cb EXCEPT !.stage = "walk", !.addr = NULL]
        /\ UNCHANGED <<uuid_memory_map, lent, arena, hash_map, held>>
    BY <1>3, <2>1 DEF Forget, Abort, clientVars
  <2>3. cb'.uuid = cb.uuid /\ ToClear' = ToClear
    BY <2>1, <2>2, CbType DEF Sound, ToClear
  <2> QED  BY <2>2, <2>3 DEF Rules, HashSizes, HeldLent, Holds, Left, Listed
<1>4. CASE Done
  <2>1. /\ cb' = Idle /\ cb'.stage = "idle" /\ uuid_memory_map' = Erase(uuid_memory_map, cb.uuid)
        /\ UNCHANGED <<lent, arena, hash_map, held>>
    BY <1>4 DEF Done, Idle, slaveVars, clientVars
  <2>2. HashSizes' /\ HeldLent'
    BY <2>1 DEF Rules, HashSizes, HeldLent, Holds
  <2>3. Listed'
    BY <2>1 DEF Rules, Listed, Erase
  <2> QED  BY <2>1, <2>2, <2>3, RulesAtRest
<1> QED  BY <1>1, <1>2, <1>3, <1>4 DEF user_callback_function

LEMMA RulesNext ==
    ASSUME Tame, Sound, Sound', ~breach', Rules, [Next]_vars
    PROVE  Rules'
<1>1. CASE Packet
  BY <1>1, AllocRules, DeallocRules, AllocHashRules, DeallocHashRules DEF Packet
<1>2. CASE Clocks
  BY <1>2, ClocksRules
<1>3. CASE user_callback_function
  BY <1>3, CallbackRules
<1>4. CASE Backup
  BY <1>4 DEF Backup, Rules, HashSizes, HeldLent, Holds, Left, Listed, ToClear, slaveVars,
              clientVars
<1>5. CASE Restart
  <2>1. /\ cb' = Idle /\ cb'.stage = "idle" /\ DOMAIN uuid_memory_map' = {}
        /\ held' = [c \in Clients |-> {}] /\ DOMAIN hash_map' \cap Hashes = {}
    BY <1>5 DEF Restart, Tame, Idle, NoEntries, Sound, Books, FilesSound, FilesNamed
  <2>2. HashSizes' /\ HeldLent' /\ Listed'
    BY <2>1 DEF HashSizes, HeldLent, Listed
  <2> QED  BY <2>1, <2>2, RulesAtRest
<1>6. CASE UNCHANGED vars
  BY <1>6 DEF vars, Rules, HashSizes, HeldLent, Holds, Left, Listed, ToClear, slaveVars,
              clientVars
<1> QED  BY <1>1, <1>2, <1>3, <1>4, <1>5, <1>6 DEF Next

\* Programs that keep to Tame never free a block that is not theirs: however
\* often the slave stops, crashes and is started again, and whoever falls
\* silent, no DEALLOC, no packet with a hash and no callback is a breach
\* (hpc_slave.cpp:469-491, 837-846, 871-915).
THEOREM RulesKept ==
    ASSUME Tame
    PROVE  Spec => []~breach
<1> DEFINE Kept == Sound /\ Rules /\ ~breach
<1>1. Init => Kept
  <2> SUFFICES ASSUME Init
               PROVE  Rules /\ ~breach
    BY SoundInit
  <2>1. /\ DOMAIN hash_map = {} /\ DOMAIN uuid_memory_map = {} /\ cb = Idle
        /\ held = [c \in Clients |-> {}] /\ ~breach
    BY DEF Init, SlaveInit, NoEntries
  <2> QED  BY <2>1 DEF Rules, HashSizes, HeldLent, Left, Listed, ToClear, Idle
<1>2. Kept /\ [Next]_vars => Kept'
  BY NoBreach, SoundNext, RulesNext
<1>3. Kept => ~breach
  OBVIOUS
<1> QED  BY <1>1, <1>2, <1>3, PTL DEF Spec

\* And so, where programs keep to Tame, a slave lends memory as Lending has it.
THEOREM TameLending ==
    ASSUME Tame
    PROVE  Spec => IsLending
BY RulesKept, SlaveLends, PTL DEF IsLending, Lenders!Spec

\* Nor does a backup lack a hash, where programs keep to Tame.
THEOREM TameBackup ==
    ASSUME Tame
    PROVE  Spec => BackupIsWhole
BY RulesKept, BackupHoldsHashes, PTL DEF BackupIsWhole

=============================================================================
