-------------------------- MODULE PageCacheTheorems --------------------------
(***************************************************************************)
(* Proofs about PageCache, for every number of pages, words, hashes and    *)
(* values, every size of the cache, and every choice of Api the theorem    *)
(* names.                                                                  *)
(***************************************************************************)
EXTENDS PageCache, AddressLRUTheorems

-----------------------------------------------------------------------------
(* The maps of the client and of the slave                                 *)

\* insert() keeps the keys in K and the values in V.
LEMMA InsertIsMap ==
    ASSUME NEW K, NEW V, NEW m, IsMap(m, K, V), NEW k \in K, NEW v \in V
    PROVE  IsMap(Insert(m, k, v), K, V)
BY DEF IsMap, Insert

\* So does operator[].
LEMMA AssignIsMap ==
    ASSUME NEW K, NEW V, NEW m, IsMap(m, K, V), NEW k \in K, NEW v \in V
    PROVE  IsMap(Assign(m, k, v), K, V)
BY DEF IsMap, Assign

\* So does erase().
LEMMA EraseIsMap ==
    ASSUME NEW K, NEW V, NEW m, IsMap(m, K, V), NEW k
    PROVE  IsMap(Erase(m, k), K, V)
BY DEF IsMap, Erase

\* The empty map has keys and values of any type.
LEMMA NoEntriesIsMap ==
    ASSUME NEW K, NEW V
    PROVE  IsMap(NoEntries, K, V)
BY DEF IsMap, NoEntries

-----------------------------------------------------------------------------
(* The shape of the slave's state                                          *)

\* The content of a page that is read.
LEMMA ReadType ==
    ASSUME SlaveTypeOK, NEW r
    PROVE  READ(r) \in [Words -> Contents]
BY StoreAssumption DEF SlaveTypeOK, READ, Filled

\* The heap after a page is written.
LEMMA WriteType ==
    ASSUME NEW m \in [RPages -> [Words -> Contents]],
           NEW r, NEW page \in [Words -> Contents]
    PROVE  WRITE(m, r, page) \in [RPages -> [Words -> Contents]]
BY DEF WRITE

\* ALLOC
LEMMA AllocType ==
    ASSUME SlaveTypeOK, NEW n \in Nat \ {0}, NEW r, ALLOC(n, r)
    PROVE  SlaveTypeOK' /\ r \in RPages \cup {NULL}
<1>1. r \in RPages \cup {NULL}
  BY DEF ALLOC, Malloc
<1>2. NULL \notin RPages
  BY StoreAssumption DEF NULL
<1>3. IsMap(arena', RPages, Nat \ {0})
  BY <1>1, <1>2, AssignIsMap DEF ALLOC, SlaveTypeOK
<1>4. IsMap(data_size_map', RPages \cup {NULL}, Nat \ {0})
  BY <1>1, InsertIsMap DEF ALLOC, SlaveTypeOK
<1> QED  BY <1>1, <1>3, <1>4 DEF ALLOC, SlaveTypeOK

\* DEALLOC
LEMMA DeallocType ==
    ASSUME SlaveTypeOK, NEW r, DEALLOC(r)
    PROVE  SlaveTypeOK'
BY EraseIsMap DEF DEALLOC, SlaveTypeOK

\* ALLOC_HASH
LEMMA AllocHashType ==
    ASSUME SlaveTypeOK, NEW h \in Hashes, NEW n \in Nat \ {0}, NEW r,
           ALLOC_HASH(h, n, r)
    PROVE  SlaveTypeOK' /\ r \in RPages
<1>1. CASE Reusable(h, n)
  BY <1>1 DEF ALLOC_HASH, Reusable, SlaveTypeOK, slaveVars, IsMap
<1>2. CASE ~Reusable(h, n)
  <2> DEFINE freed == IF h \in DOMAIN hash_map
                      THEN Erase(arena, hash_map[h]) ELSE arena
  <2>1. r \in RPages
    BY <1>2 DEF ALLOC_HASH
  <2>2. IsMap(freed, RPages, Nat \ {0})
    BY EraseIsMap DEF SlaveTypeOK
  <2>3. arena' = Assign(freed, r, n)
    BY <1>2 DEF ALLOC_HASH
  <2> HIDE DEF freed
  <2>4. IsMap(arena', RPages, Nat \ {0})
    BY <2>1, <2>2, <2>3, AssignIsMap
  <2>5. slave_mem' \in [RPages -> [Words -> Contents]]
    BY <1>2, StoreAssumption DEF ALLOC_HASH, SlaveTypeOK, Filled
  <2>6. IsMap(hash_map', Hashes, RPages)
    BY <1>2, <2>1, InsertIsMap DEF ALLOC_HASH, SlaveTypeOK
  <2>7. IsMap(data_size_map', RPages \cup {NULL}, Nat \ {0})
    <3>1. data_size_map' = Insert(data_size_map, r, n)
      BY <1>2 DEF ALLOC_HASH
    <3> QED  BY <2>1, <3>1, InsertIsMap DEF SlaveTypeOK
  <2> QED  BY <2>1, <2>4, <2>5, <2>6, <2>7 DEF SlaveTypeOK
<1> QED  BY <1>1, <1>2

\* DEALLOC_HASH
LEMMA DeallocHashType ==
    ASSUME SlaveTypeOK, NEW h, DEALLOC_HASH(h)
    PROVE  SlaveTypeOK'
BY EraseIsMap DEF DEALLOC_HASH, SlaveTypeOK, slaveVars

-----------------------------------------------------------------------------
(* The slave's books and malloc's                                          *)

\* The pages of the blocks of m.
PagesOf(m) == UNION {Extent(b, m[b]) : b \in DOMAIN m}

\* The blocks of m lie within the heap and do not overlap.
Apart(m) ==
    /\ \A b \in DOMAIN m : Extent(b, m[b]) \subseteq RPages
    /\ \A b, c \in DOMAIN m : b # c => Extent(b, m[b]) \cap Extent(c, m[c]) = {}

\* data_size_map knows the blocks that are allocated, and how large they are;
\* what failed to be allocated is in it too, under NULL.
SizesKnown ==
    /\ DOMAIN data_size_map \ {NULL} = DOMAIN arena
    /\ \A b \in DOMAIN arena : data_size_map[b] = arena[b]

HeapSound == Apart(arena) /\ SizesKnown

\* A block begins with its first page.
LEMMA StartInExtent ==
    ASSUME NEW r \in Nat, NEW n \in Nat \ {0}
    PROVE  r \in Extent(r, n)
BY DEF Extent

LEMMA NullIsNoPage == NULL \notin RPages /\ RPages \subseteq Nat
BY StoreAssumption DEF NULL

\* A block of free pages is a new one, and leaves the blocks apart.
LEMMA FreshBlock ==
    ASSUME NEW m, IsMap(m, RPages, Nat \ {0}), Apart(m),
           NEW r \in RPages, NEW n \in Nat \ {0},
           Extent(r, n) \subseteq RPages \ PagesOf(m)
    PROVE  /\ r \notin DOMAIN m
           /\ \A b \in DOMAIN m : Extent(b, m[b]) \cap Extent(r, n) = {}
           /\ Apart(Assign(m, r, n))
<1> DEFINE m2 == Assign(m, r, n)
<1>1. r \notin DOMAIN m
  <2>1. SUFFICES ASSUME r \in DOMAIN m PROVE FALSE
    OBVIOUS
  <2>2. r \in Extent(r, n) /\ r \in Extent(r, m[r])
    BY <2>1, StartInExtent, NullIsNoPage DEF IsMap
  <2> QED  BY <2>1, <2>2 DEF PagesOf
<1>2. /\ DOMAIN m2 = DOMAIN m \cup {r} /\ m2[r] = n
      /\ \A b \in DOMAIN m : m2[b] = m[b]
  BY <1>1 DEF Assign
<1>3. \A b \in DOMAIN m : Extent(b, m[b]) \cap Extent(r, n) = {}
  BY DEF PagesOf
<1> HIDE DEF m2
<1>4. \A b \in DOMAIN m2 : Extent(b, m2[b]) \subseteq RPages
  BY <1>2 DEF Apart, PagesOf
<1>5. ASSUME NEW b \in DOMAIN m2, NEW c \in DOMAIN m2, b # c
      PROVE  Extent(b, m2[b]) \cap Extent(c, m2[c]) = {}
  <2>1. CASE b \in DOMAIN m /\ c \in DOMAIN m
    BY <1>2, <1>5, <2>1 DEF Apart
  <2>2. CASE b = r
    BY <1>2, <1>3, <1>5, <2>2
  <2>3. CASE c = r
    BY <1>2, <1>3, <1>5, <2>3
  <2> QED  BY <1>2, <2>1, <2>2, <2>3
<1> QED  BY <1>1, <1>3, <1>4, <1>5 DEF Apart, m2

\* ALLOC lends a block that was nobody's, or nothing.
LEMMA AllocSound ==
    ASSUME SlaveTypeOK, HeapSound, NEW n \in Nat \ {0}, NEW r, ALLOC(n, r)
    PROVE  /\ HeapSound'
           /\ \/ r = NULL /\ arena' = arena
              \/ /\ r \notin DOMAIN arena
                 /\ DOMAIN arena' = DOMAIN arena \cup {r} /\ arena'[r] = n
                 /\ \A b \in DOMAIN arena : arena'[b] = arena[b]
<1>1. data_size_map' = Insert(data_size_map, r, n)
  BY DEF ALLOC
<1>2. CASE r = NULL
  <2>1. arena' = arena
    BY <1>2 DEF ALLOC
  <2>2. NULL \notin DOMAIN arena
    BY NullIsNoPage DEF SlaveTypeOK, IsMap
  <2>3. SizesKnown'
    BY <1>1, <1>2, <2>1, <2>2 DEF HeapSound, SizesKnown, Insert
  <2> QED  BY <1>2, <2>1, <2>3 DEF HeapSound, Apart
<1>3. CASE r # NULL
  <2>1. /\ r \in RPages
        /\ Extent(r, n) \subseteq RPages \ PagesOf(arena)
        /\ arena' = Assign(arena, r, n)
    BY <1>3 DEF ALLOC, Malloc, InUse, PagesOf
  <2>2. /\ r \notin DOMAIN arena
        /\ DOMAIN arena' = DOMAIN arena \cup {r} /\ arena'[r] = n
        /\ \A b \in DOMAIN arena : arena'[b] = arena[b]
        /\ Apart(arena)'
    <3>1. r \notin DOMAIN arena /\ Apart(Assign(arena, r, n))
      BY <2>1, FreshBlock DEF SlaveTypeOK, HeapSound
    <3> QED  BY <2>1, <3>1 DEF Assign, Apart
  <2>3. r \notin DOMAIN data_size_map
    BY <1>3, <2>2 DEF HeapSound, SizesKnown
  <2>4. SizesKnown'
    BY <1>1, <1>3, <2>2, <2>3 DEF HeapSound, SizesKnown, Insert
  <2> QED  BY <2>2, <2>4 DEF HeapSound
<1> QED  BY <1>2, <1>3

\* Freeing a block and forgetting its size.
LEMMA FreedSound ==
    ASSUME SlaveTypeOK, HeapSound, NEW r, r # NULL,
           arena' = Erase(arena, r), data_size_map' = Erase(data_size_map, r)
    PROVE  /\ HeapSound'
           /\ DOMAIN arena' = DOMAIN arena \ {r}
           /\ \A b \in DOMAIN arena' : arena'[b] = arena[b]
<1>1. DOMAIN arena' = DOMAIN arena \ {r} /\ \A b \in DOMAIN arena' : arena'[b] = arena[b]
  BY DEF Erase
<1>2. Apart(arena)'
  BY <1>1 DEF HeapSound, Apart
<1>3. SizesKnown'
  BY <1>1 DEF HeapSound, SizesKnown, Erase
<1> QED  BY <1>1, <1>2, <1>3 DEF HeapSound

LEMMA DeallocSound ==
    ASSUME SlaveTypeOK, HeapSound, NEW r \in DOMAIN arena, DEALLOC(r)
    PROVE  /\ HeapSound'
           /\ DOMAIN arena' = DOMAIN arena \ {r}
           /\ \A b \in DOMAIN arena' : arena'[b] = arena[b]
<1>1. r # NULL /\ r \in DOMAIN data_size_map
  BY NullIsNoPage DEF SlaveTypeOK, IsMap, HeapSound, SizesKnown
<1>2. arena' = Erase(arena, r) /\ data_size_map' = Erase(data_size_map, r)
  BY <1>1 DEF DEALLOC
<1> QED  BY <1>1, <1>2, FreedSound

\* A block that is lent and given back leaves everything as it was.
LEMMA GivenBackNothing ==
    ASSUME SlaveTypeOK, HeapSound, NEW n \in Nat \ {0}, NEW r \in RPages, GivenBack(n, r)
    PROVE  UNCHANGED slaveVars
<1>1. Extent(r, n) \subseteq RPages \ PagesOf(arena)
  BY DEF GivenBack, Malloc, InUse, PagesOf
<1>2. r \notin DOMAIN arena
  BY <1>1, FreshBlock DEF SlaveTypeOK, HeapSound
<1>3. r \notin DOMAIN data_size_map
  BY <1>2, NullIsNoPage DEF HeapSound, SizesKnown
<1>4. arena' = arena
  BY <1>2 DEF GivenBack, Assign, Erase, SlaveTypeOK, IsMap
<1>5. data_size_map' = data_size_map
  BY <1>3 DEF GivenBack, Insert, Erase, SlaveTypeOK, IsMap
<1> QED  BY <1>4, <1>5 DEF GivenBack, slaveVars

\* ALLOC_HASH of a name that is new.
LEMMA AllocHashSound ==
    ASSUME SlaveTypeOK, HeapSound, NEW h \in Hashes, h \notin DOMAIN hash_map,
           NEW n \in Nat \ {0}, NEW r, ALLOC_HASH(h, n, r)
    PROVE  /\ HeapSound'
           /\ r \in RPages /\ r \notin DOMAIN arena
           /\ DOMAIN arena' = DOMAIN arena \cup {r} /\ arena'[r] = n
           /\ \A b \in DOMAIN arena : arena'[b] = arena[b]
           /\ \A b \in DOMAIN arena : Extent(b, arena[b]) \cap Extent(r, n) = {}
           /\ slave_mem' = [f \in RPages |->
                   IF f \in Extent(r, n) THEN Filled(Zero) ELSE slave_mem[f]]
           /\ DOMAIN hash_map' = DOMAIN hash_map \cup {h} /\ hash_map'[h] = r
           /\ \A g \in DOMAIN hash_map : hash_map'[g] = hash_map[g]
<1>1. /\ r \in RPages
      /\ Extent(r, n) \subseteq RPages \ PagesOf(arena)
      /\ arena' = Assign(arena, r, n)
      /\ slave_mem' = [f \in RPages |->
            IF f \in Extent(r, n) THEN Filled(Zero) ELSE slave_mem[f]]
      /\ hash_map' = Insert(hash_map, h, r)
      /\ data_size_map' = Insert(data_size_map, r, n)
  BY DEF ALLOC_HASH, Reusable, PagesOf
<1>2. /\ r \notin DOMAIN arena
      /\ DOMAIN arena' = DOMAIN arena \cup {r} /\ arena'[r] = n
      /\ \A b \in DOMAIN arena : arena'[b] = arena[b]
      /\ \A b \in DOMAIN arena : Extent(b, arena[b]) \cap Extent(r, n) = {}
      /\ Apart(arena)'
  <2>1. /\ r \notin DOMAIN arena /\ Apart(Assign(arena, r, n))
        /\ \A b \in DOMAIN arena : Extent(b, arena[b]) \cap Extent(r, n) = {}
    BY <1>1, FreshBlock DEF SlaveTypeOK, HeapSound
  <2>2. arena' = Assign(arena, r, n) /\ Apart(arena)'
    BY <1>1, <2>1 DEF Apart
  <2>3. /\ DOMAIN arena' = DOMAIN arena \cup {r} /\ arena'[r] = n
        /\ \A b \in DOMAIN arena : arena'[b] = arena[b]
    BY <2>1, <2>2 DEF Assign
  <2> QED  BY <2>1, <2>2, <2>3
<1>3. r \notin DOMAIN data_size_map
  BY <1>1, <1>2, NullIsNoPage DEF HeapSound, SizesKnown
<1>4. SizesKnown'
  BY <1>1, <1>2, <1>3, NullIsNoPage DEF HeapSound, SizesKnown, Insert
<1> QED  BY <1>1, <1>2, <1>4 DEF HeapSound, Insert

\* DEALLOC_HASH of a name whose block is allocated.
LEMMA DeallocHashSound ==
    ASSUME SlaveTypeOK, HeapSound, NEW h \in DOMAIN hash_map, DEALLOC_HASH(h)
    PROVE  /\ HeapSound'
           /\ DOMAIN arena' = DOMAIN arena \ {hash_map[h]}
           /\ \A b \in DOMAIN arena' : arena'[b] = arena[b]
           /\ DOMAIN hash_map' = DOMAIN hash_map \ {h}
           /\ \A g \in DOMAIN hash_map' : hash_map'[g] = hash_map[g]
<1>1. /\ arena' = Erase(arena, hash_map[h])
      /\ data_size_map' = Erase(data_size_map, hash_map[h])
      /\ hash_map' = Erase(hash_map, h)
  BY DEF DEALLOC_HASH
<1>2. hash_map[h] # NULL
  BY NullIsNoPage DEF SlaveTypeOK, IsMap
<1> QED  BY <1>1, <1>2, FreedSound DEF Erase

-----------------------------------------------------------------------------
(* The shape of the state                                                  *)

Content  == [Words -> Contents]
Expected == [Words -> Contents \cup {Undef}]

\* What the handler may put in front of the program.
LEMMA FetchedType ==
    ASSUME TypeOK, NEW p \in Pages, NEW w, NEW write
    PROVE  Fetched(p, w, write) \in [Pages -> Content]
BY ReadType DEF Fetched, TypeOK, ClientTypeOK, Content

\* The handler leaves the shape of everything but the client's RAM, which the
\* retried instruction completes.
LEMMA HandlerType ==
    ASSUME TypeOK, NEW p \in Pages, NEW w \in Words, NEW write \in BOOLEAN,
           signal_callback_handler(p, w, write)
    PROVE  /\ SlaveTypeOK'
           /\ RegionTypeOK'
           /\ IsMap(dirty_map', Pages, {0, 1})
           /\ history_' \in Seq(Pages)
           /\ prot' \in [Pages -> {"unmapped", "none", "rw"}]
<1> DEFINE stale == Stale(history_, p)
           d == Marked(p, write)
           ram == Fetched(p, w, write)
<1>1. stale \in Pages \cup {NoBlock}
  BY StaleType DEF TypeOK, ClientTypeOK
<1>2. IsMap(d, Pages, {0, 1})
  BY InsertIsMap DEF Marked, TypeOK, ClientTypeOK
<1>3. ram \in [Pages -> Content]
  BY FetchedType
<1>4. /\ WriteBack(stale, d, ram)
      /\ UNCHANGED <<data_map, addr_space_map, arena, data_size_map, hash_map>>
      /\ history_' \in Updated(history_, p)
  BY DEF signal_callback_handler
<1>5. prot' \in [Pages -> {"unmapped", "none", "rw"}]
  BY DEF signal_callback_handler, TypeOK, ClientTypeOK
<1>6. history_' \in Seq(Pages)
  BY <1>4, UpdatedIsSeq DEF TypeOK, ClientTypeOK
<1> HIDE DEF stale, d, ram
<1>7. slave_mem' \in [RPages -> Content] /\ IsMap(dirty_map', Pages, {0, 1})
  <2>1. CASE stale # NoBlock /\ IsDirty(d, stale)
    <3>1. ram[stale] \in Content
      BY <1>1, <1>3, <2>1
    <3>2. /\ slave_mem' = WRITE(slave_mem, RemoteOf(stale), ram[stale])
          /\ dirty_map' = Insert(d, stale, 0)
      BY <1>4, <2>1 DEF WriteBack
    <3> QED  BY <1>1, <1>2, <2>1, <3>1, <3>2, WriteType, InsertIsMap
             DEF TypeOK, SlaveTypeOK, Content
  <2>2. CASE ~(stale # NoBlock /\ IsDirty(d, stale))
    BY <1>2, <1>4, <2>2 DEF WriteBack, TypeOK, SlaveTypeOK, Content
  <2> QED  BY <2>1, <2>2
<1>8. SlaveTypeOK'
  BY <1>4, <1>7 DEF TypeOK, SlaveTypeOK, Content
<1>9. RegionTypeOK'
  BY <1>4 DEF TypeOK, ClientTypeOK, RegionTypeOK, Span
<1> QED  BY <1>5, <1>6, <1>7, <1>8, <1>9

LEMMA LoadType ==
    ASSUME TypeOK, NEW p \in Pages, NEW w \in Words, Load(p, w)
    PROVE  TypeOK'
<1>1. /\ SlaveTypeOK'
      /\ RegionTypeOK'
      /\ IsMap(dirty_map', Pages, {0, 1})
      /\ history_' \in Seq(Pages)
      /\ prot' \in [Pages -> {"unmapped", "none", "rw"}]
      /\ mem' \in [Pages -> Content]
  <2>1. CASE prot[p] = "rw" /\ UNCHANGED <<clientVars, slaveVars>>
    BY <2>1 DEF TypeOK, ClientTypeOK, RegionTypeOK, SlaveTypeOK, Span, Content,
                clientVars, slaveVars
  <2>2. CASE signal_callback_handler(p, w, FALSE) /\ mem' = Fetched(p, w, FALSE)
    BY <2>2, HandlerType, FetchedType
  <2> QED  BY <2>1, <2>2 DEF Load
<1>2. reply' \in Pages \X Words \X Contents
  BY <1>1 DEF Load, Content
<1>3. ProgramTypeOK'
  BY <1>2 DEF Load, TypeOK, ProgramTypeOK
<1> QED  BY <1>1, <1>3 DEF TypeOK, ClientTypeOK, Content

LEMMA StoreType ==
    ASSUME TypeOK, NEW p \in Pages, NEW w \in Words, NEW v \in Values,
           Store(p, w, v)
    PROVE  TypeOK'
<1>1. /\ SlaveTypeOK'
      /\ RegionTypeOK'
      /\ IsMap(dirty_map', Pages, {0, 1})
      /\ history_' \in Seq(Pages)
      /\ prot' \in [Pages -> {"unmapped", "none", "rw"}]
  <2>1. CASE /\ prot[p] = "rw"
             /\ UNCHANGED <<data_map, addr_space_map, dirty_map, history_, prot,
                            slaveVars>>
    BY <2>1 DEF TypeOK, ClientTypeOK, RegionTypeOK, SlaveTypeOK, Span, slaveVars
  <2>2. CASE signal_callback_handler(p, w, TRUE)
    BY <2>2, HandlerType
  <2> QED  BY <2>1, <2>2 DEF Store
<1>2. v \in Contents
  BY ClientAssumption
<1>3. mem' \in [Pages -> [Words -> Contents]]
  BY <1>2 DEF Store, TypeOK, ClientTypeOK
<1>4. ProgramTypeOK'
  BY <1>2 DEF Store, TypeOK, ProgramTypeOK
<1> QED  BY <1>1, <1>3, <1>4 DEF TypeOK, ClientTypeOK

\* The end addresses the callers of MapRegion() compute.
LEMMA EndAddressType ==
    ASSUME NEW s \in Pages, NEW n \in Nat \ {0}, Extent(s, n) \subseteq Pages
    PROVE  LastAddress(s, n) \in Addresses /\ FirstAfter(s, n) \in Addresses
<1>1. s \in Nat /\ n \in Nat /\ n >= 1
  BY ClientAssumption
<1>2. s + n - 1 \in Extent(s, n)
  BY <1>1 DEF Extent
<1>3. s + n - 1 \in Pages /\ s + n = (s + n - 1) + 1
  BY <1>1, <1>2
<1>4. 0 \in Words /\ LastWord \in Words
  BY ClientAssumption
<1>5. s + n \in {p + 1 : p \in Pages}
  BY <1>3
<1> QED  BY <1>3, <1>4, <1>5 DEF LastAddress, FirstAfter, Addresses

LEMMA MapRegionType ==
    ASSUME TypeOK, NEW s \in Pages, NEW n \in Nat \ {0}, NEW r \in RPages,
           NEW h \in Hashes \cup {NoHash}, NEW end \in Addresses,
           MapRegion(s, n, r, h, end)
    PROVE  ClientTypeOK'
<1> DEFINE d == [len |-> n, remote |-> r, hash |-> h, end |-> end]
           Regions == [len : Nat \ {0}, remote : RPages,
                       hash : Hashes \cup {NoHash}, end : Addresses]
<1>1. d \in Regions
  OBVIOUS
<1>2. data_map' = Insert(data_map, s, d) /\ addr_space_map' = Insert(addr_space_map, end, s)
  BY DEF MapRegion
<1>3. IsMap(data_map, Pages, Regions)
  BY DEF TypeOK, ClientTypeOK, RegionTypeOK
<1>4. d.len = n
  OBVIOUS
<1> HIDE DEF d, Regions
<1>5. IsMap(data_map', Pages, Regions)
  BY <1>1, <1>2, <1>3, InsertIsMap
<1>6. IsMap(addr_space_map', Addresses, Pages)
  BY <1>2, InsertIsMap DEF TypeOK, ClientTypeOK, RegionTypeOK
<1>7. /\ DOMAIN data_map' = DOMAIN data_map \cup {s}
      /\ \A t \in DOMAIN data_map : data_map'[t] = data_map[t]
      /\ s \notin DOMAIN data_map => data_map'[s] = d
  BY <1>2 DEF Insert
<1>8. ASSUME NEW t \in DOMAIN data_map'
      PROVE  Span(t)' \subseteq Pages
  <2>1. CASE t \in DOMAIN data_map
    <3>1. data_map'[t] = data_map[t]
      BY <1>7, <2>1
    <3> QED  BY <2>1, <3>1 DEF Span, TypeOK, ClientTypeOK, RegionTypeOK
  <2>2. CASE t \notin DOMAIN data_map
    <3>1. t = s /\ data_map'[t] = d
      BY <1>7, <1>8, <2>2
    <3>2. Extent(s, n) \subseteq Pages
      BY DEF MapRegion, Mmap
    <3> QED  BY <1>4, <3>1, <3>2 DEF Span
  <2> QED  BY <2>1, <2>2
<1>9. RegionTypeOK'
  BY <1>5, <1>6, <1>8 DEF RegionTypeOK, Regions
<1>10. Filled(Zero) \in [Words -> Contents]
  BY StoreAssumption DEF Filled
<1> QED  BY <1>9, <1>10 DEF MapRegion, TypeOK, ClientTypeOK

\* What the program expects of some pages, after a call that hands them out
\* or takes them back.
LEMMA HoldingType ==
    ASSUME TypeOK, NEW S, NEW content, \A p \in S : content[p] \in Expected,
           Holding(S, content)
    PROVE  heap' \in [Pages -> Expected]
BY DEF Holding, TypeOK, ProgramTypeOK, Expected

LEMMA BlankType == Blank \in Expected
BY DEF Blank, Filled, Expected

LEMMA AllocatedType ==
    ASSUME TypeOK, NEW s \in Pages, NEW n \in Nat \ {0},
           NEW initial \in Contents \cup {Undef},
           Allocated(s, n, initial), UNCHANGED running, reply' = <<>>
    PROVE  TypeOK'
<1>1. PICK r \in RPages :
        /\ ALLOC(n, r)
        /\ MapRegion(s, n, r, NoHash, LastAddress(s, n))
        /\ Holding(Extent(s, n), [p \in Extent(s, n) |-> Filled(initial)])
        /\ UNCHANGED <<named, leaked>>
  BY DEF Allocated
<1>2. SlaveTypeOK'
  BY <1>1, AllocType DEF TypeOK
<1>3. LastAddress(s, n) \in Addresses
  BY <1>1, EndAddressType DEF MapRegion, Mmap
<1>4. ClientTypeOK'
  BY <1>1, <1>3, MapRegionType
<1>5. Filled(initial) \in Expected
  BY DEF Filled, Expected
<1>6. heap' \in [Pages -> Expected]
  BY <1>1, <1>5, HoldingType
<1>7. ProgramTypeOK'
  BY <1>1, <1>6 DEF TypeOK, ProgramTypeOK, Expected
<1> QED  BY <1>2, <1>4, <1>7 DEF TypeOK

LEMMA AllocFailsType ==
    ASSUME TypeOK, NEW n \in Nat \ {0}, rum_alloc_fails(n),
           UNCHANGED running, reply' = <<>>
    PROVE  TypeOK'
<1>1. SlaveTypeOK'
  BY AllocType DEF rum_alloc_fails, TypeOK
<1>2. ClientTypeOK' /\ ProgramTypeOK'
  BY DEF rum_alloc_fails, TypeOK, ClientTypeOK, RegionTypeOK, Span,
         ProgramTypeOK, clientVars
<1> QED  BY <1>1, <1>2 DEF TypeOK

\* A call that got its block and no mapping touches nothing of the client.
LEMMA UnmappedType ==
    ASSUME TypeOK, NEW n \in Nat \ {0}, rum_alloc_at_unmapped(n),
           UNCHANGED running, reply' = <<>>
    PROVE  TypeOK'
<1>1. PICK r \in RPages : ALLOC(n, r) /\ leaked' = leaked \cup {r}
  BY DEF rum_alloc_at_unmapped
<1>2. SlaveTypeOK'
  BY <1>1, AllocType DEF TypeOK
<1>3. ClientTypeOK'
  BY DEF rum_alloc_at_unmapped, TypeOK, ClientTypeOK, RegionTypeOK, Span, clientVars
<1>4. ProgramTypeOK'
  BY <1>1 DEF rum_alloc_at_unmapped, TypeOK, ProgramTypeOK
<1> QED  BY <1>2, <1>3, <1>4 DEF TypeOK

LEMMA GivenBackType ==
    ASSUME TypeOK, NEW n \in Nat \ {0}, rum_alloc_unmapped(n),
           UNCHANGED running, reply' = <<>>
    PROVE  TypeOK'
<1>1. PICK r \in RPages : GivenBack(n, r)
  BY DEF rum_alloc_unmapped
<1>2. IsMap(arena', RPages, Nat \ {0})
  BY <1>1, AssignIsMap, EraseIsMap DEF GivenBack, TypeOK, SlaveTypeOK
<1>3. IsMap(data_size_map', RPages \cup {NULL}, Nat \ {0})
  BY <1>1, InsertIsMap, EraseIsMap DEF GivenBack, TypeOK, SlaveTypeOK
<1>4. SlaveTypeOK'
  BY <1>1, <1>2, <1>3 DEF GivenBack, TypeOK, SlaveTypeOK
<1>5. ClientTypeOK' /\ ProgramTypeOK'
  BY DEF rum_alloc_unmapped, TypeOK, ClientTypeOK, RegionTypeOK, Span,
         ProgramTypeOK, clientVars
<1> QED  BY <1>4, <1>5 DEF TypeOK

LEMMA UnmappedHashType ==
    ASSUME TypeOK, NEW n \in Nat \ {0}, NEW h \in Hashes, rum_alloc_hash_unmapped(n, h),
           UNCHANGED running, reply' = <<>>
    PROVE  TypeOK'
<1>1. PICK r \in RPages : ALLOC_HASH(h, n, r)
  BY DEF rum_alloc_hash_unmapped
<1>2. SlaveTypeOK'
  BY <1>1, AllocHashType DEF TypeOK
<1>3. ClientTypeOK'
  BY DEF rum_alloc_hash_unmapped, TypeOK, ClientTypeOK, RegionTypeOK, Span, clientVars
<1>4. IsMap([k \in 0 .. n - 1 |-> Blank], Nat, Expected)
  BY BlankType DEF IsMap
<1>5. DOMAIN named' \subseteq Hashes /\ \A g \in DOMAIN named' : IsMap(named'[g], Nat, Expected)
  BY <1>4 DEF rum_alloc_hash_unmapped, Insert, TypeOK, ProgramTypeOK, Expected
<1>6. ProgramTypeOK'
  BY <1>5 DEF rum_alloc_hash_unmapped, TypeOK, ProgramTypeOK, Expected
<1> QED  BY <1>2, <1>3, <1>6 DEF TypeOK

LEMMA AllocHashedType ==
    ASSUME TypeOK, NEW s \in Pages, NEW n \in Nat \ {0}, NEW h \in Hashes,
           NEW end \in {FirstAfter(s, n), LastAddress(s, n)},
           AllocatedHash(s, n, h, end), UNCHANGED running, reply' = <<>>
    PROVE  TypeOK'
<1>1. PICK r \in RPages :
        /\ ALLOC_HASH(h, n, r)
        /\ MapRegion(s, n, r, h, end)
        /\ Holding(Extent(s, n), [p \in Extent(s, n) |-> Blank])
  BY DEF AllocatedHash
<1>2. SlaveTypeOK'
  BY <1>1, AllocHashType DEF TypeOK
<1>3. end \in Addresses
  BY <1>1, EndAddressType DEF MapRegion, Mmap
<1>4. ClientTypeOK'
  BY <1>1, <1>3, MapRegionType
<1>5. heap' \in [Pages -> Expected]
  BY <1>1, BlankType, HoldingType
<1>6. ProgramTypeOK'
  BY <1>5 DEF AllocatedHash, TypeOK, ProgramTypeOK, Expected
<1> QED  BY <1>2, <1>4, <1>6 DEF TypeOK

LEMMA GetType ==
    ASSUME TypeOK, NEW s \in Pages, NEW h \in Hashes, rum_get(s, h),
           UNCHANGED running, reply' = <<>>
    PROVE  TypeOK'
<1> DEFINE r == hash_map[h]
           n == data_size_map[r]
<1>1. /\ h \in DOMAIN named
      /\ h \in DOMAIN hash_map /\ r \in DOMAIN data_size_map
      /\ MapRegion(s, n, r, h, LastAddress(s, n))
      /\ Holding(Extent(s, n), [p \in Extent(s, n) |-> LeftIn(h, p - s)])
      /\ UNCHANGED <<slaveVars, named, leaked>>
  BY DEF rum_get
<1>2. r \in RPages /\ n \in Nat \ {0}
  BY <1>1 DEF TypeOK, SlaveTypeOK, IsMap
<1> HIDE DEF r, n
<1>3. SlaveTypeOK'
  BY <1>1 DEF TypeOK, SlaveTypeOK, slaveVars
<1>4. LastAddress(s, n) \in Addresses
  BY <1>1, <1>2, EndAddressType DEF MapRegion, Mmap
<1>5. ClientTypeOK'
  BY <1>1, <1>2, <1>4, MapRegionType
<1>6. \A k : LeftIn(h, k) \in Expected
  BY <1>1, BlankType DEF LeftIn, TypeOK, ProgramTypeOK, IsMap, Expected
<1>7. heap' \in [Pages -> Expected]
  <2> DEFINE content == [p \in Extent(s, n) |-> LeftIn(h, p - s)]
  <2>1. \A p \in Extent(s, n) : content[p] \in Expected
    BY <1>6
  <2>2. Holding(Extent(s, n), content)
    BY <1>1
  <2> HIDE DEF content
  <2> QED  BY <2>1, <2>2, HoldingType
<1>8. ProgramTypeOK'
  BY <1>1, <1>7 DEF TypeOK, ProgramTypeOK, Expected
<1> QED  BY <1>3, <1>5, <1>8 DEF TypeOK

LEMMA UnmapRegionType ==
    ASSUME TypeOK, NEW s \in DOMAIN data_map, UnmapRegion(s)
    PROVE  ClientTypeOK' /\ heap' \in [Pages -> Expected]
<1>1. /\ data_map' = Erase(data_map, s)
      /\ addr_space_map' = Erase(addr_space_map, data_map[s].end)
      /\ history_' \in Without(history_, Span(s))
  BY DEF UnmapRegion, Purged
<1>2. IsMap(data_map', Pages, [len : Nat \ {0}, remote : RPages,
                              hash : Hashes \cup {NoHash}, end : Addresses])
  BY <1>1, EraseIsMap DEF TypeOK, ClientTypeOK, RegionTypeOK
<1>3. IsMap(addr_space_map', Addresses, Pages)
  BY <1>1, EraseIsMap DEF TypeOK, ClientTypeOK, RegionTypeOK
<1>4. \A t \in DOMAIN data_map' : t \in DOMAIN data_map /\ data_map'[t] = data_map[t]
  BY <1>1 DEF Erase
<1>5. \A t \in DOMAIN data_map' : Span(t)' \subseteq Pages
  BY <1>4 DEF Span, TypeOK, ClientTypeOK, RegionTypeOK
<1>6. history_' \in Seq(Pages)
  BY <1>1, WithoutIsSeq DEF TypeOK, ClientTypeOK
<1>7. Filled(Zero) \in [Words -> Contents]
  BY StoreAssumption DEF Filled
<1>8. heap' \in [Pages -> Expected]
  BY BlankType, HoldingType DEF UnmapRegion
<1>9. /\ prot' \in [Pages -> {"unmapped", "none", "rw"}]
      /\ mem' \in [Pages -> [Words -> Contents]]
      /\ dirty_map' = dirty_map
  BY <1>7 DEF UnmapRegion, TypeOK, ClientTypeOK
<1> QED  BY <1>2, <1>3, <1>5, <1>6, <1>8, <1>9 DEF TypeOK, ClientTypeOK, RegionTypeOK

LEMMA FreeType ==
    ASSUME TypeOK, NEW s \in DOMAIN data_map, rum_free(s) \/ rum_free_hash(s),
           UNCHANGED running, reply' = <<>>
    PROVE  TypeOK'
<1>1. UnmapRegion(s)
  BY DEF rum_free, rum_free_hash
<1>2. SlaveTypeOK'
  BY DeallocType, DeallocHashType DEF rum_free, rum_free_hash, TypeOK
<1>3. ClientTypeOK' /\ heap' \in [Pages -> Expected]
  BY <1>1, UnmapRegionType
<1>4. /\ leaked' = leaked
      /\ DOMAIN named' \subseteq DOMAIN named
      /\ \A h \in DOMAIN named' : named'[h] = named[h]
  BY DEF rum_free, rum_free_hash, Erase
<1>5. ProgramTypeOK'
  BY <1>3, <1>4 DEF TypeOK, ProgramTypeOK, Expected
<1> QED  BY <1>2, <1>3, <1>5 DEF TypeOK

LEMMA FlushType ==
    ASSUME TypeOK, FlushCache
    PROVE  /\ SlaveTypeOK'
           /\ IsMap(dirty_map', Pages, {0, 1})
           /\ history_' \in Seq(Pages)
           /\ prot' \in [Pages -> {"unmapped", "none", "rw"}]
           /\ mem' \in [Pages -> [Words -> Contents]]
<1>1. ASSUME NEW r \in RPages, LastTo(r) # {}
      PROVE  mem[history_[CHOOSE i \in LastTo(r) : TRUE]] \in [Words -> Contents]
  <2>1. PICK i \in LastTo(r) : i = CHOOSE j \in LastTo(r) : TRUE
    BY <1>1
  <2>2. history_[i] \in Pages
    BY <2>1 DEF LastTo, Flushed, TypeOK, ClientTypeOK
  <2> QED  BY <2>1, <2>2 DEF TypeOK, ClientTypeOK
<1>2. slave_mem' \in [RPages -> [Words -> Contents]]
  BY <1>1 DEF FlushCache, TypeOK, SlaveTypeOK
<1>3. SlaveTypeOK'
  BY <1>2 DEF FlushCache, TypeOK, SlaveTypeOK
<1>4. IsMap(dirty_map', Pages, {0, 1})
  BY DEF FlushCache, TypeOK, ClientTypeOK, IsMap
<1> QED  BY <1>3, <1>4 DEF FlushCache, AfterFlush, TypeOK, ClientTypeOK

LEMMA FlushCallType ==
    ASSUME TypeOK, rum_flush_cache, reply' = <<>>
    PROVE  TypeOK'
<1>1. RegionTypeOK'
  BY DEF rum_flush_cache, TypeOK, ClientTypeOK, RegionTypeOK, Span
<1>2. ProgramTypeOK'
  BY DEF rum_flush_cache, TypeOK, ProgramTypeOK
<1> QED  BY <1>1, <1>2, FlushType DEF rum_flush_cache, TypeOK, ClientTypeOK

LEMMA ExitType ==
    ASSUME TypeOK, Exit, reply' = <<>>
    PROVE  TypeOK'
<1>1. RegionTypeOK'
  BY NoEntriesIsMap DEF Exit, RegionTypeOK, NoEntries
<1>2. ASSUME NEW h \in Hashes, Attached(h)
      PROVE  IsMap([k \in 0 .. data_map[HashRegion(h)].len - 1 |-> heap[HashRegion(h) + k]],
                   Nat, Expected)
  <2> DEFINE s == HashRegion(h)
             n == data_map[s].len
  <2>1. s \in DOMAIN data_map
    BY <1>2 DEF HashRegion, Attached
  <2>2. s \in Nat /\ n \in Nat \ {0} /\ Extent(s, n) \subseteq Pages
    BY <2>1, ClientAssumption
       DEF TypeOK, ClientTypeOK, RegionTypeOK, IsMap, Span
  <2> HIDE DEF s, n
  <2>3. ASSUME NEW k \in 0 .. n - 1
        PROVE  heap[s + k] \in Expected
    BY <2>2, <2>3 DEF Extent, TypeOK, ProgramTypeOK, Expected
  <2> QED  BY <2>2, <2>3 DEF IsMap, s, n
<1>3. /\ DOMAIN named' \subseteq Hashes
      /\ \A h \in DOMAIN named' : IsMap(named'[h], Nat, Expected)
  BY <1>2 DEF Exit, TypeOK, ProgramTypeOK, Expected
<1>4. heap' \in [Pages -> Expected]
  BY BlankType DEF Exit
<1>5. ProgramTypeOK'
  BY <1>3, <1>4 DEF Exit, TypeOK, ProgramTypeOK, Expected
<1> QED  BY <1>1, <1>5, FlushType DEF Exit, TypeOK, ClientTypeOK

LEMMA RumInitType ==
    ASSUME TypeOK, rum_init
    PROVE  TypeOK'
<1>1. Filled(Zero) \in [Words -> Contents] /\ <<>> \in Seq(Pages)
  BY StoreAssumption DEF Filled
<1>2. ClientTypeOK'
  BY <1>1, NoEntriesIsMap
     DEF rum_init, TypeOK, ClientTypeOK, RegionTypeOK, Span
<1> QED  BY <1>2 DEF rum_init, TypeOK, SlaveTypeOK, slaveVars, ProgramTypeOK

LEMMA InitType == Init => TypeOK
<1> SUFFICES ASSUME Init PROVE TypeOK
  OBVIOUS
<1>1. /\ Filled(Zero) \in [Words -> Contents]
      /\ Filled(Junk) \in [Words -> Contents]
      /\ Blank \in Expected
      /\ <<>> \in Seq(Pages)
  BY StoreAssumption, BlankType DEF Filled
<1>2. SlaveTypeOK
  BY <1>1, NoEntriesIsMap DEF Init, SlaveInit, SlaveTypeOK
<1>3. RegionTypeOK
  BY NoEntriesIsMap DEF Init, RegionTypeOK, NoEntries
<1>4. ClientTypeOK
  BY <1>1, <1>3, NoEntriesIsMap DEF Init, ClientTypeOK
<1>5. ProgramTypeOK
  BY <1>1 DEF Init, ProgramTypeOK, Expected, NoEntries
<1> QED  BY <1>2, <1>4, <1>5 DEF TypeOK

LEMMA NextType ==
    ASSUME TypeOK, [Next]_vars
    PROVE  TypeOK'
<1>1. CASE UNCHANGED vars
  BY <1>1 DEF vars, clientVars, slaveVars, TypeOK, SlaveTypeOK, ClientTypeOK,
              RegionTypeOK, Span, ProgramTypeOK
<1>2. ASSUME NEW p \in Pages, NEW w \in Words, Access(p, w)
      PROVE  TypeOK'
  BY <1>2, LoadType, StoreType, ExitType DEF Access, SegmentationFault
<1>3. ASSUME Call, reply' = <<>>
      PROVE  TypeOK'
  <2>1. ASSUME NEW n \in 1..MaxLen, rum_alloc_fails(n), UNCHANGED running
        PROVE  TypeOK'
    BY <1>3, <2>1, AllocFailsType, ClientAssumption
  <2>2. ASSUME NEW n \in 1..MaxLen, NEW s \in Pages,
               rum_alloc(s, n), UNCHANGED running
        PROVE  TypeOK'
    <3>1. n \in Nat \ {0} /\ Zero \in Contents
      BY StoreAssumption, ClientAssumption
    <3>2. PICK initial \in Promised : Allocated(s, n, initial)
      BY <2>2 DEF rum_alloc
    <3>3. initial \in Contents \cup {Undef}
      BY <3>1, <3>2 DEF Promised
    <3> QED  BY <1>3, <2>2, <3>1, <3>2, <3>3, AllocatedType
  <2>3. ASSUME NEW n \in 1..MaxLen, NEW s \in Pages, NEW h \in Hashes,
               rum_alloc_hash(s, n, h) \/ rum_alloc_hash_at(s, n, h),
               UNCHANGED running
        PROVE  TypeOK'
    <3>1. n \in Nat \ {0}
      BY ClientAssumption
    <3>2. PICK end \in {FirstAfter(s, n), LastAddress(s, n)} :
             AllocatedHash(s, n, h, end)
      BY <2>3 DEF rum_alloc_hash, rum_alloc_hash_at
    <3> QED  BY <1>3, <2>3, <3>1, <3>2, AllocHashedType
  <2>4. ASSUME NEW s \in Pages, NEW h \in Hashes, rum_get(s, h), UNCHANGED running
        PROVE  TypeOK'
    BY <1>3, <2>4, GetType
  <2>5. ASSUME NEW s \in DOMAIN data_map, rum_free(s) \/ rum_free_hash(s),
               UNCHANGED running
        PROVE  TypeOK'
    BY <1>3, <2>5, FreeType
  <2>6. CASE rum_flush_cache
    BY <1>3, <2>6, FlushCallType
  <2>7. CASE rum_end
    BY <1>3, <2>7, ExitType DEF rum_end
  <2>8. ASSUME NEW n \in 1..MaxLen, UNCHANGED running,
               \/ rum_alloc_unmapped(n) \/ rum_alloc_at_unmapped(n)
               \/ \E h \in Hashes : rum_alloc_hash_unmapped(n, h)
        PROVE  TypeOK'
    BY <1>3, <2>8, GivenBackType, UnmappedType, UnmappedHashType, ClientAssumption
  <2> QED  BY <1>3, <2>1, <2>2, <2>3, <2>4, <2>5, <2>6, <2>7, <2>8 DEF Call
<1>4. CASE rum_init
  BY <1>4, RumInitType
<1> QED  BY <1>1, <1>2, <1>3, <1>4 DEF Next

\* Whatever the program calls, the state keeps its shape, and no region ever
\* reaches beyond the address space.
THEOREM TypeCorrect == Spec => []TypeOK
  BY InitType, NextType, PTL DEF Spec

-----------------------------------------------------------------------------
(* The pages in RAM are the pages on the list                              *)

LEMMA NoBlockIsNoPage == NoBlock \notin Pages
BY ClientAssumption DEF NoBlock

Unprotected == {p \in Pages : prot[p] = "rw"}

\* A fault unprotects its page and puts it on the list, and protects again
\* exactly the page that leaves the list.
LEMMA HandlerCache ==
    ASSUME TypeOK, CacheExact, running, NEW p \in Pages, NEW w, NEW write,
           signal_callback_handler(p, w, write)
    PROVE  /\ p \notin Blocks(history_)
           /\ Unprotected' = Blocks(history_')
           /\ NoDuplicates(history_')
           /\ Len(history_') <= size_limit_
           /\ MakesRoom(history_, Stale(history_, p))
           /\ Joins(history_', history_, p, Stale(history_, p))
<1>1. /\ prot[p] = "none" /\ history_' \in Updated(history_, p)
      /\ prot' = [q \in Pages |-> IF q = Stale(history_, p) THEN "none"
                                  ELSE IF q = p THEN "rw" ELSE prot[q]]
  BY DEF signal_callback_handler
<1>2. /\ history_ \in Seq(Pages) /\ NoDuplicates(history_)
      /\ Len(history_) <= size_limit_
      /\ Unprotected = Blocks(history_)
  BY DEF TypeOK, ClientTypeOK, CacheExact, Unprotected
<1>3. p \notin Blocks(history_)
  BY <1>1, <1>2 DEF Unprotected
<1> DEFINE stale == Stale(history_, p)
<1>4. /\ NoDuplicates(history_') /\ Len(history_') <= size_limit_
      /\ stale \in Blocks(history_) \cup {NoBlock}
      /\ Blocks(history_') = (Blocks(history_) \cup {p}) \ {stale}
  BY <1>1, <1>2, <1>3, NoBlockIsNoPage, UpdatedNew
<1>5. MakesRoom(history_, stale) /\ Joins(history_', history_, p, stale)
  BY <1>1, <1>2, <1>3, NoBlockIsNoPage, UpdatedOrder
<1> HIDE DEF stale
<1>6. p # stale
  BY <1>3, <1>4, NoBlockIsNoPage
<1>7. prot' = [q \in Pages |-> IF q = stale THEN "none"
                               ELSE IF q = p THEN "rw" ELSE prot[q]]
  BY <1>1 DEF stale
<1>8. Unprotected' = (Unprotected \cup {p}) \ {stale}
  BY <1>6, <1>7 DEF Unprotected
<1> QED  BY <1>2, <1>3, <1>4, <1>5, <1>8 DEF stale

\* A region comes in protected, in pages that were not mapped.
LEMMA MapRegionCache ==
    ASSUME TypeOK, NEW s, NEW n, NEW r, NEW h, NEW end, MapRegion(s, n, r, h, end)
    PROVE  history_' = history_ /\ Unprotected' = Unprotected
<1>1. \A p \in Extent(s, n) : p \in Pages /\ prot[p] = "unmapped"
  BY DEF MapRegion, Mmap
<1> QED  BY <1>1 DEF MapRegion, Unprotected, TypeOK, ClientTypeOK

\* The pages of a region that is freed leave the list as they are unmapped.
LEMMA UnmapRegionCache ==
    ASSUME TypeOK, CacheExact, running, NEW s \in DOMAIN data_map, UnmapRegion(s)
    PROVE  /\ Unprotected' = Blocks(history_')
           /\ NoDuplicates(history_')
           /\ Len(history_') <= size_limit_
           /\ Blocks(history_') = Blocks(history_) \ Span(s)
           /\ NewerThan(history_') =
                  NewerThan(history_) \cap (Blocks(history_') \X Blocks(history_'))
<1>1. /\ history_ \in Seq(Pages) /\ NoDuplicates(history_)
      /\ Len(history_) <= size_limit_
      /\ Unprotected = Blocks(history_)
  BY DEF TypeOK, ClientTypeOK, CacheExact, Unprotected
<1>2. history_' \in Without(history_, Span(s))
  BY DEF UnmapRegion, Purged
<1>3. /\ history_' \in Seq(Pages) /\ NoDuplicates(history_')
      /\ Len(history_') <= Len(history_)
      /\ Blocks(history_') = Blocks(history_) \ Span(s)
  BY <1>1, <1>2, WithoutIsSeq
<1>4. NewerThan(history_') =
          NewerThan(history_) \cap (Blocks(history_') \X Blocks(history_'))
  BY <1>1, <1>2, NewerWithout
<1>5. Unprotected' = Unprotected \ Span(s)
  BY DEF UnmapRegion, Unprotected, TypeOK, ClientTypeOK
<1>6. Len(history_') <= size_limit_
  BY <1>1, <1>3, LimitAssumption
<1> QED  BY <1>1, <1>3, <1>4, <1>5, <1>6

\* The steps of a process that does not flush, as seen by the list.
CacheStays    == history_' = history_ /\ Unprotected' = Unprotected /\ running'
CacheFaults   == \E p \in Pages, w \in Words, write \in BOOLEAN :
                     signal_callback_handler(p, w, write) /\ running'
CacheShrinks  == \E s \in DOMAIN data_map : UnmapRegion(s) /\ running'
CacheIsLost   == ~running' /\ history_' = <<>>
CacheIsNew    == ~running /\ rum_init

LEMMA CacheSteps ==
    ASSUME "rum_flush_cache" \notin Api, TypeOK, Next
    PROVE  \/ /\ running
              /\ CacheStays \/ CacheFaults \/ CacheShrinks \/ CacheIsLost
           \/ CacheIsNew
<1>1. ASSUME NEW p \in Pages, NEW w \in Words, running, Access(p, w)
      PROVE  CacheStays \/ CacheFaults \/ CacheIsLost
  <2>1. CASE Load(p, w)
    <3>1. CASE UNCHANGED <<clientVars, slaveVars>>
      BY <1>1, <2>1, <3>1 DEF Load, CacheStays, clientVars, Unprotected
    <3>2. CASE signal_callback_handler(p, w, FALSE)
      BY <1>1, <2>1, <3>2 DEF Load, CacheFaults
    <3> QED  BY <2>1, <3>1, <3>2 DEF Load
  <2>2. ASSUME NEW v \in Values, Store(p, w, v)
        PROVE  CacheStays \/ CacheFaults
    <3>1. CASE UNCHANGED <<data_map, addr_space_map, dirty_map, history_, prot,
                           slaveVars>>
      BY <1>1, <2>2, <3>1 DEF Store, CacheStays, Unprotected
    <3>2. CASE signal_callback_handler(p, w, TRUE)
      BY <1>1, <2>2, <3>2 DEF Store, CacheFaults
    <3> QED  BY <2>2, <3>1, <3>2 DEF Store
  <2>3. CASE SegmentationFault(p, w)
    BY <2>3 DEF SegmentationFault, Exit, FlushCache, CacheIsLost
  <2> QED  BY <1>1, <2>1, <2>2, <2>3 DEF Access
<1>2. ASSUME running, Call
      PROVE  CacheStays \/ CacheShrinks \/ CacheIsLost
  <2>1. ASSUME NEW n \in 1..MaxLen, UNCHANGED running, rum_alloc_fails(n)
        PROVE  CacheStays
    BY <1>2, <2>1 DEF rum_alloc_fails, clientVars, CacheStays, Unprotected
  <2>2. ASSUME NEW s, NEW n, NEW r, NEW h, NEW end, UNCHANGED running,
               MapRegion(s, n, r, h, end)
        PROVE  CacheStays
    BY <1>2, <2>2, MapRegionCache DEF CacheStays
  <2>3. ASSUME NEW n \in 1..MaxLen, NEW s \in Pages, UNCHANGED running,
               rum_alloc(s, n)
        PROVE  CacheStays
    BY <2>2, <2>3 DEF rum_alloc, Allocated
  <2>4. ASSUME NEW n \in 1..MaxLen, NEW s \in Pages, NEW h \in Hashes,
               UNCHANGED running,
               rum_alloc_hash(s, n, h) \/ rum_alloc_hash_at(s, n, h)
        PROVE  CacheStays
    BY <2>2, <2>4 DEF rum_alloc_hash, rum_alloc_hash_at, AllocatedHash
  <2>5. ASSUME NEW s \in Pages, NEW h \in Hashes, UNCHANGED running, rum_get(s, h)
        PROVE  CacheStays
    BY <2>2, <2>5 DEF rum_get
  <2>6. ASSUME NEW s \in DOMAIN data_map, UNCHANGED running,
               rum_free(s) \/ rum_free_hash(s)
        PROVE  CacheShrinks
    BY <1>2, <2>6 DEF rum_free, rum_free_hash, CacheShrinks
  <2>7. CASE rum_flush_cache
    BY <2>7 DEF rum_flush_cache
  <2>8. CASE rum_end
    BY <2>8 DEF rum_end, Exit, FlushCache, CacheIsLost
  <2>9. ASSUME NEW n \in 1..MaxLen, UNCHANGED running,
               \/ rum_alloc_unmapped(n) \/ rum_alloc_at_unmapped(n)
               \/ \E h \in Hashes : rum_alloc_hash_unmapped(n, h)
        PROVE  CacheStays
    BY <1>2, <2>9 DEF rum_alloc_unmapped, rum_alloc_at_unmapped, rum_alloc_hash_unmapped, clientVars, CacheStays,
                      Unprotected
  <2> QED  BY <1>2, <2>1, <2>3, <2>4, <2>5, <2>6, <2>7, <2>8, <2>9 DEF Call
<1>3. CASE rum_init
  BY <1>3 DEF rum_init, CacheIsNew
<1> QED  BY <1>1, <1>2, <1>3 DEF Next

LEMMA CacheNext ==
    ASSUME "rum_flush_cache" \notin Api, TypeOK, CacheExact, [Next]_vars
    PROVE  CacheExact'
<1>1. CASE UNCHANGED vars
  BY <1>1 DEF vars, clientVars, CacheExact, NoDuplicates
<1>2. CASE running /\ CacheStays
  BY <1>2 DEF CacheStays, CacheExact, Unprotected, NoDuplicates
<1>3. CASE running /\ CacheFaults
  BY <1>3, HandlerCache DEF CacheFaults, CacheExact, Unprotected
<1>4. CASE running /\ CacheShrinks
  BY <1>4, UnmapRegionCache DEF CacheShrinks, CacheExact, Unprotected
<1>5. CASE CacheIsLost
  BY <1>5 DEF CacheIsLost, CacheExact
<1>6. CASE CacheIsNew
  BY <1>6, LimitAssumption
     DEF CacheIsNew, rum_init, CacheExact, NoDuplicates, Blocks
<1> QED  BY <1>1, <1>2, <1>3, <1>4, <1>5, <1>6, CacheSteps

\* A process that never calls rum_flush_cache has exactly the pages of the LRU
\* list unprotected, each listed once and no more of them than the limit.
THEOREM CacheIsExact ==
    ASSUME "rum_flush_cache" \notin Api
    PROVE  Spec => []CacheExact
<1>1. Init => CacheExact
  BY LimitAssumption DEF Init, CacheExact, NoDuplicates, Blocks
<1> QED  BY <1>1, CacheNext, TypeCorrect, PTL DEF Spec

-----------------------------------------------------------------------------
(* The pages in RAM are those of an LRU cache                              *)

Resident == IF running THEN {p \in Pages : prot[p] = "rw"} ELSE {}

LEMMA SameCardinality == \A S : R!Cardinality(S) = Cardinality(S)
BY DEF R!Cardinality, Cardinality

\* What the abstract cache calls resident is what the list holds.
LEMMA ResidentIsListed ==
    ASSUME CacheExact, running
    PROVE  Resident = Blocks(history_)
BY DEF CacheExact, Resident

\* Pages leaving is a step of the abstract cache.
LEMMA LeaveIsNext ==
    ASSUME NEW S, S \subseteq Resident, R!Leave(S)
    PROVE  R!Next
<1>1. S \in SUBSET (IF running THEN {p \in Pages : prot[p] = "rw"} ELSE {})
  BY DEF Resident
<1> QED  BY <1>1 DEF R!Next

LEMMA HandlerIsFault ==
    ASSUME TypeOK, CacheExact, CacheExact', running, running', NEW p \in Pages,
           NEW w, NEW write, signal_callback_handler(p, w, write)
    PROVE  R!Fault(p)
<1> DEFINE b == Stale(history_, p)
           K == Resident \ {b}
<1>1. /\ p \notin Resident
      /\ MakesRoom(history_, b)
      /\ Joins(history_', history_, p, b)
      /\ Resident' = Blocks(history_')
      /\ Resident = Blocks(history_)
  BY HandlerCache, ResidentIsListed DEF Unprotected, Resident
<1>2. NoBlock \notin Resident
  BY NoBlockIsNoPage DEF Resident
<1> HIDE DEF b
<1>3. R!Becomes(K, p)
  BY <1>1 DEF R!Becomes, R!Among, Joins, Resident
<1>4. CASE b = NoBlock /\ Cardinality(Resident) < size_limit_
  <2>1. K = Resident
    BY <1>2, <1>4
  <2>2. R!Becomes(Resident, p)
    BY <1>3, <2>1
  <2> QED  BY <1>1, <1>4, <2>2, SameCardinality DEF R!Fault, Resident
<1>5. CASE b \in Resident /\ Cardinality(Resident) = size_limit_ /\ R!IsOldest(b)
  BY <1>1, <1>3, <1>5, SameCardinality DEF R!Fault, Resident
<1> QED  BY <1>1, <1>4, <1>5 DEF MakesRoom, R!IsOldest, Resident

\* Until it flushes, a process keeps in RAM the pages an LRU cache would keep,
\* and a fault takes from it only the page whose last fault is the oldest.
THEOREM RecencyImplemented ==
    ASSUME "rum_flush_cache" \notin Api
    PROVE  Spec => IsRecency
<1>1. Init => R!Init
  BY DEF Init, R!Init, NewerThan, Blocks
<1>2. ASSUME TypeOK, CacheExact, CacheExact', [Next]_vars
      PROVE  [R!Next]_(R!vars)
  <2>1. CASE UNCHANGED vars
    BY <2>1 DEF vars, clientVars, R!vars, NewerThan, Blocks
  <2>2. CASE running /\ CacheStays
    BY <2>2 DEF CacheStays, Unprotected, R!vars, NewerThan, Blocks
  <2>3. CASE running /\ CacheFaults
    <3>1. \E p \in Pages : R!Fault(p)
      BY <1>2, <2>3, HandlerIsFault DEF CacheFaults
    <3> QED  BY <3>1 DEF R!Next
  <2>4. CASE running /\ CacheShrinks
    <3>1. PICK s \in DOMAIN data_map : UnmapRegion(s) /\ running'
      BY <2>4 DEF CacheShrinks
    <3>2. /\ Resident = Blocks(history_) /\ Resident' = Blocks(history_')
          /\ Blocks(history_') = Blocks(history_) \ Span(s)
          /\ NewerThan(history_') =
                 NewerThan(history_) \cap (Blocks(history_') \X Blocks(history_'))
      BY <1>2, <2>4, <3>1, UnmapRegionCache, ResidentIsListed DEF Unprotected, Resident
    <3>3. PICK S : S = Resident \cap Span(s)
      OBVIOUS
    <3>4. R!Leave(S) /\ S \subseteq Resident
      BY <3>2, <3>3 DEF R!Leave, R!Among, Resident
    <3> QED  BY <3>4, LeaveIsNext
  <2>5. CASE running /\ CacheIsLost
    <3>1. Resident' = {}
      BY <2>5 DEF CacheIsLost, Resident
    <3>2. NewerThan(history_') = {}
      BY <2>5 DEF CacheIsLost, NewerThan, Blocks
    <3>3. PICK S : S = Resident
      OBVIOUS
    <3>4. R!Leave(S) /\ S \subseteq Resident
      BY <3>1, <3>2, <3>3 DEF R!Leave, R!Among, Resident
    <3> QED  BY <3>4, LeaveIsNext
  <2>6. CASE CacheIsNew
    <3>1. Resident = {} /\ NewerThan(history_') = {} /\ Resident' = {}
      BY <2>6 DEF CacheIsNew, rum_init, Resident, NewerThan, Blocks
    <3>2. R!Leave({})
      BY <3>1 DEF R!Leave, R!Among, Resident
    <3> QED  BY <3>2, LeaveIsNext
  <2> QED  BY <1>2, <2>1, <2>2, <2>3, <2>4, <2>5, <2>6, CacheSteps
<1> QED  BY <1>1, <1>2, TypeCorrect, CacheIsExact, PTL DEF Spec, IsRecency, R!Spec

-----------------------------------------------------------------------------
(* The list, whether or not the process flushes                            *)

\* A listed page can be touched, is listed once, and no more of them than the
\* limit.
Listed ==
    running =>
        /\ Blocks(history_) \subseteq Unprotected
        /\ NoDuplicates(history_)
        /\ Len(history_) <= size_limit_

LEMMA HandlerListed ==
    ASSUME TypeOK, Listed, running, NEW p \in Pages, NEW w, NEW write,
           signal_callback_handler(p, w, write)
    PROVE  /\ p \notin Blocks(history_)
           /\ Stale(history_, p) \in Blocks(history_) \cup {NoBlock}
           /\ Blocks(history_') = (Blocks(history_) \cup {p}) \ {Stale(history_, p)}
           /\ \A q \in Pages : (prot'[q] = "unmapped") <=> (prot[q] = "unmapped")
           /\ Listed'
<1>1. /\ prot[p] = "none" /\ history_' \in Updated(history_, p)
      /\ prot' = [q \in Pages |-> IF q = Stale(history_, p) THEN "none"
                                  ELSE IF q = p THEN "rw" ELSE prot[q]]
  BY DEF signal_callback_handler
<1>2. /\ history_ \in Seq(Pages) /\ NoDuplicates(history_)
      /\ Len(history_) <= size_limit_
      /\ Blocks(history_) \subseteq Unprotected
  BY DEF TypeOK, ClientTypeOK, Listed
<1>3. p \notin Blocks(history_)
  BY <1>1, <1>2 DEF Unprotected
<1> DEFINE stale == Stale(history_, p)
<1>4. /\ NoDuplicates(history_') /\ Len(history_') <= size_limit_
      /\ stale \in Blocks(history_) \cup {NoBlock}
      /\ Blocks(history_') = (Blocks(history_) \cup {p}) \ {stale}
  BY <1>1, <1>2, <1>3, NoBlockIsNoPage, UpdatedNew
<1> HIDE DEF stale
<1>5. prot' = [q \in Pages |-> IF q = stale THEN "none"
                               ELSE IF q = p THEN "rw" ELSE prot[q]]
  BY <1>1 DEF stale
<1>6. Blocks(history_') \subseteq Unprotected'
  BY <1>2, <1>4, <1>5 DEF Unprotected
<1>7. \A q \in Pages : (prot'[q] = "unmapped") <=> (prot[q] = "unmapped")
  BY <1>1, <1>2, <1>4, <1>5, NoBlockIsNoPage DEF Unprotected, TypeOK, ClientTypeOK
<1> QED  BY <1>3, <1>4, <1>6, <1>7 DEF stale, Listed

LEMMA UnmapRegionListed ==
    ASSUME TypeOK, Listed, running, NEW s \in DOMAIN data_map, UnmapRegion(s)
    PROVE  Listed' /\ Blocks(history_') = Blocks(history_) \ Span(s)
<1>1. /\ history_ \in Seq(Pages) /\ NoDuplicates(history_)
      /\ Len(history_) \in Nat /\ Len(history_) <= size_limit_
      /\ Blocks(history_) \subseteq Unprotected
  BY DEF TypeOK, ClientTypeOK, Listed
<1>2. history_' \in Without(history_, Span(s))
  BY DEF UnmapRegion, Purged
<1>3. /\ history_' \in Seq(Pages) /\ NoDuplicates(history_')
      /\ Len(history_') <= Len(history_)
      /\ Blocks(history_') = Blocks(history_) \ Span(s)
  BY <1>1, <1>2, WithoutIsSeq
<1>4. Len(history_') <= size_limit_
  BY <1>1, <1>3, LimitAssumption
<1>5. Unprotected' = Unprotected \ Span(s)
  BY DEF UnmapRegion, Unprotected, TypeOK, ClientTypeOK
<1> QED  BY <1>1, <1>3, <1>4, <1>5 DEF Listed

\* A flush empties the list and leaves every page as accessible as it was.
LEMMA FlushListed ==
    ASSUME TypeOK, Listed, running, FlushCache
    PROVE  prot' = prot /\ Blocks(history_') = {} /\ Listed'
<1>1. prot' = [p \in Pages |-> IF p \in Blocks(history_) THEN "rw" ELSE prot[p]]
  BY DEF FlushCache, AfterFlush
<1>2. \A p \in Blocks(history_) : prot[p] = "rw"
  BY DEF Listed, Unprotected
<1>3. prot \in [Pages -> {"unmapped", "none", "rw"}]
  BY DEF TypeOK, ClientTypeOK
<1>4. prot' = prot
  BY <1>1, <1>2, <1>3
<1>5. history_' = <<>>
  BY DEF FlushCache
<1> QED  BY <1>4, <1>5, LimitAssumption DEF Blocks, Listed, NoDuplicates

-----------------------------------------------------------------------------
(* The regions                                                             *)

\* The regions do not overlap, and the pages mapped are theirs; a process that
\* has ended has none.
RegionsApart ==
    \A s, t \in DOMAIN data_map : s # t => Span(s) \cap Span(t) = {}
MappedIsLive ==
    running => \A p \in Pages : prot[p] # "unmapped" <=> p \in LivePages
GoneAtEnd ==
    ~running => DOMAIN data_map = {} /\ DOMAIN addr_space_map = {}

RegionsSound == RegionsApart /\ MappedIsLive /\ GoneAtEnd

LEMMA RegionStart ==
    ASSUME TypeOK, NEW s \in DOMAIN data_map
    PROVE  /\ s \in Pages /\ s \in Nat
           /\ data_map[s].len \in Nat \ {0}
           /\ data_map[s].remote \in RPages
           /\ data_map[s].hash \in Hashes \cup {NoHash}
           /\ s \in Span(s) /\ Span(s) \subseteq Pages
<1>1. s \in Pages /\ data_map[s] \in [len : Nat \ {0}, remote : RPages,
                               hash : Hashes \cup {NoHash}, end : Addresses]
  BY DEF TypeOK, ClientTypeOK, RegionTypeOK, IsMap
<1>2. s \in Nat
  BY <1>1, ClientAssumption
<1>3. Span(s) \subseteq Pages
  BY DEF TypeOK, ClientTypeOK, RegionTypeOK
<1> QED  BY <1>1, <1>2, <1>3, StartInExtent DEF Span

\* A step that neither maps nor unmaps anything.
LEMMA RegionsStay ==
    ASSUME TypeOK, RegionsSound,
           UNCHANGED <<data_map, addr_space_map, running>>,
           \A p \in Pages : (prot'[p] = "unmapped") <=> (prot[p] = "unmapped")
    PROVE  RegionsSound' /\ LivePages' = LivePages
<1>1. \A s : Span(s)' = Span(s)
  BY DEF Span
<1>2. LivePages' = LivePages
  BY <1>1 DEF LivePages
<1> QED  BY <1>1, <1>2 DEF RegionsSound, RegionsApart, MappedIsLive, GoneAtEnd

\* A new region lies in pages of its own.
LEMMA MapRegionSound ==
    ASSUME TypeOK, RegionsSound, running, running',
           NEW s \in Pages, NEW n \in Nat \ {0}, NEW r, NEW h, NEW end,
           MapRegion(s, n, r, h, end)
    PROVE  /\ s \notin DOMAIN data_map
           /\ DOMAIN data_map' = DOMAIN data_map \cup {s}
           /\ data_map'[s] = [len |-> n, remote |-> r, hash |-> h, end |-> end]
           /\ \A t \in DOMAIN data_map : data_map'[t] = data_map[t]
           /\ \A t \in DOMAIN data_map : Span(t)' = Span(t)
           /\ Span(s)' = Extent(s, n)
           /\ Extent(s, n) \cap LivePages = {}
           /\ Extent(s, n) \subseteq Pages
           /\ LivePages' = LivePages \cup Extent(s, n)
           /\ RegionsSound'
<1> DEFINE d == [len |-> n, remote |-> r, hash |-> h, end |-> end]
<1>1. Extent(s, n) \subseteq Pages /\ \A p \in Extent(s, n) : prot[p] = "unmapped"
  BY DEF MapRegion, Mmap
<1>2. Extent(s, n) \cap LivePages = {}
  BY <1>1 DEF RegionsSound, MappedIsLive
<1>3. s \notin DOMAIN data_map
  <2>1. SUFFICES ASSUME s \in DOMAIN data_map PROVE FALSE
    OBVIOUS
  <2>2. s \in Span(s) /\ s \in Extent(s, n)
    BY <2>1, RegionStart, StartInExtent
  <2> QED  BY <1>2, <2>1, <2>2 DEF LivePages
<1>4. data_map' = Insert(data_map, s, d)
  BY DEF MapRegion
<1>5. d.len = n
  OBVIOUS
<1> HIDE DEF d
<1>6. /\ DOMAIN data_map' = DOMAIN data_map \cup {s}
      /\ data_map'[s] = d
      /\ \A t \in DOMAIN data_map : data_map'[t] = data_map[t]
  BY <1>3, <1>4 DEF Insert
<1>7. /\ \A t \in DOMAIN data_map : Span(t)' = Span(t)
      /\ Span(s)' = Extent(s, n)
  BY <1>5, <1>6 DEF Span
<1>8. LivePages' = LivePages \cup Extent(s, n)
  BY <1>6, <1>7 DEF LivePages
<1>9. prot' = [p \in Pages |-> IF p \in Extent(s, n) THEN "none" ELSE prot[p]]
  BY DEF MapRegion
<1>10. MappedIsLive'
  BY <1>8, <1>9 DEF RegionsSound, MappedIsLive
<1>11. RegionsApart'
  <2> SUFFICES ASSUME NEW a \in DOMAIN data_map', NEW b \in DOMAIN data_map', a # b
               PROVE  Span(a)' \cap Span(b)' = {}
    BY DEF RegionsApart
  <2>1. CASE a \in DOMAIN data_map /\ b \in DOMAIN data_map
    BY <1>7, <2>1 DEF RegionsSound, RegionsApart
  <2>2. CASE a = s
    BY <1>2, <1>6, <1>7, <2>2 DEF LivePages
  <2>3. CASE b = s
    BY <1>2, <1>6, <1>7, <2>3 DEF LivePages
  <2> QED  BY <1>6, <2>1, <2>2, <2>3
<1> QED  BY <1>1, <1>2, <1>3, <1>6, <1>7, <1>8, <1>10, <1>11
         DEF RegionsSound, GoneAtEnd, d

\* What is left when a region is unmapped.
LEMMA UnmapRegionSound ==
    ASSUME TypeOK, RegionsSound, running, running',
           NEW s \in DOMAIN data_map, UnmapRegion(s)
    PROVE  /\ DOMAIN data_map' = DOMAIN data_map \ {s}
           /\ \A t \in DOMAIN data_map' : data_map'[t] = data_map[t] /\ Span(t)' = Span(t)
           /\ LivePages' = LivePages \ Span(s)
           /\ Span(s) \subseteq LivePages
           /\ RegionsSound'
<1>1. data_map' = Erase(data_map, s)
  BY DEF UnmapRegion
<1>2. /\ DOMAIN data_map' = DOMAIN data_map \ {s}
      /\ \A t \in DOMAIN data_map' : data_map'[t] = data_map[t] /\ Span(t)' = Span(t)
  BY <1>1 DEF Erase, Span
<1>3. LivePages' = LivePages \ Span(s) /\ Span(s) \subseteq LivePages
  BY <1>2 DEF LivePages, RegionsSound, RegionsApart
<1>4. prot' = [p \in Pages |-> IF p \in Span(s) THEN "unmapped" ELSE prot[p]]
  BY DEF UnmapRegion
<1>5. MappedIsLive'
  BY <1>3, <1>4 DEF RegionsSound, MappedIsLive
<1>6. RegionsApart'
  BY <1>2 DEF RegionsSound, RegionsApart
<1> QED  BY <1>2, <1>3, <1>5, <1>6 DEF RegionsSound, GoneAtEnd

\* A process that ends has no regions any more.
LEMMA ExitSound ==
    ASSUME Exit
    PROVE  DOMAIN data_map' = {} /\ LivePages' = {} /\ RegionsSound' /\ Listed'
<1>1. DOMAIN data_map' = {} /\ DOMAIN addr_space_map' = {} /\ ~running'
  BY DEF Exit, NoEntries
<1> QED  BY <1>1 DEF LivePages, RegionsSound, RegionsApart, MappedIsLive, GoneAtEnd, Listed

LEMMA RumInitSound ==
    ASSUME TypeOK, RegionsSound, rum_init
    PROVE  DOMAIN data_map = {} /\ LivePages' = {} /\ RegionsSound' /\ Listed'
<1>1. DOMAIN data_map = {} /\ UNCHANGED <<data_map, addr_space_map>> /\ running'
  BY DEF RegionsSound, GoneAtEnd, rum_init
<1>2. LivePages' = {} /\ history_' = <<>> /\ prot' = [p \in Pages |-> "unmapped"]
  BY <1>1 DEF LivePages, rum_init
<1>3. Listed'
  BY <1>2, LimitAssumption DEF Listed, Blocks, NoDuplicates
<1> QED  BY <1>1, <1>2, <1>3 DEF RegionsSound, RegionsApart, MappedIsLive, GoneAtEnd

-----------------------------------------------------------------------------
(* Who owns the blocks of the slave                                        *)

\* Every region has a block of its size, and no two share one.
RegionsBacked ==
    /\ \A s \in DOMAIN data_map :
          /\ data_map[s].remote \in DOMAIN arena
          /\ arena[data_map[s].remote] = data_map[s].len
    /\ \A s, t \in DOMAIN data_map : s # t => data_map[s].remote # data_map[t].remote

\* So has every hash.
HashesBacked ==
    /\ \A h \in DOMAIN hash_map : hash_map[h] \in DOMAIN arena
    /\ \A g, h \in DOMAIN hash_map : g # h => hash_map[g] # hash_map[h]

\* A region of a hash has the block of the hash, and any other has one that
\* is no hash's.
BlockOfHash ==
    \A s \in DOMAIN data_map :
        /\ data_map[s].hash # NoHash =>
              /\ data_map[s].hash \in DOMAIN hash_map
              /\ hash_map[data_map[s].hash] = data_map[s].remote
        /\ data_map[s].hash = NoHash =>
              \A h \in DOMAIN hash_map : hash_map[h] # data_map[s].remote

\* A hash is attached here or was left behind, and has the size it was left in.
HashesKnown ==
    /\ \A h \in DOMAIN hash_map : Attached(h) \/ h \in DOMAIN named
    /\ \A h \in DOMAIN named :
          h \in DOMAIN hash_map /\ DOMAIN named[h] = 0 .. arena[hash_map[h]] - 1

\* A block that a failing rum_alloc(size, location) left is neither.
LeakedApart ==
    /\ leaked \subseteq DOMAIN arena
    /\ \A s \in DOMAIN data_map : data_map[s].remote \notin leaked
    /\ \A h \in DOMAIN hash_map : hash_map[h] \notin leaked

\* No block is anything else.
NoneElse ==
    /\ "rum_init" \in Api => \A s \in DOMAIN data_map : data_map[s].hash # NoHash
    /\ running \/ "rum_init" \in Api =>
          DOMAIN arena \subseteq {data_map[s].remote : s \in DOMAIN data_map}
                                     \cup {hash_map[h] : h \in DOMAIN hash_map}
                                     \cup leaked

Owned == /\ RegionsBacked
         /\ HashesBacked
         /\ BlockOfHash
         /\ HashesKnown
         /\ LeakedApart
         /\ NoneElse

LEMMA OwnedStays ==
    ASSUME Owned, UNCHANGED <<data_map, arena, hash_map, named, leaked, running>>
    PROVE  Owned'
BY DEF Owned, RegionsBacked, HashesBacked, BlockOfHash, HashesKnown, LeakedApart, NoneElse,
       Attached

\* A block nobody had goes to a region of no hash.
LEMMA AllocatedOwned ==
    ASSUME TypeOK, Owned, RegionsSound, HeapSound, running, running', "rum_init" \notin Api,
           NEW s \in Pages, NEW n \in Nat \ {0}, NEW r \in RPages, NEW end,
           ALLOC(n, r), MapRegion(s, n, r, NoHash, end), UNCHANGED <<named, leaked>>
    PROVE  Owned' /\ HeapSound'
<1>1. /\ HeapSound' /\ hash_map' = hash_map
      /\ r \notin DOMAIN arena
      /\ DOMAIN arena' = DOMAIN arena \cup {r} /\ arena'[r] = n
      /\ \A b \in DOMAIN arena : arena'[b] = arena[b]
  BY AllocSound, NullIsNoPage DEF ALLOC, TypeOK
<1>2. /\ s \notin DOMAIN data_map
      /\ DOMAIN data_map' = DOMAIN data_map \cup {s}
      /\ data_map'[s] = [len |-> n, remote |-> r, hash |-> NoHash, end |-> end]
      /\ \A t \in DOMAIN data_map : data_map'[t] = data_map[t]
  <2>1. PICK h : h = NoHash
    OBVIOUS
  <2>2. MapRegion(s, n, r, h, end)
    BY <2>1
  <2> QED  BY <2>1, <2>2, MapRegionSound
<1>3. data_map'[s].len = n /\ data_map'[s].remote = r /\ data_map'[s].hash = NoHash
  BY <1>2
<1>4. RegionsBacked'
  BY <1>1, <1>2, <1>3 DEF Owned, RegionsBacked
<1>5. HashesBacked'
  BY <1>1 DEF Owned, HashesBacked
<1>6. BlockOfHash'
  BY <1>1, <1>2, <1>3 DEF Owned, HashesBacked, BlockOfHash
<1>7. HashesKnown'
  BY <1>1, <1>2 DEF Owned, HashesBacked, HashesKnown, Attached
<1>8. LeakedApart'
  BY <1>1, <1>2, <1>3 DEF Owned, LeakedApart
<1>9. NoneElse'
  BY <1>1, <1>2, <1>3 DEF Owned, NoneElse
<1> QED  BY <1>1, <1>4, <1>5, <1>6, <1>7, <1>8, <1>9 DEF Owned

\* A block nobody had is nobody's.
LEMMA UnmappedOwned ==
    ASSUME TypeOK, Owned, HeapSound, NEW n \in Nat \ {0}, NEW r \in RPages, ALLOC(n, r),
           leaked' = leaked \cup {r}, UNCHANGED <<data_map, named, running>>
    PROVE  Owned' /\ HeapSound'
<1>1. /\ HeapSound' /\ hash_map' = hash_map
      /\ r \notin DOMAIN arena
      /\ DOMAIN arena' = DOMAIN arena \cup {r}
      /\ \A b \in DOMAIN arena : arena'[b] = arena[b]
  BY AllocSound, NullIsNoPage DEF ALLOC, TypeOK
<1>2. RegionsBacked' /\ HashesBacked' /\ BlockOfHash'
  BY <1>1 DEF Owned, RegionsBacked, HashesBacked, BlockOfHash
<1>3. HashesKnown'
  BY <1>1 DEF Owned, HashesBacked, HashesKnown, Attached
<1>4. LeakedApart'
  BY <1>1 DEF Owned, RegionsBacked, HashesBacked, LeakedApart
<1>5. NoneElse'
  BY <1>1 DEF Owned, NoneElse
<1> QED  BY <1>1, <1>2, <1>3, <1>4, <1>5 DEF Owned

\* A region is attached to the block of its hash.
LEMMA AttachedOwned ==
    ASSUME TypeOK, Owned, RegionsSound, running, running',
           NEW s \in Pages, NEW n \in Nat \ {0}, NEW r \in RPages, NEW h \in Hashes, NEW end,
           MapRegion(s, n, r, h, end), UNCHANGED <<named, leaked>>, ~Attached(h),
           \A b \in DOMAIN arena : b \in DOMAIN arena' /\ arena'[b] = arena[b],
           r \in DOMAIN arena' /\ arena'[r] = n,
           DOMAIN arena' = DOMAIN arena \cup {r},
           DOMAIN hash_map' = DOMAIN hash_map \cup {h}, hash_map'[h] = r,
           \A g \in DOMAIN hash_map : hash_map'[g] = hash_map[g],
           \A t \in DOMAIN data_map : data_map[t].remote # r,
           \A g \in DOMAIN hash_map : g # h => hash_map[g] # r,
           r \notin leaked
    PROVE  Owned'
<1>2. /\ s \notin DOMAIN data_map
      /\ DOMAIN data_map' = DOMAIN data_map \cup {s}
      /\ data_map'[s] = [len |-> n, remote |-> r, hash |-> h, end |-> end]
      /\ \A t \in DOMAIN data_map : data_map'[t] = data_map[t]
  BY MapRegionSound
<1>3. data_map'[s].len = n /\ data_map'[s].remote = r /\ data_map'[s].hash = h
  BY <1>2
<1>4. h # NoHash
  BY NamesAssumption
<1>5. RegionsBacked'
  BY <1>2, <1>3 DEF Owned, RegionsBacked
<1>6. HashesBacked'
  BY DEF Owned, HashesBacked
<1>7. BlockOfHash'
  BY <1>2, <1>3, <1>4 DEF Owned, BlockOfHash
<1>8. HashesKnown'
  BY <1>2, <1>3 DEF Owned, HashesBacked, HashesKnown, Attached
<1>9. NoneElse'
  BY <1>2, <1>3, <1>4 DEF Owned, NoneElse
<1>10. LeakedApart'
  BY <1>2, <1>3 DEF Owned, LeakedApart
<1> QED  BY <1>5, <1>6, <1>7, <1>8, <1>9, <1>10 DEF Owned

\* A hash that is not attached has a block no region has.
LEMMA UnattachedBlock ==
    ASSUME TypeOK, Owned, NEW h \in DOMAIN hash_map, ~Attached(h)
    PROVE  \A t \in DOMAIN data_map : data_map[t].remote # hash_map[h]
BY DEF Owned, BlockOfHash, HashesBacked, Attached

\* A hash that is known has the size asked for, so its block is the reply.
LEMMA KnownHash ==
    ASSUME TypeOK, Owned, HeapSound, NEW n \in Nat \ {0}, NEW r, NEW h \in DOMAIN hash_map,
           ~Attached(h), h \in DOMAIN named => HasSize(h, n), ALLOC_HASH(h, n, r)
    PROVE  /\ r = hash_map[h] /\ UNCHANGED slaveVars
           /\ hash_map[h] \in DOMAIN arena /\ arena[hash_map[h]] = n
<1> DEFINE b == hash_map[h]
<1>1. h \in DOMAIN named /\ DOMAIN named[h] = 0 .. arena[b] - 1 /\ b \in DOMAIN arena
  BY DEF Owned, HashesKnown, HashesBacked
<1>2. arena[b] \in Nat \ {0} /\ b \in RPages
  BY <1>1 DEF TypeOK, SlaveTypeOK, IsMap
<1>3. 0 .. arena[b] - 1 = 0 .. n - 1
  BY <1>1 DEF HasSize
<1>4. arena[b] = n
  <2>1. arena[b] - 1 \in 0 .. arena[b] - 1 /\ n - 1 \in 0 .. n - 1
    BY <1>2
  <2>2. arena[b] - 1 \in 0 .. n - 1 /\ n - 1 \in 0 .. arena[b] - 1
    BY <1>3, <2>1
  <2> QED  BY <1>2, <2>2
<1>5. Reusable(h, n)
  BY <1>1, <1>4 DEF Reusable, HeapSound, SizesKnown
<1> QED  BY <1>1, <1>4, <1>5 DEF ALLOC_HASH

LEMMA AllocatedHashOwned ==
    ASSUME TypeOK, Owned, RegionsSound, HeapSound, running, running',
           NEW s \in Pages, NEW n \in Nat \ {0}, NEW h \in Hashes, NEW r, NEW end,
           ~Attached(h), h \in DOMAIN named => HasSize(h, n),
           ALLOC_HASH(h, n, r), MapRegion(s, n, r, h, end), UNCHANGED <<named, leaked>>
    PROVE  /\ Owned' /\ HeapSound' /\ r \in RPages
           /\ \A t \in DOMAIN data_map :
                 Extent(data_map[t].remote, data_map[t].len) \cap Extent(r, n) = {}
           /\ \A b \in DOMAIN arena : arena'[b] = arena[b]
           /\ \/ slave_mem' = slave_mem
              \/ /\ slave_mem' = [f \in RPages |->
                        IF f \in Extent(r, n) THEN Filled(Zero) ELSE slave_mem[f]]
                 /\ r \in DOMAIN arena' /\ arena'[r] = n
                 /\ Extent(r, n) \cap PagesOf(arena) = {}
<1>1. CASE h \in DOMAIN hash_map
  <2> DEFINE b == hash_map[h]
  <2>6. r = b /\ UNCHANGED slaveVars /\ b \in DOMAIN arena /\ arena[b] = n
    BY <1>1, KnownHash
  <2>7. \A t \in DOMAIN data_map : data_map[t].remote # r
    BY <1>1, <2>6, UnattachedBlock
  <2>8. \A g \in DOMAIN hash_map : g # h => hash_map[g] # r
    BY <1>1, <2>6 DEF Owned, HashesBacked
  <2>9. /\ arena' = arena /\ hash_map' = hash_map /\ data_size_map' = data_size_map
        /\ slave_mem' = slave_mem
    BY <2>6 DEF slaveVars
  <2>10. r \in RPages /\ r \in DOMAIN arena /\ arena[r] = n /\ hash_map[h] = r
    BY <2>6 DEF TypeOK, SlaveTypeOK, IsMap
  <2> HIDE DEF b
  <2>14. r \notin leaked
    BY <1>1, <2>10 DEF Owned, LeakedApart
  <2>11. Owned'
    BY <1>1, <2>7, <2>8, <2>9, <2>10, <2>14, AttachedOwned
  <2>12. HeapSound'
    BY <2>9 DEF HeapSound, Apart, SizesKnown
  <2>13. \A t \in DOMAIN data_map :
            Extent(data_map[t].remote, data_map[t].len) \cap Extent(r, n) = {}
    BY <2>7, <2>10 DEF Owned, RegionsBacked, HeapSound, Apart
  <2> QED  BY <2>9, <2>10, <2>11, <2>12, <2>13
<1>2. CASE h \notin DOMAIN hash_map
  <2>1. /\ HeapSound'
        /\ r \in RPages /\ r \notin DOMAIN arena
        /\ DOMAIN arena' = DOMAIN arena \cup {r} /\ arena'[r] = n
        /\ \A b \in DOMAIN arena : arena'[b] = arena[b]
        /\ \A b \in DOMAIN arena : Extent(b, arena[b]) \cap Extent(r, n) = {}
        /\ slave_mem' = [f \in RPages |->
                IF f \in Extent(r, n) THEN Filled(Zero) ELSE slave_mem[f]]
        /\ DOMAIN hash_map' = DOMAIN hash_map \cup {h} /\ hash_map'[h] = r
        /\ \A g \in DOMAIN hash_map : hash_map'[g] = hash_map[g]
    BY <1>2, AllocHashSound DEF TypeOK
  <2>2. /\ \A t \in DOMAIN data_map : data_map[t].remote # r
        /\ \A g \in DOMAIN hash_map : g # h => hash_map[g] # r
        /\ r \notin leaked
    BY <2>1 DEF Owned, RegionsBacked, HashesBacked, LeakedApart
  <2>3. Owned'
    BY <2>1, <2>2, AttachedOwned
  <2>4. \A t \in DOMAIN data_map :
            Extent(data_map[t].remote, data_map[t].len) \cap Extent(r, n) = {}
    BY <2>1 DEF Owned, RegionsBacked
  <2> QED  BY <2>1, <2>3, <2>4 DEF PagesOf
<1> QED  BY <1>1, <1>2

\* A hash that is allocated and not attached: its block is the one it has, or new.
LEMMA UnmappedHashOwned ==
    ASSUME TypeOK, Owned, HeapSound, running, running',
           NEW n \in Nat \ {0}, NEW h \in Hashes, rum_alloc_hash_unmapped(n, h)
    PROVE  /\ Owned' /\ HeapSound'
           /\ \E r \in RPages :
                 \/ slave_mem' = slave_mem
                 \/ /\ slave_mem' = [f \in RPages |->
                          IF f \in Extent(r, n) THEN Filled(Zero) ELSE slave_mem[f]]
                    /\ r \in DOMAIN arena' /\ arena'[r] = n
                    /\ Extent(r, n) \cap PagesOf(arena) = {}
<1>1. /\ ~Attached(h) /\ (h \in DOMAIN named => HasSize(h, n))
      /\ named' = Insert(named, h, [k \in 0 .. n - 1 |-> Blank])
      /\ data_map' = data_map /\ leaked' = leaked
  BY DEF rum_alloc_hash_unmapped, clientVars
<1>2. PICK r \in RPages : ALLOC_HASH(h, n, r)
  BY DEF rum_alloc_hash_unmapped
<1>3. CASE h \in DOMAIN hash_map
  <2>1. h \in DOMAIN named
    BY <1>1, <1>3 DEF Owned, HashesKnown
  <2>2. UNCHANGED slaveVars
    BY <1>1, <1>2, <1>3, <2>1, KnownHash
  <2>3. named' = named
    BY <1>1, <2>1 DEF Insert
  <2>4. Owned'
    BY <1>1, <2>2, <2>3, OwnedStays DEF slaveVars
  <2>5. HeapSound'
    BY <2>2 DEF slaveVars, HeapSound, Apart, SizesKnown
  <2> QED  BY <2>2, <2>4, <2>5 DEF slaveVars
<1>4. CASE h \notin DOMAIN hash_map
  <2>1. /\ HeapSound'
        /\ r \in RPages /\ r \notin DOMAIN arena
        /\ DOMAIN arena' = DOMAIN arena \cup {r} /\ arena'[r] = n
        /\ \A b \in DOMAIN arena : arena'[b] = arena[b]
        /\ \A b \in DOMAIN arena : Extent(b, arena[b]) \cap Extent(r, n) = {}
        /\ slave_mem' = [f \in RPages |->
                IF f \in Extent(r, n) THEN Filled(Zero) ELSE slave_mem[f]]
        /\ DOMAIN hash_map' = DOMAIN hash_map \cup {h} /\ hash_map'[h] = r
        /\ \A g \in DOMAIN hash_map : hash_map'[g] = hash_map[g]
    BY <1>2, <1>4, AllocHashSound DEF TypeOK
  <2>2. h \notin DOMAIN named
    BY <1>4 DEF Owned, HashesKnown
  <2>3. /\ DOMAIN named' = DOMAIN named \cup {h}
        /\ DOMAIN named'[h] = 0 .. n - 1
        /\ \A g \in DOMAIN named : named'[g] = named[g]
    BY <1>1, <2>2 DEF Insert
  <2>4. RegionsBacked' /\ HashesBacked'
    BY <1>1, <2>1 DEF Owned, RegionsBacked, HashesBacked
  <2>5. BlockOfHash'
    BY <1>1, <2>1 DEF Owned, RegionsBacked, BlockOfHash
  <2>6. HashesKnown'
    <3>1. \A g \in DOMAIN hash_map' : Attached(g)' \/ g \in DOMAIN named'
      BY <1>1, <2>1, <2>3 DEF Owned, HashesKnown, Attached
    <3>2. ASSUME NEW g \in DOMAIN named'
          PROVE  /\ g \in DOMAIN hash_map'
                 /\ DOMAIN named'[g] = 0 .. arena'[hash_map'[g]] - 1
      <4>1. CASE g = h
        BY <2>1, <2>3, <4>1
      <4>2. CASE g \in DOMAIN named
        BY <2>1, <2>3, <4>2 DEF Owned, HashesKnown, HashesBacked
      <4> QED  BY <2>3, <3>2, <4>1, <4>2
    <3> QED  BY <3>1, <3>2 DEF HashesKnown
  <2>7. LeakedApart'
    BY <1>1, <2>1 DEF Owned, LeakedApart
  <2>8. NoneElse'
    BY <1>1, <2>1 DEF Owned, NoneElse
  <2> QED  BY <2>1, <2>4, <2>5, <2>6, <2>7, <2>8 DEF Owned, PagesOf
<1> QED  BY <1>3, <1>4

LEMMA GetOwned ==
    ASSUME TypeOK, Owned, RegionsSound, HeapSound, running, running',
           NEW s \in Pages, NEW h \in Hashes, rum_get(s, h)
    PROVE  Owned' /\ HeapSound'
<1> DEFINE r == hash_map[h]
           n == data_size_map[r]
<1>1. /\ ~Attached(h) /\ h \in DOMAIN hash_map /\ r \in DOMAIN data_size_map
      /\ MapRegion(s, n, r, h, LastAddress(s, n))
      /\ UNCHANGED <<slaveVars, named, leaked>>
  BY DEF rum_get
<1>2. r \in DOMAIN arena /\ arena[r] = n
  BY <1>1 DEF Owned, HashesBacked, HeapSound, SizesKnown
<1>3. r \in RPages /\ n \in Nat \ {0}
  BY <1>2 DEF TypeOK, SlaveTypeOK, IsMap
<1>4. /\ \A t \in DOMAIN data_map : data_map[t].remote # r
      /\ \A g \in DOMAIN hash_map : g # h => hash_map[g] # r
      /\ hash_map[h] = r
      /\ r \notin leaked
  BY <1>1, UnattachedBlock DEF Owned, HashesBacked, LeakedApart
<1>5. arena' = arena /\ hash_map' = hash_map /\ data_size_map' = data_size_map
  BY <1>1 DEF slaveVars
<1> HIDE DEF r, n
<1>6. Owned'
  BY <1>1, <1>2, <1>3, <1>4, <1>5, AttachedOwned
<1>7. HeapSound'
  BY <1>5 DEF HeapSound, Apart, SizesKnown
<1> QED  BY <1>6, <1>7

\* A region that is freed takes its block with it.
LEMMA FreeOwned ==
    ASSUME TypeOK, Owned, RegionsSound, HeapSound, running, running',
           NEW s \in DOMAIN data_map, rum_free(s)
    PROVE  Owned' /\ HeapSound'
<1> DEFINE r == data_map[s].remote
<1>1. /\ data_map[s].hash = NoHash /\ DEALLOC(r) /\ UnmapRegion(s)
      /\ UNCHANGED <<named, leaked>>
  BY DEF rum_free
<1>2. /\ r \in DOMAIN arena /\ r \notin leaked
      /\ \A h \in DOMAIN hash_map : hash_map[h] # r
  BY <1>1 DEF Owned, RegionsBacked, BlockOfHash, LeakedApart
<1> HIDE DEF r
<1>3. /\ HeapSound' /\ hash_map' = hash_map
      /\ DOMAIN arena' = DOMAIN arena \ {r}
      /\ \A b \in DOMAIN arena' : arena'[b] = arena[b]
  BY <1>1, <1>2, DeallocSound DEF TypeOK, DEALLOC
<1>4. /\ DOMAIN data_map' = DOMAIN data_map \ {s}
      /\ \A t \in DOMAIN data_map' : data_map'[t] = data_map[t]
  BY <1>1, UnmapRegionSound
<1>5. RegionsBacked'
  BY <1>3, <1>4 DEF Owned, RegionsBacked, r
<1>6. HashesBacked'
  BY <1>2, <1>3 DEF Owned, HashesBacked
<1>7. BlockOfHash'
  BY <1>3, <1>4 DEF Owned, BlockOfHash
<1>8. HashesKnown'
  <2>1. \A h \in DOMAIN hash_map : Attached(h) => Attached(h)'
    BY <1>1, <1>4, NamesAssumption DEF Attached, TypeOK, SlaveTypeOK, IsMap
  <2> QED  BY <1>1, <1>2, <1>3, <2>1 DEF Owned, HashesBacked, HashesKnown
<1>9. NoneElse'
  BY <1>1, <1>3, <1>4 DEF Owned, NoneElse, r
<1>10. LeakedApart'
  BY <1>1, <1>2, <1>3, <1>4 DEF Owned, LeakedApart
<1> QED  BY <1>3, <1>5, <1>6, <1>7, <1>8, <1>9, <1>10 DEF Owned

LEMMA FreeHashOwned ==
    ASSUME TypeOK, Owned, RegionsSound, HeapSound, running, running',
           NEW s \in DOMAIN data_map, rum_free_hash(s)
    PROVE  Owned' /\ HeapSound'
<1> DEFINE h == data_map[s].hash
           r == data_map[s].remote
<1>1. /\ h # NoHash /\ DEALLOC_HASH(h) /\ UnmapRegion(s) /\ named' = Erase(named, h)
      /\ leaked' = leaked
  BY DEF rum_free_hash
<1>2. h \in DOMAIN hash_map /\ hash_map[h] = r /\ r \in DOMAIN arena /\ r \notin leaked
  BY <1>1 DEF Owned, RegionsBacked, BlockOfHash, LeakedApart
<1> HIDE DEF r, h
<1>3. /\ HeapSound'
      /\ DOMAIN arena' = DOMAIN arena \ {r}
      /\ \A b \in DOMAIN arena' : arena'[b] = arena[b]
      /\ DOMAIN hash_map' = DOMAIN hash_map \ {h}
      /\ \A g \in DOMAIN hash_map' : hash_map'[g] = hash_map[g]
  BY <1>1, <1>2, DeallocHashSound DEF TypeOK
<1>4. /\ DOMAIN data_map' = DOMAIN data_map \ {s}
      /\ \A t \in DOMAIN data_map' : data_map'[t] = data_map[t]
  BY <1>1, UnmapRegionSound
<1>5. \A g \in DOMAIN hash_map' : hash_map[g] # r
  BY <1>2, <1>3 DEF Owned, HashesBacked
<1>6. RegionsBacked'
  BY <1>3, <1>4 DEF Owned, RegionsBacked, r
<1>7. HashesBacked'
  BY <1>3, <1>5 DEF Owned, HashesBacked
<1>8. \A t \in DOMAIN data_map' : data_map[t].hash # h
  BY <1>1, <1>2, <1>4 DEF Owned, RegionsBacked, BlockOfHash, r
<1>9. BlockOfHash'
  BY <1>3, <1>4, <1>8 DEF Owned, BlockOfHash
<1>10. HashesKnown'
  <2>1. \A g \in DOMAIN hash_map' : Attached(g) => Attached(g)'
    BY <1>3, <1>4 DEF Attached, h
  <2>2. /\ DOMAIN named' = DOMAIN named \ {h}
        /\ \A g \in DOMAIN named' : named'[g] = named[g]
    BY <1>1 DEF Erase
  <2>3. \A g \in DOMAIN hash_map' : g \in DOMAIN hash_map /\ g # h
    BY <1>3
  <2>4. \A g \in DOMAIN hash_map' : hash_map[g] \in DOMAIN arena'
    BY <1>3, <1>5 DEF Owned, HashesBacked
  <2>5. \A g \in DOMAIN hash_map' : Attached(g)' \/ g \in DOMAIN named'
    BY <2>1, <2>2, <2>3 DEF Owned, HashesKnown
  <2>6. ASSUME NEW g \in DOMAIN named'
        PROVE  g \in DOMAIN hash_map' /\ DOMAIN named'[g] = 0 .. arena'[hash_map'[g]] - 1
    <3>1. g \in DOMAIN named /\ g # h /\ named'[g] = named[g]
      BY <2>2
    <3>2. g \in DOMAIN hash_map' /\ hash_map'[g] = hash_map[g]
      BY <1>3, <3>1 DEF Owned, HashesKnown
    <3>3. arena'[hash_map[g]] = arena[hash_map[g]]
      BY <1>3, <2>4, <3>2
    <3> QED  BY <3>1, <3>2, <3>3 DEF Owned, HashesKnown
  <2> QED  BY <2>5, <2>6 DEF HashesKnown
<1>11. NoneElse'
  <2>1. CASE running' \/ "rum_init" \in Api
    BY <1>1, <1>2, <1>3, <1>4 DEF Owned, NoneElse, r
  <2> QED  BY <1>4, <2>1 DEF Owned, NoneElse
<1>12. LeakedApart'
  BY <1>1, <1>2, <1>3, <1>4 DEF Owned, LeakedApart
<1> QED  BY <1>3, <1>6, <1>7, <1>9, <1>10, <1>11, <1>12 DEF Owned

LEMMA ExitOwned ==
    ASSUME TypeOK, Owned, Exit
    PROVE  Owned'
<1>1. /\ DOMAIN data_map' = {} /\ ~running'
      /\ arena' = arena /\ hash_map' = hash_map /\ leaked' = leaked
      /\ named' = [h \in {g \in Hashes : Attached(g)} \cup DOMAIN named |->
            IF Attached(h)
            THEN LET s == HashRegion(h)
                 IN  [k \in 0 .. data_map[s].len - 1 |-> heap[s + k]]
            ELSE named[h]]
  BY DEF Exit, FlushCache, NoEntries
<1>2. RegionsBacked' /\ HashesBacked' /\ BlockOfHash'
  BY <1>1 DEF Owned, RegionsBacked, HashesBacked, BlockOfHash
<1>3. DOMAIN named' = {g \in Hashes : Attached(g)} \cup DOMAIN named
  BY <1>1
<1>4. ASSUME NEW h \in DOMAIN named'
      PROVE  h \in DOMAIN hash_map /\ DOMAIN named'[h] = 0 .. arena[hash_map[h]] - 1
  <2>1. CASE Attached(h)
    <3>1. HashRegion(h) \in DOMAIN data_map /\ data_map[HashRegion(h)].hash = h
      BY <2>1 DEF Attached, HashRegion
    <3>2. h \in Hashes
      BY <1>3, <1>4 DEF TypeOK, ProgramTypeOK
    <3>3. /\ h \in DOMAIN hash_map
          /\ arena[hash_map[h]] = data_map[HashRegion(h)].len
      BY <3>1, <3>2, NamesAssumption DEF Owned, RegionsBacked, BlockOfHash
    <3>4. DOMAIN named'[h] = 0 .. data_map[HashRegion(h)].len - 1
      BY <1>1, <1>3, <1>4, <2>1
    <3> QED  BY <3>3, <3>4
  <2>2. CASE ~Attached(h)
    <3>1. h \in DOMAIN named /\ named'[h] = named[h]
      BY <1>1, <1>3, <1>4, <2>2
    <3> QED  BY <3>1 DEF Owned, HashesKnown
  <2> QED  BY <2>1, <2>2
<1>5. \A h \in DOMAIN hash_map : h \in DOMAIN named'
  BY <1>3 DEF Owned, HashesKnown, TypeOK, SlaveTypeOK, IsMap
<1>6. HashesKnown'
  BY <1>1, <1>4, <1>5 DEF HashesKnown
<1>7. NoneElse'
  BY <1>1 DEF Owned, NoneElse, BlockOfHash
<1>8. LeakedApart'
  BY <1>1 DEF Owned, LeakedApart
<1> QED  BY <1>2, <1>6, <1>7, <1>8 DEF Owned

-----------------------------------------------------------------------------
(* The steps of the client, one case per operation                         *)

InCall == running /\ running' /\ reply' = <<>>

Loads   == running /\ running' /\ \E p \in Pages, w \in Words : Load(p, w)
Stores  == running /\ running' /\ \E p \in Pages, w \in Words, v \in Values : Store(p, w, v)
Fails   == InCall /\ \E n \in Nat \ {0} : rum_alloc_fails(n)
Returns == InCall /\ \E n \in Nat \ {0} : rum_alloc_unmapped(n)
Allocs  == InCall /\ \E n \in Nat \ {0}, s \in Pages, initial \in Promised :
                         Allocated(s, n, initial)
Names   == InCall /\ \E n \in Nat \ {0}, s \in Pages, h \in Hashes :
               \/ "rum_alloc_hash" \in Api /\ AllocatedHash(s, n, h, FirstAfter(s, n))
               \/ AllocatedHash(s, n, h, LastAddress(s, n))
Leaves  == InCall /\ \E n \in Nat \ {0} : rum_alloc_at_unmapped(n)
Keeps   == InCall /\ \E n \in Nat \ {0}, h \in Hashes : rum_alloc_hash_unmapped(n, h)
Gets    == InCall /\ \E s \in Pages, h \in Hashes : rum_get(s, h)
Frees   == InCall /\ \E s \in DOMAIN data_map : rum_free(s)
Unnames == InCall /\ \E s \in DOMAIN data_map : rum_free_hash(s)
Flushes == InCall /\ rum_flush_cache
Exits   == running /\ ~running' /\ reply' = <<>> /\ Exit
Starts  == ~running /\ running' /\ rum_init

LEMMA Steps ==
    ASSUME Next
    PROVE  \/ Loads \/ Stores \/ Fails \/ Allocs \/ Names \/ Gets
           \/ Frees \/ Unnames \/ Flushes \/ Exits \/ Starts
           \/ Returns \/ Leaves \/ Keeps
<1>1. ASSUME NEW p \in Pages, NEW w \in Words, running, Access(p, w)
      PROVE  Loads \/ Stores \/ Exits
  <2>1. CASE Load(p, w)
    BY <1>1, <2>1 DEF Load, Loads
  <2>2. CASE \E v \in Values : Store(p, w, v)
    BY <1>1, <2>2 DEF Store, Stores
  <2>3. CASE SegmentationFault(p, w) /\ reply' = <<>>
    BY <1>1, <2>3 DEF SegmentationFault, Exit, Exits
  <2> QED  BY <1>1, <2>1, <2>2, <2>3 DEF Access
<1>2. ASSUME running, Call, reply' = <<>>
      PROVE  \/ Fails \/ Allocs \/ Names \/ Gets \/ Frees \/ Unnames \/ Flushes \/ Exits
             \/ Returns \/ Leaves \/ Keeps
  <2>1. 1..MaxLen \subseteq Nat \ {0}
    BY ClientAssumption
  <2>2. ASSUME NEW n \in 1..MaxLen, UNCHANGED running, rum_alloc_fails(n)
        PROVE  Fails
    BY <1>2, <2>1, <2>2 DEF InCall, Fails
  <2>3. ASSUME NEW n \in 1..MaxLen, NEW s \in Pages, UNCHANGED running, rum_alloc(s, n)
        PROVE  Allocs
    BY <1>2, <2>1, <2>3 DEF InCall, Allocs, rum_alloc
  <2>4. ASSUME NEW n \in 1..MaxLen, NEW s \in Pages, NEW h \in Hashes,
               UNCHANGED running, rum_alloc_hash(s, n, h)
        PROVE  Names
    BY <1>2, <2>1, <2>4 DEF InCall, Names, rum_alloc_hash
  <2>5. ASSUME NEW n \in 1..MaxLen, NEW s \in Pages, NEW h \in Hashes,
               UNCHANGED running, rum_alloc_hash_at(s, n, h)
        PROVE  Names
    BY <1>2, <2>1, <2>5 DEF InCall, Names, rum_alloc_hash_at
  <2>6. ASSUME NEW s \in Pages, NEW h \in Hashes, UNCHANGED running, rum_get(s, h)
        PROVE  Gets
    BY <1>2, <2>6 DEF InCall, Gets
  <2>7. ASSUME NEW s \in DOMAIN data_map, UNCHANGED running,
               rum_free(s) \/ rum_free_hash(s)
        PROVE  Frees \/ Unnames
    BY <1>2, <2>7 DEF InCall, Frees, Unnames
  <2>8. CASE rum_flush_cache
    BY <1>2, <2>8 DEF InCall, Flushes, rum_flush_cache
  <2>9. CASE rum_end
    BY <1>2, <2>9 DEF rum_end, Exit, Exits
  <2>10. ASSUME NEW n \in 1..MaxLen, UNCHANGED running, rum_alloc_at_unmapped(n)
         PROVE  Leaves
    BY <1>2, <2>1, <2>10 DEF InCall, Leaves
  <2>11. ASSUME NEW n \in 1..MaxLen, NEW h \in Hashes, UNCHANGED running,
                rum_alloc_hash_unmapped(n, h)
         PROVE  Keeps
    BY <1>2, <2>1, <2>11 DEF InCall, Keeps
  <2>12. ASSUME NEW n \in 1..MaxLen, UNCHANGED running, rum_alloc_unmapped(n)
         PROVE  Returns
    BY <1>2, <2>1, <2>12 DEF InCall, Returns
  <2> QED  BY <1>2, <2>2, <2>3, <2>4, <2>5, <2>6, <2>7, <2>8, <2>9, <2>10, <2>11, <2>12
           DEF Call
<1>3. CASE rum_init
  BY <1>3 DEF rum_init, Starts
<1> QED  BY <1>1, <1>2, <1>3 DEF Next

\* What a step does to the list and the regions, whether it is a load or a
\* store: nothing, or what the handler does.
LEMMA AccessCases ==
    ASSUME Loads \/ Stores
    PROVE  /\ UNCHANGED <<data_map, addr_space_map, arena, data_size_map, hash_map,
                          named, leaked, running>>
           /\ \/ UNCHANGED <<dirty_map, history_, prot, slave_mem>>
              \/ \E p \in Pages, w \in Words, write \in BOOLEAN :
                    signal_callback_handler(p, w, write)
<1>1. CASE Loads
  BY <1>1 DEF Loads, Load, signal_callback_handler, clientVars, slaveVars
<1>2. CASE Stores
  BY <1>2 DEF Stores, Store, signal_callback_handler, slaveVars
<1> QED  BY <1>1, <1>2

-----------------------------------------------------------------------------
(* Every block is somebody's                                               *)

Books == HeapSound /\ RegionsSound /\ Listed /\ Owned

LEMMA BooksStay ==
    ASSUME TypeOK, Books, Listed',
           UNCHANGED <<data_map, addr_space_map, arena, data_size_map, hash_map,
                       named, leaked, running>>,
           \A p \in Pages : (prot'[p] = "unmapped") <=> (prot[p] = "unmapped")
    PROVE  Books'
<1>1. RegionsSound'
  BY RegionsStay DEF Books
<1>2. Owned'
  BY OwnedStays DEF Books
<1>3. HeapSound'
  BY DEF Books, HeapSound, Apart, SizesKnown
<1> QED  BY <1>1, <1>2, <1>3 DEF Books

\* A block given back at once changes nothing.
LEMMA ReturnsNothing ==
    ASSUME TypeOK, HeapSound, Returns
    PROVE  UNCHANGED <<clientVars, slaveVars, heap, named, leaked, running>>
<1>1. PICK n \in Nat \ {0} : rum_alloc_unmapped(n)
  BY DEF Returns
<1>2. PICK r \in RPages : GivenBack(n, r)
  BY <1>1 DEF rum_alloc_unmapped
<1>3. UNCHANGED slaveVars
  BY <1>2, GivenBackNothing DEF TypeOK
<1> QED  BY <1>1, <1>3 DEF rum_alloc_unmapped, Returns, InCall

LEMMA MapRegionListed ==
    ASSUME TypeOK, Listed, running, running',
           NEW s, NEW n, NEW r, NEW h, NEW end, MapRegion(s, n, r, h, end)
    PROVE  Listed'
BY MapRegionCache DEF Listed, NoDuplicates, Blocks

LEMMA BooksNext ==
    ASSUME TypeOK, Books, [Next]_vars
    PROVE  Books'
<1>1. CASE UNCHANGED vars \/ Returns
  <2>0. UNCHANGED <<clientVars, slaveVars, named, leaked, running>>
    BY <1>1, ReturnsNothing DEF vars, Books
  <2>1. Listed'
    BY <2>0 DEF clientVars, Books, Listed, Blocks, NoDuplicates, Unprotected
  <2> QED  BY <2>0, <2>1, BooksStay DEF clientVars, slaveVars
<1>2. CASE Loads \/ Stores
  <2>1. CASE UNCHANGED <<dirty_map, history_, prot, slave_mem>>
    <3>1. Listed'
      BY <1>2, <2>1, AccessCases DEF Books, Listed, Blocks, NoDuplicates, Unprotected
    <3> QED  BY <1>2, <2>1, <3>1, AccessCases, BooksStay
  <2>2. CASE \E p \in Pages, w \in Words, write \in BOOLEAN :
                signal_callback_handler(p, w, write)
    <3>1. running
      BY <1>2 DEF Loads, Stores
    <3>2. Listed' /\ \A p \in Pages : (prot'[p] = "unmapped") <=> (prot[p] = "unmapped")
      BY <2>2, <3>1, HandlerListed DEF Books
    <3> QED  BY <1>2, <3>2, AccessCases, BooksStay
  <2> QED  BY <1>2, <2>1, <2>2, AccessCases
<1>3. CASE Fails
  <2>1. PICK n \in Nat \ {0} :
            ALLOC(n, NULL) /\ UNCHANGED <<clientVars, heap, named, leaked>>
    BY <1>3 DEF Fails, rum_alloc_fails
  <2>2. HeapSound' /\ UNCHANGED <<arena, hash_map>>
    BY <2>1, AllocSound DEF ALLOC, Books, TypeOK
  <2>3. Listed' /\ RegionsSound'
    BY <1>3, <2>1, RegionsStay
       DEF Fails, InCall, clientVars, Books, Listed, Blocks, NoDuplicates, Unprotected
  <2>4. Owned'
    BY <1>3, <2>1, <2>2, OwnedStays DEF Fails, InCall, clientVars, Books
  <2> QED  BY <2>2, <2>3, <2>4 DEF Books
<1>4. CASE Allocs
  <2>1. PICK n \in Nat \ {0}, s \in Pages, initial \in Promised :
            Allocated(s, n, initial)
    BY <1>4 DEF Allocs
  <2>2. PICK r \in RPages :
            /\ ALLOC(n, r)
            /\ MapRegion(s, n, r, NoHash, LastAddress(s, n))
            /\ UNCHANGED <<named, leaked>>
    BY <2>1 DEF Allocated
  <2>3. "rum_init" \notin Api
    BY <2>1, ClientAssumption DEF Promised
  <2>4. running /\ running'
    BY <1>4 DEF Allocs, InCall
  <2>5. Owned' /\ HeapSound'
    BY <2>2, <2>3, <2>4, AllocatedOwned DEF Books
  <2>6. RegionsSound' /\ Listed'
    BY <2>2, <2>4, MapRegionSound, MapRegionListed DEF Books
  <2> QED  BY <2>5, <2>6 DEF Books
<1>5. CASE Names
  <2>0. PICK n \in Nat \ {0}, s \in Pages, h \in Hashes :
            \E end : AllocatedHash(s, n, h, end)
    BY <1>5 DEF Names
  <2>1. PICK end : AllocatedHash(s, n, h, end)
    BY <2>0
  <2>2. PICK r \in RPages : ALLOC_HASH(h, n, r) /\ MapRegion(s, n, r, h, end)
    BY <2>1 DEF AllocatedHash
  <2>3. /\ ~Attached(h) /\ (h \in DOMAIN named => HasSize(h, n))
        /\ UNCHANGED <<named, leaked>>
    BY <2>1 DEF AllocatedHash
  <2>4. running /\ running'
    BY <1>5 DEF Names, InCall
  <2>5. Owned' /\ HeapSound'
    BY <2>2, <2>3, <2>4, AllocatedHashOwned DEF Books
  <2>6. RegionsSound' /\ Listed'
    BY <2>2, <2>4, MapRegionSound, MapRegionListed DEF Books
  <2> QED  BY <2>5, <2>6 DEF Books
<1>6. CASE Gets
  <2>1. PICK s \in Pages, h \in Hashes : rum_get(s, h)
    BY <1>6 DEF Gets
  <2>2. running /\ running'
    BY <1>6 DEF Gets, InCall
  <2>3. Owned' /\ HeapSound'
    BY <2>1, <2>2, GetOwned DEF Books
  <2> DEFINE r == hash_map[h]
             n == data_size_map[r]
  <2>4. MapRegion(s, n, r, h, LastAddress(s, n)) /\ n \in Nat \ {0}
    BY <2>1 DEF rum_get, TypeOK, SlaveTypeOK, IsMap
  <2> HIDE DEF r, n
  <2>5. RegionsSound' /\ Listed'
    BY <2>2, <2>4, MapRegionSound, MapRegionListed DEF Books
  <2> QED  BY <2>3, <2>5 DEF Books
<1>7. CASE Frees \/ Unnames
  <2>1. PICK s \in DOMAIN data_map : rum_free(s) \/ rum_free_hash(s)
    BY <1>7 DEF Frees, Unnames
  <2>2. running /\ running'
    BY <1>7 DEF Frees, Unnames, InCall
  <2>3. Owned' /\ HeapSound'
    BY <2>1, <2>2, FreeOwned, FreeHashOwned DEF Books
  <2>4. UnmapRegion(s)
    BY <2>1 DEF rum_free, rum_free_hash
  <2>5. RegionsSound' /\ Listed'
    BY <2>2, <2>4, UnmapRegionSound, UnmapRegionListed DEF Books
  <2> QED  BY <2>3, <2>5 DEF Books
<1>8. CASE Flushes
  <2>1. FlushCache /\ running /\ UNCHANGED <<data_map, addr_space_map, running, named, leaked>>
    BY <1>8 DEF Flushes, InCall, rum_flush_cache
  <2>2. Listed' /\ prot' = prot
    BY <2>1, FlushListed DEF Books
  <2>3. UNCHANGED <<arena, data_size_map, hash_map>>
    BY <2>1 DEF FlushCache
  <2> QED  BY <2>1, <2>2, <2>3, BooksStay
<1>9. CASE Exits
  <2>1. Exit /\ UNCHANGED <<arena, data_size_map>>
    BY <1>9 DEF Exits, Exit, FlushCache
  <2>2. HeapSound'
    BY <2>1 DEF Books, HeapSound, Apart, SizesKnown
  <2> QED  BY <2>1, <2>2, ExitSound, ExitOwned DEF Books
<1>10. CASE Starts
  <2>1. rum_init /\ UNCHANGED <<arena, data_size_map, hash_map, data_map, named, leaked>>
    BY <1>10 DEF Starts, rum_init, slaveVars
  <2>2. HeapSound'
    BY <2>1 DEF Books, HeapSound, Apart, SizesKnown
  <2>3. RegionsSound' /\ Listed' /\ DOMAIN data_map = {}
    BY <2>1, RumInitSound DEF Books
  <2>4. Owned'
    BY <1>10, <2>1 DEF Starts, rum_init, Books, Owned, RegionsBacked, HashesBacked, BlockOfHash,
                HashesKnown, LeakedApart, NoneElse, Attached
  <2> QED  BY <2>2, <2>3, <2>4 DEF Books
<1>11. CASE Leaves \/ Keeps
  <2>1. UNCHANGED <<clientVars, running>> /\ running
    BY <1>11 DEF Leaves, Keeps, InCall, rum_alloc_at_unmapped, rum_alloc_hash_unmapped
  <2>2. Listed' /\ RegionsSound'
    BY <2>1, RegionsStay
       DEF clientVars, Books, Listed, Blocks, NoDuplicates, Unprotected
  <2>3. CASE Leaves
    <3>1. PICK n \in Nat \ {0}, r \in RPages :
              ALLOC(n, r) /\ leaked' = leaked \cup {r} /\ UNCHANGED <<clientVars, named>>
      BY <2>3 DEF Leaves, rum_alloc_at_unmapped
    <3> QED  BY <2>1, <2>2, <3>1, UnmappedOwned DEF Books, clientVars
  <2>4. CASE Keeps
    <3>1. PICK n \in Nat \ {0}, h \in Hashes : rum_alloc_hash_unmapped(n, h)
      BY <2>4 DEF Keeps
    <3> QED  BY <2>1, <2>2, <3>1, UnmappedHashOwned DEF Books
  <2> QED  BY <1>11, <2>3, <2>4
<1> QED  BY <1>1, <1>2, <1>3, <1>4, <1>5, <1>6, <1>7, <1>8, <1>9, <1>10, <1>11, Steps

LEMMA BooksInit == Init => Books
<1> SUFFICES ASSUME Init PROVE Books
  OBVIOUS
<1>1. /\ DOMAIN data_map = {} /\ DOMAIN addr_space_map = {} /\ DOMAIN arena = {}
      /\ DOMAIN data_size_map = {} /\ DOMAIN hash_map = {} /\ DOMAIN named = {}
      /\ history_ = <<>> /\ prot = [p \in Pages |-> "unmapped"]
  BY DEF Init, SlaveInit, NoEntries
<1>2. Listed
  BY <1>1, LimitAssumption DEF Listed, Blocks, NoDuplicates
<1>3. RegionsSound
  BY <1>1 DEF Init, RegionsSound, RegionsApart, MappedIsLive, GoneAtEnd, LivePages
<1>4. HeapSound
  BY <1>1 DEF HeapSound, Apart, SizesKnown
<1>5. Owned
  BY <1>1 DEF Init, Owned, RegionsBacked, HashesBacked, BlockOfHash, HashesKnown,
              LeakedApart, NoneElse
<1> QED  BY <1>2, <1>3, <1>4, <1>5 DEF Books

LEMMA BooksCorrect == Spec => [](TypeOK /\ Books)
<1>1. TypeOK /\ Books /\ [Next]_vars => Books'
  BY BooksNext
<1> QED  BY <1>1, BooksInit, TypeCorrect, PTL DEF Spec

LEMMA BooksMatch ==
    ASSUME TypeOK, Books
    PROVE  BlocksMatchRegions
<1>1. RegionsBacked /\ HashesBacked /\ LeakedApart /\ NoneElse /\ RegionsApart
  BY DEF Books, Owned, RegionsSound
<1>2. ASSUME running
      PROVE  DOMAIN arena = {data_map[s].remote : s \in DOMAIN data_map}
                                \cup {hash_map[h] : h \in DOMAIN hash_map} \cup leaked
  <2>1. \A b \in DOMAIN arena : \/ b \in {data_map[s].remote : s \in DOMAIN data_map}
                                 \/ b \in {hash_map[h] : h \in DOMAIN hash_map}
                                 \/ b \in leaked
    BY <1>1, <1>2 DEF NoneElse
  <2>2. /\ {data_map[s].remote : s \in DOMAIN data_map} \subseteq DOMAIN arena
        /\ {hash_map[h] : h \in DOMAIN hash_map} \subseteq DOMAIN arena
        /\ leaked \subseteq DOMAIN arena
    BY <1>1 DEF RegionsBacked, HashesBacked, LeakedApart
  <2> QED  BY <2>1, <2>2
<1> QED  BY <1>1, <1>2 DEF BlocksMatchRegions, RegionsBacked, RegionsApart, LeakedApart

\* Whatever the program calls, every block the slave lends backs one region of
\* its size, is a hash's memory, or is one that a failing rum_alloc(size,
\* location) left there, and none is two of these; no two regions share one.
THEOREM BlocksMatch == Spec => []BlocksMatchRegions
<1>1. TypeOK /\ Books => BlocksMatchRegions
  BY BooksMatch
<1> QED  BY <1>1, BooksCorrect, PTL

-----------------------------------------------------------------------------
(* A fault finds the region it is in                                       *)

\* addr_space_map holds the last address of every region, and nothing else.
EndsKnown ==
    /\ \A s \in DOMAIN data_map :
          /\ data_map[s].end = LastAddress(s, data_map[s].len)
          /\ data_map[s].end \in DOMAIN addr_space_map
          /\ addr_space_map[data_map[s].end] = s
    /\ \A e \in DOMAIN addr_space_map : \E s \in DOMAIN data_map : e = data_map[s].end

LEMMA LastPage ==
    ASSUME NEW s \in Nat, NEW n \in Nat \ {0}
    PROVE  LastAddress(s, n)[1] \in Extent(s, n) /\ LastAddress(s, n)[1] = s + n - 1
BY DEF LastAddress, Extent

LEMMA MapRegionEnds ==
    ASSUME TypeOK, RegionsSound, EndsKnown, running, running',
           NEW s \in Pages, NEW n \in Nat \ {0}, NEW r, NEW h,
           MapRegion(s, n, r, h, LastAddress(s, n))
    PROVE  EndsKnown'
<1> DEFINE end == LastAddress(s, n)
<1>1. /\ s \notin DOMAIN data_map
      /\ DOMAIN data_map' = DOMAIN data_map \cup {s}
      /\ data_map'[s] = [len |-> n, remote |-> r, hash |-> h, end |-> end]
      /\ \A t \in DOMAIN data_map : data_map'[t] = data_map[t]
      /\ Extent(s, n) \cap LivePages = {}
  <2>1. MapRegion(s, n, r, h, end)
    OBVIOUS
  <2> HIDE DEF end
  <2> QED  BY <2>1, MapRegionSound, Zenon
<1>2. data_map'[s].end = end /\ data_map'[s].len = n
  BY <1>1
<1>3. addr_space_map' = Insert(addr_space_map, end, s)
  BY DEF MapRegion
<1>4. end \notin DOMAIN addr_space_map
  <2>1. SUFFICES ASSUME end \in DOMAIN addr_space_map PROVE FALSE
    OBVIOUS
  <2>2. PICK t \in DOMAIN data_map : end = LastAddress(t, data_map[t].len)
    BY <2>1 DEF EndsKnown
  <2>3. end[1] \in Span(t)
    BY <2>2, RegionStart, LastPage DEF Span
  <2>4. end[1] \in Extent(s, n)
    BY ClientAssumption, LastPage
  <2> QED  BY <1>1, <2>3, <2>4 DEF LivePages
<1> HIDE DEF end
<1>5. /\ DOMAIN addr_space_map' = DOMAIN addr_space_map \cup {end}
      /\ addr_space_map'[end] = s
      /\ \A e \in DOMAIN addr_space_map : addr_space_map'[e] = addr_space_map[e]
  BY <1>3, <1>4 DEF Insert
<1>6. ASSUME NEW t \in DOMAIN data_map'
      PROVE  /\ data_map'[t].end = LastAddress(t, data_map'[t].len)
             /\ data_map'[t].end \in DOMAIN addr_space_map'
             /\ addr_space_map'[data_map'[t].end] = t
  <2>1. CASE t = s
    BY <1>2, <1>5, <2>1 DEF end
  <2>2. CASE t \in DOMAIN data_map
    BY <1>1, <1>5, <2>2 DEF EndsKnown
  <2> QED  BY <1>1, <2>1, <2>2
<1>7. \A e \in DOMAIN addr_space_map' : \E t \in DOMAIN data_map' : e = data_map'[t].end
  BY <1>1, <1>2, <1>5 DEF EndsKnown
<1> QED  BY <1>6, <1>7 DEF EndsKnown

LEMMA UnmapRegionEnds ==
    ASSUME TypeOK, RegionsSound, EndsKnown, running, running',
           NEW s \in DOMAIN data_map, UnmapRegion(s)
    PROVE  EndsKnown'
<1>1. /\ DOMAIN data_map' = DOMAIN data_map \ {s}
      /\ \A t \in DOMAIN data_map' : data_map'[t] = data_map[t]
  BY UnmapRegionSound
<1>2. addr_space_map' = Erase(addr_space_map, data_map[s].end)
  BY DEF UnmapRegion
<1>3. \A t \in DOMAIN data_map' : data_map[t].end # data_map[s].end
  BY <1>1 DEF EndsKnown
<1>4. /\ DOMAIN addr_space_map' = DOMAIN addr_space_map \ {data_map[s].end}
      /\ \A e \in DOMAIN addr_space_map' : addr_space_map'[e] = addr_space_map[e]
  BY <1>2 DEF Erase
<1>5. \A e \in DOMAIN addr_space_map' : \E t \in DOMAIN data_map' : e = data_map'[t].end
  BY <1>1, <1>4 DEF EndsKnown
<1>6. \A t \in DOMAIN data_map' :
          /\ data_map'[t].end = LastAddress(t, data_map'[t].len)
          /\ data_map'[t].end \in DOMAIN addr_space_map'
          /\ addr_space_map'[data_map'[t].end] = t
  BY <1>1, <1>3, <1>4 DEF EndsKnown
<1> QED  BY <1>5, <1>6 DEF EndsKnown

LEMMA EndsStay ==
    ASSUME EndsKnown, UNCHANGED <<data_map, addr_space_map>>
    PROVE  EndsKnown'
BY DEF EndsKnown

LEMMA EndsNext ==
    ASSUME "rum_alloc_hash" \notin Api, TypeOK, Books, EndsKnown, [Next]_vars
    PROVE  EndsKnown'
<1>1. CASE UNCHANGED vars
  BY <1>1, EndsStay DEF vars, clientVars
<1>2. CASE Loads \/ Stores
  BY <1>2, AccessCases, EndsStay
<1>3. CASE Fails \/ Returns \/ Leaves \/ Keeps
  BY <1>3, EndsStay DEF Fails, Returns, Leaves, Keeps, rum_alloc_fails, rum_alloc_unmapped,
                        rum_alloc_at_unmapped, rum_alloc_hash_unmapped, clientVars
<1>4. CASE Allocs
  <2>1. PICK n \in Nat \ {0}, s \in Pages, r \in RPages :
            MapRegion(s, n, r, NoHash, LastAddress(s, n))
    BY <1>4 DEF Allocs, Allocated
  <2> QED  BY <1>4, <2>1, MapRegionEnds DEF Allocs, InCall, Books
<1>5. CASE Names
  <2>1. PICK n \in Nat \ {0}, s \in Pages, h \in Hashes, r \in RPages :
            MapRegion(s, n, r, h, LastAddress(s, n))
    BY <1>5 DEF Names, AllocatedHash
  <2> QED  BY <1>5, <2>1, MapRegionEnds DEF Names, InCall, Books
<1>6. CASE Gets
  <2>1. PICK s \in Pages, h \in Hashes : rum_get(s, h)
    BY <1>6 DEF Gets
  <2> DEFINE r == hash_map[h]
             n == data_size_map[r]
  <2>2. MapRegion(s, n, r, h, LastAddress(s, n)) /\ n \in Nat \ {0}
    BY <2>1 DEF rum_get, TypeOK, SlaveTypeOK, IsMap
  <2> HIDE DEF r, n
  <2> QED  BY <1>6, <2>2, MapRegionEnds DEF Gets, InCall, Books
<1>7. CASE Frees \/ Unnames
  <2>1. PICK s \in DOMAIN data_map : UnmapRegion(s)
    BY <1>7 DEF Frees, Unnames, rum_free, rum_free_hash
  <2> QED  BY <1>7, <2>1, UnmapRegionEnds DEF Frees, Unnames, InCall, Books
<1>8. CASE Flushes
  BY <1>8, EndsStay DEF Flushes, rum_flush_cache
<1>9. CASE Exits
  <2>1. DOMAIN data_map' = {} /\ DOMAIN addr_space_map' = {}
    BY <1>9 DEF Exits, Exit, NoEntries
  <2> QED  BY <2>1 DEF EndsKnown
<1>10. CASE Starts
  BY <1>10, EndsStay DEF Starts, rum_init
<1> QED  BY <1>1, <1>2, <1>3, <1>4, <1>5, <1>6, <1>7, <1>8, <1>9, <1>10, Steps

\* lower_bound() of an address in a region is the end of that region: an end
\* before it would lie in the region itself.
LEMMA EndsFindOwner ==
    ASSUME TypeOK, RegionsSound, EndsKnown
    PROVE  FindsOwner
<1> SUFFICES ASSUME NEW s \in DOMAIN data_map, NEW p \in Span(s), NEW w \in Words
             PROVE  Trappable(<<p, w>>) /\ Base(<<p, w>>) = s
  BY DEF FindsOwner
<1> DEFINE a == <<p, w>>
           end == data_map[s].end
           n == data_map[s].len
<1>1. s \in Nat /\ n \in Nat \ {0} /\ p \in Nat /\ s <= p /\ p <= s + n - 1
  BY RegionStart DEF Span, Extent
<1>2. end = <<s + n - 1, LastWord>> /\ w \in 0..LastWord /\ LastWord \in Nat
  BY ClientAssumption DEF EndsKnown, LastAddress
<1>3. end \in NotBefore(a)
  <2>1. AddrLE(a, end)
    BY <1>1, <1>2 DEF AddrLE
  <2> QED  BY <2>1 DEF NotBefore, EndsKnown
<1>4. ASSUME NEW e \in NotBefore(a)
      PROVE  AddrLE(end, e) /\ (AddrLE(e, end) => e = end)
  <2>1. PICK t \in DOMAIN data_map : e = data_map[t].end /\ AddrLE(a, e)
    BY DEF NotBefore, EndsKnown
  <2> DEFINE m == data_map[t].len
  <2>2. t \in Nat /\ m \in Nat \ {0} /\ e = <<t + m - 1, LastWord>>
    BY <2>1, RegionStart DEF EndsKnown, LastAddress
  <2>3. t + m - 1 \in Span(t)
    BY <2>2 DEF Span, Extent
  <2>4. p <= t + m - 1
    BY <1>1, <2>1, <2>2 DEF AddrLE
  <2>5. CASE t = s
    BY <1>1, <1>2, <2>1, <2>5 DEF AddrLE
  <2>6. CASE t # s
    <3>1. t + m - 1 \notin Span(s)
      BY <2>3, <2>6 DEF RegionsSound, RegionsApart
    <3>2. t + m - 1 > s + n - 1
      BY <1>1, <2>2, <2>4, <3>1 DEF Span, Extent
    <3> QED  BY <1>1, <1>2, <2>2, <3>2 DEF AddrLE
  <2> QED  BY <2>5, <2>6
<1> HIDE DEF a, end, n
<1>5. lower_bound(a) = end
  <2>1. \E e \in NotBefore(a) : \A f \in NotBefore(a) : AddrLE(e, f)
    BY <1>3, <1>4
  <2>2. /\ lower_bound(a) \in NotBefore(a)
        /\ \A f \in NotBefore(a) : AddrLE(lower_bound(a), f)
    BY <2>1 DEF lower_bound
  <2> QED  BY <1>3, <1>4, <2>2
<1>6. addr_space_map[end] = s
  BY DEF EndsKnown, end
<1>7. NotBefore(a) # {} /\ Base(a) = s
  BY <1>3, <1>5, <1>6 DEF Base
<1>8. AddrLE(<<s, 0>>, a)
  BY <1>1, <1>2 DEF AddrLE, a
<1>9. Trappable(a)
  BY <1>5, <1>6, <1>7, <1>8 DEF Trappable
<1> QED  BY <1>7, <1>9 DEF a

LEMMA EndsCorrect ==
    ASSUME "rum_alloc_hash" \notin Api
    PROVE  Spec => [](TypeOK /\ Books /\ EndsKnown)
<1>1. Init => EndsKnown
  BY DEF Init, NoEntries, EndsKnown
<1>2. TypeOK /\ Books /\ EndsKnown /\ [Next]_vars => EndsKnown'
  BY EndsNext
<1> QED  BY <1>1, <1>2, BooksCorrect, PTL DEF Spec

\* As long as hashed memory is asked for at a location, a fault in any page of
\* any region is resolved to that region: the map of end addresses never
\* mistakes a neighbour for it.
THEOREM OwnerIsFound ==
    ASSUME "rum_alloc_hash" \notin Api
    PROVE  Spec => []FindsOwner
<1>1. TypeOK /\ Books /\ EndsKnown => FindsOwner
  BY EndsFindOwner DEF Books
<1> QED  BY <1>1, EndsCorrect, PTL

-----------------------------------------------------------------------------
(* Where a page is on the slave                                            *)

\* Page k of a region is page k of its block.
LEMMA OwnRemote ==
    ASSUME FindsOwner, TypeOK, NEW s \in DOMAIN data_map, NEW p \in Span(s), NEW w \in Words
    PROVE  /\ Remote(p, <<p, w>>) = data_map[s].remote + (p - s)
           /\ RemoteOf(p) = data_map[s].remote + (p - s)
           /\ p - s \in 0 .. data_map[s].len - 1
           /\ RemoteOf(p) \in Extent(data_map[s].remote, data_map[s].len)
<1>1. 0 \in Words
  BY ClientAssumption
<1>2. Base(<<p, w>>) = s /\ Base(<<p, 0>>) = s
  BY <1>1 DEF FindsOwner
<1>3. /\ s \in Nat /\ data_map[s].len \in Nat \ {0} /\ data_map[s].remote \in Nat
      /\ p \in s .. s + data_map[s].len - 1
  BY RegionStart, NullIsNoPage DEF Span, Extent
<1>4. Remote(p, <<p, w>>) = data_map[s].remote + (p - s)
  BY <1>2 DEF Remote
<1>5. RemoteOf(p) = data_map[s].remote + (p - s)
  BY <1>2 DEF RemoteOf, Remote
<1> HIDE DEF RemoteOf
<1>6. /\ p - s \in 0 .. data_map[s].len - 1
      /\ data_map[s].remote + (p - s) \in Extent(data_map[s].remote, data_map[s].len)
  BY <1>3 DEF Extent
<1> QED  BY <1>4, <1>5, <1>6

\* The page is in the heap, and nobody else's.
LEMMA OwnPage ==
    ASSUME FindsOwner, TypeOK, Books, NEW s \in DOMAIN data_map, NEW p \in Span(s)
    PROVE  /\ RemoteOf(p) \in RPages
           /\ RemoteOf(p) \in PagesOf(arena)
           /\ \A q \in LivePages : RemoteOf(q) = RemoteOf(p) => q = p
<1> DEFINE b == data_map[s].remote
<1>1. 0 \in Words
  BY ClientAssumption
<1>2. b \in DOMAIN arena /\ arena[b] = data_map[s].len
  BY DEF Books, Owned, RegionsBacked
<1>3. RemoteOf(p) \in Extent(b, arena[b])
  BY <1>1, <1>2, OwnRemote
<1>4. RemoteOf(p) \in PagesOf(arena) /\ RemoteOf(p) \in RPages
  BY <1>2, <1>3 DEF PagesOf, Books, HeapSound, Apart
<1>5. ASSUME NEW q \in LivePages, RemoteOf(q) = RemoteOf(p)
      PROVE  q = p
  <2>1. PICK t \in DOMAIN data_map : q \in Span(t)
    BY DEF LivePages
  <2> DEFINE c == data_map[t].remote
  <2>2. c \in DOMAIN arena /\ arena[c] = data_map[t].len
    BY DEF Books, Owned, RegionsBacked
  <2>3. RemoteOf(q) \in Extent(c, arena[c])
    BY <1>1, <2>1, <2>2, OwnRemote
  <2>4. b = c
    BY <1>2, <1>3, <1>5, <2>2, <2>3 DEF Books, HeapSound, Apart
  <2>5. s = t
    BY <2>4 DEF Books, Owned, RegionsBacked
  <2>6. b + (p - s) = b + (q - s)
    BY <1>1, <1>5, <2>1, <2>5, OwnRemote
  <2>7. b \in Nat /\ s \in Nat /\ p \in Nat /\ q \in Nat
    BY <2>1, <2>5, RegionStart, NullIsNoPage, ClientAssumption
  <2> HIDE DEF b
  <2> QED  BY <2>6, <2>7
<1> QED  BY <1>4, <1>5

\* A page of a region that is still there is where it was.
LEMMA SameRemote ==
    ASSUME FindsOwner, TypeOK, FindsOwner', TypeOK',
           NEW s \in DOMAIN data_map, s \in DOMAIN data_map',
           data_map'[s] = data_map[s], NEW p \in Span(s)
    PROVE  RemoteOf(p)' = RemoteOf(p)
<1>1. 0 \in Words
  BY ClientAssumption
<1>2. p \in Span(s)'
  BY DEF Span
<1>3. Base(<<p, 0>>) = s /\ Base(<<p, 0>>)' = s
  BY <1>1, <1>2 DEF FindsOwner
<1> QED  BY <1>3 DEF RemoteOf, Remote

-----------------------------------------------------------------------------
(* What is written to the slave                                            *)

\* What a fault on p writes: the page that leaves the cache, where it belongs,
\* or nothing.
LEMMA HandlerWrites ==
    ASSUME TypeOK, Books, FindsOwner, running, NEW p \in Pages, NEW w, NEW write,
           signal_callback_handler(p, w, write)
    PROVE  \/ slave_mem' = slave_mem
           \/ /\ Stale(history_, p) \in LivePages
              /\ slave_mem' = [slave_mem EXCEPT
                      ![RemoteOf(Stale(history_, p))] = mem[Stale(history_, p)]]
<1> DEFINE stale == Stale(history_, p)
           ram == Fetched(p, w, write)
<1>1. WriteBack(stale, Marked(p, write), ram)
  BY DEF signal_callback_handler
<1>2. /\ p \notin Blocks(history_)
      /\ stale \in Blocks(history_) \cup {NoBlock}
  BY HandlerListed DEF Books
<1>3. ASSUME slave_mem' # slave_mem
      PROVE  /\ stale \in LivePages
             /\ slave_mem' = [slave_mem EXCEPT ![RemoteOf(stale)] = mem[stale]]
  <2>1. /\ stale # NoBlock
        /\ slave_mem' = WRITE(slave_mem, RemoteOf(stale), ram[stale])
    BY <1>1, <1>3 DEF WriteBack
  <2>2. stale \in Blocks(history_) /\ stale # p
    BY <1>2, <2>1
  <2>3. stale \in Pages /\ prot[stale] = "rw"
    BY <2>2 DEF Books, Listed, Unprotected
  <2>4. stale \in LivePages
    BY <2>3 DEF Books, RegionsSound, MappedIsLive
  <2>5. ram[stale] = mem[stale]
    BY <2>2, <2>3 DEF Fetched, TypeOK, ClientTypeOK
  <2>6. RemoteOf(stale) \in RPages
    BY <2>4, OwnPage DEF LivePages
  <2> QED  BY <2>1, <2>4, <2>5, <2>6 DEF WRITE
<1> QED  BY <1>3

\* What a flush writes: listed pages, each where it belongs.
LEMMA FlushWrites ==
    ASSUME TypeOK, Books, FindsOwner, running, FlushCache, NEW r \in RPages
    PROVE  \/ slave_mem'[r] = slave_mem[r] /\ LastTo(r) = {}
           \/ \E p \in Blocks(history_) \cap LivePages :
                 /\ r = RemoteOf(p) /\ slave_mem'[r] = mem[p]
                 /\ IsDirty(dirty_map, p)
<1>1. CASE LastTo(r) = {}
  BY <1>1 DEF FlushCache
<1>2. CASE LastTo(r) # {}
  <2>1. PICK i \in LastTo(r) : slave_mem'[r] = mem[history_[i]]
    BY <1>2 DEF FlushCache
  <2>2. /\ i \in DOMAIN history_ /\ IsDirty(dirty_map, history_[i])
        /\ RemoteOf(history_[i]) = r
    BY <2>1 DEF LastTo, Flushed
  <2>3. history_[i] \in Blocks(history_)
    BY <2>2 DEF Blocks
  <2>4. history_[i] \in LivePages
    BY <2>3 DEF Books, Listed, Unprotected, RegionsSound, MappedIsLive
  <2> QED  BY <2>1, <2>2, <2>3, <2>4
<1> QED  BY <1>1, <1>2

OwnPagesWritten ==
    \A r \in RPages : slave_mem'[r] # slave_mem[r] =>
        \/ r \in InUse' \ InUse
        \/ \E s \in DOMAIN data_map : \E k \in 0 .. data_map[s].len - 1 :
              r = data_map[s].remote + k /\ slave_mem'[r] = mem[s + k]

\* A live page written where it belongs is page k of a region.
LEMMA LivePageWritten ==
    ASSUME TypeOK, FindsOwner, NEW p \in LivePages, NEW r, r = RemoteOf(p),
           slave_mem'[r] = mem[p]
    PROVE  \E s \in DOMAIN data_map : \E k \in 0 .. data_map[s].len - 1 :
              r = data_map[s].remote + k /\ slave_mem'[r] = mem[s + k]
<1>1. PICK s \in DOMAIN data_map : p \in Span(s)
  BY DEF LivePages
<1>2. 0 \in Words
  BY ClientAssumption
<1>3. r = data_map[s].remote + (p - s) /\ p - s \in 0 .. data_map[s].len - 1
  BY <1>1, <1>2, OwnRemote
<1>4. p \in Nat /\ s \in Nat
  BY <1>1, RegionStart, ClientAssumption
<1>5. s + (p - s) = p
  BY <1>4
<1> QED  BY <1>3, <1>5

LEMMA WritesNext ==
    ASSUME TypeOK, Books, FindsOwner, Next
    PROVE  OwnPagesWritten
<1>1. ASSUME running, FlushCache
      PROVE  OwnPagesWritten
  BY <1>1, FlushWrites, LivePageWritten DEF OwnPagesWritten
<1>2. CASE Loads \/ Stores
  <2>1. CASE UNCHANGED slave_mem
    BY <2>1 DEF OwnPagesWritten
  <2>2. CASE \E p \in Pages, w \in Words, write \in BOOLEAN :
                signal_callback_handler(p, w, write)
    <3>1. PICK p \in Pages, w \in Words, write \in BOOLEAN :
              signal_callback_handler(p, w, write)
      BY <2>2
    <3>2. running
      BY <1>2 DEF Loads, Stores
    <3> DEFINE stale == Stale(history_, p)
    <3>3. CASE slave_mem' = slave_mem
      BY <3>3 DEF OwnPagesWritten
    <3>4. CASE /\ stale \in LivePages
               /\ slave_mem' = [slave_mem EXCEPT ![RemoteOf(stale)] = mem[stale]]
      <4> HIDE DEF stale
      <4> SUFFICES ASSUME NEW r \in RPages, slave_mem'[r] # slave_mem[r]
                   PROVE  \E s \in DOMAIN data_map : \E k \in 0 .. data_map[s].len - 1 :
                              r = data_map[s].remote + k /\ slave_mem'[r] = mem[s + k]
        BY DEF OwnPagesWritten
      <4>1. r = RemoteOf(stale) /\ slave_mem'[r] = mem[stale]
        BY <3>4 DEF TypeOK, SlaveTypeOK
      <4> QED  BY <3>4, <4>1, LivePageWritten
    <3> QED  BY <3>1, <3>2, <3>3, <3>4, HandlerWrites
  <2> QED  BY <1>2, <2>1, <2>2, AccessCases
<1>3. CASE Fails \/ Returns \/ Allocs \/ Leaves
  BY <1>3 DEF Fails, rum_alloc_fails, Returns, rum_alloc_unmapped, GivenBack, Allocs,
              Allocated, Leaves, rum_alloc_at_unmapped, ALLOC, OwnPagesWritten
<1>4. CASE Names
  <2>0. PICK n \in Nat \ {0}, s \in Pages, h \in Hashes :
            \E end : AllocatedHash(s, n, h, end)
    BY <1>4 DEF Names
  <2>1. PICK end : AllocatedHash(s, n, h, end)
    BY <2>0
  <2>2. PICK r \in RPages : ALLOC_HASH(h, n, r) /\ MapRegion(s, n, r, h, end)
    BY <2>1 DEF AllocatedHash
  <2>3. /\ ~Attached(h) /\ (h \in DOMAIN named => HasSize(h, n))
        /\ UNCHANGED <<named, leaked>>
    BY <2>1 DEF AllocatedHash
  <2>4. \/ slave_mem' = slave_mem
        \/ /\ slave_mem' = [f \in RPages |->
                 IF f \in Extent(r, n) THEN Filled(Zero) ELSE slave_mem[f]]
           /\ r \in DOMAIN arena' /\ arena'[r] = n
           /\ Extent(r, n) \cap PagesOf(arena) = {}
    BY <1>4, <2>2, <2>3, AllocatedHashOwned DEF Names, InCall, Books
  <2>5. \A f \in RPages : slave_mem'[f] # slave_mem[f] => f \in InUse' \ InUse
    BY <2>4 DEF InUse, PagesOf
  <2> QED  BY <2>5 DEF OwnPagesWritten
<1>5. CASE Gets
  BY <1>5 DEF Gets, rum_get, slaveVars, OwnPagesWritten
<1>6. CASE Frees \/ Unnames
  BY <1>6 DEF Frees, Unnames, rum_free, rum_free_hash, DEALLOC, DEALLOC_HASH, slaveVars,
              OwnPagesWritten
<1>7. CASE Flushes
  BY <1>1, <1>7 DEF Flushes, InCall, rum_flush_cache
<1>8. CASE Exits
  BY <1>1, <1>8 DEF Exits, Exit
<1>9. CASE Starts
  BY <1>9 DEF Starts, rum_init, slaveVars, OwnPagesWritten
<1>10. CASE Keeps
  <2>1. PICK n \in Nat \ {0}, h \in Hashes : rum_alloc_hash_unmapped(n, h)
    BY <1>10 DEF Keeps
  <2>2. PICK r \in RPages :
            \/ slave_mem' = slave_mem
            \/ /\ slave_mem' = [f \in RPages |->
                     IF f \in Extent(r, n) THEN Filled(Zero) ELSE slave_mem[f]]
               /\ r \in DOMAIN arena' /\ arena'[r] = n
               /\ Extent(r, n) \cap PagesOf(arena) = {}
    BY <1>10, <2>1, UnmappedHashOwned DEF Keeps, InCall, Books
  <2>3. \A f \in RPages : slave_mem'[f] # slave_mem[f] => f \in InUse' \ InUse
    BY <2>2 DEF InUse, PagesOf
  <2> QED  BY <2>3 DEF OwnPagesWritten
<1> QED  BY <1>2, <1>3, <1>4, <1>5, <1>6, <1>7, <1>8, <1>9, <1>10, Steps

\* What the client writes to the slave is page k of a region over page k of
\* the region's block: nobody else's memory is ever overwritten.
THEOREM OwnPagesOnly ==
    ASSUME "rum_alloc_hash" \notin Api
    PROVE  Spec => OnlyOwnPagesWritten
<1>1. ASSUME TypeOK, Books, EndsKnown, [Next]_vars
      PROVE  [OwnPagesWritten]_vars
  <2>1. CASE Next
    BY <1>1, <2>1, WritesNext, EndsFindOwner DEF Books
  <2> QED  BY <1>1, <2>1
<1> QED  BY <1>1, EndsCorrect, PTL DEF Spec, OnlyOwnPagesWritten, OwnPagesWritten

-----------------------------------------------------------------------------
(* The program's words are kept                                            *)

\* A program that only asks for memory whose content it must set first, and
\* that does not both flush and free: rum_calloc promises zeros and rum_get
\* what another process left, a flush forgets that a page was ever stored to,
\* and rum_alloc_hash records an end that is one page too far.
SetsBeforeUse ==
    /\ Api \cap {"rum_calloc", "rum_get", "rum_alloc_hash"} = {}
    /\ "rum_flush_cache" \in Api => Api \cap {"rum_free", "rum_free_hash"} = {}

\* What was stored in a page stays in the RAM of its mapping, touchable or
\* not; a page that was pushed out is on the slave too, and is still known to
\* have been stored to.  Nothing is expected of pages that are not allocated.
Kept ==
    /\ \A p \in Pages \ LivePages : heap[p] = Blank
    /\ \A p \in LivePages, w \in Words : heap[p][w] # Undef =>
          /\ mem[p][w] = heap[p][w]
          /\ prot[p] = "none" =>
                slave_mem[RemoteOf(p)][w] = heap[p][w] /\ IsDirty(dirty_map, p)

\* Every listed page would be written back; only a flush takes that away, and
\* from then on the page stays as it is.
DirtyKept ==
    running =>
        /\ \A p \in Blocks(history_) : IsDirty(dirty_map, p)
        /\ \A p \in DOMAIN dirty_map : dirty_map[p] = 0 =>
              prot[p] = "rw" /\ p \notin Blocks(history_) /\ "rum_flush_cache" \in Api

Memory == Kept /\ DirtyKept

\* What the invariants say of one page that is live.
LEMMA LiveProt ==
    ASSUME TypeOK, Books, NEW p \in LivePages
    PROVE  running /\ p \in Pages /\ prot[p] \in {"none", "rw"}
<1>1. PICK s \in DOMAIN data_map : p \in Span(s)
  BY DEF LivePages
<1>2. running /\ p \in Pages
  BY <1>1, RegionStart DEF Books, RegionsSound, GoneAtEnd
<1> QED  BY <1>2 DEF Books, RegionsSound, MappedIsLive, TypeOK, ClientTypeOK

LEMMA LiveMapped ==
    ASSUME Books, running, NEW p \in Pages
    PROVE  p \in LivePages <=> prot[p] # "unmapped"
BY DEF Books, RegionsSound, MappedIsLive

\* The handler's part in an access: the page it brings in is marked, the page
\* it pushes out is written back and stays marked.
LEMMA HandlerKeeps ==
    ASSUME TypeOK, Books, FindsOwner, Memory, running,
           NEW p \in Pages, NEW w \in Words, NEW write \in BOOLEAN,
           write \/ heap[p][w] # Undef,
           signal_callback_handler(p, w, write), running'
    PROVE  /\ p \in LivePages
           /\ prot'[p] = "rw"
           /\ \A q \in LivePages, u \in Words : heap[q][u] # Undef =>
                 /\ Fetched(p, w, write)[q][u] = heap[q][u]
                 /\ prot'[q] = "none" =>
                       slave_mem'[RemoteOf(q)][u] = heap[q][u] /\ IsDirty(dirty_map', q)
           /\ DirtyKept'
           /\ LivePages' = LivePages
           /\ \A q : RemoteOf(q)' = RemoteOf(q)
<1> DEFINE stale == Stale(history_, p)
           d == Marked(p, write)
           ram == Fetched(p, w, write)
<1>1. /\ prot[p] = "none"
      /\ WriteBack(stale, d, ram)
      /\ prot' = [q \in Pages |-> IF q = stale THEN "none"
                                  ELSE IF q = p THEN "rw" ELSE prot[q]]
      /\ UNCHANGED <<data_map, addr_space_map>>
  BY DEF signal_callback_handler
<1>2. /\ p \notin Blocks(history_)
      /\ stale \in Blocks(history_) \cup {NoBlock}
      /\ Blocks(history_') = (Blocks(history_) \cup {p}) \ {stale}
  BY HandlerListed DEF Books
<1>3. p \in LivePages /\ p # stale
  BY <1>1, <1>2, LiveMapped, NoBlockIsNoPage
<1>4. stale # NoBlock => stale \in LivePages /\ prot[stale] = "rw"
  BY <1>2, LiveMapped DEF Books, Listed, Unprotected
<1>5. IsDirty(d, p) /\ \A q : IsDirty(dirty_map, q) => IsDirty(d, q)
  <2>1. CASE write
    BY <1>1, <2>1 DEF Marked, Insert, IsDirty, Memory, DirtyKept, TypeOK, ClientTypeOK, IsMap
  <2>2. CASE ~write
    BY <1>1, <1>3, <2>2 DEF Marked, IsDirty, Memory, Kept
  <2> QED  BY <2>1, <2>2
<1>6. \A q \in DOMAIN d : d[q] = 0 => q \in DOMAIN dirty_map /\ dirty_map[q] = 0
  BY DEF Marked, Insert
<1>7. stale # NoBlock => IsDirty(d, stale)
  BY <1>2, <1>5 DEF Memory, DirtyKept
<1>8. dirty_map' = d
  BY <1>1, <1>7 DEF WriteBack, Insert, IsDirty
<1>9. /\ ram[p] = IF write THEN mem[p] ELSE slave_mem[RemoteOf(p)]
      /\ \A q \in Pages : q # p => ram[q] = mem[q]
  <2>1. PICK s \in DOMAIN data_map : p \in Span(s)
    BY <1>3 DEF LivePages
  <2>2. Remote(p, <<p, w>>) = RemoteOf(p) /\ RemoteOf(p) \in RPages
    BY <2>1, OwnRemote, OwnPage
  <2> QED  BY <2>2 DEF Fetched, READ, TypeOK, ClientTypeOK
<1>10. stale # NoBlock =>
          slave_mem' = [slave_mem EXCEPT ![RemoteOf(stale)] = mem[stale]]
  <2> SUFFICES ASSUME stale # NoBlock
               PROVE  slave_mem' = [slave_mem EXCEPT ![RemoteOf(stale)] = mem[stale]]
    OBVIOUS
  <2>1. RemoteOf(stale) \in RPages /\ stale \in Pages
    BY <1>4, OwnPage, LiveProt DEF LivePages
  <2>2. ram[stale] = mem[stale]
    BY <1>3, <1>9, <2>1
  <2> QED  BY <1>1, <1>7, <2>1, <2>2 DEF WriteBack, WRITE
<1>11. stale = NoBlock => slave_mem' = slave_mem
  BY <1>1 DEF WriteBack
<1>12. LivePages' = LivePages /\ \A q : RemoteOf(q)' = RemoteOf(q)
  BY <1>1 DEF LivePages, Span, RemoteOf, Remote, Base, NotBefore, lower_bound, last_key
<1> HIDE DEF stale, d, ram
<1>13. DirtyKept'
  <2>1. \A q \in Blocks(history_') : IsDirty(dirty_map', q)
    BY <1>2, <1>5, <1>8 DEF Memory, DirtyKept
  <2>2. ASSUME NEW q \in DOMAIN dirty_map', dirty_map'[q] = 0
        PROVE  prot'[q] = "rw" /\ q \notin Blocks(history_') /\ "rum_flush_cache" \in Api
    <3>1. /\ q \in DOMAIN dirty_map /\ dirty_map[q] = 0
          /\ q \in Pages
      BY <1>6, <1>8, <2>2 DEF TypeOK, ClientTypeOK, IsMap
    <3>2. prot[q] = "rw" /\ q \notin Blocks(history_) /\ "rum_flush_cache" \in Api
      BY <3>1 DEF Memory, DirtyKept
    <3>3. q # p /\ q # stale
      BY <1>1, <1>2, <3>1, <3>2, NoBlockIsNoPage
    <3> QED  BY <1>1, <1>2, <3>1, <3>2, <3>3 DEF stale
  <2> QED  BY <2>1, <2>2 DEF DirtyKept
<1>14. prot'[p] = "rw"
  BY <1>1, <1>3 DEF stale
<1>15. ASSUME NEW q \in LivePages, NEW u \in Words, heap[q][u] # Undef
       PROVE  /\ ram[q][u] = heap[q][u]
              /\ prot'[q] = "none" =>
                    slave_mem'[RemoteOf(q)][u] = heap[q][u] /\ IsDirty(dirty_map', q)
  <2>1. /\ mem[q][u] = heap[q][u] /\ q \in Pages
        /\ prot[q] = "none" =>
              slave_mem[RemoteOf(q)][u] = heap[q][u] /\ IsDirty(dirty_map, q)
    BY <1>15, LiveProt DEF Memory, Kept
  <2>2. ram[q][u] = heap[q][u]
    BY <1>1, <1>9, <2>1
  <2>3. ASSUME prot'[q] = "none"
        PROVE  slave_mem'[RemoteOf(q)][u] = heap[q][u] /\ IsDirty(dirty_map', q)
    <3>1. RemoteOf(q) \in RPages /\ slave_mem \in [RPages -> Content]
      BY OwnPage DEF LivePages, TypeOK, SlaveTypeOK, Content
    <3>2. CASE q = stale
      <4>1. stale # NoBlock
        BY <2>1, <3>2, NoBlockIsNoPage
      <4> QED  BY <1>5, <1>7, <1>8, <1>10, <2>1, <3>1, <3>2, <4>1
    <3>3. CASE q # stale
      <4>1. prot[q] = "none" /\ q # p
        BY <1>1, <2>1, <2>3, <3>3 DEF stale
      <4>2. IsDirty(dirty_map', q)
        BY <1>5, <1>8, <2>1, <4>1
      <4>3. slave_mem'[RemoteOf(q)] = slave_mem[RemoteOf(q)]
        <5>1. CASE stale = NoBlock
          BY <1>11, <5>1
        <5>2. CASE stale # NoBlock
          <6>1. RemoteOf(q) # RemoteOf(stale)
            BY <1>4, <3>3, <5>2, OwnPage DEF LivePages
          <6> QED  BY <1>10, <3>1, <5>2, <6>1
        <5> QED  BY <5>1, <5>2
      <4> QED  BY <2>1, <4>1, <4>2, <4>3
    <3> QED  BY <3>2, <3>3
  <2> QED  BY <2>2, <2>3
<1> QED  BY <1>3, <1>12, <1>13, <1>14, <1>15 DEF ram

LEMMA LoadKeeps ==
    ASSUME TypeOK, Books, FindsOwner, Memory, running, running',
           NEW p \in Pages, NEW w \in Words, Load(p, w)
    PROVE  Memory' /\ p \in LivePages /\ reply' = <<p, w, heap[p][w]>>
<1>1. heap[p][w] # Undef /\ heap' = heap /\ reply' = <<p, w, mem'[p][w]>>
  BY DEF Load
<1>2. p \in LivePages
  BY <1>1 DEF Memory, Kept, Blank, Filled
<1>3. CASE UNCHANGED <<clientVars, slaveVars>>
  <2>1. /\ UNCHANGED <<data_map, addr_space_map, dirty_map, history_, prot, mem, slave_mem>>
        /\ UNCHANGED heap
    BY <1>1, <1>3 DEF clientVars, slaveVars
  <2>2. LivePages' = LivePages /\ \A q : RemoteOf(q)' = RemoteOf(q)
    BY <2>1 DEF LivePages, Span, RemoteOf, Remote, Base, NotBefore, lower_bound, last_key
  <2>3. Kept'
    BY <2>1, <2>2 DEF Memory, Kept, IsDirty
  <2>4. DirtyKept'
    BY <2>1 DEF Memory, DirtyKept, IsDirty, Blocks
  <2> QED  BY <1>1, <1>2, <2>1, <2>3, <2>4 DEF Memory, Kept
<1>4. CASE signal_callback_handler(p, w, FALSE) /\ mem' = Fetched(p, w, FALSE)
  <2>1. /\ \A q \in LivePages, u \in Words : heap[q][u] # Undef =>
                 /\ mem'[q][u] = heap[q][u]
                 /\ prot'[q] = "none" =>
                       slave_mem'[RemoteOf(q)][u] = heap[q][u] /\ IsDirty(dirty_map', q)
        /\ DirtyKept'
        /\ LivePages' = LivePages
        /\ \A q : RemoteOf(q)' = RemoteOf(q)
    <3>1. PICK write \in BOOLEAN : write = FALSE
      OBVIOUS
    <3>2. /\ signal_callback_handler(p, w, write)
          /\ mem' = Fetched(p, w, write)
      BY <1>4, <3>1
    <3> QED  BY <1>1, <3>2, HandlerKeeps
  <2>2. Kept'
    BY <1>1, <2>1 DEF Memory, Kept, IsDirty
  <2> QED  BY <1>1, <1>2, <2>1, <2>2 DEF Memory
<1> QED  BY <1>3, <1>4 DEF Load

LEMMA StoreKeeps ==
    ASSUME TypeOK, Books, FindsOwner, Memory, running, running',
           NEW p \in Pages, NEW w \in Words, NEW v \in Values, Store(p, w, v)
    PROVE  Memory' /\ p \in LivePages /\ LivePages' = LivePages
<1>1. /\ p \in LivePages
      /\ mem' = [mem EXCEPT ![p][w] = v]
      /\ heap' = [heap EXCEPT ![p][w] = v]
  BY DEF Store
<1>2. /\ prot'[p] = "rw"
      /\ \A q \in LivePages, u \in Words : heap[q][u] # Undef =>
                 /\ mem[q][u] = heap[q][u]
                 /\ prot'[q] = "none" =>
                       slave_mem'[RemoteOf(q)][u] = heap[q][u] /\ IsDirty(dirty_map', q)
      /\ DirtyKept'
      /\ LivePages' = LivePages
      /\ \A q : RemoteOf(q)' = RemoteOf(q)
  <2>1. CASE /\ prot[p] = "rw"
             /\ UNCHANGED <<data_map, addr_space_map, dirty_map, history_, prot, slaveVars>>
    <3>1. slave_mem' = slave_mem
      BY <2>1 DEF slaveVars
    <3>2. LivePages' = LivePages /\ \A q : RemoteOf(q)' = RemoteOf(q)
      BY <2>1 DEF LivePages, Span, RemoteOf, Remote, Base, NotBefore, lower_bound, last_key
    <3>3. DirtyKept'
      BY <2>1 DEF Memory, DirtyKept, IsDirty, Blocks
    <3> QED  BY <2>1, <3>1, <3>2, <3>3 DEF Memory, Kept, IsDirty
  <2>2. CASE signal_callback_handler(p, w, TRUE)
    <3>1. PICK write \in BOOLEAN : write = TRUE
      OBVIOUS
    <3>2. Fetched(p, w, write) = mem
      BY <3>1 DEF Fetched
    <3>3. signal_callback_handler(p, w, write)
      BY <2>2, <3>1
    <3>4. write \/ heap[p][w] # Undef
      BY <3>1
    <3> QED  BY <3>2, <3>3, <3>4, HandlerKeeps
  <2> QED  BY <2>1, <2>2 DEF Store
<1>3. /\ mem \in [Pages -> [Words -> Contents]]
      /\ heap \in [Pages -> [Words -> Contents \cup {Undef}]]
      /\ p \in Pages
  BY DEF TypeOK, ClientTypeOK, ProgramTypeOK
<1>4. \A q \in Pages \ LivePages' : heap'[q] = Blank
  BY <1>1, <1>2, <1>3 DEF Memory, Kept
<1>5. ASSUME NEW q \in LivePages', NEW u \in Words, heap'[q][u] # Undef
      PROVE  /\ mem'[q][u] = heap'[q][u]
             /\ prot'[q] = "none" =>
                   slave_mem'[RemoteOf(q)'][u] = heap'[q][u] /\ IsDirty(dirty_map', q)
  <2>1. q \in Pages /\ q \in LivePages
    BY <1>2, LiveProt
  <2>2. CASE q = p
    <3>1. u # w => heap'[q][u] = heap[q][u] /\ mem'[q][u] = mem[q][u]
      BY <1>1, <1>3, <2>2
    <3>2. u = w => heap'[q][u] = v /\ mem'[q][u] = v
      BY <1>1, <1>3, <2>2
    <3> QED  BY <1>2, <1>5, <2>1, <2>2, <3>1, <3>2
  <2>3. CASE q # p
    <3>1. heap'[q] = heap[q] /\ mem'[q] = mem[q]
      BY <1>1, <1>3, <2>1, <2>3
    <3> QED  BY <1>2, <1>5, <2>1, <3>1
  <2> QED  BY <2>2, <2>3
<1>6. Kept'
  BY <1>4, <1>5 DEF Kept, IsDirty
<1> QED  BY <1>1, <1>2, <1>6 DEF Memory

\* A new region, nothing of which the program expects anything, leaves the
\* others alone if the slave does.
LEMMA MapRegionKeeps ==
    ASSUME TypeOK, Books, FindsOwner, TypeOK', FindsOwner', Memory, running, running',
           NEW s \in Pages, NEW n \in Nat \ {0}, NEW r, NEW h, NEW end, NEW content,
           MapRegion(s, n, r, h, end), Holding(Extent(s, n), content),
           \A p \in Extent(s, n) : content[p] = Blank,
           \A p \in LivePages : slave_mem'[RemoteOf(p)] = slave_mem[RemoteOf(p)]
    PROVE  Memory'
<1>1. /\ DOMAIN data_map' = DOMAIN data_map \cup {s}
      /\ \A t \in DOMAIN data_map : data_map'[t] = data_map[t]
      /\ Extent(s, n) \cap LivePages = {}
      /\ LivePages' = LivePages \cup Extent(s, n)
  BY MapRegionSound DEF Books
<1>2. /\ prot' = [p \in Pages |-> IF p \in Extent(s, n) THEN "none" ELSE prot[p]]
      /\ mem' = [p \in Pages |-> IF p \in Extent(s, n) THEN Filled(Zero) ELSE mem[p]]
      /\ UNCHANGED <<dirty_map, history_>>
      /\ s \in Mmap(n)
  BY DEF MapRegion
<1>3. heap' = [p \in Pages |-> IF p \in Extent(s, n) THEN content[p] ELSE heap[p]]
  BY DEF Holding
<1>4. ASSUME NEW p \in LivePages
      PROVE  /\ p \in Pages /\ p \notin Extent(s, n)
             /\ prot'[p] = prot[p] /\ mem'[p] = mem[p] /\ heap'[p] = heap[p]
             /\ slave_mem'[RemoteOf(p)'] = slave_mem[RemoteOf(p)]
  <2>1. PICK t \in DOMAIN data_map : p \in Span(t)
    BY DEF LivePages
  <2>2. RemoteOf(p)' = RemoteOf(p)
    BY <1>1, <2>1, SameRemote
  <2> QED  BY <1>1, <1>2, <1>3, <2>2, LiveProt
<1>5. \A p \in Pages \ LivePages' : heap'[p] = Blank
  BY <1>1, <1>3 DEF Memory, Kept
<1>6. ASSUME NEW p \in LivePages', NEW w \in Words, heap'[p][w] # Undef
      PROVE  /\ mem'[p][w] = heap'[p][w]
             /\ prot'[p] = "none" =>
                   slave_mem'[RemoteOf(p)'][w] = heap'[p][w] /\ IsDirty(dirty_map', p)
  <2>1. CASE p \in LivePages
    <3>1. heap[p][w] # Undef
      BY <1>4, <1>6, <2>1
    <3>2. /\ mem[p][w] = heap[p][w]
          /\ prot[p] = "none" =>
                slave_mem[RemoteOf(p)][w] = heap[p][w] /\ IsDirty(dirty_map, p)
      BY <2>1, <3>1 DEF Memory, Kept
    <3> QED  BY <1>2, <1>4, <2>1, <3>2
  <2>2. CASE p \in Extent(s, n)
    <3>1. heap'[p] = Blank
      BY <1>2, <1>3, <2>2 DEF Mmap
    <3> QED  BY <1>6, <3>1 DEF Blank, Filled
  <2> QED  BY <1>1, <2>1, <2>2
<1>7. Kept'
  BY <1>5, <1>6 DEF Kept, IsDirty
<1>8. DirtyKept'
  <2>1. \A p \in Blocks(history_') : IsDirty(dirty_map', p)
    BY <1>2 DEF Memory, DirtyKept, Blocks
  <2>2. ASSUME NEW p \in DOMAIN dirty_map', dirty_map'[p] = 0
        PROVE  prot'[p] = "rw" /\ p \notin Blocks(history_') /\ "rum_flush_cache" \in Api
    <3>1. p \in Pages /\ prot[p] = "rw" /\ p \notin Blocks(history_)
          /\ "rum_flush_cache" \in Api
      BY <1>2, <2>2 DEF Memory, DirtyKept, TypeOK, ClientTypeOK, IsMap
    <3>2. p \in LivePages
      BY <3>1, LiveMapped
    <3> QED  BY <1>2, <1>4, <3>1, <3>2 DEF Blocks
  <2> QED  BY <2>1, <2>2 DEF DirtyKept
<1> QED  BY <1>7, <1>8 DEF Memory

\* Freeing a region takes its own pages only; the bits it leaves behind in
\* dirty_map can only have a page written that need not be.
LEMMA UnmapRegionKeeps ==
    ASSUME TypeOK, Books, FindsOwner, TypeOK', FindsOwner', Memory, running, running',
           "rum_flush_cache" \notin Api,
           NEW s \in DOMAIN data_map, UnmapRegion(s), UNCHANGED slave_mem
    PROVE  Memory'
<1>1. /\ DOMAIN data_map' = DOMAIN data_map \ {s}
      /\ \A t \in DOMAIN data_map' : data_map'[t] = data_map[t] /\ Span(t)' = Span(t)
      /\ LivePages' = LivePages \ Span(s)
  BY UnmapRegionSound DEF Books
<1>2. /\ prot' = [p \in Pages |-> IF p \in Span(s) THEN "unmapped" ELSE prot[p]]
      /\ mem' = [p \in Pages |-> IF p \in Span(s) THEN Filled(Zero) ELSE mem[p]]
      /\ heap' = [p \in Pages |-> IF p \in Span(s) THEN [q \in Span(s) |-> Blank][p]
                                  ELSE heap[p]]
      /\ UNCHANGED dirty_map
  BY DEF UnmapRegion, Holding
<1>3. Blocks(history_') = Blocks(history_) \ Span(s)
  BY UnmapRegionListed DEF Books
<1>4. ASSUME NEW p \in LivePages'
      PROVE  /\ p \in LivePages
             /\ prot'[p] = prot[p] /\ mem'[p] = mem[p] /\ heap'[p] = heap[p]
             /\ slave_mem'[RemoteOf(p)'] = slave_mem[RemoteOf(p)]
  <2>1. PICK t \in DOMAIN data_map' : p \in Span(t)'
    BY DEF LivePages
  <2>2. t \in DOMAIN data_map /\ p \in Span(t)
    BY <1>1, <2>1
  <2>3. RemoteOf(p)' = RemoteOf(p)
    BY <1>1, <2>1, <2>2, SameRemote
  <2>4. p \in LivePages /\ p \notin Span(s) /\ p \in Pages
    BY <1>1, LiveProt
  <2> QED  BY <1>2, <2>3, <2>4
<1>5. \A p \in Pages \ LivePages' : heap'[p] = Blank
  BY <1>1, <1>2 DEF Memory, Kept
<1>6. ASSUME NEW p \in LivePages', NEW w \in Words, heap'[p][w] # Undef
      PROVE  /\ mem'[p][w] = heap'[p][w]
             /\ prot'[p] = "none" =>
                   slave_mem'[RemoteOf(p)'][w] = heap'[p][w] /\ IsDirty(dirty_map', p)
  <2>1. p \in LivePages /\ heap[p][w] # Undef
    BY <1>4, <1>6
  <2>2. /\ mem[p][w] = heap[p][w]
        /\ prot[p] = "none" => slave_mem[RemoteOf(p)][w] = heap[p][w] /\ IsDirty(dirty_map, p)
    BY <2>1 DEF Memory, Kept
  <2> QED  BY <1>2, <1>4, <2>1, <2>2
<1>7. Kept'
  BY <1>5, <1>6 DEF Kept, IsDirty
<1>8. DirtyKept'
  <2>1. \A p \in Blocks(history_') : IsDirty(dirty_map', p)
    BY <1>2, <1>3 DEF Memory, DirtyKept
  <2>2. \A p \in DOMAIN dirty_map' : dirty_map'[p] # 0
    BY <1>2 DEF Memory, DirtyKept
  <2> QED  BY <2>1, <2>2 DEF DirtyKept
<1> QED  BY <1>7, <1>8 DEF Memory

\* A flush writes only listed pages: one that was pushed out is still as it was
\* on the slave.
LEMMA FlushLeavesPushed ==
    ASSUME TypeOK, Books, FindsOwner, running, FlushCache,
           NEW p \in LivePages, prot[p] = "none"
    PROVE  slave_mem'[RemoteOf(p)] = slave_mem[RemoteOf(p)]
<1>1. RemoteOf(p) \in RPages
  BY OwnPage DEF LivePages
<1>2. ASSUME NEW q \in Blocks(history_) \cap LivePages, RemoteOf(p) = RemoteOf(q)
      PROVE  FALSE
  <2>1. q = p
    BY <1>2, OwnPage DEF LivePages
  <2> QED  BY <1>2, <2>1 DEF Books, Listed, Unprotected
<1> QED  BY <1>1, <1>2, FlushWrites

LEMMA FlushKeeps ==
    ASSUME TypeOK, Books, FindsOwner, Memory, Flushes
    PROVE  Memory'
<1>1. /\ FlushCache /\ running /\ "rum_flush_cache" \in Api
      /\ UNCHANGED <<data_map, addr_space_map, heap>>
  BY DEF Flushes, InCall, rum_flush_cache
<1>2. prot' = prot /\ Blocks(history_') = {}
  BY <1>1, FlushListed DEF Books
<1>3. /\ mem' = mem
      /\ dirty_map' = [p \in DOMAIN dirty_map |->
            IF p \in Blocks(history_) THEN 0 ELSE dirty_map[p]]
  BY <1>1 DEF FlushCache
<1>4. LivePages' = LivePages /\ \A q : RemoteOf(q)' = RemoteOf(q)
  BY <1>1 DEF LivePages, Span, RemoteOf, Remote, Base, NotBefore, lower_bound, last_key
<1>5. \A p \in Blocks(history_) : prot[p] = "rw"
  BY <1>1 DEF Books, Listed, Unprotected
<1>6. ASSUME NEW p \in LivePages, prot[p] = "none"
      PROVE  /\ slave_mem'[RemoteOf(p)] = slave_mem[RemoteOf(p)]
             /\ IsDirty(dirty_map, p) => IsDirty(dirty_map', p)
  BY <1>1, <1>3, <1>5, <1>6, FlushLeavesPushed DEF IsDirty
<1>7. Kept'
  BY <1>1, <1>2, <1>3, <1>4, <1>6 DEF Memory, Kept, IsDirty
<1>8. DirtyKept'
  BY <1>1, <1>2, <1>3, <1>5 DEF Memory, DirtyKept, IsDirty
<1> QED  BY <1>7, <1>8 DEF Memory

LEMMA MemoryNext ==
    ASSUME SetsBeforeUse, TypeOK, Books, FindsOwner, TypeOK', Books', FindsOwner', Memory,
           [Next]_vars
    PROVE  Memory'
<1>1. CASE UNCHANGED vars
  <2>1. LivePages' = LivePages /\ \A q : RemoteOf(q)' = RemoteOf(q)
    BY <1>1 DEF vars, clientVars,
                LivePages, Span, RemoteOf, Remote, Base, NotBefore, lower_bound, last_key
  <2>2. Kept'
    BY <1>1, <2>1 DEF vars, clientVars, slaveVars, Memory, Kept, IsDirty
  <2>3. DirtyKept'
    BY <1>1 DEF vars, clientVars, Memory, DirtyKept, IsDirty, Blocks
  <2> QED  BY <2>2, <2>3 DEF Memory
<1>2. CASE Loads
  BY <1>2, LoadKeeps DEF Loads
<1>3. CASE Stores
  BY <1>3, StoreKeeps DEF Stores
<1>4. CASE Fails \/ Returns \/ Leaves
  <2>1. UNCHANGED <<clientVars, heap, slave_mem, running>>
    BY <1>4 DEF Fails, Returns, Leaves, InCall, rum_alloc_fails, rum_alloc_unmapped,
                rum_alloc_at_unmapped, ALLOC, GivenBack
  <2>2. LivePages' = LivePages /\ \A q : RemoteOf(q)' = RemoteOf(q)
    BY <2>1 DEF clientVars,
                LivePages, Span, RemoteOf, Remote, Base, NotBefore, lower_bound, last_key
  <2>3. Kept'
    BY <2>1, <2>2 DEF clientVars, Memory, Kept, IsDirty
  <2>4. DirtyKept'
    BY <2>1 DEF clientVars, Memory, DirtyKept, IsDirty, Blocks
  <2> QED  BY <2>3, <2>4 DEF Memory
<1>5. CASE Allocs
  <2>1. PICK n \in Nat \ {0}, s \in Pages, initial \in Promised :
            Allocated(s, n, initial)
    BY <1>5 DEF Allocs
  <2>2. initial = Undef
    BY DEF Promised, SetsBeforeUse
  <2> DEFINE content == [p \in Extent(s, n) |-> Filled(initial)]
  <2>3. PICK r \in RPages :
            /\ MapRegion(s, n, r, NoHash, LastAddress(s, n))
            /\ Holding(Extent(s, n), content)
            /\ UNCHANGED slave_mem
    BY <2>1 DEF Allocated, ALLOC
  <2>4. \A p \in Extent(s, n) : content[p] = Blank
    BY <2>2 DEF Blank
  <2> HIDE DEF content
  <2>5. running /\ running'
    BY <1>5 DEF Allocs, InCall
  <2> QED  BY <2>3, <2>4, <2>5, MapRegionKeeps
<1>6. CASE Names
  <2>0. PICK n \in Nat \ {0}, s \in Pages, h \in Hashes :
            \E end : AllocatedHash(s, n, h, end)
    BY <1>6 DEF Names
  <2>1. PICK end : AllocatedHash(s, n, h, end)
    BY <2>0
  <2> DEFINE content == [p \in Extent(s, n) |-> Blank]
  <2>2. PICK r \in RPages : /\ ALLOC_HASH(h, n, r) /\ MapRegion(s, n, r, h, end)
                            /\ Holding(Extent(s, n), content)
    BY <2>1 DEF AllocatedHash
  <2>3. /\ ~Attached(h) /\ (h \in DOMAIN named => HasSize(h, n))
        /\ UNCHANGED <<named, leaked>>
    BY <2>1 DEF AllocatedHash
  <2>4. \A p \in Extent(s, n) : content[p] = Blank
    OBVIOUS
  <2> HIDE DEF content
  <2>5. running /\ running'
    BY <1>6 DEF Names, InCall
  <2>6. \/ slave_mem' = slave_mem
        \/ /\ slave_mem' = [f \in RPages |->
                 IF f \in Extent(r, n) THEN Filled(Zero) ELSE slave_mem[f]]
           /\ Extent(r, n) \cap PagesOf(arena) = {}
    BY <2>2, <2>3, <2>5, AllocatedHashOwned DEF Books
  <2>7. \A p \in LivePages : slave_mem'[RemoteOf(p)] = slave_mem[RemoteOf(p)]
    BY <2>6, OwnPage DEF LivePages
  <2> QED  BY <2>2, <2>4, <2>5, <2>7, MapRegionKeeps
<1>7. CASE Gets
  BY <1>7 DEF Gets, rum_get, SetsBeforeUse
<1>8. CASE Frees \/ Unnames
  <2>1. PICK s \in DOMAIN data_map : rum_free(s) \/ rum_free_hash(s)
    BY <1>8 DEF Frees, Unnames
  <2>2. UnmapRegion(s) /\ UNCHANGED slave_mem
    BY <2>1 DEF rum_free, rum_free_hash, DEALLOC, DEALLOC_HASH, slaveVars
  <2>3. "rum_flush_cache" \notin Api
    BY <2>1 DEF rum_free, rum_free_hash, SetsBeforeUse
  <2>4. running /\ running'
    BY <1>8 DEF Frees, Unnames, InCall
  <2> QED  BY <2>2, <2>3, <2>4, UnmapRegionKeeps
<1>9. CASE Flushes
  BY <1>9, FlushKeeps
<1>10. CASE Exits
  <2>1. LivePages' = {} /\ heap' = [p \in Pages |-> Blank] /\ ~running'
    BY <1>10, ExitSound DEF Exits, Exit
  <2> QED  BY <2>1 DEF Memory, Kept, DirtyKept
<1>11. CASE Starts
  <2>1. LivePages' = {} /\ DOMAIN data_map = {}
    BY <1>11, RumInitSound DEF Starts, Books
  <2>2. LivePages = {}
    BY <2>1 DEF LivePages
  <2>3. heap' = heap /\ dirty_map' = NoEntries /\ history_' = <<>>
    BY <1>11 DEF Starts, rum_init
  <2> QED  BY <2>1, <2>2, <2>3 DEF Memory, Kept, DirtyKept, Blocks, NoEntries
<1>12. CASE Keeps
  <2>1. UNCHANGED <<clientVars, heap, running>>
    BY <1>12 DEF Keeps, InCall, rum_alloc_hash_unmapped
  <2>2. PICK n \in Nat \ {0}, h \in Hashes : rum_alloc_hash_unmapped(n, h)
    BY <1>12 DEF Keeps
  <2>3. PICK r \in RPages :
            \/ slave_mem' = slave_mem
            \/ /\ slave_mem' = [f \in RPages |->
                     IF f \in Extent(r, n) THEN Filled(Zero) ELSE slave_mem[f]]
               /\ Extent(r, n) \cap PagesOf(arena) = {}
    BY <1>12, <2>2, UnmappedHashOwned DEF Keeps, InCall, Books
  <2>4. LivePages' = LivePages /\ \A q : RemoteOf(q)' = RemoteOf(q)
    BY <2>1 DEF clientVars,
                LivePages, Span, RemoteOf, Remote, Base, NotBefore, lower_bound, last_key
  <2>5. \A p \in LivePages : slave_mem'[RemoteOf(p)] = slave_mem[RemoteOf(p)]
    BY <2>3, OwnPage DEF LivePages
  <2>6. Kept'
    BY <2>1, <2>4, <2>5 DEF clientVars, Memory, Kept, IsDirty
  <2>7. DirtyKept'
    BY <2>1 DEF clientVars, Memory, DirtyKept, IsDirty, Blocks
  <2> QED  BY <2>6, <2>7 DEF Memory
<1> QED  BY <1>1, <1>2, <1>3, <1>4, <1>5, <1>6, <1>7, <1>8, <1>9, <1>10, <1>11, <1>12, Steps

Client == TypeOK /\ Books /\ EndsKnown /\ Memory

LEMMA ClientNext ==
    ASSUME SetsBeforeUse, Client, FindsOwner, FindsOwner', [Next]_vars
    PROVE  Client'
<1>1. TypeOK' /\ Books'
  BY NextType, BooksNext DEF Client
<1>2. EndsKnown'
  BY EndsNext DEF Client, SetsBeforeUse
<1>3. Memory'
  BY <1>1, MemoryNext DEF Client
<1> QED  BY <1>1, <1>2, <1>3 DEF Client

LEMMA ClientInit == Init => Client
<1> SUFFICES ASSUME Init PROVE Client
  OBVIOUS
<1>1. TypeOK /\ Books
  BY InitType, BooksInit
<1>2. EndsKnown
  BY DEF Init, NoEntries, EndsKnown
<1>3. LivePages = {} /\ DOMAIN dirty_map = {} /\ Blocks(history_) = {}
  BY DEF Init, NoEntries, LivePages, Blocks
<1>4. Memory
  BY <1>3 DEF Init, Memory, Kept, DirtyKept
<1> QED  BY <1>1, <1>2, <1>4 DEF Client

LEMMA ClientCorrect ==
    ASSUME SetsBeforeUse
    PROVE  Spec => []Client
<1>1. "rum_alloc_hash" \notin Api
  BY DEF SetsBeforeUse
<1>2. Client /\ FindsOwner /\ FindsOwner' /\ [Next]_vars => Client'
  BY ClientNext
<1>3. Spec => []FindsOwner
  BY <1>1, OwnerIsFound
<1> QED  BY <1>2, <1>3, ClientInit, PTL DEF Spec

\* Wherever the next access to a word will find it, in RAM or on the slave, is
\* what the program last put there.
THEOREM MemoryIsCoherent ==
    ASSUME SetsBeforeUse
    PROVE  Spec => []Coherent
<1>1. ASSUME Client
      PROVE  Coherent
  BY <1>1, LiveProt DEF Client, Coherent, Memory, Kept
<1> QED  BY <1>1, ClientCorrect, PTL

-----------------------------------------------------------------------------
(* The end of a process                                                    *)

LEMMA ExitDurable ==
    ASSUME Client, CacheExact, running, Exit,
           NEW p \in LivePages, NEW w \in Words, heap[p][w] # Undef
    PROVE  slave_mem'[RemoteOf(p)][w] = heap[p][w]
<1>1. FindsOwner /\ TypeOK /\ Books /\ FlushCache
  BY EndsFindOwner DEF Client, Books, Exit
<1>2. mem[p][w] = heap[p][w] /\ p \in Pages /\ prot[p] \in {"none", "rw"}
  BY <1>1, LiveProt DEF Client, Memory, Kept
<1>3. CASE prot[p] = "none"
  BY <1>1, <1>3, FlushLeavesPushed DEF Client, Memory, Kept
<1>4. CASE prot[p] = "rw"
  <2>1. p \in Blocks(history_)
    BY <1>2, <1>4 DEF CacheExact
  <2>2. PICK i \in DOMAIN history_ : history_[i] = p
    BY <2>1 DEF Blocks
  <2>3. i \in Flushed
    BY <2>1, <2>2 DEF Client, Memory, DirtyKept, Flushed
  <2>4. ASSUME NEW j \in Flushed, RemoteOf(history_[j]) = RemoteOf(p)
        PROVE  j = i
    <3>1. j \in DOMAIN history_ /\ history_[j] \in Blocks(history_)
      BY DEF Flushed, Blocks
    <3>2. history_[j] \in LivePages
      BY <1>1, <3>1, LiveMapped DEF Books, Listed, Unprotected
    <3>3. history_[j] = p
      BY <1>1, <2>4, <3>2, OwnPage DEF LivePages
    <3> QED  BY <2>2, <3>1, <3>3 DEF CacheExact, NoDuplicates
  <2>5. i \in Nat
    BY <1>1, <2>2 DEF TypeOK, ClientTypeOK
  <2>6. i \in LastTo(RemoteOf(p))
    BY <2>2, <2>3, <2>4, <2>5 DEF LastTo
  <2>7. RemoteOf(p) \in RPages
    BY <1>1, OwnPage DEF LivePages
  <2>8. PICK q \in Blocks(history_) \cap LivePages :
            RemoteOf(p) = RemoteOf(q) /\ slave_mem'[RemoteOf(p)] = mem[q]
    BY <1>1, <2>6, <2>7, FlushWrites
  <2>9. q = p
    BY <1>1, <2>8, OwnPage DEF LivePages
  <2> QED  BY <1>2, <2>8, <2>9
<1> QED  BY <1>2, <1>3, <1>4

\* When a process that never flushed by hand ends, everything it stored is on
\* the slave.
THEOREM EndKeepsEverything ==
    ASSUME SetsBeforeUse, "rum_flush_cache" \notin Api
    PROVE  Spec => EndIsDurable
<1>1. ASSUME Client, CacheExact, [Next]_vars
      PROVE  [running /\ ~running' =>
                 \A p \in LivePages, w \in Words : heap[p][w] # Undef =>
                     slave_mem'[RemoteOf(p)][w] = heap[p][w]]_vars
  <2>1. CASE UNCHANGED vars
    BY <2>1
  <2>2. CASE Next
    <3>1. ASSUME running, ~running'
          PROVE  Exit
      BY <2>2, <3>1, Steps DEF Loads, Stores, Fails, Allocs, Names, Gets, Frees, Unnames,
                               Flushes, Returns, Leaves, Keeps, InCall, Exits, Starts
    <3> QED  BY <1>1, <3>1, ExitDurable
  <2> QED  BY <1>1, <2>1, <2>2
<1> QED  BY <1>1, ClientCorrect, CacheIsExact, PTL DEF Spec, EndIsDurable

-----------------------------------------------------------------------------
(* Plain memory                                                            *)

LEMMA ReleaseIsNext ==
    ASSUME NEW S \in SUBSET Pages, Flat!Release(S)
    PROVE  Flat!Next
BY DEF Flat!Next

LEMMA AllocateIsNext ==
    ASSUME NEW S \in SUBSET Pages, Flat!Allocate(S)
    PROVE  Flat!Next
BY DEF Flat!Next

\* A call that hands out a region is an allocation of its pages.
LEMMA MapRegionIsAllocate ==
    ASSUME TypeOK, Books, running, running', reply' = <<>>,
           NEW s \in Pages, NEW n \in Nat \ {0}, NEW r, NEW h, NEW end, NEW content,
           MapRegion(s, n, r, h, end), Holding(Extent(s, n), content)
    PROVE  Flat!Next
<1> DEFINE S == Extent(s, n)
<1>1. /\ S \cap LivePages = {} /\ S \subseteq Pages
      /\ LivePages' = LivePages \cup S
  BY MapRegionSound DEF Books
<1>2. s \in S
  BY StartInExtent, ClientAssumption
<1>3. heap' = [p \in Pages |-> IF p \in S THEN content[p] ELSE heap[p]]
  BY DEF Holding
<1> HIDE DEF S
<1>4. Flat!Allocate(S)
  BY <1>1, <1>2, <1>3 DEF Flat!Allocate
<1> QED  BY <1>1, <1>4, AllocateIsNext

LEMMA FlatNext ==
    ASSUME SetsBeforeUse, Client, Client', [Next]_vars
    PROVE  [Flat!Next]_(Flat!vars)
<1>1. CASE UNCHANGED vars
  BY <1>1 DEF vars, clientVars, Flat!vars, LivePages, Span
<1>2. FindsOwner /\ TypeOK /\ Books /\ Memory
  BY EndsFindOwner DEF Client, Books
<1>3. CASE Loads
  <2>1. PICK p \in Pages, w \in Words : Load(p, w)
    BY <1>3 DEF Loads
  <2>2. running /\ running'
    BY <1>3 DEF Loads
  <2>3. p \in LivePages /\ reply' = <<p, w, heap[p][w]>>
    BY <1>2, <2>1, <2>2, LoadKeeps
  <2>4. heap[p][w] # Undef /\ heap' = heap
    BY <2>1 DEF Load
  <2>5. LivePages' = LivePages
    BY <1>3, AccessCases DEF LivePages, Span
  <2>6. Flat!Load(p, w)
    BY <2>3, <2>4, <2>5 DEF Flat!Load
  <2> QED  BY <2>6 DEF Flat!Next
<1>4. CASE Stores
  <2>1. PICK p \in Pages, w \in Words, v \in Values : Store(p, w, v)
    BY <1>4 DEF Stores
  <2>2. LivePages' = LivePages
    BY <1>4, AccessCases DEF LivePages, Span
  <2>3. Flat!Store(p, w, v)
    BY <2>1, <2>2 DEF Store, Flat!Store
  <2> QED  BY <2>3 DEF Flat!Next
<1>5. CASE Fails \/ Returns \/ Leaves \/ Keeps \/ Flushes
  <2>1. reply' = <<>> /\ UNCHANGED <<data_map, heap>>
    BY <1>5 DEF Fails, Returns, Leaves, Keeps, Flushes, InCall, rum_alloc_fails,
                rum_alloc_unmapped, rum_alloc_at_unmapped,
                rum_alloc_hash_unmapped, rum_flush_cache, clientVars
  <2>2. Flat!Internal
    BY <2>1 DEF Flat!Internal, LivePages, Span
  <2> QED  BY <2>2 DEF Flat!Next
<1>6. CASE Allocs
  <2>1. PICK n \in Nat \ {0}, s \in Pages, initial \in Promised :
            Allocated(s, n, initial)
    BY <1>6 DEF Allocs
  <2> DEFINE content == [p \in Extent(s, n) |-> Filled(initial)]
  <2>2. PICK r \in RPages :
            /\ MapRegion(s, n, r, NoHash, LastAddress(s, n))
            /\ Holding(Extent(s, n), content)
    BY <2>1 DEF Allocated
  <2> HIDE DEF content
  <2> QED  BY <1>2, <1>6, <2>2, MapRegionIsAllocate DEF Allocs, InCall
<1>7. CASE Names
  <2>0. PICK n \in Nat \ {0}, s \in Pages, h \in Hashes :
            \E end : AllocatedHash(s, n, h, end)
    BY <1>7 DEF Names
  <2>1. PICK end : AllocatedHash(s, n, h, end)
    BY <2>0
  <2> DEFINE content == [p \in Extent(s, n) |-> Blank]
  <2>2. PICK r \in RPages :
            /\ MapRegion(s, n, r, h, end)
            /\ Holding(Extent(s, n), content)
    BY <2>1 DEF AllocatedHash
  <2> HIDE DEF content
  <2> QED  BY <1>2, <1>7, <2>2, MapRegionIsAllocate DEF Names, InCall
<1>8. CASE Gets
  BY <1>8 DEF Gets, rum_get, SetsBeforeUse
<1>9. CASE Frees \/ Unnames
  <2>1. PICK s \in DOMAIN data_map : UnmapRegion(s)
    BY <1>9 DEF Frees, Unnames, rum_free, rum_free_hash
  <2>2. running /\ running' /\ reply' = <<>>
    BY <1>9 DEF Frees, Unnames, InCall
  <2>3. LivePages' = LivePages \ Span(s) /\ Span(s) \subseteq LivePages
    BY <1>2, <2>1, <2>2, UnmapRegionSound DEF Books
  <2>4. s \in Span(s) /\ Span(s) \subseteq Pages
    BY <1>2, <2>1, RegionStart
  <2>5. heap' = [p \in Pages |-> IF p \in Span(s) THEN Blank ELSE heap[p]]
    BY <2>1 DEF UnmapRegion, Holding
  <2>6. Flat!Release(Span(s))
    BY <2>2, <2>3, <2>4, <2>5 DEF Flat!Release, Flat!Blank, Blank, Filled
  <2> QED  BY <2>4, <2>6, ReleaseIsNext
<1>10. CASE Exits
  <2>1. reply' = <<>> /\ LivePages' = {} /\ heap' = [p \in Pages |-> Blank]
    BY <1>10, ExitSound DEF Exits, Exit
  <2>2. heap' = [p \in Pages |-> IF p \in LivePages THEN Blank ELSE heap[p]]
    BY <1>2, <2>1 DEF Memory, Kept
  <2>3. CASE LivePages = {}
    <3>1. heap \in [Pages -> Expected]
      BY <1>2 DEF TypeOK, ProgramTypeOK, Expected
    <3>2. heap' = heap
      BY <2>2, <2>3, <3>1
    <3>3. Flat!Internal
      BY <2>1, <2>3, <3>2 DEF Flat!Internal
    <3> QED  BY <3>3 DEF Flat!Next
  <2>4. CASE LivePages # {}
    <3>1. LivePages \subseteq Pages
      BY <1>2, LiveProt
    <3>2. PICK S \in SUBSET Pages : S = LivePages
      BY <3>1
    <3>3. Flat!Release(S)
      BY <2>1, <2>2, <2>4, <3>2 DEF Flat!Release, Flat!Blank, Blank, Filled
    <3> QED  BY <3>3, ReleaseIsNext
  <2> QED  BY <2>3, <2>4
<1>11. CASE Starts
  <2>1. reply' = <<>> /\ UNCHANGED <<data_map, heap>>
    BY <1>11 DEF Starts, rum_init
  <2>2. Flat!Internal
    BY <2>1 DEF Flat!Internal, LivePages, Span
  <2> QED  BY <2>2 DEF Flat!Next
<1> QED  BY <1>1, <1>3, <1>4, <1>5, <1>6, <1>7, <1>8, <1>9, <1>10, <1>11, Steps

\* The client, its cache and the slave together are plain memory to the
\* program: each load returns what the last store put there.
THEOREM ClientIsFlatMemory ==
    ASSUME SetsBeforeUse
    PROVE  Spec => IsFlatMemory
<1>1. Init => Flat!Init
  BY DEF Init, Flat!Init, NoEntries, LivePages, Flat!Blank, Blank, Filled
<1>2. Client /\ Client' /\ [Next]_vars => [Flat!Next]_(Flat!vars)
  BY FlatNext
<1> QED  BY <1>1, <1>2, ClientCorrect, PTL DEF Spec, IsFlatMemory, Flat!Spec

=============================================================================
