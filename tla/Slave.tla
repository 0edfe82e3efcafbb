------------------------------- MODULE Slave -------------------------------
(***************************************************************************)
(* A slave node and the clients it lends memory to (rum_slave/             *)
(* hpc_slave.cpp).  A client is a uuid, which rum.cpp derives from the     *)
(* host: a host that starts its next process comes back as the same        *)
(* client.  The packet loop runs each packet to its end; beside it, a      *)
(* timer thread runs user_callback_function() for a client that has fallen *)
(* silent, with no lock between the two.  What the memory holds is in      *)
(* SlaveStore; here it is who owns it.                                     *)
(*                                                                         *)
(* That a client only times out when it is silent, and does not come back  *)
(* while its callback runs, is assumed of Heartbeat.                       *)
(***************************************************************************)
EXTENDS SlaveStore, FiniteSets

CONSTANTS
    Clients,    \* the uuids
    NoClient,
    MaxLen,     \* bound: the pages of one allocation
    HashLen,    \* the pages a well-behaved program asks for under a hash
    Ops,        \* what the environment does, see below
    Overlap     \* whether packets are handled while the callback runs

ASSUME SlaveAssumption ==
    /\ NoClient \notin Clients
    /\ MaxLen \in Nat \ {0} /\ HashLen \in 1..MaxLen
    /\ Ops \subseteq {"alloc", "dealloc", "hash", "dealloc_hash", "resize",
                      "silence", "stop", "crash", "stale"}
    /\ Overlap \in BOOLEAN

VARIABLES
    uuid_memory_map,    \* uuid -> the addresses allocated under it
    cb,                 \* where user_callback_function() is
    watched,            \* the clients with a timeout running
    live,               \* the clients with a process
    held,               \* client -> the pointers of its data_map (rum.cpp), of ALLOC
    lent,               \* history: address -> LentTo(c), LeftBy(c), Hashed, Lost
    breach,             \* history: whether Breaches() of a step has ever been true
    up,                 \* the slave's process
    disk                \* the files of backup(): name -> size

clientVars == <<watched, live, held>>
processVars == <<up, disk>>
vars == <<slaveVars, uuid_memory_map, cb, clientVars, lent, breach, processVars>>

\* Whose an address is: a process's, what a process left, everyone's, or a
\* block that restore() has lost.
LentTo(c) == <<"lent to", c>>
LeftBy(c) == <<"left by", c>>
Hashed == <<"hashed", NoClient>>
Lost == <<"lost", NoClient>>

\* write_to_file() opens a name that ends at its first zero byte, the last of
\* the 33 bytes of a hash; restore() takes the shorter name for the hash.
FileOf(h) == IF h \in Hashes THEN <<"file of", h>> ELSE h

Addrs == RPages \cup {NULL}
Names == Hashes \cup {FileOf(h) : h \in Hashes}

\* The heap ends somewhere, and no file has the name of a hash: those are of 33
\* bytes, and what is before the first zero byte of one is shorter.
ASSUME HeapAssumption == \E top \in RPages : \A r \in RPages : r <= top
ASSUME FilesAssumption ==
    /\ \A h \in Hashes : FileOf(h) \notin Hashes
    /\ \A k \in 0 .. Cardinality(Addrs) : <<"unknown_", k>> \notin Hashes

Idle == [uuid |-> NoClient, todo |-> {}, addr |-> NULL, stage |-> "idle",
         valid |-> TRUE]

\* The shape of the slave's books.
TypeOK ==
    /\ IsMap(arena, RPages, Nat \ {0})
    /\ IsMap(data_size_map, Addrs, Nat \ {0})
    /\ IsMap(hash_map, Names, Addrs)
    /\ IsMap(uuid_memory_map, Clients, SUBSET Addrs)
    /\ cb \in [uuid : Clients \cup {NoClient}, todo : SUBSET Addrs, addr : Addrs,
               stage : {"idle", "walk", "found", "freed"}, valid : BOOLEAN]
    /\ watched \subseteq Clients /\ live \subseteq Clients
    /\ held \in [Clients -> SUBSET RPages]
    /\ IsMap(lent, RPages, {Hashed, Lost} \cup {LentTo(c) : c \in Clients}
                                   \cup {LeftBy(c) : c \in Clients})
    /\ up \in {"up", "quitting", "aborted"}

Init ==
    /\ SlaveInit
    /\ uuid_memory_map = NoEntries
    /\ cb = Idle
    /\ watched = {} /\ live = {} /\ held = [c \in Clients |-> {}]
    /\ lent = NoEntries /\ breach = FALSE
    /\ up = "up" /\ disk = NoEntries

-----------------------------------------------------------------------------
(* What backup() writes: all of data_size_map, each block under the first  *)
(* hash that names it, else under its place in the map.  It looks at the   *)
(* two maps as they are when the signal comes.                             *)

NameOf(sizes, hashes, r) ==
    LET names == {h \in DOMAIN hashes : hashes[h] = r}
    IN  IF names # {}
        THEN FileOf(CHOOSE h \in names : TRUE)
        ELSE <<"unknown_", Cardinality({q \in DOMAIN sizes : q <= r})>>

WrittenFirst(sizes, hashes, f) ==   \* mutant: the first write of a file stays
    CHOOSE r \in DOMAIN sizes :
        /\ NameOf(sizes, hashes, r) = f
        /\ \A q \in DOMAIN sizes : NameOf(sizes, hashes, q) = f => r <= q

\* The block that a file holds in the end: blocks are written in the order of
\* their addresses.
Written(sizes, hashes, f) ==
    CHOOSE r \in DOMAIN sizes :
        /\ NameOf(sizes, hashes, r) = f
        /\ \A q \in DOMAIN sizes : NameOf(sizes, hashes, q) = f => q <= r

\* Files of old stay.
Saved(sizes, hashes) ==
    LET files == {NameOf(sizes, hashes, r) : r \in DOMAIN sizes}
    IN  [f \in DOMAIN disk \cup files |->
            IF f \in files THEN sizes[Written(sizes, hashes, f)] ELSE disk[f]]

\* signal_handler(), on the thread of the packet loop.
Signal(sizes, hashes) ==
    /\ "stop" \in Ops /\ up = "up"
    /\ disk' = Saved(sizes, hashes)
    /\ up' = "quitting"

\* A packet is handled in peace, or the signal comes in the middle of it: what
\* is left of it is done when the handler has returned.
Midway(sizes, hashes) == UNCHANGED processVars \/ Signal(sizes, hashes)

-----------------------------------------------------------------------------
(* Packets.  The rest of a burst is still handled after the signal.        *)

Receives(op) ==
    /\ op \in Ops
    /\ up \in {"up", "quitting"}
    /\ Overlap \/ cb.stage = "idle"

\* What the slave does not notice, and its books do not survive: a packet
\* beside the callback, or one with which a block is freed that is not the
\* sender's to free.
Breaches(bad) == breach' = (breach \/ bad)
Beside == cb.stage # "idle"

\* The iterator of the callback dies with the entry it points to.
Invalidated(r) ==
    IF cb.stage \in {"found", "freed"} /\ r = cb.addr
    THEN [cb EXCEPT !.valid = FALSE] ELSE cb

Holds(who, r) == r \in DOMAIN lent /\ lent[r] = who
GivenBack(who, r) == IF Holds(who, r) THEN Erase(lent, r) ELSE lent

Alloc(c, n, r) ==
    /\ Receives("alloc") /\ c \in live
    /\ ALLOC(n, r)
    /\ uuid_memory_map' = Assign(uuid_memory_map, c,
           {r} \cup IF c \in DOMAIN uuid_memory_map THEN uuid_memory_map[c] ELSE {})
    /\ lent' = IF r = NULL THEN lent ELSE Assign(lent, r, LentTo(c))
    /\ held' = [held EXCEPT ![c] = @ \cup ({r} \ {NULL})]
    /\ Breaches(Beside)
    /\ UNCHANGED <<cb, watched, live, processVars>>

Abort == up' = "aborted" /\ UNCHANGED <<slaveVars, uuid_memory_map, cb, lent, disk>>

\* free() of what is no block ends the process.
Freeable(r) == r = NULL \/ r \in DOMAIN arena

\* rum_free(): whatever region the client has, the slave frees the block, if it
\* has one recorded there.  (A signal in the middle finds the maps as it does
\* before the packet, or after it.)
Dealloc(c, r) ==
    /\ Receives("dealloc") /\ c \in live /\ r \in held[c]
    /\ held' = [held EXCEPT ![c] = @ \ {r}]
    /\ Breaches(Beside \/ (r \in DOMAIN data_size_map /\ ~Holds(LentTo(c), r)))
    /\ UNCHANGED <<watched, live>>
    /\ IF r \in DOMAIN data_size_map => Freeable(r)
       THEN /\ DEALLOC(r)
            /\ lent' = IF r \in DOMAIN data_size_map THEN GivenBack(LentTo(c), r) ELSE lent
            /\ cb' = Invalidated(r)
            /\ UNCHANGED <<uuid_memory_map, processVars>>
       ELSE Abort

AllocHash_Listed(c, h, n, r) ==     \* mutant: listed under the uuid as well
    /\ Receives("hash") /\ c \in live
    /\ n = HashLen
    /\ ALLOC_HASH(h, n, r)
    /\ uuid_memory_map' = Assign(uuid_memory_map, c,
           {r} \cup IF c \in DOMAIN uuid_memory_map THEN uuid_memory_map[c] ELSE {})
    /\ lent' = Assign(lent, r, Hashed)
    /\ UNCHANGED <<cb, clientVars, breach, processVars>>

\* data_map.insert(), the signal, data_size_map.insert().
AllocHash(c, h, n, r) ==
    /\ Receives("hash") /\ c \in live
    /\ n = HashLen \/ "resize" \in Ops
    /\ Breaches(Beside \/ (h \in DOMAIN hash_map /\ ~Reusable(h, n)))
    /\ UNCHANGED clientVars
    /\ IF h \in DOMAIN hash_map /\ ~Reusable(h, n) => Freeable(hash_map[h])
       THEN /\ ALLOC_HASH(h, n, r)
            /\ lent' = Assign(IF h \in DOMAIN hash_map THEN GivenBack(Hashed, hash_map[h])
                              ELSE lent, r, Hashed)
            /\ Midway(data_size_map, hash_map')
            /\ UNCHANGED <<uuid_memory_map, cb>>
       ELSE r = hash_map[h] /\ Abort

\* data_size_map.erase(), the signal, data_map.erase().
DeallocHash(c, h) ==
    /\ Receives("dealloc_hash") /\ c \in live
    /\ Breaches(Beside)
    /\ UNCHANGED clientVars
    /\ IF h \in DOMAIN hash_map => Freeable(hash_map[h])
       THEN /\ DEALLOC_HASH(h)
            /\ lent' = IF h \in DOMAIN hash_map THEN GivenBack(Hashed, hash_map[h]) ELSE lent
            /\ cb' = IF h \in DOMAIN hash_map THEN Invalidated(hash_map[h]) ELSE cb
            /\ Midway(data_size_map', hash_map)
            /\ UNCHANGED uuid_memory_map
       ELSE Abort

Packet ==
    \E c \in Clients :
        \/ \E n \in 1..MaxLen, r \in Addrs : Alloc(c, n, r)
        \/ \E r \in RPages : Dealloc(c, r)
        \/ \E h \in Hashes, n \in 1..MaxLen, r \in Addrs : AllocHash(c, h, n, r)
        \/ \E h \in Hashes : DeallocHash(c, h)

-----------------------------------------------------------------------------
(* Clients come and go, and are missed.                                    *)

Start_Unarmed(c) ==     \* mutant: no timeout is started
    /\ c \notin live /\ c # cb.uuid
    /\ up = "up"
    /\ live' = live \cup {c}
    /\ UNCHANGED <<slaveVars, uuid_memory_map, cb, watched, held, lent, breach, processVars>>

\* A process registers; its first heartbeats arm the timeout anew.
Start(c) ==
    /\ c \notin live /\ c # cb.uuid
    /\ up = "up"
    /\ live' = live \cup {c}
    /\ watched' = watched \cup {c}
    /\ UNCHANGED <<slaveVars, uuid_memory_map, cb, held, lent, breach, processVars>>

\* The process ends, or its network does: it then has its pointers still.
Silence(c) ==
    /\ "silence" \in Ops
    /\ c \in live
    /\ live' = live \ {c}
    /\ \/ held' = [held EXCEPT ![c] = {}]
       \/ "stale" \in Ops /\ UNCHANGED held
    /\ lent' = [r \in DOMAIN lent |-> IF lent[r] = LentTo(c) THEN LeftBy(c) ELSE lent[r]]
    /\ UNCHANGED <<slaveVars, uuid_memory_map, cb, watched, breach, processVars>>

\* The timer, which has one shot, calls user_callback_function().
Timeout(c) ==
    /\ up \in {"up", "quitting"} /\ cb.stage = "idle"
    /\ c \in watched \ live
    /\ watched' = watched \ {c}
    /\ IF c \in DOMAIN uuid_memory_map
       THEN cb' = [Idle EXCEPT !.uuid = c, !.todo = uuid_memory_map[c],
                               !.stage = "walk"]
       ELSE cb' = cb
    /\ UNCHANGED <<slaveVars, uuid_memory_map, live, held, lent, breach, processVars>>

Find_Stops ==           \* mutant: an address without a size ends the walk
    /\ cb.stage = "walk"
    /\ \E r \in cb.todo :
          cb' = IF r \in DOMAIN data_size_map
                THEN [cb EXCEPT !.todo = @ \ {r}, !.addr = r, !.stage = "found",
                                !.valid = TRUE]
                ELSE [cb EXCEPT !.todo = {}]
    /\ UNCHANGED <<slaveVars, uuid_memory_map, clientVars, lent, breach, processVars>>

\* The next address, passed over if its size is not known.  (The order of the vector,
\* and how often it names an address, are left out.)
Find ==
    /\ cb.stage = "walk"
    /\ \E r \in cb.todo :
          cb' = IF r \in DOMAIN data_size_map
                THEN [cb EXCEPT !.todo = @ \ {r}, !.addr = r, !.stage = "found",
                                !.valid = TRUE]
                ELSE [cb EXCEPT !.todo = @ \ {r}]
    /\ UNCHANGED <<slaveVars, uuid_memory_map, clientVars, lent, breach, processVars>>

\* free()
Free ==
    /\ cb.stage = "found"
    /\ Breaches(cb.addr # NULL /\ ~Holds(LeftBy(cb.uuid), cb.addr))
    /\ UNCHANGED clientVars
    /\ IF Freeable(cb.addr)
       THEN /\ arena' = Erase(arena, cb.addr)
            /\ cb' = [cb EXCEPT !.stage = "freed"]
            /\ lent' = GivenBack(LeftBy(cb.uuid), cb.addr)
            /\ UNCHANGED <<slave_mem, data_size_map, hash_map, uuid_memory_map,
                           processVars>>
       ELSE Abort

\* data_size_map.erase(size_map_itter), of an iterator that is no more
\* undefined: it ends the process here.
Forget ==
    /\ cb.stage = "freed"
    /\ UNCHANGED <<clientVars, breach>>
    /\ IF cb.valid
       THEN /\ data_size_map' = Erase(data_size_map, cb.addr)
            /\ cb' = [cb EXCEPT !.stage = "walk", !.addr = NULL]
            /\ UNCHANGED <<slave_mem, arena, hash_map, uuid_memory_map, lent,
                           processVars>>
       ELSE Abort

Done_Listed ==          \* mutant: the list of addresses is kept
    /\ cb.stage = "walk" /\ cb.todo = {}
    /\ cb' = Idle
    /\ UNCHANGED <<slaveVars, uuid_memory_map, clientVars, lent, breach, processVars>>

\* uuid_memory_map.erase(hash)
Done ==
    /\ cb.stage = "walk" /\ cb.todo = {}
    /\ uuid_memory_map' = Erase(uuid_memory_map, cb.uuid)
    /\ cb' = Idle
    /\ UNCHANGED <<slaveVars, clientVars, lent, breach, processVars>>

user_callback_function == up \in {"up", "quitting"} /\ (Find \/ Free \/ Forget \/ Done)

-----------------------------------------------------------------------------
(* The slave's own end and return.                                         *)

\* The signal comes between two packets.
Backup ==
    /\ Signal(data_size_map, hash_map)
    /\ UNCHANGED <<slaveVars, uuid_memory_map, cb, clientVars, lent, breach>>

\* Where restore() may put the files: no two overlap, and malloc() fails only
\* for want of room.
Placements ==
    {p \in [DOMAIN disk -> Addrs] :
        LET room(f) == IF p[f] = NULL THEN {} ELSE Extent(p[f], disk[f])
            taken   == UNION {room(f) : f \in DOMAIN disk}
        IN  /\ \A f \in DOMAIN disk : room(f) \subseteq RPages
            /\ \A f, g \in DOMAIN disk : f # g => room(f) \cap room(g) = {}
            /\ \A f \in DOMAIN disk : p[f] = NULL =>
                  \A r \in RPages : ~(Extent(r, disk[f]) \subseteq RPages \ taken)}

\* The process ends, with or without a signal, and main() starts anew with
\* restore().  read_from_file() gets its pointer by value: the blocks it
\* allocates are known to no one, and what is recorded is NULL.  Clients do not
\* notice, and have their pointers still; whether they ever free those is up to
\* "stale".
Restart ==
    /\ up = "quitting" \/ (up = "up" /\ "crash" \in Ops)
    /\ \E p \in Placements :
          LET placed == {p[f] : f \in DOMAIN disk} \ {NULL}
          IN  /\ arena' = [r \in placed |-> disk[CHOOSE f \in DOMAIN disk : p[f] = r]]
              /\ lent' = [r \in placed |-> Lost]
    /\ hash_map' = [f \in DOMAIN disk \cap Names |-> NULL]
    /\ IF disk = NoEntries
       THEN data_size_map' = NoEntries
       ELSE \E f \in DOMAIN disk : data_size_map' = Assign(NoEntries, NULL, disk[f])
    /\ uuid_memory_map' = NoEntries
    /\ cb' = Idle
    /\ watched' = {}
    /\ up' = "up"
    /\ IF "stale" \in Ops THEN UNCHANGED held ELSE held' = [c \in Clients |-> {}]
    /\ UNCHANGED <<slave_mem, live, breach, disk>>

-----------------------------------------------------------------------------
Clocks == \E c \in Clients : Start(c) \/ Silence(c) \/ Timeout(c)

Next == Packet \/ Clocks \/ user_callback_function \/ Backup \/ Restart

Spec == Init /\ [][Next]_vars

\* A timer that is due fires, in the order in which they are due, and the
\* callback runs to its end.
FairSpec ==
    /\ Spec
    /\ \A c \in Clients : SF_vars(Timeout(c))
    /\ WF_vars(user_callback_function)

-----------------------------------------------------------------------------
(* Properties                                                              *)

\* What a live client was lent, and hashed memory, is allocated, and its size
\* is known: no packet and no other client's timeout takes it away.
LiveKeepTheirs ==
    \A r \in DOMAIN lent :
        lent[r] \in {Hashed} \cup {LentTo(c) : c \in live} =>
            /\ r \in DOMAIN arena
            /\ r \in DOMAIN data_size_map /\ data_size_map[r] = arena[r]

\* "We don't free things allocated with hash, as that should be persistent"
\* (user_callback_function): what a hash names is allocated.
HashesAllocated ==
    \A h \in DOMAIN hash_map \cap Hashes : hash_map[h] \in DOMAIN arena

\* "The hash exists, so the size *must* also" (GET).
HashHasSize ==
    \A h \in DOMAIN hash_map \cap Hashes : hash_map[h] \in DOMAIN data_size_map

\* "Before we start the threads to listen on the network, restore data": what
\* the files hold of a hash is there again under that hash.
HashesRestored ==
    [][up = "quitting" /\ up' = "up" =>
          \A h \in Hashes : FileOf(h) \in DOMAIN disk =>
              /\ h \in DOMAIN hash_map'
              /\ hash_map'[h] \in DOMAIN arena'
              /\ arena'[hash_map'[h]] = disk[FileOf(h)]]_vars

\* Once a silent client's timeout has passed and its callback is done, none of
\* what it left behind is still allocated.
ClearedUp ==
    \A c \in Clients \ (live \cup watched \cup {cb.uuid}) :
        \A r \in DOMAIN lent : lent[r] = LeftBy(c) => r \notin DOMAIN arena

\* Outside the callback, the sizes recorded are those of the heap's blocks:
\* nothing is allocated unrecorded, nor recorded and free.  The blocks that
\* restore() has lost are known to no one.
BooksMatchHeap ==
    cb.stage # "freed" =>
        LET known == {r \in DOMAIN arena : r \in DOMAIN lent => lent[r] # Lost}
        IN  /\ DOMAIN data_size_map \ {NULL} = known
            /\ \A r \in known : arena[r] = data_size_map[r]

\* Each block is somebody's until its holder, or its holder's silence, gives it
\* back, and is apart from the others; a hash keeps the block it was first given.
Named == [h \in DOMAIN hash_map \cap Hashes |-> hash_map[h]]
Lenders == INSTANCE Lending WITH Pages <- RPages, Sizes <- 1..MaxLen,
                                 Everyone <- Hashed, Nobody <- Lost,
                                 blocks <- arena, holder <- lent, known <- Named
IsLending == Lenders!Spec

\* free() is never given what is not a block.
NoDoubleFree == up # "aborted"

\* What a backup writes, if the step has one.
HashesWritten ==
    up = "up" /\ up' = "quitting" =>
        \A h \in DOMAIN hash_map \cap DOMAIN hash_map' \cap Hashes :
            FileOf(h) \in DOMAIN disk' /\ disk'[FileOf(h)] = arena[hash_map[h]]

\* A backup holds every hash the slave has given out and is not giving up, with
\* the size of its block: at whatever point of a packet the signal comes, and
\* whatever an earlier restore() has left in the books.
BackupIsWhole == [][HashesWritten]_vars

\* A client that falls silent has its memory freed, unless it comes back.
SilenceClears ==
    \A c \in Clients :
        c \notin live ~> (c \in live \/ \A r \in DOMAIN arena :
                                            r \in DOMAIN lent => lent[r] # LeftBy(c))

=============================================================================
