------------------------------ MODULE Lending ------------------------------
(***************************************************************************)
(* What a slave promises those it lends memory to (README.md:12, 39-43;    *)
(* the comments of user_callback_function): each block is somebody's from  *)
(* the moment it is given until its holder, or its holder's silence, gives *)
(* it back; what a hash names is everyone's until the name is given up.    *)
(***************************************************************************)
EXTENDS Naturals, StdMap

CONSTANTS Pages, Sizes, Clients, Hashes, Everyone, Nobody

VARIABLES
    blocks,     \* start of a block -> its pages
    holder,     \* start of a block -> LentTo(c), LeftBy(c), Everyone, Nobody
    known,      \* hash -> the block it names
    live        \* the clients with a process

vars == <<blocks, holder, known, live>>

LentTo(c) == <<"lent to", c>>
LeftBy(c) == <<"left by", c>>

At(r, n) == r .. (r + n - 1)
Apart(b) ==
    \A r \in DOMAIN b :
        /\ At(r, b[r]) \subseteq Pages
        /\ \A q \in DOMAIN b \ {r} : At(r, b[r]) \cap At(q, b[q]) = {}

Init == blocks = NoEntries /\ holder = NoEntries /\ known = NoEntries /\ live = {}

Give(r, n, who) ==
    /\ At(r, n) \subseteq Pages
    /\ \A q \in DOMAIN blocks : At(r, n) \cap At(q, blocks[q]) = {}
    /\ blocks' = Assign(blocks, r, n)
    /\ holder' = Assign(holder, r, who)

Take(r) == blocks' = Erase(blocks, r) /\ holder' = Erase(holder, r)

Lend(c) ==
    /\ c \in live
    /\ \E r \in Pages, n \in Sizes : Give(r, n, LentTo(c))
    /\ UNCHANGED <<known, live>>

Return(c) ==
    /\ c \in live
    /\ \E r \in DOMAIN blocks : holder[r] = LentTo(c) /\ Take(r)
    /\ UNCHANGED <<known, live>>

\* Asked for again, a known hash keeps its block: nothing happens.
Name(h) ==
    /\ h \notin DOMAIN known
    /\ \E r \in Pages, n \in Sizes :
          Give(r, n, Everyone) /\ known' = Assign(known, h, r)
    /\ UNCHANGED live

Forget(h) ==
    /\ h \in DOMAIN known /\ known[h] \in DOMAIN blocks
    /\ Take(known[h])
    /\ known' = Erase(known, h)
    /\ UNCHANGED live

Start(c) ==
    /\ c \notin live /\ live' = live \cup {c}
    /\ UNCHANGED <<blocks, holder, known>>

Silence(c) ==
    /\ c \in live /\ live' = live \ {c}
    /\ holder' = [r \in DOMAIN holder |->
                     IF holder[r] = LentTo(c) THEN LeftBy(c) ELSE holder[r]]
    /\ UNCHANGED <<blocks, known>>

Clear(c) ==
    /\ c \notin live
    /\ \E r \in DOMAIN blocks : holder[r] = LeftBy(c) /\ Take(r)
    /\ UNCHANGED <<known, live>>

\* A slave that begins again knows nobody.
Restart ==
    /\ DOMAIN holder' = DOMAIN blocks' /\ \A r \in DOMAIN holder' : holder'[r] = Nobody
    /\ Apart(blocks')
    /\ known' = NoEntries
    /\ UNCHANGED live

Next ==
    \/ \E c \in Clients : Lend(c) \/ Return(c) \/ Start(c) \/ Silence(c) \/ Clear(c)
    \/ \E h \in Hashes : Name(h) \/ Forget(h)
    \/ Restart

Spec == Init /\ [][Next]_vars

=============================================================================
