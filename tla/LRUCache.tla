------------------------------ MODULE LRUCache ------------------------------
(***************************************************************************)
(* The class AddressLRU (rum_master/address_lru.cpp) under any sequence of *)
(* calls, among them the update() of a block that is already listed, which *)
(* the fault handler never makes.                                          *)
(***************************************************************************)
EXTENDS AddressLRU

CONSTANT Addrs      \* the addresses of blocks

ASSUME AddrsAssumption == Addrs \subseteq Nat \ {NoBlock}

VARIABLES
    history_,       \* the list
    stale           \* what the last update() returned

vars == <<history_, stale>>

Init == history_ = <<>> /\ stale = NoBlock

update(a) ==
    /\ history_' \in Updated(history_, a)
    /\ stale' = Stale(history_, a)

clear == history_' = <<>> /\ stale' = NoBlock

purge(first, end) ==
    /\ history_' \in Purged(history_, {a \in Addrs : first <= a /\ a < end})
    /\ stale' = NoBlock

Next ==
    \/ \E a \in Addrs : update(a)
    \/ clear
    \/ \E first, end \in Addrs : purge(first, end)

Spec == Init /\ [][Next]_vars

-----------------------------------------------------------------------------
(* Properties                                                              *)

\* The list never outgrows its limit and never names a block twice, so that
\* one pop_front() for each push_back() is enough (address_lru.cpp:48-70).
TypeOK ==
    /\ history_ \in Seq(Addrs)
    /\ stale \in Addrs \cup {NoBlock}
    /\ Len(history_) <= size_limit_
    /\ NoDuplicates(history_)

\* update() returns exactly the block that left the list: the caller, which
\* writes back what it is told, forgets no block and writes none that is
\* still resident (address_lru.cpp:62-73, rum.cpp:1511).
StaleIsWhatLeft ==
    [][\A a \in Addrs : update(a) =>
          Blocks(history_) \ Blocks(history_') = {stale'} \ {NoBlock}]_vars

\* The list pushes blocks out in the order of their last update
\* (address_lru.cpp:48-67).
R == INSTANCE Recency WITH Pages <- Addrs, Limit <- size_limit_,
                           resident <- Blocks(history_),
                           newer <- NewerThan(history_)
IsRecency == R!Spec

=============================================================================
