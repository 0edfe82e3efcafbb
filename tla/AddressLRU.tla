----------------------------- MODULE AddressLRU -----------------------------
(***************************************************************************)
(* The list of the blocks a client keeps in local RAM                      *)
(* (rum_master/address_lru.cpp), least recently faulted first.  Every      *)
(* operation of the class holds cache_mutex from its first to its last     *)
(* access of history_, so each is one step.                                *)
(***************************************************************************)
EXTENDS Naturals, Sequences, FiniteSets

CONSTANT size_limit_        \* init(size): how many blocks may be resident

ASSUME LimitAssumption == size_limit_ \in Nat \ {0}

NoBlock == 0                \* "not stale", the 0 that update() returns

\* The blocks on a list.
Blocks(h) == {h[i] : i \in DOMAIN h}

\* r lists the blocks of h that are not in S, each once, in the order of h.
IsWithout(r, h, S) ==
    /\ Blocks(r) = Blocks(h) \ S
    /\ \A i, j \in DOMAIN r : i < j =>
          \E k, l \in DOMAIN h : k < l /\ h[k] = r[i] /\ h[l] = r[j]
    /\ \A i, j \in DOMAIN r : r[i] = r[j] => i = j

\* What remove() of the blocks S leaves of a list without duplicates.
Without(h, S) ==
    {r \in UNION {[1..n -> Blocks(h)] : n \in 0..Len(h)} : IsWithout(r, h, S)}

Overfull(h) == Len(h) > size_limit_

\* update(address): the block pushed out, and the list afterwards.  A block
\* that was already there is removed and put at the back, and pushes nothing
\* out, whatever the size of the list.
StaleAlways(h, a) ==        \* mutant: a listed block pushes one out as well
    IF Overfull(Append(h, a)) THEN Head(Append(h, a)) ELSE NoBlock

Stale(h, a) ==
    IF a \notin Blocks(h) /\ Overfull(Append(h, a))
    THEN Head(Append(h, a))
    ELSE NoBlock

UpdatedToFront(h, a) ==     \* mutant: a listed block is pushed to the front
    IF a \in Blocks(h)
    THEN {<<a>> \o r : r \in Without(h, {a})}
    ELSE IF Overfull(Append(h, a)) THEN {Tail(Append(h, a))} ELSE {Append(h, a)}

UpdatedAtFront(h, a) ==     \* mutant: pushed to the front, popped there too
    {<<a>> \o (IF Overfull(Append(h, a)) THEN Tail(h) ELSE h)}

Updated(h, a) ==
    IF a \in Blocks(h)
    THEN {Append(r, a) : r \in Without(h, {a})}
    ELSE IF Overfull(Append(h, a)) THEN {Tail(Append(h, a))} ELSE {Append(h, a)}

\* purge(start, end), S being the blocks of the interval.
PurgedPastStart(h, S) ==    \* mutant: > start where >= is meant
    Without(h, {a \in S : \E b \in S : b < a})

Purged(h, S) == Without(h, S)

\* No block is listed twice.
NoDuplicates(h) == \A i, j \in DOMAIN h : h[i] = h[j] => i = j

\* The order in which the list would push its blocks out, newest first: the
\* pairs <<a, b>> where a was faulted after b.
NewerThan(h) ==
    {x \in Blocks(h) \X Blocks(h) :
        \E i, j \in DOMAIN h : i < j /\ x[1] = h[j] /\ x[2] = h[i]}

=============================================================================
