------------------------------- MODULE StdMap -------------------------------
(***************************************************************************)
(* std::map as the repository uses it: a function whose domain is the set  *)
(* of keys present.  The two ways C++ has of putting a pair into a map are *)
(* kept apart, since the code leans on both: insert() leaves the value of  *)
(* a key that is already present alone, operator[] overwrites it.          *)
(***************************************************************************)

\* The map with no key.
NoEntries == [k \in {} |-> k]

\* m.insert({k, v}): nothing happens when k is already a key.
Insert(m, k, v) ==
    IF k \in DOMAIN m
    THEN m
    ELSE [x \in DOMAIN m \cup {k} |-> IF x = k THEN v ELSE m[x]]

\* m[k] = v
Assign(m, k, v) ==
    [x \in DOMAIN m \cup {k} |-> IF x = k THEN v ELSE m[x]]

\* m.erase(k)
Erase(m, k) == [x \in DOMAIN m \ {k} |-> m[x]]

\* m is a map with keys in K and values in V.
IsMap(m, K, V) == DOMAIN m \subseteq K /\ m \in [DOMAIN m -> V]

=============================================================================
