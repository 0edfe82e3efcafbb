------------------------------ MODULE HashRing ------------------------------
(* The consistent hash ring of the key value store (app/kvs/hashring.cpp):  *)
(* node_ring, a map from places on the ring to the machines of the servers'  *)
(* file.  Places, which are strings, are compared as numbers here.           *)
EXTENDS Integers, FiniteSets, FiniteSetsExt, TLC

lower_bound(ring, place) == {x \in DOMAIN ring : x >= place}

\* The node that follows a place, which is the node itself at its own place.
get_next_node(ring, place) ==
    IF lower_bound(ring, place) = {} THEN Min(DOMAIN ring) ELSE Min(lower_bound(ring, place))

\* The key is not hashed: it is compared as it is with the places of the nodes.
get_next_node_by_key(ring, place) == ring[get_next_node(ring, place)]

\* insert() does not replace.  There is one place for a node (replication_factor).
add_node(ring, place, node) == ring @@ (place :> node)

\* The ring of the machines of a file, Place giving each its place.
RingOf(machines, Place) ==
    MapThenFoldSet(LAMBDA x, ring : add_node(ring, x[1], x[2]), <<>>,
                   LAMBDA m : <<Place[m], m>>, LAMBDA S : CHOOSE m \in S : TRUE, machines)

=============================================================================
