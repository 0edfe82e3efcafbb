------------------------------ MODULE Consensus ------------------------------
(* What a group that agrees on one value after the other promises: for each *)
(* instance of the chain at most one value is ever chosen, for good.        *)
EXTENDS Naturals

CONSTANTS Instances, Values

VARIABLE chosen     \* the decisions: an instance and its value

Init == chosen = {}

Choose(i, v) ==
    /\ i \in Instances /\ v \in Values
    /\ \A d \in chosen : d[1] # i
    /\ chosen' = chosen \cup {<<i, v>>}

\* The decision is looked for in the next state, not among all there could be.
Next == \E d \in chosen' \ chosen : Choose(d[1], d[2])

Spec == Init /\ [][Next]_chosen

=============================================================================
