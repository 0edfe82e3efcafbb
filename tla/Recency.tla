------------------------------- MODULE Recency ------------------------------
(***************************************************************************)
(* What the local cache of a client promises: at most Limit pages are      *)
(* resident, and the page that has to make room is always the one whose    *)
(* last fault is the oldest.                                               *)
(***************************************************************************)
EXTENDS Naturals, FiniteSets

CONSTANTS
    Pages,      \* the pages that may become resident
    Limit       \* how many may be so at a time

VARIABLES
    resident,   \* the pages in local RAM
    newer       \* the pairs <<a, b>> of them where a was faulted after b

vars == <<resident, newer>>

Init == resident = {} /\ newer = {}

Among(S) == newer \cap (S \X S)

\* A fault on a: a becomes the newest of the resident pages.
Becomes(S, a) ==
    /\ resident' = S \cup {a}
    /\ newer' = Among(S \ {a}) \cup {<<a, b>> : b \in S \ {a}}

IsOldest(b) == \A c \in resident \ {b} : <<c, b>> \in newer

Fault(a) ==
    \/ a \in resident /\ Becomes(resident, a)
    \/ a \notin resident /\ Cardinality(resident) < Limit /\ Becomes(resident, a)
    \/ /\ a \notin resident /\ Cardinality(resident) = Limit
       /\ \E b \in resident : IsOldest(b) /\ Becomes(resident \ {b}, a)

\* Pages that are freed, or flushed, leave.
Leave(S) ==
    /\ resident' = resident \ S
    /\ newer' = Among(resident \ S)

Next == (\E a \in Pages : Fault(a)) \/ (\E S \in SUBSET resident : Leave(S))

Spec == Init /\ [][Next]_vars

=============================================================================
