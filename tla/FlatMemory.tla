----------------------------- MODULE FlatMemory -----------------------------
(***************************************************************************)
(* What a program expects of the memory it gets from RUM: that of malloc.  *)
(* A word holds what was last stored in it, wherever RUM keeps it.  A word *)
(* of a page that is not allocated, or that nothing was stored in, is      *)
(* Undef, and a program does not load it.                                  *)
(***************************************************************************)
CONSTANTS
    Pages,      \* the pages of the program's address space
    Words,      \* the words of a page
    Values,     \* what a word can hold
    Undef       \* the content a program may not rely on

VARIABLES
    live,       \* the pages allocated
    heap,       \* heap[p][w]: the content of a word
    reply       \* what the step loaded, <<>> when it was no load

vars == <<live, heap, reply>>

Blank == [w \in Words |-> Undef]

Init ==
    /\ live = {}
    /\ heap = [p \in Pages |-> Blank]
    /\ reply = <<>>

\* New pages, with nothing in them yet (malloc), zeros (calloc), or what the
\* memory of that name already held (attach): all the caller knows is that
\* the words of the other pages are left alone.
Allocate(S) ==
    /\ S # {} /\ S \cap live = {}
    /\ live' = live \cup S
    /\ DOMAIN heap' = Pages
    /\ \A p \in Pages \ S : heap'[p] = heap[p]
    /\ reply' = <<>>

Release(S) ==
    /\ S # {} /\ S \subseteq live
    /\ live' = live \ S
    /\ heap' = [p \in Pages |-> IF p \in S THEN Blank ELSE heap[p]]
    /\ reply' = <<>>

Store(p, w, v) ==
    /\ p \in live
    /\ heap' = [heap EXCEPT ![p][w] = v]
    /\ reply' = <<>>
    /\ UNCHANGED live

Load(p, w) ==
    /\ p \in live
    /\ heap[p][w] # Undef
    /\ reply' = <<p, w, heap[p][w]>>
    /\ UNCHANGED <<live, heap>>

\* A step that is none of the program's business.
Internal ==
    /\ reply' = <<>>
    /\ UNCHANGED <<live, heap>>

Next ==
    \/ Internal
    \/ \E p \in Pages, w \in Words :
          \/ Load(p, w)
          \/ \E v \in Values : Store(p, w, v)
    \/ \E S \in SUBSET Pages : Allocate(S) \/ Release(S)

Spec == Init /\ [][Next]_vars

=============================================================================
