------------------------------ MODULE MCS3cmd ------------------------------
(* Instances of S3cmd for TLC: two buckets, and three slaves.                *)
EXTENDS S3cmd

CONSTANTS b1, b2, n1, n2, c1, c2, m1, m2, m3

\* A slave for the files of each name, and one for the listing.
Places == (m1 :> 2) @@ (m2 :> 5) @@ (m3 :> 7)
Paths4 == (<<b1, n1>> :> 1) @@ (<<b2, n1>> :> 8) @@ (<<b1, n2>> :> 3) @@ (<<b2, n2>> :> 4)
AsManyAsKeys == (m1 :> {1, 2}) @@ (m2 :> {3, 4}) @@ (m3 :> {5})

\* n2 may be a file that cannot be opened.
OneUnsure ==
    {[path |-> n1, size |-> c1], [path |-> n2, size |-> c2], [path |-> n2, size |-> Missing]}

\* For the README's other instances.
Either == {[path |-> n1, size |-> c1], [path |-> n1, size |-> c2]}
InDirectory == {[path |-> "dir/n1", size |-> c1]}
MoreThanKeys == (m1 :> {1, 2, 6, 7}) @@ (m2 :> {3, 4, 8, 9, 10}) @@ (m3 :> {5})
OtherFile == {{m1, m2}, {m1, m2, m3}}
Growing == [c \in Contents |-> IF c = c1 THEN 1 ELSE 2]

OneFile == {{m1, m2, m3}}

LastOf == [x \in Paths |-> IF x = "dir/n1" THEN n1 ELSE x]
OnePage == [c \in Contents |-> 1]

=============================================================================
