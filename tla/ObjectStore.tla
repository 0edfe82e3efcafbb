---------------------------- MODULE ObjectStore ----------------------------
(* What s3cmd promises: buckets of named files, each command one step that  *)
(* is seen whole or not at all.                                              *)
EXTENDS Naturals, Functions, TLC

CONSTANTS Buckets, Names, Contents, Nothing

VARIABLES
    command,    \* the command that changes them
    objects,    \* bucket -> name -> content, of the buckets and files there are
    got         \* what the last command, a get, fetched

Empty == [n \in {} |-> Nothing]

Init == objects = [b \in {} |-> Empty] /\ got = Nothing

Has(o, b, n) == b \in DOMAIN o /\ n \in DOMAIN o[b]

Without(f, x) == Restrict(f, DOMAIN f \ {x})

(* The objects there may be after a command.                                *)

MakeBucket(o) == {o @@ (b :> Empty) : b \in Buckets}

RemoveBucket(o) == {Without(o, b) : b \in Buckets}

\* A file that is there is not replaced.
Put(o) ==
    {[o EXCEPT ![b] = @ @@ f] : b \in DOMAIN o, f \in UNION {[N -> Contents] : N \in SUBSET Names}}

Delete(o) == {[o EXCEPT ![b] = Without(@, n)] : b \in DOMAIN o, n \in Names}

Transfers(o) ==
    {t \in (DOMAIN o) \X Names \X (DOMAIN o) : Has(o, t[1], t[2]) /\ ~Has(o, t[3], t[2])}

Copy(o) == {[o EXCEPT ![t[3]] = @ @@ (t[2] :> o[t[1]][t[2]])] : t \in Transfers(o)}

Move(o) ==
    {[o EXCEPT ![t[3]] = @ @@ (t[2] :> o[t[1]][t[2]]), ![t[1]] = Without(@, t[2])]
        : t \in Transfers(o)}

Change ==
    /\ objects' # objects
    /\ \/ command' = "mb" /\ objects' \in MakeBucket(objects)
       \/ command' = "rb" /\ objects' \in RemoveBucket(objects)
       \/ command' = "put" /\ objects' \in Put(objects)
       \/ command' = "del" /\ objects' \in Delete(objects)
       \/ command' = "cp" /\ objects' \in Copy(objects)
       \/ command' = "mv" /\ objects' \in Move(objects)
    /\ UNCHANGED got

Get ==
    /\ \E b \in Buckets, n \in Names : Has(objects, b, n) /\ got' = objects[b][n]
    /\ UNCHANGED objects

Other == got' = Nothing /\ UNCHANGED objects

Spec == Init /\ [][Change \/ Get \/ Other]_<<objects, got>>

=============================================================================
