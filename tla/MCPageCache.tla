---------------------------- MODULE MCPageCache -----------------------------
(* PageCache on a small client and a small slave.                           *)
EXTENDS PageCache, TLC

CONSTANTS v1, v2, zero, junk, undef, key

MCValues == {v1, v2}
MCValue == {v1}
MCContents == {v1, v2, zero, junk}
MCContents1 == {v1, zero, junk}
MCWords == 0..1
MCPages3 == 1..3
MCPages2 == 1..2

\* The two values a program stores are interchangeable.
ValueSymmetry == Permutations(MCValues)

\* What the last step loaded matters to that step, and to no later one.
ButReply == <<clientVars, slaveVars, running, heap, named, leaked>>

\* Programs that only allocate, free, load and store.
PlainApi == {"rum_alloc", "rum_alloc_at", "rum_free", "rum_end", "misaccess"}

\* Programs that flush, and never free.
FlushApi == {"rum_alloc", "rum_flush_cache", "rum_end"}

\* Processes, one after the other, that share hashed memory.
HashApi == {"rum_init", "rum_alloc_hash", "rum_alloc_hash_at", "rum_get",
            "rum_free_hash", "rum_end"}

=============================================================================
