----------------------------- MODULE MCLRUCache -----------------------------
(* The list of three blocks out of five.                                    *)
EXTENDS LRUCache

MCAddrs == 1..5

=============================================================================
