------------------------------ MODULE MCSlave ------------------------------
(***************************************************************************)
(* Small instances of Slave: two clients, one hash, a heap of three pages. *)
(* What the memory holds does not matter here.                             *)
(***************************************************************************)
EXTENDS Slave

MCRPages == 1..3

=============================================================================
