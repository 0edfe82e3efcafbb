---------------------------- MODULE MCHeartbeat ----------------------------
(***************************************************************************)
(* Small instances of Heartbeat: a tick is 2.5 seconds, so that heartbeats *)
(* are 2 ticks apart and the timeout is 4.                                 *)
(***************************************************************************)
EXTENDS Heartbeat

MCTrans == 2
MCTimeoutLen == 4

=============================================================================
