---------------------------- MODULE MCTimerThread ----------------------------
(* TimerThread with a few timers.                                           *)
EXTENDS TimerThread

CONSTANTS c1, c2, worker_thread

=============================================================================
