------------------------------- MODULE MCPaxos -------------------------------
(* Paxos in a group of three.                                               *)
EXTENDS Paxos, TLC

CONSTANTS none, a1

Quiet == [count |-> (1 :> 1 @@ 2 :> 0 @@ 3 :> 0), instance |-> 1, impatient |-> {},
          learners |-> {}, followers |-> {}, restarts |-> {},
          announced |-> FALSE, addresses |-> FALSE, breaches |-> FALSE]

Two == (1 :> 1 @@ 2 :> 1 @@ 3 :> 0)

\* Two nodes that want to be the master, with a learner that restarts, and with
\* addresses that are in any order.
Contest == [Quiet EXCEPT !.count = Two, !.learners = {3}, !.restarts = {<<3, 0>>}]
Rivals == [Quiet EXCEPT !.count = Two, !.addresses = TRUE]
\* A candidate whose announcement is answered, and one that tries again.
Alone == [Quiet EXCEPT !.learners = {1}, !.announced = TRUE]
Retry == [Quiet EXCEPT !.count[1] = 2, !.impatient = {1}]
\* A master with a value of the application, and a node that catches up.
Chain == [Quiet EXCEPT !.count[1] = 3, !.instance = 2, !.learners = {1}, !.followers = {3}]
\* A master whose lease ran out before it knew of it, and that so leaks a timer.
Again == [Quiet EXCEPT !.instance = 2, !.learners = {1}, !.impatient = {1},
                       !.breaches = TRUE]

Six == {Contest, Rivals, Alone, Retry, Chain, Again}

=============================================================================
