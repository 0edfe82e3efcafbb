-------------------------------- MODULE Timers --------------------------------
(***************************************************************************)
(* What a TimerThread promises its callers (paxos/paxos_timer.h): timers   *)
(* fire when they are due, one at a time and the most overdue first, and   *)
(* until somebody asks to clear them; a clearing is answered when the      *)
(* timer is over.                                                          *)
(***************************************************************************)
EXTENDS Integers

CONSTANTS Ids, Delays

VARIABLES
    state,      \* timer -> unset, set, firing (in its handler) or over
    due,        \* timer that is set or firing -> ticks until its instant
    period,     \* timer -> ticks between two instants, or 0
    asked,      \* the timers that somebody has asked to clear
    quiet       \* those for which that has been answered

vars == <<state, due, period, asked, quiet>>

Are(s) == {i \in Ids : state[i] = s}

Init ==
    /\ state = [i \in Ids |-> "unset"]
    /\ due = [i \in Ids |-> 0] /\ period = [i \in Ids |-> 0]
    /\ asked = {} /\ quiet = {}

Set(i, d, p) ==
    /\ state[i] = "unset"
    /\ state' = [state EXCEPT ![i] = "set"]
    /\ due' = [due EXCEPT ![i] = d]
    /\ period' = [period EXCEPT ![i] = p]

Fire(i) ==
    /\ state[i] = "set" /\ due[i] <= 0 /\ i \notin asked
    /\ Are("firing") = {}
    /\ \A j \in Are("set") : due[i] <= due[j]
    /\ state' = [state EXCEPT ![i] = "firing"]
    /\ UNCHANGED <<due, period>>

\* A periodic timer is due again a period after it was due, however long its
\* handler has taken.
Again(i) ==
    /\ state[i] = "firing" /\ period[i] > 0 /\ i \notin asked
    /\ state' = [state EXCEPT ![i] = "set"]
    /\ due' = [due EXCEPT ![i] = @ + period[i]]
    /\ UNCHANGED period

Over(S) ==
    /\ state' = [i \in Ids |-> IF i \in S THEN "over" ELSE state[i]]
    /\ due' = [i \in Ids |-> IF i \in S THEN 0 ELSE due[i]]
    /\ UNCHANGED period

End(i) ==
    /\ state[i] = "firing" /\ (period[i] = 0 \/ i \in asked)
    /\ Over({i})

Clear(S) == S \subseteq Are("set") \cap asked' /\ Over(S)

Tick ==
    /\ due' = [i \in Ids |-> IF state[i] \in {"set", "firing"} THEN due[i] - 1 ELSE due[i]]
    /\ UNCHANGED <<state, period>>

\* A clearing is answered when the timer is over, and only then.
Requests ==
    /\ asked \subseteq asked' /\ quiet \subseteq quiet' /\ quiet' \subseteq asked'
    /\ \A i \in quiet' : state'[i] = "over"

Next ==
    /\ \/ \E i \in Ids, d, p \in Delays : Set(i, d, p)
       \/ \E i \in Ids : Fire(i) \/ Again(i) \/ End(i)
       \/ \E S \in SUBSET Ids : Clear(S)
       \/ Tick
    /\ Requests

Spec == Init /\ [][Next]_vars

===============================================================================
