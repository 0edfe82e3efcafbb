------------------------------ MODULE Heartbeat ------------------------------
(***************************************************************************)
(* How a slave finds out that a client is gone (heartbeat/Heartbeat.cpp).  *)
(* The client's thread sends a heartbeat to each slave and sleeps; the     *)
(* slave's thread restarts a timer at every heartbeat; the timer that runs *)
(* out has the client's memory freed.  A client is known by its uuid,      *)
(* which rum.cpp derives from the host, so that the processes a host runs  *)
(* one after the other are one client.                                     *)
(*                                                                         *)
(* Time passes in ticks.  What is to be done in a tick is done in any      *)
(* order; a message takes up to Delay ticks, which includes the time that  *)
(* a sleep takes too long.  Messages may overtake each other.  None is     *)
(* lost: with TIMEOUT_LEN_MS twice TRANS_WAIT_MS, one lost heartbeat is    *)
(* enough for the next to race the timer.                                  *)
(***************************************************************************)
EXTENDS Integers, FiniteSets

CONSTANTS
    Hosts,      \* the uuids
    Trans,      \* TRANS_WAIT_MS, in ticks
    TimeoutLen, \* TIMEOUT_LEN_MS, in ticks
    Delay,      \* bound: the ticks a message takes
    Lives,      \* bound: the processes a host runs one after the other
    Patience,   \* the ticks a host waits before it runs the next one
    LateFlag    \* whether transmission_running, and reception_running at the
                \*   slave, may be set too late

ASSUME HeartbeatAssumption ==
    /\ Trans \in Nat \ {0} /\ TimeoutLen \in Nat \ {0}
    /\ Delay \in Nat /\ Lives \in Nat /\ Patience \in Nat
    /\ LateFlag \in BOOLEAN

VARIABLES
    running,        \* host -> whether its process runs
    pinging,        \* host -> whether transmit_thread() is in its loop
    sleep,          \* host -> ticks until transmit_thread() wakes up
    listening,      \* whether the slave's reception_thread() is in its loop
    net,            \* the messages on their way, with their age
    client_map,     \* the slave's client_map: the uuids it knows
    timer,          \* uuid -> ticks until its timer fires, or None
    memory,         \* uuid -> what is allocated under it: by the process that
                    \*   runs ("own"), by an earlier one ("left")
    gone,           \* host -> ticks since its last process ended
    lives           \* host -> the processes it has begun

clientVars == <<running, pinging, sleep, gone, lives>>
slaveVars == <<listening, client_map, timer>>
vars == <<clientVars, net, slaveVars, memory>>

None == -1
Long == TimeoutLen + Delay + Patience + 1     \* bound: gone counts no further
Register(h) == [type |-> "MSG_REGISTER", host |-> h, age |-> 0]
Beat(h) == [type |-> "MSG_HEARTBEAT", host |-> h, age |-> 0]

\* The shape of the state.
TypeOK ==
    /\ running \in [Hosts -> BOOLEAN] /\ pinging \in [Hosts -> BOOLEAN]
    /\ sleep \in [Hosts -> 0..Trans]
    /\ listening \in BOOLEAN
    /\ net \subseteq [type : {"MSG_REGISTER", "MSG_HEARTBEAT"}, host : Hosts,
                      age : 0..Delay]
    /\ client_map \subseteq Hosts
    /\ timer \in [Hosts -> {None} \cup 0..TimeoutLen]
    /\ memory \in [Hosts -> SUBSET {"own", "left"}]
    /\ gone \in [Hosts -> 0..Long]
    /\ lives \in [Hosts -> 0..Lives]

\* The slave's start_daemon(), too, starts its thread and then sets the flag of
\* its loop: the thread may find it unset and end.
Init ==
    /\ listening \in {TRUE} \cup {~LateFlag}
    /\ running = [h \in Hosts |-> FALSE] /\ pinging = running
    /\ sleep = [h \in Hosts |-> 0]
    /\ net = {}
    /\ client_map = {}
    /\ timer = [h \in Hosts |-> None]
    /\ memory = [h \in Hosts |-> {}]
    /\ gone = [h \in Hosts |-> Long]
    /\ lives = [h \in Hosts |-> 0]

-----------------------------------------------------------------------------
(* The client.                                                             *)

\* rum_init(): start_daemon() starts the thread and then sets the flag of its
\* loop, so that the thread may find it unset and end; then add_slave()
\* registers.  The thread's first round may come before or after add_slave().
Start(h) ==
    /\ ~running[h] /\ lives[h] < Lives /\ gone[h] >= Patience
    /\ running' = [running EXCEPT ![h] = TRUE]
    /\ lives' = [lives EXCEPT ![h] = @ + 1]
    /\ \E p \in {TRUE} \cup {~LateFlag} : pinging' = [pinging EXCEPT ![h] = p]
    /\ \E s \in {0, Trans} : sleep' = [sleep EXCEPT ![h] = s]
    /\ net' = net \cup {Register(h)}
    /\ UNCHANGED <<gone, slaveVars, memory>>

\* One round of transmit_thread().
Ping(h) ==
    /\ pinging[h] /\ sleep[h] = 0
    /\ net' = net \cup {Beat(h)}
    /\ sleep' = [sleep EXCEPT ![h] = Trans]
    /\ UNCHANGED <<running, pinging, gone, lives, slaveVars, memory>>

\* The program calls rum_alloc().
Allocate(h) ==
    /\ running[h]
    /\ memory' = [memory EXCEPT ![h] = @ \cup {"own"}]
    /\ UNCHANGED <<clientVars, net, slaveVars>>

\* The process ends: by rum_end(), which stops the thread, or by a crash.
End(h) ==
    /\ running[h]
    /\ running' = [running EXCEPT ![h] = FALSE]
    /\ pinging' = [pinging EXCEPT ![h] = FALSE]
    /\ sleep' = [sleep EXCEPT ![h] = 0]
    /\ gone' = [gone EXCEPT ![h] = 0]
    /\ memory' = [memory EXCEPT ![h] = IF @ = {} THEN {} ELSE {"left"}]
    /\ UNCHANGED <<lives, net, slaveVars>>

-----------------------------------------------------------------------------
(* The slave.                                                              *)

create_timeout_Idle(h) ==   \* mutant: the timer is not started
    /\ client_map' = client_map \cup {h}
    /\ UNCHANGED <<listening, timer>>

\* A uuid that is known, even one whose timer has fired, gets no new timer.
create_timeout(h) ==
    IF h \in client_map
    THEN UNCHANGED slaveVars
    ELSE /\ client_map' = client_map \cup {h}
         /\ timer' = [timer EXCEPT ![h] = TimeoutLen]
         /\ UNCHANGED listening

reset_timeout_Added(h) ==   \* mutant: the new time is added to what is left
    IF h \notin client_map
    THEN UNCHANGED slaveVars
    ELSE /\ timer' = [timer EXCEPT ![h] = IF @ = None THEN TimeoutLen
                                         ELSE @ + TimeoutLen]
         /\ UNCHANGED <<listening, client_map>>

reset_timeout_Kept(h) ==    \* mutant: the old timer is not replaced
    IF h \notin client_map
    THEN UNCHANGED slaveVars
    ELSE /\ timer' = [timer EXCEPT ![h] = IF @ = None THEN TimeoutLen ELSE @]
         /\ UNCHANGED <<listening, client_map>>

\* The old timer is cleared, if it has not fired, and a new one started.  A
\* uuid that is not known is ignored.
reset_timeout(h) ==
    IF h \notin client_map
    THEN UNCHANGED slaveVars
    ELSE /\ timer' = [timer EXCEPT ![h] = TimeoutLen]
         /\ UNCHANGED <<listening, client_map>>

reception_thread ==
    /\ listening
    /\ \E m \in net :
           /\ net' = net \ {m}
           /\ IF m.type = "MSG_HEARTBEAT"
              THEN reset_timeout(m.host)
              ELSE create_timeout(m.host)
           /\ UNCHANGED <<clientVars, memory>>

\* The timer fires, once, and user_callback_function() frees all that was
\* allocated under the uuid.  "Remove the client from the list" is a comment.
callback(h) ==
    /\ timer[h] = 0
    /\ memory' = [memory EXCEPT ![h] = {}]
    /\ timer' = [timer EXCEPT ![h] = None]
    /\ UNCHANGED <<clientVars, net, listening, client_map>>

-----------------------------------------------------------------------------
\* Time passes when nothing is left to do in this tick.  What is sent to a slave
\* that does not listen does not arrive.
Tick ==
    /\ \A h \in Hosts : timer[h] # 0 /\ ~(pinging[h] /\ sleep[h] = 0)
    /\ listening => \A m \in net : m.age < Delay
    /\ timer' = [h \in Hosts |-> IF timer[h] = None THEN None ELSE timer[h] - 1]
    /\ sleep' = [h \in Hosts |-> IF sleep[h] = 0 THEN 0 ELSE sleep[h] - 1]
    /\ net' = IF listening THEN {[m EXCEPT !.age = @ + 1] : m \in net} ELSE {}
    /\ gone' = [h \in Hosts |->
                   IF running[h] \/ gone[h] = Long THEN gone[h] ELSE gone[h] + 1]
    /\ UNCHANGED <<running, pinging, lives, listening, client_map, memory>>

Client(h) == Start(h) \/ Ping(h) \/ Allocate(h) \/ End(h)

Next == Tick \/ reception_thread \/ \E h \in Hosts : Client(h) \/ callback(h)

Spec == Init /\ [][Next]_vars

\* Clocks go on, threads that are awake run.
FairSpec ==
    /\ Spec
    /\ WF_vars(Tick) /\ WF_vars(reception_thread)
    /\ \A h \in Hosts : WF_vars(Ping(h)) /\ WF_vars(callback(h))

-----------------------------------------------------------------------------
(* Properties                                                              *)

\* Only "when a client goes silent" is its memory cleared up: a process that
\* runs keeps what it has allocated.
NeverFromLive ==
    [][\A h \in Hosts : "own" \in memory[h] /\ running'[h] => "own" \in memory'[h]]_vars

\* The memory that a host left is freed at the latest when the timeout started
\* by its last message is over.
FreedInTime ==
    \A h \in Hosts :
        ~running[h] /\ gone[h] > TimeoutLen + Delay => memory[h] = {}

\* What a process leaves behind is freed, unless the host runs another one.
SilentCleared ==
    \A h \in Hosts :
        ~running[h] /\ memory[h] # {} ~> (running[h] \/ memory[h] = {})

=============================================================================
