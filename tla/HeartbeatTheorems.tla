------------------------- MODULE HeartbeatTheorems -------------------------
(***************************************************************************)
(* What the heartbeat guarantees at any speed: with a timeout longer than  *)
(* a sleep and a message together, and hosts that are patient, a process   *)
(* that runs keeps its memory; and with one process for each host, what it *)
(* leaves is freed in time.                                                *)
(***************************************************************************)
EXTENDS Heartbeat, TLAPS

Msg == [type : {"MSG_REGISTER", "MSG_HEARTBEAT"}, host : Hosts, age : 0..Delay]

-----------------------------------------------------------------------------
(* Types                                                                   *)

\* Start() keeps the shape of the state.
LEMMA StartType ==
    ASSUME HeartbeatAssumption, TypeOK, NEW h \in Hosts, Start(h)
    PROVE  TypeOK'
<1>1. 0 \in 0..Delay /\ 0 \in 0..Trans /\ Trans \in 0..Trans
  BY DEF HeartbeatAssumption
<1>2. lives[h] + 1 \in 0..Lives
  BY DEF HeartbeatAssumption, TypeOK, Start
<1>3. lives' \in [Hosts -> 0..Lives]
  BY <1>2 DEF TypeOK, Start
<1>4. Register(h) \in Msg
  BY <1>1 DEF Register, Msg
<1>5. running' \in [Hosts -> BOOLEAN]
  BY DEF TypeOK, Start
<1>6. pinging' \in [Hosts -> BOOLEAN]
  BY DEF TypeOK, Start, HeartbeatAssumption
<1>7. sleep' \in [Hosts -> 0..Trans]
  BY <1>1 DEF TypeOK, Start
<1>8. net' \subseteq Msg
  BY <1>4 DEF TypeOK, Start, Msg
<1> QED
  BY <1>3, <1>5, <1>6, <1>7, <1>8 DEF TypeOK, Start, slaveVars, Msg

\* So does Ping().
LEMMA PingType ==
    ASSUME HeartbeatAssumption, TypeOK, NEW h \in Hosts, Ping(h)
    PROVE  TypeOK'
<1>1. 0 \in 0..Delay /\ Trans \in 0..Trans
  BY DEF HeartbeatAssumption
<1>2. Beat(h) \in Msg
  BY <1>1 DEF Beat, Msg
<1>3. net' \subseteq Msg
  BY <1>2 DEF TypeOK, Ping, Msg
<1>4. sleep' \in [Hosts -> 0..Trans]
  BY <1>1 DEF TypeOK, Ping
<1> QED
  BY <1>3, <1>4 DEF TypeOK, Ping, slaveVars, Msg

\* So do the program's own steps.
LEMMA ProgramType ==
    ASSUME HeartbeatAssumption, TypeOK, NEW h \in Hosts, Allocate(h) \/ End(h)
    PROVE  TypeOK'
<1>1. CASE Allocate(h)
  <2>1. memory' \in [Hosts -> SUBSET {"own", "left"}]
    BY <1>1 DEF TypeOK, Allocate
  <2> QED
    BY <1>1, <2>1 DEF TypeOK, Allocate, clientVars, slaveVars
<1>2. CASE End(h)
  <2>1. 0 \in 0..Long /\ 0 \in 0..Trans
    BY DEF HeartbeatAssumption, Long
  <2>2. memory' \in [Hosts -> SUBSET {"own", "left"}]
    BY <1>2 DEF TypeOK, End
  <2>3. gone' \in [Hosts -> 0..Long] /\ sleep' \in [Hosts -> 0..Trans]
    BY <1>2, <2>1 DEF TypeOK, End
  <2>4. running' \in [Hosts -> BOOLEAN] /\ pinging' \in [Hosts -> BOOLEAN]
    BY <1>2 DEF TypeOK, End
  <2> QED
    BY <1>2, <2>2, <2>3, <2>4 DEF TypeOK, End, slaveVars
<1> QED
  BY <1>1, <1>2

\* So does the slave.
LEMMA SlaveType ==
    ASSUME HeartbeatAssumption, TypeOK,
           reception_thread \/ \E h \in Hosts : callback(h)
    PROVE  TypeOK'
<1>1. ASSUME NEW h \in Hosts, callback(h) PROVE TypeOK'
  <2>1. memory' \in [Hosts -> SUBSET {"own", "left"}]
    BY <1>1 DEF TypeOK, callback
  <2>2. timer' \in [Hosts -> {None} \cup 0..TimeoutLen]
    BY <1>1 DEF TypeOK, callback
  <2> QED
    BY <1>1, <2>1, <2>2 DEF TypeOK, callback, clientVars
<1>2. CASE reception_thread
  <2>1. PICK m \in net :
            /\ net' = net \ {m}
            /\ IF m.type = "MSG_HEARTBEAT"
               THEN reset_timeout(m.host) ELSE create_timeout(m.host)
            /\ UNCHANGED <<clientVars, memory>>
    BY <1>2 DEF reception_thread
  <2>2. m.host \in Hosts
    BY DEF TypeOK
  <2>3. TimeoutLen \in 0..TimeoutLen
    BY DEF HeartbeatAssumption
  <2>4. client_map' \subseteq Hosts
    BY <2>1, <2>2 DEF TypeOK, reset_timeout, create_timeout, slaveVars
  <2>5. timer' \in [Hosts -> {None} \cup 0..TimeoutLen]
    BY <2>1, <2>2, <2>3 DEF TypeOK, reset_timeout, create_timeout, slaveVars
  <2>6. listening' = listening
    BY <2>1 DEF reset_timeout, create_timeout, slaveVars
  <2> QED
    BY <2>1, <2>4, <2>5, <2>6 DEF TypeOK, clientVars
<1> QED
  BY <1>1, <1>2

\* So does the clock.
LEMMA TickType ==
    ASSUME HeartbeatAssumption, TypeOK, Tick
    PROVE  TypeOK'
<1> USE DEF HeartbeatAssumption
<1>1. timer' \in [Hosts -> {None} \cup 0..TimeoutLen]
  <2>1. ASSUME NEW h \in Hosts, timer[h] # None
        PROVE  timer[h] - 1 \in 0..TimeoutLen
    BY <2>1 DEF TypeOK, Tick, None
  <2> QED
    BY <2>1 DEF Tick
<1>2. sleep' \in [Hosts -> 0..Trans]
  <2>1. ASSUME NEW h \in Hosts, sleep[h] # 0
        PROVE  sleep[h] - 1 \in 0..Trans
    BY <2>1 DEF TypeOK
  <2> QED
    BY <2>1 DEF Tick
<1>3. gone' \in [Hosts -> 0..Long]
  <2>1. ASSUME NEW h \in Hosts, gone[h] # Long
        PROVE  gone[h] + 1 \in 0..Long
    BY <2>1 DEF TypeOK, Long
  <2> QED
    BY <2>1 DEF Tick, TypeOK
<1>4. net' \subseteq Msg
  <2>1. ASSUME listening, NEW m \in net PROVE [m EXCEPT !.age = @ + 1] \in Msg
    <3>1. m \in Msg /\ m.age < Delay
      BY <2>1 DEF TypeOK, Tick, Msg
    <3>2. m.age + 1 \in 0..Delay
      BY <3>1 DEF Msg
    <3> QED
      BY <3>1, <3>2 DEF Msg
  <2> QED
    BY <2>1 DEF Tick
<1> QED
  BY <1>1, <1>2, <1>3, <1>4 DEF TypeOK, Tick, Msg

\* Every step keeps the shape of the state.
LEMMA StepType ==
    ASSUME HeartbeatAssumption, TypeOK, [Next]_vars
    PROVE  TypeOK'
<1>1. CASE UNCHANGED vars
  BY <1>1 DEF TypeOK, vars, clientVars, slaveVars
<1> QED
  BY <1>1, StartType, PingType, ProgramType, SlaveType, TickType
  DEF Next, Client

\* The initial state has it.
LEMMA InitType ==
    ASSUME HeartbeatAssumption, Init
    PROVE  TypeOK
<1>1. listening \in BOOLEAN
  BY DEF HeartbeatAssumption, Init
<1> QED
  BY <1>1 DEF HeartbeatAssumption, Init, TypeOK, Long, None

\* For any hosts and times, the state keeps its shape.
THEOREM TypeCorrect ==
    ASSUME HeartbeatAssumption
    PROVE  Spec => []TypeOK
<1>1. Init => TypeOK
  BY InitType
<1>2. TypeOK /\ [Next]_vars => TypeOK'
  BY StepType
<1> QED
  BY <1>1, <1>2, PTL DEF Spec

-----------------------------------------------------------------------------
(* What is running keeps its memory                                        *)

\* A sleep and a message are shorter than the timeout.
Prompt == Trans + Delay < TimeoutLen

\* A host waits that long before it runs its next process.
Patient == Patience > TimeoutLen + Delay

\* The thread of a process runs as long as the process, the slave's all the time.
Pings == pinging = running /\ listening

\* A timer runs for known clients only.
Known == \A h \in Hosts : timer[h] # None => h \in client_map

\* A beat that arrives before the timer of its host fires.
Saves(m, h) ==
    m.type = "MSG_HEARTBEAT" /\ m.host = h /\ Delay - m.age < timer[h]

\* The timer of a process that runs is going to be renewed in time, by a beat
\* on its way or by the next one.
Alive ==
    \A h \in Hosts : running[h] /\ timer[h] # None =>
        \/ sleep[h] + Delay < timer[h]
        \/ \E m \in net : Saves(m, h)

\* A host whose process has ended is soon silent: its messages are older than
\* the end, and its timer ends in time.
Quiet ==
    \A h \in Hosts : ~running[h] =>
        /\ \A m \in net : m.host = h => gone[h] <= m.age
        /\ timer[h] # None => gone[h] + timer[h] <= TimeoutLen + Delay

HInv == TypeOK /\ Pings /\ Known /\ Alive /\ Quiet

\* Between the processes of a patient host, the timer runs out.
LEMMA TimerOver ==
    ASSUME HeartbeatAssumption, Patient, HInv, NEW h \in Hosts, Start(h)
    PROVE  timer[h] = None
<1> SUFFICES ASSUME timer[h] # None PROVE FALSE
  OBVIOUS
<1>1. gone[h] + timer[h] <= TimeoutLen + Delay /\ gone[h] >= Patience
  BY DEF HInv, Quiet, Start
<1>2. timer[h] \in Nat /\ gone[h] \in Nat
  BY DEF HInv, TypeOK, HeartbeatAssumption, None, Long
<1> QED
  BY <1>1, <1>2 DEF Patient, HeartbeatAssumption

\* A new process that finds no timer of the one before is as good as the first.
LEMMA StartInv ==
    ASSUME HeartbeatAssumption, ~LateFlag, HInv,
           NEW h \in Hosts, timer[h] = None, Start(h)
    PROVE  HInv'
<1> USE DEF HInv
<1>1. TypeOK'
  BY StartType
<1>2. timer[h] = None
  OBVIOUS
<1>3. Pings'
  BY DEF Pings, Start, TypeOK, slaveVars
<1>4. Known'
  BY DEF Known, Start, slaveVars
<1>5. Alive'
  <2> SUFFICES ASSUME NEW g \in Hosts, running'[g], timer'[g] # None
               PROVE  \/ sleep'[g] + Delay < timer'[g]
                      \/ \E m \in net' : Saves(m, g)'
    BY DEF Alive
  <2>1. timer' = timer /\ net \subseteq net'
    BY DEF Start, slaveVars
  <2>2. g # h
    BY <1>2, <2>1
  <2>3. running[g] /\ sleep'[g] = sleep[g]
    BY <2>2 DEF Start, TypeOK
  <2>4. sleep[g] + Delay < timer[g] \/ \E m \in net : Saves(m, g)
    BY <2>1, <2>3 DEF Alive
  <2> QED
    BY <2>1, <2>3, <2>4 DEF Saves
<1>6. Quiet'
  <2> SUFFICES ASSUME NEW g \in Hosts, ~running'[g]
               PROVE  /\ \A m \in net' : m.host = g => gone'[g] <= m.age
                      /\ timer'[g] # None => gone'[g] + timer'[g] <= TimeoutLen + Delay
    BY DEF Quiet
  <2>1. g # h /\ ~running[g]
    BY DEF Start, TypeOK
  <2>2. Register(h).host # g
    BY <2>1 DEF Register
  <2> QED
    BY <2>1, <2>2 DEF Quiet, Start, slaveVars
<1> QED
  BY <1>1, <1>3, <1>4, <1>5, <1>6

\* A beat leaves when the thread wakes up, in time to arrive.
LEMMA PingInv ==
    ASSUME HeartbeatAssumption, HInv, NEW h \in Hosts, Ping(h)
    PROVE  HInv'
<1> USE DEF HInv
<1>1. TypeOK'
  BY PingType
<1>2. Pings' /\ Known'
  BY DEF Pings, Known, Ping, slaveVars
<1>3. Alive'
  <2> SUFFICES ASSUME NEW g \in Hosts, running'[g], timer'[g] # None
               PROVE  \/ sleep'[g] + Delay < timer'[g]
                      \/ \E m \in net' : Saves(m, g)'
    BY DEF Alive
  <2>1. timer' = timer /\ net' = net \cup {Beat(h)} /\ running' = running
    BY DEF Ping, slaveVars
  <2>2. CASE \E m \in net : Saves(m, g)
    BY <2>1, <2>2 DEF Saves
  <2>3. CASE g = h /\ sleep[g] + Delay < timer[g]
    <3>1. Delay - Beat(h).age < timer[g]
      BY <2>3 DEF Ping, Beat, HeartbeatAssumption
    <3>2. Saves(Beat(h), g)'
      BY <2>1, <2>3, <3>1 DEF Saves, Beat
    <3> QED
      BY <2>1, <3>2
  <2>4. CASE g # h /\ sleep[g] + Delay < timer[g]
    BY <2>1, <2>4 DEF Ping, TypeOK
  <2> QED
    BY <2>1, <2>2, <2>3, <2>4 DEF Alive
<1>4. Quiet'
  <2>1. Beat(h).host = h /\ running[h]
    BY DEF Beat, Ping, Pings
  <2> QED
    BY <2>1 DEF Quiet, Ping, slaveVars
<1> QED
  BY <1>1, <1>2, <1>3, <1>4

\* The program's own steps: what is on its way when a process ends is no
\* younger than the end.
LEMMA ProgramInv ==
    ASSUME HeartbeatAssumption, HInv, NEW h \in Hosts, Allocate(h) \/ End(h)
    PROVE  HInv'
<1> USE DEF HInv
<1>1. TypeOK'
  BY ProgramType
<1>2. CASE Allocate(h)
  BY <1>1, <1>2
  DEF Allocate, clientVars, slaveVars, Pings, Known, Alive, Saves, Quiet
<1>3. CASE End(h)
  <2>1. net' = net /\ timer' = timer /\ client_map' = client_map
    BY <1>3 DEF End, slaveVars
  <2>2. Pings' /\ Known'
    BY <1>3, <2>1 DEF End, Pings, Known, TypeOK, slaveVars
  <2>3. Alive'
    <3>1. \A g \in Hosts : running'[g] => running[g] /\ sleep'[g] = sleep[g]
      BY <1>3 DEF End, TypeOK
    <3> QED
      BY <2>1, <3>1 DEF Alive, Saves
  <2>4. Quiet'
    <3> SUFFICES ASSUME NEW g \in Hosts, ~running'[g]
                 PROVE  /\ \A m \in net : m.host = g => gone'[g] <= m.age
                        /\ timer[g] # None => gone'[g] + timer[g] <= TimeoutLen + Delay
      BY <2>1 DEF Quiet
    <3>1. CASE g = h
      <4>1. gone'[g] = 0
        BY <1>3, <3>1 DEF End, TypeOK
      <4>2. timer[g] # None => timer[g] \in 0..TimeoutLen
        BY DEF TypeOK
      <4>3. \A m \in net : m.age \in 0..Delay
        BY DEF TypeOK
      <4> QED
        BY <4>1, <4>2, <4>3 DEF HeartbeatAssumption
    <3>2. CASE g # h
      BY <1>3, <3>2 DEF End, TypeOK, Quiet
    <3> QED
      BY <3>1, <3>2
  <2> QED
    BY <1>1, <2>2, <2>3, <2>4
<1> QED
  BY <1>2, <1>3

\* A message that arrives renews a timer or changes nothing that matters.
LEMMA ReceptionInv ==
    ASSUME HeartbeatAssumption, Prompt, HInv, reception_thread
    PROVE  HInv'
<1> USE DEF HInv
<1>1. TypeOK'
  BY SlaveType
<1>2. PICK m \in net :
          /\ net' = net \ {m}
          /\ IF m.type = "MSG_HEARTBEAT"
             THEN reset_timeout(m.host) ELSE create_timeout(m.host)
          /\ UNCHANGED <<clientVars, memory>>
  BY DEF reception_thread
<1> DEFINE h == m.host
<1>3. h \in Hosts /\ m.age \in 0..Delay /\ m.type \in {"MSG_REGISTER", "MSG_HEARTBEAT"}
  BY DEF TypeOK
<1>4. /\ running' = running /\ pinging' = pinging
      /\ sleep' = sleep /\ gone' = gone
  BY <1>2 DEF clientVars
<1>5. \/ /\ timer' = [timer EXCEPT ![h] = TimeoutLen]
         /\ h \in client_map'
      \/ /\ timer' = timer
         /\ m.type = "MSG_HEARTBEAT" => timer[h] = None
  BY <1>2, <1>3 DEF reset_timeout, create_timeout, slaveVars, Known
<1>6. client_map \subseteq client_map'
  BY <1>2 DEF reset_timeout, create_timeout, slaveVars
<1>7. Pings'
  BY <1>2, <1>4 DEF Pings, reset_timeout, create_timeout, slaveVars
<1>8. Known'
  BY <1>3, <1>5, <1>6 DEF Known, TypeOK
<1>9. Alive'
  <2> SUFFICES ASSUME NEW g \in Hosts, running[g], timer'[g] # None
               PROVE  \/ sleep[g] + Delay < timer'[g]
                      \/ \E n \in net' : Saves(n, g)'
    BY <1>4 DEF Alive
  <2>1. CASE g = h /\ timer' = [timer EXCEPT ![h] = TimeoutLen]
    <3>1. timer'[g] = TimeoutLen /\ sleep[g] \in 0..Trans
      BY <2>1 DEF TypeOK
    <3> QED
      BY <3>1 DEF Prompt, HeartbeatAssumption
  <2>2. CASE timer'[g] = timer[g]
             /\ (g = h /\ m.type = "MSG_HEARTBEAT" => timer[h] = None)
    <3>1. ASSUME NEW n \in net, Saves(n, g) PROVE n \in net'
      BY <1>2, <2>2, <3>1 DEF Saves
    <3>2. sleep[g] + Delay < timer[g] \/ \E n \in net : Saves(n, g)
      BY <2>2 DEF Alive
    <3> QED
      BY <2>2, <3>1, <3>2 DEF Saves
  <2>3. g # h => timer'[g] = timer[g]
    BY <1>5 DEF TypeOK
  <2> QED
    BY <1>5, <2>1, <2>2, <2>3
<1>10. Quiet'
  <2> SUFFICES ASSUME NEW g \in Hosts, ~running[g], timer'[g] # None
               PROVE  gone[g] + timer'[g] <= TimeoutLen + Delay
    BY <1>2, <1>4 DEF Quiet
  <2>1. CASE timer'[g] = timer[g]
    BY <2>1 DEF Quiet
  <2>2. CASE g = h /\ timer'[g] = TimeoutLen
    <3>1. gone[g] <= m.age /\ gone[g] \in Nat
      BY <2>2 DEF Quiet, TypeOK, HeartbeatAssumption, Long
    <3> QED
      BY <1>3, <2>2, <3>1 DEF HeartbeatAssumption
  <2>3. timer'[g] = timer[g] \/ (g = h /\ timer'[g] = TimeoutLen)
    BY <1>5 DEF TypeOK
  <2> QED
    BY <2>1, <2>2, <2>3
<1> QED
  BY <1>1, <1>7, <1>8, <1>9, <1>10

\* The timer of a process that runs does not fire.
LEMMA NotWhileRunning ==
    ASSUME HeartbeatAssumption, HInv, NEW h \in Hosts, callback(h)
    PROVE  ~running[h]
<1> SUFFICES ASSUME running[h] PROVE FALSE
  OBVIOUS
<1>1. timer[h] = 0 /\ timer[h] # None
  BY DEF callback, None
<1>2. sleep[h] \in Nat /\ \A m \in net : m.age \in 0..Delay
  BY DEF HInv, TypeOK, HeartbeatAssumption
<1>3. sleep[h] + Delay < 0 \/ \E m \in net : Delay - m.age < 0
  BY <1>1 DEF HInv, Alive, Saves
<1> QED
  BY <1>2, <1>3 DEF HeartbeatAssumption

\* A timer that fires is that of an ended process, and ends with it.
LEMMA CallbackInv ==
    ASSUME HeartbeatAssumption, HInv, NEW h \in Hosts, callback(h)
    PROVE  HInv'
<1> USE DEF HInv
<1>1. TypeOK'
  BY SlaveType
<1>2. \A g \in Hosts : timer'[g] # None => g # h /\ timer'[g] = timer[g]
  BY DEF callback, TypeOK
<1>3. Pings' /\ Known'
  BY <1>2 DEF Pings, Known, callback, clientVars
<1>4. Alive'
  BY <1>2 DEF Alive, Saves, callback, clientVars
<1>5. Quiet'
  BY <1>2 DEF Quiet, callback, clientVars
<1> QED
  BY <1>1, <1>3, <1>4, <1>5

\* Clocks, timers and messages age together.
LEMMA TickInv ==
    ASSUME HeartbeatAssumption, HInv, Tick
    PROVE  HInv'
<1> USE DEF HInv
<1>1. TypeOK'
  BY TickType
<1>2. running' = running /\ pinging' = pinging /\ client_map' = client_map
  BY DEF Tick
<1>3. \A h \in Hosts : /\ timer'[h] = IF timer[h] = None THEN None ELSE timer[h] - 1
                       /\ gone'[h] \in {gone[h], gone[h] + 1}
                       /\ gone[h] \in Nat /\ timer[h] \in Int
  BY DEF Tick, TypeOK, HeartbeatAssumption, Long, None
<1> DEFINE Older(m) == [m EXCEPT !.age = @ + 1]
<1>4. net' = {Older(m) : m \in net}
  BY DEF Tick, Pings
<1>5. ASSUME NEW m \in net
      PROVE  /\ Older(m).type = m.type /\ Older(m).host = m.host
             /\ Older(m).age = m.age + 1 /\ m.age \in Nat
  <2>1. m \in Msg
    BY DEF TypeOK, Msg
  <2> QED
    BY <2>1 DEF Msg, HeartbeatAssumption
<1> HIDE DEF Older
<1>6. Pings' /\ Known'
  BY <1>2, <1>3 DEF Pings, Known, None, Tick
<1>7. Alive'
  <2> SUFFICES ASSUME NEW h \in Hosts, running[h], timer'[h] # None
               PROVE  \/ sleep'[h] + Delay < timer'[h]
                      \/ \E m \in net' : Saves(m, h)'
    BY <1>2 DEF Alive
  <2>1. timer[h] # None /\ timer'[h] = timer[h] - 1 /\ timer[h] \in Int
    BY <1>3
  <2>2. sleep[h] # 0 /\ sleep'[h] = sleep[h] - 1 /\ sleep[h] \in Nat
    BY DEF Tick, Pings, TypeOK, HeartbeatAssumption
  <2>3. CASE sleep[h] + Delay < timer[h]
    BY <2>1, <2>2, <2>3 DEF HeartbeatAssumption
  <2>4. CASE \E m \in net : Saves(m, h)
    <3>1. PICK m \in net : Saves(m, h)
      BY <2>4
    <3>2. Delay - Older(m).age < timer'[h]
      BY <1>5, <2>1, <3>1 DEF Saves, HeartbeatAssumption
    <3>3. Saves(Older(m), h)'
      BY <1>5, <3>1, <3>2 DEF Saves
    <3> QED
      BY <1>4, <3>3
  <2> QED
    BY <2>1, <2>3, <2>4 DEF Alive
<1>8. Quiet'
  <2> SUFFICES ASSUME NEW h \in Hosts, ~running[h]
               PROVE  /\ \A m \in net' : m.host = h => gone'[h] <= m.age
                      /\ timer'[h] # None => gone'[h] + timer'[h] <= TimeoutLen + Delay
    BY <1>2 DEF Quiet
  <2>1. ASSUME NEW n \in net', n.host = h PROVE gone'[h] <= n.age
    <3>1. PICK m \in net : n = Older(m)
      BY <1>4
    <3>2. gone[h] <= m.age
      BY <1>5, <2>1, <3>1 DEF Quiet
    <3> QED
      BY <1>3, <1>5, <3>1, <3>2
  <2>2. ASSUME timer'[h] # None PROVE gone'[h] + timer'[h] <= TimeoutLen + Delay
    <3>1. timer[h] # None
      BY <1>3, <2>2
    <3>2. gone[h] + timer[h] <= TimeoutLen + Delay
      BY <3>1 DEF Quiet
    <3> QED
      BY <1>3, <3>1, <3>2 DEF HeartbeatAssumption
  <2> QED
    BY <2>1, <2>2
<1> QED
  BY <1>1, <1>6, <1>7, <1>8

\* Every step keeps the invariant, if new processes find no timer.
LEMMA StepInv ==
    ASSUME HeartbeatAssumption, Prompt, ~LateFlag, HInv, [Next]_vars,
           \A h \in Hosts : Start(h) => timer[h] = None
    PROVE  HInv'
<1>1. CASE UNCHANGED vars
  BY <1>1 DEF HInv, TypeOK, Pings, Known, Alive, Saves, Quiet, vars,
              clientVars, slaveVars
<1> QED
  BY <1>1, StartInv, PingInv, ProgramInv, ReceptionInv, CallbackInv, TickInv
  DEF Next, Client

\* The initial state satisfies it.
LEMMA InitInv ==
    ASSUME HeartbeatAssumption, ~LateFlag, Init
    PROVE  HInv
<1>1. TypeOK
  BY InitType
<1> QED
  BY <1>1 DEF HInv, Init, Pings, Known, Alive, Quiet

\* If a sleep and a message take less than the timeout, and a host waits that
\* long before its next process, no process that runs loses its memory.
THEOREM KeepsTheLive ==
    ASSUME HeartbeatAssumption, Prompt, Patient, ~LateFlag
    PROVE  Spec => NeverFromLive
<1> DEFINE Kept == \A h \in Hosts :
        "own" \in memory[h] /\ running'[h] => "own" \in memory'[h]
<1>1. Init => HInv
  BY InitInv
<1>2. HInv /\ [Next]_vars => HInv'
  BY StepInv, TimerOver
<1>3. HInv /\ [Next]_vars => [Kept]_vars
  <2> SUFFICES ASSUME HInv, Next, NEW h \in Hosts, "own" \in memory[h], running'[h]
               PROVE  "own" \in memory'[h]
    BY DEF vars
  <2>1. ASSUME NEW g \in Hosts, callback(g) PROVE "own" \in memory'[h]
    <3>1. ~running[g] /\ running' = running
      BY <2>1, NotWhileRunning DEF callback, clientVars
    <3>2. g # h
      BY <3>1
    <3> QED
      BY <2>1, <3>2 DEF callback, HInv, TypeOK
  <2>2. ASSUME NEW g \in Hosts, Client(g) PROVE "own" \in memory'[h]
    <3>1. CASE Start(g) \/ Ping(g)
      BY <3>1 DEF Start, Ping
    <3>2. CASE Allocate(g)
      BY <3>2 DEF Allocate, HInv, TypeOK
    <3>3. CASE End(g)
      <4>1. g # h
        BY <3>3 DEF End, HInv, TypeOK
      <4> QED
        BY <3>3, <4>1 DEF End, HInv, TypeOK
    <3> QED
      BY <2>2, <3>1, <3>2, <3>3 DEF Client
  <2>3. CASE Tick \/ reception_thread
    BY <2>3 DEF Tick, reception_thread
  <2> QED
    BY <2>1, <2>2, <2>3 DEF Next
<1>4. Spec => [][Kept]_vars
  BY <1>1, <1>2, <1>3, PTL DEF Spec
<1> QED
  BY <1>4 DEF NeverFromLive

-----------------------------------------------------------------------------
(* What has ended is freed in time                                         *)

\* A host that has run nothing has left no trace.
Fresh ==
    \A h \in Hosts : lives[h] = 0 =>
        /\ ~running[h] /\ memory[h] = {} /\ h \notin client_map
        /\ \A m \in net : m.host # h

\* A registration that is to start the timer of a host.
Announces(m, h) == m.type = "MSG_REGISTER" /\ m.host = h

\* For a process, and for what it has left, a timer runs or is to be started.
Watched ==
    \A h \in Hosts : running[h] \/ memory[h] # {} =>
        \/ timer[h] # None
        \/ h \notin client_map /\ \E m \in net : Announces(m, h)

FInv == HInv /\ Fresh /\ Watched

\* A host that runs one process only starts it with no trace of another.
LEMMA FirstStart ==
    ASSUME HeartbeatAssumption, Lives <= 1, FInv, NEW h \in Hosts, Start(h)
    PROVE  lives[h] = 0 /\ timer[h] = None
<1>1. lives[h] = 0
  BY DEF FInv, HInv, TypeOK, Start, HeartbeatAssumption
<1> QED
  BY <1>1 DEF FInv, HInv, Known, Fresh

\* The steps of a process leave a trace of hosts that have run something only.
LEMMA ClientFresh ==
    ASSUME HeartbeatAssumption, FInv, NEW h \in Hosts, Client(h)
    PROVE  Fresh'
<1> SUFFICES ASSUME NEW g \in Hosts, lives'[g] = 0
             PROVE  /\ ~running'[g] /\ memory'[g] = {} /\ g \notin client_map'
                    /\ \A m \in net' : m.host # g
  BY DEF Fresh
<1> USE DEF FInv, HInv
<1>1. lives[h] \in Nat
  BY DEF TypeOK, HeartbeatAssumption
<1>2. CASE Start(h)
  <2>1. g # h /\ lives[g] = 0
    BY <1>1, <1>2 DEF Start, TypeOK
  <2> QED
    BY <1>2, <2>1 DEF Start, slaveVars, Register, Fresh, TypeOK
<1>3. CASE Ping(h)
  <2>1. running[h] /\ lives[g] = 0
    BY <1>3 DEF Ping, Pings
  <2> QED
    BY <1>3, <2>1 DEF Ping, slaveVars, Beat, Fresh
<1>4. CASE Allocate(h)
  BY <1>4 DEF Allocate, clientVars, slaveVars, Fresh, TypeOK
<1>5. CASE End(h)
  BY <1>5 DEF End, slaveVars, Fresh, TypeOK
<1> QED
  BY <1>2, <1>3, <1>4, <1>5 DEF Client

\* The steps of a process keep it watched.
LEMMA ClientWatched ==
    ASSUME HeartbeatAssumption, Lives <= 1, FInv, NEW h \in Hosts, Client(h)
    PROVE  Watched'
<1> SUFFICES ASSUME NEW g \in Hosts, running'[g] \/ memory'[g] # {}
             PROVE  \/ timer'[g] # None
                    \/ g \notin client_map' /\ \E m \in net' : Announces(m, g)'
  BY DEF Watched
<1> USE DEF FInv, HInv
<1>1. timer' = timer /\ client_map' = client_map /\ net \subseteq net'
  BY DEF Client, Start, Ping, Allocate, End, clientVars, slaveVars
<1>2. CASE running[g] \/ memory[g] # {}
  BY <1>1, <1>2 DEF Watched, Announces
<1>3. CASE ~running[g] /\ memory[g] = {}
  <2>1. Start(h) /\ g = h
    BY <1>3 DEF Client, Start, Ping, Allocate, End, TypeOK, clientVars
  <2>2. h \notin client_map
    BY <2>1, FirstStart DEF Fresh
  <2>3. Register(h) \in net' /\ Announces(Register(h), h)'
    BY <2>1 DEF Start, Announces, Register
  <2> QED
    BY <1>1, <2>1, <2>2, <2>3
<1> QED
  BY <1>2, <1>3

\* The slave and the clock keep watching, and watch no one else.
LEMMA OtherWatched ==
    ASSUME HeartbeatAssumption, FInv,
           Tick \/ reception_thread \/ \E h \in Hosts : callback(h)
    PROVE  Fresh' /\ Watched'
<1> USE DEF FInv, HInv
<1>1. ASSUME NEW h \in Hosts, callback(h) PROVE Fresh' /\ Watched'
  <2>1. ~running[h]
    BY <1>1, NotWhileRunning
  <2>2. /\ running' = running /\ lives' = lives /\ net' = net
        /\ client_map' = client_map
        /\ memory' = [memory EXCEPT ![h] = {}]
        /\ timer' = [timer EXCEPT ![h] = None]
    BY <1>1 DEF callback, clientVars
  <2>3. Fresh'
    BY <2>2 DEF Fresh, TypeOK
  <2>4. Watched'
    BY <2>1, <2>2 DEF Watched, Announces, TypeOK
  <2> QED
    BY <2>3, <2>4
<1>2. CASE reception_thread
  <2>1. PICK m \in net :
            /\ net' = net \ {m}
            /\ IF m.type = "MSG_HEARTBEAT"
               THEN reset_timeout(m.host) ELSE create_timeout(m.host)
            /\ UNCHANGED <<clientVars, memory>>
    BY <1>2 DEF reception_thread
  <2>2. /\ running' = running /\ lives' = lives /\ memory' = memory
        /\ m.host \in Hosts /\ TimeoutLen # None
    BY <2>1 DEF clientVars, TypeOK, HeartbeatAssumption, None
  <2>3. \A g \in Hosts : g # m.host =>
            /\ timer'[g] = timer[g]
            /\ g \in client_map' <=> g \in client_map
    BY <2>1, <2>2 DEF reset_timeout, create_timeout, slaveVars, TypeOK
  <2>4. Fresh'
    <3>1. lives[m.host] # 0
      BY <2>2 DEF Fresh
    <3> QED
      BY <2>1, <2>2, <2>3, <3>1 DEF Fresh
  <2>5. Watched'
    <3> SUFFICES ASSUME NEW g \in Hosts, running[g] \/ memory[g] # {}
                 PROVE  \/ timer'[g] # None
                        \/ g \notin client_map' /\ \E n \in net' : Announces(n, g)'
      BY <2>2 DEF Watched
    <3>1. timer[g] # None \/ (g \notin client_map /\ \E n \in net : Announces(n, g))
      BY DEF Watched
    <3>2. CASE g # m.host
      BY <2>1, <2>3, <3>1, <3>2 DEF Announces
    <3>3. CASE g = m.host /\ timer[g] # None
      BY <2>1, <2>2, <3>3
      DEF reset_timeout, create_timeout, slaveVars, TypeOK
    <3>4. CASE g = m.host /\ g \notin client_map /\ \E n \in net : Announces(n, g)
      <4>1. CASE m.type = "MSG_HEARTBEAT"
        BY <2>1, <3>4, <4>1 DEF reset_timeout, slaveVars, Announces
      <4>2. CASE m.type # "MSG_HEARTBEAT"
        BY <2>1, <2>2, <3>4, <4>2 DEF create_timeout, TypeOK
      <4> QED
        BY <4>1, <4>2
    <3> QED
      BY <3>1, <3>2, <3>3, <3>4
  <2> QED
    BY <2>4, <2>5
<1>3. CASE Tick
  <2> DEFINE Older(m) == [m EXCEPT !.age = @ + 1]
  <2>1. net' = {Older(m) : m \in net}
    BY <1>3 DEF Tick, Pings
  <2>2. \A m \in net : Older(m).type = m.type /\ Older(m).host = m.host
    BY DEF TypeOK
  <2>3. /\ running' = running /\ lives' = lives /\ memory' = memory
        /\ client_map' = client_map
    BY <1>3 DEF Tick
  <2>4. \A g \in Hosts : timer[g] # None => timer'[g] # None
    BY <1>3 DEF Tick, TypeOK, HeartbeatAssumption, None
  <2> HIDE DEF Older
  <2>5. Fresh'
    BY <2>1, <2>2, <2>3 DEF Fresh
  <2>6. Watched'
    BY <2>1, <2>2, <2>3, <2>4 DEF Watched, Announces
  <2> QED
    BY <2>5, <2>6
<1> QED
  BY <1>1, <1>2, <1>3

\* If a sleep and a message take less than the timeout, what the process of a
\* host that runs only one has left is freed as soon as the timeout started by
\* its last message is over.
THEOREM FreesInTime ==
    ASSUME HeartbeatAssumption, Prompt, Lives <= 1, ~LateFlag
    PROVE  Spec => []FreedInTime
<1>1. Init => FInv
  BY InitInv DEF FInv, Fresh, Watched, Init
<1>2. FInv /\ [Next]_vars => FInv'
  <2> SUFFICES ASSUME FInv, [Next]_vars PROVE FInv'
    OBVIOUS
  <2>1. HInv'
    BY StepInv, FirstStart DEF FInv
  <2>2. CASE UNCHANGED vars
    BY <2>1, <2>2
    DEF FInv, Fresh, Watched, Announces, vars, clientVars, slaveVars
  <2> QED
    BY <2>1, <2>2, ClientFresh, ClientWatched, OtherWatched DEF FInv, Next
<1>3. FInv => FreedInTime
  <2> SUFFICES ASSUME FInv, NEW h \in Hosts, ~running[h],
                      gone[h] > TimeoutLen + Delay, memory[h] # {}
               PROVE  FALSE
    BY DEF FreedInTime
  <2>1. gone[h] \in Nat /\ (timer[h] # None => timer[h] \in Nat)
    BY DEF FInv, HInv, TypeOK, HeartbeatAssumption, Long
  <2>2. timer[h] = None
    BY <2>1 DEF FInv, HInv, Quiet, HeartbeatAssumption
  <2>3. PICK m \in net : m.host = h
    BY <2>2 DEF FInv, Watched, Announces
  <2>4. gone[h] <= m.age /\ m.age \in 0..Delay
    BY <2>3 DEF FInv, HInv, Quiet, TypeOK
  <2> QED
    BY <2>1, <2>4 DEF HeartbeatAssumption
<1> QED
  BY <1>1, <1>2, <1>3, PTL DEF Spec

=============================================================================
