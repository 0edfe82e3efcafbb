-------------------------------- MODULE Paxos --------------------------------
(***************************************************************************)
(* The instances of Paxos of a group of nodes (paxos/paxos_instance.cpp):  *)
(* a chain of decisions, each by prepare, promise, accept and accepted; a  *)
(* decision is the master of the group or, proposed by that master, a      *)
(* value of the application.  A handler is one step, with all that it      *)
(* sends.                                                                  *)
(*                                                                         *)
(* Messages are lost, delayed, reordered and repeated: msgs is all that    *)
(* was ever sent, and a handler takes any of it, or never.  A retransmit   *)
(* timer fires at once; it is cleared before what it reads changes, so what *)
(* it sends later msgs has already.  One that was never cleared is leaked.  *)
(***************************************************************************)
EXTENDS Integers, FiniteSets

CONSTANTS
    Nodes,          \* _peers, in the order of their addresses and ports
    App,            \* the values of the application
    NoValue,        \* NULL
    MaxCount,       \* bound: the count of a proposal id
    MaxInstance,    \* bound: the instance number
    Bounds          \* the bounds of the behaviours: each obeys one of these

Instances == 0..MaxInstance

Bound == [count : [Nodes -> 0..MaxCount],   \* the ids a node proposes go up to this
          instance : 0..MaxInstance,        \* the instances go up to this
          impatient : SUBSET Nodes,         \* whose timers go off a second time
          learners : SUBSET Nodes,          \* whom accepted messages reach
          followers : SUBSET Nodes,         \* whom catchup messages reach
          restarts : SUBSET (Nodes \X Instances), \* who may stop and start again, and in which
          announced : BOOLEAN,              \* whether messages of an id of count 0 arrive
          addresses : BOOLEAN,              \* whether those of ids may be in any order
          breaches : BOOLEAN]               \* whether Breaches() of a step may be true

ASSUME PaxosAssumption ==
    /\ Nodes \subseteq Nat \ {0} /\ IsFiniteSet(Nodes)
    /\ NoValue \notin Nodes \cup App /\ Nodes \cap App = {}
    /\ MaxCount \in Nat /\ MaxInstance \in Nat /\ Bounds \subseteq Bound

VARIABLES
    bound,      \* the bounds of this behaviour
    acceptor,   \* node -> _instance_number, _promised_id, _accepted_id, _accepted_value
    disk,       \* node -> the same as last saved
    proposer,   \* node -> the proposer's members
    learner,    \* node -> the learner's members
    _master_uid, _master_attempt,
    timers,     \* node -> its timers that are set, of those that do more than send
    leaked,     \* node -> what its timers send whose id was overwritten
    msgs,       \* all messages sent
    log,        \* history: node -> instance -> what it took for the outcome (_current_value)
    breach      \* history: whether Breaches() of a step has ever been true

lease == <<_master_uid, _master_attempt>>
nodeVars == <<acceptor, disk, proposer, learner, lease, timers, leaked>>
vars == <<bound, nodeVars, msgs, log, breach>>

quorum_size == Cardinality(Nodes) \div 2 + 1
NoNode == 0
Values == Nodes \cup App        \* a node stands for the value that makes it master

\* PAXOS_ID: compared by count, then by node; everything is above NULL.
PAXOS_ID == [count : 0..MaxCount, node : Nodes]
NoId == [count |-> 0 - 1, node |-> NoNode]
Id(c, n) == [count |-> c, node |-> n]
cmp_gt(a, b) == a.count > b.count \/ (a.count = b.count /\ a.node > b.node)
cmp_geq(a, b) == a.count > b.count \/ (a.count = b.count /\ a.node >= b.node)

Acceptor == [inst : Instances, promised : PAXOS_ID \cup {NoId},
             accepted : PAXOS_ID \cup {NoId}, value : Values \cup {NoValue}]
Proposer == [id : PAXOS_ID, highest : PAXOS_ID, highest_accepted : PAXOS_ID \cup {NoId},
             proposed : Values \cup {NoValue}, leader : BOOLEAN,
             promises : SUBSET Nodes, copies : Nat]
Learner == [acceptors : [Nodes -> PAXOS_ID \cup {NoId}], accepts : [PAXOS_ID -> Nat]]
Timer == {"lease", "drive"}
Leak == [id : PAXOS_ID, value : Values \cup {NoValue}]

Message ==
    [type : {"prepare"}, from : Nodes, inst : Instances, id : PAXOS_ID]
    \cup [type : {"promise"}, from : Nodes, to : Nodes, inst : Instances, id : PAXOS_ID,
          last : PAXOS_ID \cup {NoId}, value : Values \cup {NoValue}]
    \cup [type : {"accept", "accepted"}, from : Nodes, inst : Instances, id : PAXOS_ID,
          value : Values \cup {NoValue}]
    \cup [type : {"nack"}, to : Nodes, inst : Instances, promised : PAXOS_ID]

TypeOK ==
    /\ bound \in Bounds
    /\ acceptor \in [Nodes -> Acceptor] /\ disk \in [Nodes -> Acceptor]
    /\ proposer \in [Nodes -> Proposer] /\ learner \in [Nodes -> Learner]
    /\ _master_uid \in [Nodes -> Nodes \cup {NoNode}]
    /\ _master_attempt \in [Nodes -> BOOLEAN]
    /\ timers \in [Nodes -> SUBSET Timer]
    /\ leaked \in [Nodes -> SUBSET Leak]
    /\ msgs \subseteq Message
    /\ log \in [Nodes -> [Instances -> Values \cup {NoValue}]]
    /\ breach \in BOOLEAN

\* The constructor, and the start() that finds no state file.
NewAcceptor(i) == [inst |-> i, promised |-> NoId, accepted |-> NoId, value |-> NoValue]
NewProposer(n) == [id |-> Id(0, n), highest |-> Id(0, n), highest_accepted |-> NoId,
                   proposed |-> NoValue, leader |-> FALSE, promises |-> {}, copies |-> 0]
NewLearner == [acceptors |-> [n \in Nodes |-> NoId], accepts |-> [i \in PAXOS_ID |-> 0]]

Init ==
    /\ bound \in Bounds
    /\ acceptor = [n \in Nodes |-> NewAcceptor(0)] /\ disk = acceptor
    /\ proposer = [n \in Nodes |-> NewProposer(n)]
    /\ learner = [n \in Nodes |-> NewLearner]
    /\ _master_uid = [n \in Nodes |-> NoNode]
    /\ _master_attempt = [n \in Nodes |-> FALSE]
    /\ timers = [n \in Nodes |-> {"lease"}]
    /\ leaked = [n \in Nodes |-> {}]
    /\ msgs = {}
    /\ log = [n \in Nodes |-> [i \in Instances |-> NoValue]]
    /\ breach = FALSE

inst(n) == acceptor[n].inst
Proposers == {n \in Nodes : bound.count[n] > 0}

\* Members of one node, and messages.
Set(f, n, x) == [f EXCEPT ![n] = x]
prepare(n, i, id) == [type |-> "prepare", from |-> n, inst |-> i, id |-> id]
promise(n, to, i, id, a) == [type |-> "promise", from |-> n, to |-> to, inst |-> i, id |-> id,
                             last |-> a.accepted, value |-> a.value]
nack(to, i, id) == [type |-> "nack", to |-> to, inst |-> i, promised |-> id]
accept(n, i, id, v) == [type |-> "accept", from |-> n, inst |-> i, id |-> id, value |-> v]
accepted(n, i, id, v) == [type |-> "accepted", from |-> n, inst |-> i, id |-> id, value |-> v]

-----------------------------------------------------------------------------
(* The proposer.                                                           *)

\* proposal_id > _highest_proposal_id compares the addresses of two objects,
\* which are in any order.
proposer_observe_proposal(p, id) ==
    LET seen == [p EXCEPT !.highest = id]
    IN  {q \in {p, seen} : bound.addresses \/ q = IF cmp_gt(id, p.highest) THEN seen ELSE p}

\* Node n has seen an id.  The proposer of a node that never proposes is not
\* looked at.
Observed(n, id) ==
    IF n \in Proposers
    THEN \E p \in proposer_observe_proposal(proposer[n], id) : proposer' = Set(proposer, n, p)
    ELSE UNCHANGED proposer

proposer_prepare_First(p, n) ==     \* mutant: the uid of the first of _peers
    LET id == Id(p.highest.count + 1, CHOOSE u \in Nodes : TRUE)
    IN  [p EXCEPT !.leader = FALSE, !.promises = {}, !.copies = 0, !.id = id, !.highest = id]

proposer_prepare(p, n) ==
    LET id == Id(p.highest.count + 1, n)
    IN  [p EXCEPT !.leader = FALSE, !.promises = {}, !.copies = 0, !.id = id, !.highest = id]

\* A promise counts once for its sender, which is compared by address: the
\* sender of every message is another object.  What a leader was promised is
\* not looked at again, and forgotten here.
proposer_receive_promise_Own(p, m) ==   \* mutant: keeps the value it came with
    IF p.leader \/ m.id # p.id THEN p
    ELSE LET all == p.promises \cup {m.from}
         IN  [p EXCEPT !.leader = Cardinality(all) = quorum_size,
                       !.promises = IF Cardinality(all) = quorum_size THEN {} ELSE all]

proposer_receive_promise(p, m) ==
    IF p.leader \/ m.id # p.id THEN p
    ELSE LET again == m.from \in p.promises
             newer == m.last # NoId /\ cmp_gt(m.last, p.highest_accepted)
             size  == Cardinality(p.promises) + p.copies + 1
         IN  [p EXCEPT
                !.highest_accepted = IF newer THEN m.last ELSE @,
                !.proposed = IF newer /\ m.value # NoValue THEN m.value ELSE @,
                !.leader = size = quorum_size,
                !.promises = IF size = quorum_size THEN {} ELSE @ \cup {m.from},
                !.copies = IF size = quorum_size THEN 0
                           ELSE IF again THEN @ + 1 ELSE @]

\* drive_to_resolution(): the proposer after it, what it sends, and the timer
\* that it leaks.  A master of id 1 needs no promises, having those that
\* advance_instance() made up.
drive_to_resolution(p, n, master) ==
    IF master = n /\ p.id.count = 1
    THEN [p |-> p, sent |-> {accept(n, inst(n), p.id, p.proposed), prepare(n, inst(n), p.id)},
          leaks |-> {[id |-> p.id, value |-> p.proposed]}]
    ELSE LET q == proposer_prepare(p, n)
         IN  [p |-> q, sent |-> {prepare(n, inst(n), q.id)}, leaks |-> {}]

\* What is sent by proposer_propose_value(): a prepare of the highest id seen,
\* whoever's it is.
Announced(p, n) ==
    IF p.proposed = NoValue /\ ~p.leader THEN {prepare(n, inst(n), p.highest)} ELSE {}

\* propose_value() and drive_to_resolution().
propose_value(p, n, v, master) ==
    LET d == drive_to_resolution([p EXCEPT !.proposed = IF @ = NoValue THEN v ELSE @], n, master)
    IN  [d EXCEPT !.sent = @ \cup Announced(p, n)]

\* Node n, whose proposer was driven, as d says, within the bound on its ids.
Driven(n, d) ==
    /\ d.p.id.count <= bound.count[n]
    /\ proposer' = Set(proposer, n, d.p)
    /\ msgs' = msgs \cup d.sent
    /\ leaked' = Set(leaked, n, leaked[n] \cup d.leaks)

lease_expired(n) ==
    /\ n \in Proposers /\ "lease" \in timers[n] /\ inst(n) < bound.instance
    /\ _master_attempt[n] => n \in bound.impatient
    /\ _master_uid' = Set(_master_uid, n, NoNode)
    /\ IF _master_attempt[n]
       THEN /\ timers' = Set(timers, n, timers[n] \ {"lease"})
            /\ UNCHANGED <<proposer, msgs, leaked, _master_attempt>>
       ELSE /\ Driven(n, propose_value(proposer[n], n, n, NoNode))
            /\ _master_attempt' = Set(_master_attempt, n, TRUE)
            /\ timers' = Set(timers, n, {"lease"})
    /\ UNCHANGED <<bound, acceptor, disk, learner, log>>

\* The delayed drive: nothing was heard for a while, or a nack.
Drive(n) ==
    /\ n \in bound.impatient /\ "drive" \in timers[n] /\ inst(n) < bound.instance
    /\ Driven(n, drive_to_resolution(proposer[n], n, _master_uid[n]))
    /\ timers' = Set(timers, n, timers[n] \ {"drive"})
    /\ UNCHANGED <<bound, acceptor, disk, learner, lease, log>>

\* A client asks for a value: propose_update() of a node that is not the master
\* refuses.
handle_propose(n, v) ==
    /\ _master_uid[n] = n /\ inst(n) < bound.instance
    /\ Driven(n, propose_value(proposer[n], n, v, n))
    /\ timers' = Set(timers, n, timers[n] \ {"drive"})
    /\ UNCHANGED <<bound, acceptor, disk, learner, lease, log>>

\* A timer that send_accept() set and drive_to_resolution() then overwrote: it
\* goes on for ever, with the id and value it was given and the instance it reads.
send_accept_REAL(n) ==
    /\ \E a \in leaked[n] : msgs' = msgs \cup {accept(n, inst(n), a.id, a.value)}
    /\ UNCHANGED <<bound, nodeVars, log>>

-----------------------------------------------------------------------------
(* The acceptor.                                                           *)

\* Only the master is heard, while there is one, and only in this instance.
Heard(n, m) == _master_uid[n] \in {NoNode, m.from} /\ m.inst = inst(n)

\* Bound: a nack to a node that does not retry is lost.
Nacks(n, m) ==
    IF m.from \in bound.impatient THEN {nack(m.from, m.inst, acceptor[n].promised)} ELSE {}

acceptor_receive_prepare(a, m) == [a EXCEPT !.promised = m.id]
acceptor_receive_accept(a, m) ==
    [a EXCEPT !.promised = m.id, !.accepted = m.id, !.value = m.value]

\* save_state(): written aside and renamed over the old file.
Saved_Not(n, a) == acceptor' = Set(acceptor, n, a) /\ UNCHANGED disk    \* mutant: not saved
Saved(n, a) == acceptor' = Set(acceptor, n, a) /\ disk' = Set(disk, n, a)

receive_prepare_Any(n, m) ==    \* mutant: promises whatever it promised before
    /\ m.type = "prepare"
    /\ Observed(n, m.id)
    /\ Heard(n, m)
    /\ Saved(n, acceptor_receive_prepare(acceptor[n], m))
    /\ msgs' = msgs \cup {promise(n, m.from, m.inst, m.id, acceptor[n])}
    /\ UNCHANGED <<bound, learner, lease, timers, leaked, log>>

receive_prepare(n, m) ==
    /\ m.type = "prepare"
    /\ Observed(n, m.id)
    /\ IF Heard(n, m) /\ cmp_geq(m.id, acceptor[n].promised)
       THEN /\ Saved(n, acceptor_receive_prepare(acceptor[n], m))
            /\ msgs' = msgs \cup {promise(n, m.from, m.inst, m.id, acceptor[n])}
       ELSE /\ msgs' = msgs \cup IF Heard(n, m) THEN Nacks(n, m) ELSE {}
            /\ UNCHANGED <<acceptor, disk>>
    /\ UNCHANGED <<bound, learner, lease, timers, leaked, log>>

receive_accept(n, m) ==
    /\ m.type = "accept"
    /\ Observed(n, m.id)
    /\ IF Heard(n, m) /\ cmp_geq(m.id, acceptor[n].promised)
       THEN /\ Saved(n, acceptor_receive_accept(acceptor[n], m))
            /\ msgs' = msgs \cup {accepted(n, m.inst, m.id, m.value)}
       ELSE /\ msgs' = msgs \cup IF Heard(n, m) THEN Nacks(n, m) ELSE {}
            /\ UNCHANGED <<acceptor, disk>>
    /\ timers' = Set(timers, n, timers[n] \cup
                   IF Heard(n, m) /\ n \in bound.impatient THEN {"drive"} ELSE {})
    /\ UNCHANGED <<bound, learner, lease, leaked, log>>

-----------------------------------------------------------------------------
(* The proposer's answers.  _nacks_received is always empty, as a nack is   *)
(* only counted when another was.                                          *)

receive_nack(n, m) ==
    /\ m.type = "nack" /\ m.to = n /\ m.inst = inst(n)
    /\ Observed(n, m.promised)
    /\ timers' = Set(timers, n, timers[n] \cup {"drive"})
    /\ UNCHANGED <<bound, acceptor, disk, learner, lease, leaked, msgs, log>>

receive_promise(n, m) ==
    /\ m.type = "promise" /\ m.to = n /\ m.inst = inst(n)
    /\ \E p \in proposer_observe_proposal(proposer[n], m.id) :
        LET q == proposer_receive_promise(p, m)
            elected == q.leader /\ ~p.leader /\ q.proposed # NoValue
        IN  /\ proposer' = Set(proposer, n, q)
            /\ msgs' = msgs \cup IF elected THEN {accept(n, m.inst, q.id, q.proposed)} ELSE {}
    /\ UNCHANGED <<bound, acceptor, disk, learner, lease, timers, leaked, log>>

-----------------------------------------------------------------------------
(* The learner, and the next instance.                                     *)

\* advance_instance(): n takes v for the outcome of its instance.  A master that
\* finds its lease run out proposes itself again, in the instance that is over,
\* and then forgets what it proposed.  It makes up the promises of id 1 for
\* itself, and the others make that promise without saving it.
advance_instance(n, v) ==
    LET i == inst(n) + 1
        master == IF v \in Nodes THEN v ELSE _master_uid[n]
        again == v = n /\ "lease" \notin timers[n]
        d == IF again THEN propose_value(proposer[n], n, n, n)
             ELSE [p |-> proposer[n], sent |-> {}, leaks |-> {}]
        Ready(p) ==     \* the proposer in the next instance
            IF master = NoNode THEN {p}
            ELSE IF n \notin Proposers THEN {p}
            ELSE IF master # n THEN proposer_observe_proposal(p, Id(1, master))
            ELSE LET q == proposer_prepare(p, n)
                 IN  proposer_observe_proposal([q EXCEPT !.leader = q.id = Id(1, n)], Id(1, n))
    IN  /\ i <= bound.instance
        /\ log' = [log EXCEPT ![n][i] = v]
        /\ disk' = Set(disk, n, NewAcceptor(i))
        /\ acceptor' = Set(acceptor, n,
              IF master \in {NoNode, n} THEN NewAcceptor(i)
              ELSE [NewAcceptor(i) EXCEPT !.promised = Id(1, master)])
        /\ _master_uid' = Set(_master_uid, n, master)
        /\ _master_attempt' = Set(_master_attempt, n, again)
        /\ timers' = Set(timers, n, IF v \in Nodes THEN {"lease"} ELSE timers[n] \cap {"lease"})
        /\ msgs' = msgs \cup d.sent
        /\ leaked' = Set(leaked, n, leaked[n] \cup d.leaks)
        /\ \E p \in Ready([d.p EXCEPT !.proposed = NoValue]) : proposer' = Set(proposer, n, p)

\* Every node has one vote, its latest.  A proposal is forgotten when the last
\* node that accepted it accepts another, and no vote is taken off its count
\* before that.  _final_value is never found equal: it is compared by address.
receive_accepted_Again(n, m) ==     \* mutant: counts a message each time it comes
    LET l == learner[n]
        counted == Set(l.accepts, m.id, l.accepts[m.id] + 1)
    IN  /\ m.type = "accepted" /\ m.inst = inst(n)
        /\ UNCHANGED bound
        /\ IF counted[m.id] = quorum_size
           THEN /\ learner' = Set(learner, n, NewLearner)
                /\ advance_instance(n, m.value)
           ELSE /\ learner' = Set(learner, n, [l EXCEPT !.accepts = counted])
                /\ UNCHANGED <<acceptor, disk, proposer, lease, timers, leaked, msgs, log>>

receive_accepted(n, m) ==
    LET l == learner[n]
        last == l.acceptors[m.from]
        latest == Set(l.acceptors, m.from, m.id)
        kept == IF last = NoId \/ \E x \in Nodes : latest[x] = last THEN l.accepts
                ELSE Set(l.accepts, last, 0)
        counted == Set(kept, m.id, kept[m.id] + 1)
    IN  /\ m.type = "accepted" /\ m.inst = inst(n)
        /\ UNCHANGED bound
        /\ cmp_gt(m.id, last)
        /\ IF counted[m.id] = quorum_size
           THEN /\ learner' = Set(learner, n, NewLearner)
                /\ advance_instance(n, m.value)
           ELSE /\ learner' = Set(learner, n, [acceptors |-> latest, accepts |-> counted])
                /\ UNCHANGED <<acceptor, disk, proposer, lease, timers, leaked, msgs, log>>

\* n asks m for its instance, and skips to the one it is told, without its value:
\* what is read is not the member of the message that carries it.  The answer
\* may be late, and m be further by then.
receive_catchup(n, m) ==
    \E i \in (inst(n) + 1)..inst(m) :
        /\ n \in bound.followers
        /\ Saved(n, NewAcceptor(i))
        /\ IF n \in Proposers
           THEN proposer' = Set(proposer, n,
                    proposer_prepare([proposer[n] EXCEPT !.proposed = NoValue], n))
           ELSE UNCHANGED proposer
        /\ _master_attempt' = Set(_master_attempt, n, FALSE)
        /\ timers' = Set(timers, n, timers[n] \cap {"lease"})
        /\ UNCHANGED <<bound, learner, _master_uid, leaked, msgs, log>>

-----------------------------------------------------------------------------
\* A node stops and starts again: load_state() reads what was saved.
Restart(n) ==
    /\ <<n, inst(n)>> \in bound.restarts
    /\ acceptor' = Set(acceptor, n, disk[n])
    /\ proposer' = Set(proposer, n, NewProposer(n))
    /\ learner' = Set(learner, n, NewLearner)
    /\ _master_uid' = Set(_master_uid, n, NoNode)
    /\ _master_attempt' = Set(_master_attempt, n, FALSE)
    /\ timers' = Set(timers, n, {"lease"})
    /\ leaked' = Set(leaked, n, {})
    /\ UNCHANGED <<bound, disk, msgs, log>>

-----------------------------------------------------------------------------
(* What agreement does not survive.                                         *)

\* A proposer no longer knows the highest id that it has seen or drawn.
Forgets == \E n \in Nodes : \E id \in {proposer[n].highest, proposer'[n].id} :
               cmp_gt(id, proposer'[n].highest)

\* A promise that was counted before makes n the leader of too few.
Short(n, m) ==
    /\ m.type = "promise" /\ proposer'[n].leader /\ ~proposer[n].leader
    /\ m.from \in proposer[n].promises \/ proposer[n].copies > 0

\* A promise tells of a vote, and n prefers one that is of another instance.
PassesOver(n, m) ==
    /\ m.type = "promise" /\ m.id = proposer[n].id /\ ~proposer[n].leader
    /\ m.last # NoId /\ ~cmp_gt(m.last, proposer[n].highest_accepted)
    /\ ~\E k \in msgs : /\ k.type = "accepted" /\ k.inst = m.inst
                        /\ k.id = proposer[n].highest_accepted

Breaches(bad) == (bad => bound.breaches) /\ breach' = (breach \/ bad)

\* An id of count 0 nobody made with proposer_prepare(): it is announced before.
Arrives(m) == m.type # "nack" => (bound.announced \/ m.id.count > 0)

\* What changes nothing, as most messages the second time, is no step.
Receive(n, m) ==
    /\ \/ receive_prepare(n, m) \/ receive_accept(n, m) \/ receive_nack(n, m)
       \/ receive_promise(n, m) \/ (n \in bound.learners /\ receive_accepted(n, m))
    /\ <<nodeVars, msgs>>' # <<nodeVars, msgs>>

Next ==
    \E n \in Nodes :
        \/ lease_expired(n) /\ Breaches(Forgets)
        \/ Drive(n) /\ Breaches(Forgets)
        \/ send_accept_REAL(n) /\ Breaches(msgs' # msgs)
        \/ Restart(n) /\ Breaches(Forgets)
        \/ \E v \in App : handle_propose(n, v) /\ Breaches(Forgets)
        \/ \E m \in Nodes : receive_catchup(n, m) /\ Breaches(Forgets)
        \/ \E m \in msgs :
              Arrives(m) /\ Receive(n, m) /\ Breaches(Forgets \/ Short(n, m) \/ PassesOver(n, m))

Spec == Init /\ [][Next]_vars

-----------------------------------------------------------------------------
(* Properties                                                              *)

\* What a quorum has accepted, with its instance.
Chosen ==
    LET votes == {m \in msgs : m.type = "accepted"}
    IN  {<<m.inst, m.value>> : m \in {a \in votes :
            Cardinality({b \in votes : b.inst = a.inst /\ b.id = a.id /\ b.value = a.value})
                >= quorum_size}}

Agreed == INSTANCE Consensus WITH chosen <- Chosen

\* In each instance the group chooses one value, once: it implements consensus
\* (paxos_instance.cpp:239-345, 940-975, 1154-1177).
IsConsensus == Agreed!Spec

\* What a node takes for the outcome of an instance is what was chosen in it
\* (paxos_instance.cpp:983-1062, 779-846).
OutcomesAreChosen ==
    \A n \in Nodes, i \in Instances \ {0} : log[n][i] # NoValue => <<i - 1, log[n][i]>> \in Chosen

\* No id of an instance is used for two values (paxos_instance.cpp:1107-1120).
OneValuePerId ==
    LET sent == {m \in msgs : m.type = "accept"}
    IN  \A a, b \in sent : (a.inst = b.inst /\ a.id = b.id) => a.value = b.value

\* What a node has told others, in the instance it is in, it will still know
\* after a restart (paxos_instance.cpp:108-170, 255, 283).
SaidIsSaved ==
    \A m \in msgs :
        /\ (m.type = "promise" /\ m.inst = disk[m.from].inst) =>
               cmp_geq(disk[m.from].promised, m.id)
        /\ (m.type = "accepted" /\ m.inst = disk[m.from].inst) =>
               cmp_geq(disk[m.from].accepted, m.id)

\* A node never goes back to an earlier instance, nor, in an instance, behind
\* what it has promised, restarts included (paxos_instance.cpp:940-975).
PromisesKept ==
    [][\A n \in Nodes :
          /\ disk'[n].inst >= disk[n].inst
          /\ disk'[n].inst = disk[n].inst => cmp_geq(disk'[n].promised, disk[n].promised)]_disk

=============================================================================
