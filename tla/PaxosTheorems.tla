---------------------------- MODULE PaxosTheorems ----------------------------
(***************************************************************************)
(* What an acceptor has said stays true: for any group and any bounds,     *)
(* whatever is lost, repeated, late or restarted, nothing a node has       *)
(* promised or accepted is forgotten.  What more there is to Paxos holds up *)
(* to the first of the four events that breach is the history of: a proposer *)
(* forgets an id, is elected by a promise that it counted twice, or passes *)
(* over a vote, and a leaked timer offers an old value.  Up to then an id  *)
(* stands for one value, what is learnt was chosen, and the steps of the   *)
(* group are those of Consensus.                                           *)
(***************************************************************************)
EXTENDS Paxos, FiniteSetTheorems, TLAPS

\* The shape of the state that the theorems need.  Ids are not bounded here: a
\* master that goes on to the next instance draws one more.
Ids == [count : Int, node : Nat]
Vals == Values \cup {NoValue}
AnyAcceptor == [inst : Nat, promised : Ids, accepted : Ids, value : Vals]
AnyProposer == [id : Ids, highest : Ids, highest_accepted : Ids, proposed : Vals,
                leader : BOOLEAN, promises : SUBSET Nodes, copies : Nat]
Prepares == [type : {"prepare"}, from : Nodes, inst : Nat, id : Ids]
Promises == [type : {"promise"}, from : Nodes, to : Nodes, inst : Nat, id : Ids,
             last : Ids, value : Vals]
Votes == [type : {"accept", "accepted"}, from : Nodes, inst : Nat, id : Ids, value : Vals]
Refusals == [type : {"nack"}, to : Nodes, inst : Nat, promised : Ids]
AnyLeak == [id : Ids, value : Vals]
AnyMessage == Prepares \cup Promises \cup Votes \cup Refusals

Shape ==
    /\ acceptor \in [Nodes -> AnyAcceptor] /\ disk \in [Nodes -> AnyAcceptor]
    /\ proposer \in [Nodes -> AnyProposer]
    /\ _master_uid \in [Nodes -> Nodes \cup {NoNode}]
    /\ leaked \in [Nodes -> SUBSET AnyLeak]
    /\ msgs \subseteq AnyMessage

-----------------------------------------------------------------------------
(* Ids                                                                     *)

LEMMA GeqTransitive ==
    ASSUME NEW a \in Ids, NEW b \in Ids, NEW c \in Ids, cmp_geq(a, b), cmp_geq(b, c)
    PROVE  cmp_geq(a, c)
BY DEF Ids, cmp_geq

LEMMA GeqReflexive ==
    ASSUME NEW a \in Ids
    PROVE  cmp_geq(a, a)
BY DEF Ids, cmp_geq

\* Every id is at least NULL, as far as proposals go.
LEMMA NoIdLeast ==
    ASSUME PaxosAssumption
    PROVE  /\ NoId \in Ids
           /\ \A c \in Nat, n \in Nodes : Id(c, n) \in Ids /\ cmp_geq(Id(c, n), NoId)
BY DEF PaxosAssumption, NoId, Ids, Id, NoNode, cmp_geq

-----------------------------------------------------------------------------
(* The shape is kept: proposers                                            *)

LEMMA ObserveShape ==
    ASSUME NEW p \in AnyProposer, NEW id \in Ids, NEW q \in proposer_observe_proposal(p, id)
    PROVE  q \in AnyProposer
<1>1. [p EXCEPT !.highest = id] \in AnyProposer
  BY DEF AnyProposer
<1> QED
  BY <1>1 DEF proposer_observe_proposal

LEMMA PrepareShape ==
    ASSUME PaxosAssumption, NEW p \in AnyProposer, NEW n \in Nodes
    PROVE  proposer_prepare(p, n) \in AnyProposer
<1>1. p.highest.count + 1 \in Int /\ n \in Nat
  BY DEF AnyProposer, Ids, PaxosAssumption
<1>2. Id(p.highest.count + 1, n) \in Ids
  BY <1>1 DEF Id, Ids
<1> QED
  BY <1>2 DEF proposer_prepare, AnyProposer

LEMMA PromiseShape ==
    ASSUME NEW p \in AnyProposer, NEW m \in Promises
    PROVE  proposer_receive_promise(p, m) \in AnyProposer
<1>1. m.from \in Nodes /\ m.last \in Ids /\ m.value \in Vals
  BY DEF Promises
<1>2. p.copies + 1 \in Nat /\ p.promises \cup {m.from} \in SUBSET Nodes
  BY <1>1 DEF AnyProposer
<1> QED
  BY <1>1, <1>2 DEF proposer_receive_promise, AnyProposer

\* So do the two ways to drive a proposal, and what they send is no answer.
Requests == Prepares \cup {m \in Votes : m.type = "accept"}

LEMMA DriveShape ==
    ASSUME PaxosAssumption, Shape, NEW p \in AnyProposer, NEW n \in Nodes, NEW u
    PROVE  /\ drive_to_resolution(p, n, u).p \in AnyProposer
           /\ drive_to_resolution(p, n, u).sent \subseteq Requests
           /\ drive_to_resolution(p, n, u).leaks \subseteq AnyLeak
<1>1. inst(n) \in Nat /\ p.id \in Ids /\ p.proposed \in Vals
  BY DEF inst, Shape, AnyAcceptor, AnyProposer
<1>2. proposer_prepare(p, n) \in AnyProposer /\ proposer_prepare(p, n).id \in Ids
  BY PrepareShape DEF AnyProposer
<1>3. /\ accept(n, inst(n), p.id, p.proposed) \in Requests
      /\ prepare(n, inst(n), p.id) \in Requests
      /\ prepare(n, inst(n), proposer_prepare(p, n).id) \in Requests
  BY <1>1, <1>2 DEF accept, prepare, Requests, Prepares, Votes
<1>4. {[id |-> p.id, value |-> p.proposed]} \subseteq AnyLeak
  BY <1>1 DEF AnyLeak
<1> QED
  BY <1>2, <1>3, <1>4 DEF drive_to_resolution

LEMMA ProposeShape ==
    ASSUME PaxosAssumption, Shape, NEW p \in AnyProposer, NEW n \in Nodes, NEW u, NEW v \in Vals
    PROVE  /\ propose_value(p, n, v, u).p \in AnyProposer
           /\ propose_value(p, n, v, u).sent \subseteq Requests
           /\ propose_value(p, n, v, u).leaks \subseteq AnyLeak
<1> DEFINE p2 == [p EXCEPT !.proposed = IF @ = NoValue THEN v ELSE @]
<1> DEFINE d == drive_to_resolution(p2, n, u)
<1>1. p2 \in AnyProposer
  BY DEF AnyProposer
<1>2. d.p \in AnyProposer /\ d.sent \subseteq Requests /\ d.leaks \subseteq AnyLeak
  BY <1>1, DriveShape
<1>3. inst(n) \in Nat /\ p.highest \in Ids
  BY DEF inst, Shape, AnyAcceptor, AnyProposer
<1>4. Announced(p, n) \subseteq Requests
  BY <1>3 DEF Announced, prepare, Requests, Prepares
<1>5. d = [p |-> d.p, sent |-> d.sent, leaks |-> d.leaks]
  BY DEF drive_to_resolution
<1>6. propose_value(p, n, v, u)
        = [p |-> d.p, sent |-> d.sent \cup Announced(p, n), leaks |-> d.leaks]
  <2>1. propose_value(p, n, v, u) = [d EXCEPT !.sent = @ \cup Announced(p, n)]
    BY DEF propose_value
  <2> HIDE DEF d
  <2> QED
    BY <1>5, <2>1
<1> QED
  BY <1>2, <1>4, <1>6



LEMMA MessageKinds ==
    ASSUME NEW m \in AnyMessage
    PROVE  /\ m.type \in {"prepare", "promise", "accept", "accepted", "nack"}
           /\ m.type = "prepare" => m \in Prepares
           /\ m.type = "promise" => m \in Promises
           /\ m.type \in {"accept", "accepted"} => m \in Votes
           /\ m.type = "nack" => m \in Refusals
BY DEF AnyMessage, Prepares, Promises, Votes, Refusals

-----------------------------------------------------------------------------
(* Steps, by what they do to what a node has said                          *)

\* The rest of the state keeps its shape.
RestShape == /\ proposer' \in [Nodes -> AnyProposer]
             /\ leaked' \in [Nodes -> SUBSET AnyLeak]
             /\ _master_uid' \in [Nodes -> Nodes \cup {NoNode}]

\* Nothing is said: requests and refusals are sent.
Silent == /\ UNCHANGED <<acceptor, disk>>
          /\ \E sent \in SUBSET (Requests \cup Refusals) : msgs' = msgs \cup sent

\* n answers a request that it has promised nothing against.
Promising(n, m) ==
    /\ m \in Prepares /\ m.inst = inst(n) /\ cmp_geq(m.id, acceptor[n].promised)
    /\ Saved(n, acceptor_receive_prepare(acceptor[n], m))
    /\ msgs' = msgs \cup {promise(n, m.from, m.inst, m.id, acceptor[n])}

Accepting(n, m) ==
    /\ m \in Votes /\ m.inst = inst(n) /\ cmp_geq(m.id, acceptor[n].promised)
    /\ Saved(n, acceptor_receive_accept(acceptor[n], m))
    /\ msgs' = msgs \cup {accepted(n, m.inst, m.id, m.value)}

\* n goes on to instance i, perhaps with a promise that is not saved.
Advancing(n, i, id) ==
    /\ i > inst(n) /\ id \in Ids /\ cmp_geq(id, NoId)
    /\ disk' = Set(disk, n, NewAcceptor(i))
    /\ acceptor' = Set(acceptor, n, [NewAcceptor(i) EXCEPT !.promised = id])
    /\ \E sent \in SUBSET Requests : msgs' = msgs \cup sent

Restarting(n) ==
    /\ acceptor' = Set(acceptor, n, disk[n])
    /\ UNCHANGED <<disk, msgs>>

LEMMA ObservedShape ==
    ASSUME Shape, NEW n \in Nodes, NEW id \in Ids, Observed(n, id)
    PROVE  proposer' \in [Nodes -> AnyProposer]
<1>1. ASSUME NEW p \in proposer_observe_proposal(proposer[n], id), proposer' = Set(proposer, n, p)
      PROVE  proposer' \in [Nodes -> AnyProposer]
  <2>1. p \in AnyProposer
    BY <1>1, ObserveShape DEF Shape
  <2> QED
    BY <1>1, <2>1 DEF Set, Shape
<1> QED
  BY <1>1 DEF Observed, Shape

LEMMA DrivenSilent ==
    ASSUME Shape, NEW n \in Nodes, NEW d, d.p \in AnyProposer, d.sent \subseteq Requests,
           d.leaks \subseteq AnyLeak, Driven(n, d), UNCHANGED <<acceptor, disk>>
    PROVE  /\ Silent /\ proposer' \in [Nodes -> AnyProposer]
           /\ leaked' \in [Nodes -> SUBSET AnyLeak]
<1>1. leaked[n] \cup d.leaks \in SUBSET AnyLeak
  BY DEF Shape
<1>2. leaked' \in [Nodes -> SUBSET AnyLeak]
  BY <1>1 DEF Driven, Set, Shape
<1> QED
  BY <1>2 DEF Driven, Set, Shape, Silent

LEMMA LeaseSorted ==
    ASSUME PaxosAssumption, Shape, NEW n \in Nodes, lease_expired(n)
    PROVE  RestShape /\ Silent
<1>1. _master_uid' \in [Nodes -> Nodes \cup {NoNode}]
  BY DEF lease_expired, Set, Shape
<1>2. proposer[n] \in AnyProposer /\ n \in Vals
  BY DEF Shape, Vals, Values
<1>3. CASE _master_attempt[n]
  <2>1. UNCHANGED <<proposer, msgs, leaked, acceptor, disk>>
    BY <1>3 DEF lease_expired
  <2>2. msgs' = msgs \cup {}
    BY <2>1
  <2> QED
    BY <1>1, <2>1, <2>2 DEF RestShape, Silent, Shape
<1>4. CASE ~_master_attempt[n]
  <2> DEFINE d == propose_value(proposer[n], n, n, NoNode)
  <2>1. Driven(n, d) /\ UNCHANGED <<acceptor, disk>>
    BY <1>4 DEF lease_expired
  <2>2. d.p \in AnyProposer /\ d.sent \subseteq Requests /\ d.leaks \subseteq AnyLeak
    BY <1>2, ProposeShape
  <2> QED
    BY <1>1, <2>1, <2>2, DrivenSilent DEF RestShape
<1> QED
  BY <1>3, <1>4

LEMMA DriveSorted ==
    ASSUME PaxosAssumption, Shape, NEW n \in Nodes,
           Drive(n) \/ \E v \in App : handle_propose(n, v)
    PROVE  RestShape /\ Silent
<1>1. proposer[n] \in AnyProposer
  BY DEF Shape
<1>2. CASE Drive(n)
  <2>1. Driven(n, drive_to_resolution(proposer[n], n, _master_uid[n]))
    BY <1>2 DEF Drive
  <2>2. UNCHANGED <<acceptor, disk, _master_uid>>
    BY <1>2 DEF Drive, lease
  <2> QED
    BY <1>1, <2>1, <2>2, DriveShape, DrivenSilent DEF RestShape, Shape
<1>3. ASSUME NEW v \in App, handle_propose(n, v) PROVE RestShape /\ Silent
  <2>1. Driven(n, propose_value(proposer[n], n, v, n)) /\ v \in Vals
    BY <1>3 DEF handle_propose, Vals, Values
  <2>2. UNCHANGED <<acceptor, disk, _master_uid>>
    BY <1>3 DEF handle_propose, lease
  <2> QED
    BY <1>1, <2>1, <2>2, ProposeShape, DrivenSilent DEF RestShape, Shape
<1> QED
  BY <1>2, <1>3

LEMMA LeakSorted ==
    ASSUME Shape, NEW n \in Nodes, send_accept_REAL(n)
    PROVE  RestShape /\ Silent
<1>1. PICK a \in leaked[n] : msgs' = msgs \cup {accept(n, inst(n), a.id, a.value)}
  BY DEF send_accept_REAL
<1>2. a \in AnyLeak /\ inst(n) \in Nat
  BY DEF Shape, AnyAcceptor, inst
<1>3. accept(n, inst(n), a.id, a.value) \in Requests
  BY <1>2 DEF accept, AnyLeak, Requests, Votes
<1> QED
  BY <1>1, <1>3 DEF send_accept_REAL, nodeVars, lease, RestShape, Silent, Shape

\* What a node answers with when it refuses is no promise.
LEMMA NacksShape ==
    ASSUME Shape, NEW n \in Nodes, NEW m \in Prepares \cup Votes
    PROVE  Nacks(n, m) \subseteq Refusals
<1>1. m.from \in Nodes /\ m.inst \in Nat /\ acceptor[n].promised \in Ids
  BY DEF Shape, AnyAcceptor, Prepares, Votes
<1> QED
  BY <1>1 DEF Nacks, nack, Refusals

LEMMA PrepareSorted ==
    ASSUME Shape, NEW n \in Nodes, NEW m \in msgs, receive_prepare(n, m)
    PROVE  RestShape /\ (Silent \/ Promising(n, m))
<1>1. m \in Prepares /\ m.id \in Ids
  BY MessageKinds DEF Shape, receive_prepare, Prepares
<1>2. RestShape
  BY <1>1, ObservedShape DEF receive_prepare, lease, RestShape, Shape
<1>3. CASE Heard(n, m) /\ cmp_geq(m.id, acceptor[n].promised)
  <2>1. Promising(n, m)
    BY <1>1, <1>3 DEF receive_prepare, Promising, Heard
  <2> QED
    BY <1>2, <2>1
<1>4. CASE ~(Heard(n, m) /\ cmp_geq(m.id, acceptor[n].promised))
  <2> DEFINE sent == IF Heard(n, m) THEN Nacks(n, m) ELSE {}
  <2>1. UNCHANGED <<acceptor, disk>> /\ msgs' = msgs \cup sent
    BY <1>4 DEF receive_prepare
  <2>2. sent \subseteq Requests \cup Refusals
    BY <1>1, NacksShape
  <2> QED
    BY <1>2, <2>1, <2>2 DEF Silent
<1> QED
  BY <1>3, <1>4

LEMMA AcceptSorted ==
    ASSUME Shape, NEW n \in Nodes, NEW m \in msgs, receive_accept(n, m)
    PROVE  RestShape /\ (Silent \/ Accepting(n, m))
<1>1. m \in Votes /\ m.id \in Ids
  BY MessageKinds DEF Shape, receive_accept, Votes
<1>2. RestShape
  BY <1>1, ObservedShape DEF receive_accept, lease, RestShape, Shape
<1>3. CASE Heard(n, m) /\ cmp_geq(m.id, acceptor[n].promised)
  <2>1. Accepting(n, m)
    BY <1>1, <1>3 DEF receive_accept, Accepting, Heard
  <2> QED
    BY <1>2, <2>1
<1>4. CASE ~(Heard(n, m) /\ cmp_geq(m.id, acceptor[n].promised))
  <2> DEFINE sent == IF Heard(n, m) THEN Nacks(n, m) ELSE {}
  <2>1. UNCHANGED <<acceptor, disk>> /\ msgs' = msgs \cup sent
    BY <1>4 DEF receive_accept
  <2>2. sent \subseteq Requests \cup Refusals
    BY <1>1, NacksShape
  <2> QED
    BY <1>2, <2>1, <2>2 DEF Silent
<1> QED
  BY <1>3, <1>4

LEMMA NackSorted ==
    ASSUME Shape, NEW n \in Nodes, NEW m \in msgs, receive_nack(n, m)
    PROVE  RestShape /\ Silent
<1>1. m.promised \in Ids
  BY MessageKinds DEF Shape, receive_nack, Refusals
<1>2. UNCHANGED <<acceptor, disk, _master_uid>> /\ msgs' = msgs \cup {}
  BY DEF receive_nack, lease
<1> QED
  BY <1>1, <1>2, ObservedShape DEF receive_nack, RestShape, Silent, Shape

LEMMA PromiseSorted ==
    ASSUME Shape, NEW n \in Nodes, NEW m \in msgs, receive_promise(n, m)
    PROVE  RestShape /\ Silent
<1>1. m \in Promises /\ m.id \in Ids /\ m.inst \in Nat
  BY MessageKinds DEF Shape, receive_promise, Promises
<1>2. UNCHANGED <<acceptor, disk, _master_uid, leaked>>
  BY DEF receive_promise, lease
<1>3. PICK p \in proposer_observe_proposal(proposer[n], m.id) :
        LET q == proposer_receive_promise(p, m)
            elected == q.leader /\ ~p.leader /\ q.proposed # NoValue
        IN  /\ proposer' = Set(proposer, n, q)
            /\ msgs' = msgs \cup IF elected THEN {accept(n, m.inst, q.id, q.proposed)} ELSE {}
  BY DEF receive_promise
<1> DEFINE q == proposer_receive_promise(p, m)
<1>4. q \in AnyProposer
  BY <1>1, ObserveShape, PromiseShape DEF Shape
<1>5. accept(n, m.inst, q.id, q.proposed) \in Requests
  <2>1. q.id \in Ids /\ q.proposed \in Vals
    BY <1>4 DEF AnyProposer
  <2> HIDE DEF q
  <2> QED
    BY <1>1, <2>1 DEF accept, Requests, Votes
<1>6. Silent
  BY <1>2, <1>3, <1>5 DEF Silent
<1>7. proposer' \in [Nodes -> AnyProposer]
  BY <1>3, <1>4 DEF Set, Shape
<1> QED
  BY <1>2, <1>6, <1>7 DEF RestShape, Shape

LEMMA AdvanceSorted ==
    ASSUME PaxosAssumption, Shape, NEW n \in Nodes, NEW v \in Vals, advance_instance(n, v)
    PROVE  RestShape /\ \E i \in Nat, id \in Ids : Advancing(n, i, id)
<1> DEFINE i == inst(n) + 1
           master == IF v \in Nodes THEN v ELSE _master_uid[n]
           again == v = n /\ "lease" \notin timers[n]
           d == IF again THEN propose_value(proposer[n], n, n, n)
                ELSE [p |-> proposer[n], sent |-> {}, leaks |-> {}]
           p0 == [d.p EXCEPT !.proposed = NoValue]
           id == IF master \in {NoNode, n} THEN NoId ELSE Id(1, master)
<1>1. i \in Nat /\ i > inst(n)
  BY DEF inst, Shape, AnyAcceptor
<1>2. master \in Nodes \cup {NoNode}
  BY DEF Shape
<1>3. id \in Ids /\ cmp_geq(id, NoId)
  BY <1>2, NoIdLeast, GeqReflexive
<1>4. d.p \in AnyProposer /\ d.sent \subseteq Requests /\ d.leaks \subseteq AnyLeak
  <2>1. proposer[n] \in AnyProposer /\ n \in Vals
    BY DEF Shape, Vals, Values
  <2> QED
    BY <2>1, ProposeShape
<1>5. p0 \in AnyProposer
  <2>1. NoValue \in Vals
    BY DEF Vals
  <2> QED
    BY <1>4, <2>1 DEF AnyProposer
<1>6. /\ disk' = Set(disk, n, NewAcceptor(i))
      /\ acceptor' = Set(acceptor, n,
            IF master \in {NoNode, n} THEN NewAcceptor(i)
            ELSE [NewAcceptor(i) EXCEPT !.promised = Id(1, master)])
      /\ _master_uid' = Set(_master_uid, n, master)
      /\ msgs' = msgs \cup d.sent
      /\ leaked' = Set(leaked, n, leaked[n] \cup d.leaks)
  BY DEF advance_instance
<1>7. NewAcceptor(i) = [NewAcceptor(i) EXCEPT !.promised = NoId]
  BY DEF NewAcceptor
<1>8. Advancing(n, i, id)
  BY <1>1, <1>3, <1>4, <1>6, <1>7 DEF Advancing
<1>9. \E p \in AnyProposer : proposer' = Set(proposer, n, p)
  <2> DEFINE r == proposer_prepare(p0, n)
             r1 == [r EXCEPT !.leader = r.id = Id(1, n)]
             Ready == IF master = NoNode THEN {p0}
                      ELSE IF n \notin Proposers THEN {p0}
                      ELSE IF master # n THEN proposer_observe_proposal(p0, Id(1, master))
                      ELSE proposer_observe_proposal(r1, Id(1, n))
  <2>1. \E p \in Ready : proposer' = Set(proposer, n, p)
    BY DEF advance_instance
  <2>2. r1 \in AnyProposer
    <3>1. r \in AnyProposer
      BY <1>5, PrepareShape
    <3> HIDE DEF r
    <3> QED
      BY <3>1 DEF AnyProposer
  <2>3. Id(1, n) \in Ids /\ (master \in Nodes => Id(1, master) \in Ids)
    BY NoIdLeast
  <2> HIDE DEF r1, p0, master
  <2>4. Ready \subseteq AnyProposer
    BY <1>2, <1>5, <2>2, <2>3, ObserveShape
  <2> QED
    BY <2>1, <2>4
<1>10. leaked' \in [Nodes -> SUBSET AnyLeak]
  <2>1. leaked[n] \cup d.leaks \in SUBSET AnyLeak
    BY <1>4 DEF Shape
  <2> QED
    BY <1>6, <2>1 DEF Set, Shape
<1>11. RestShape
  BY <1>2, <1>6, <1>9, <1>10 DEF RestShape, Set, Shape
<1> QED
  BY <1>1, <1>3, <1>8, <1>11

LEMMA AcceptedSorted ==
    ASSUME PaxosAssumption, Shape, NEW n \in Nodes, NEW m \in msgs, receive_accepted(n, m)
    PROVE  RestShape /\ (Silent \/ \E i \in Nat, id \in Ids : Advancing(n, i, id))
<1>1. m.value \in Vals
  BY MessageKinds DEF Shape, receive_accepted, Votes
<1>2. CASE advance_instance(n, m.value)
  BY <1>1, <1>2, AdvanceSorted
<1>3. CASE UNCHANGED <<acceptor, disk, proposer, lease, timers, leaked, msgs, log>>
  <2>1. UNCHANGED <<acceptor, disk, proposer, _master_uid, leaked>> /\ msgs' = msgs \cup {}
    BY <1>3 DEF lease
  <2> QED
    BY <2>1 DEF RestShape, Silent, Shape
<1> QED
  BY <1>2, <1>3 DEF receive_accepted

LEMMA CatchupSorted ==
    ASSUME PaxosAssumption, Shape, NEW n \in Nodes, NEW m \in Nodes, receive_catchup(n, m)
    PROVE  RestShape /\ \E i \in Nat, id \in Ids : Advancing(n, i, id)
<1>1. PICK i \in (inst(n) + 1)..inst(m) :
        /\ Saved(n, NewAcceptor(i))
        /\ IF n \in Proposers
           THEN proposer' = Set(proposer, n,
                    proposer_prepare([proposer[n] EXCEPT !.proposed = NoValue], n))
           ELSE UNCHANGED proposer
        /\ UNCHANGED <<_master_uid, leaked, msgs>>
  BY DEF receive_catchup
<1>2. i \in Nat /\ i > inst(n)
  BY DEF inst, Shape, AnyAcceptor
<1>3. NewAcceptor(i) = [NewAcceptor(i) EXCEPT !.promised = NoId]
  BY DEF NewAcceptor
<1>4. NoId \in Ids /\ cmp_geq(NoId, NoId) /\ msgs' = msgs \cup {}
  BY <1>1, NoIdLeast, GeqReflexive
<1>5. Advancing(n, i, NoId)
  BY <1>1, <1>2, <1>3, <1>4 DEF Advancing, Saved
<1> DEFINE p == [proposer[n] EXCEPT !.proposed = NoValue]
<1>6. p \in AnyProposer
  BY DEF Shape, AnyProposer, Vals
<1>7. proposer_prepare(p, n) \in AnyProposer
  BY <1>6, PrepareShape
<1>8. RestShape
  BY <1>1, <1>7 DEF RestShape, Set, Shape
<1> QED
  BY <1>2, <1>4, <1>5, <1>8

LEMMA RestartSorted ==
    ASSUME PaxosAssumption, Shape, NEW n \in Nodes, Restart(n)
    PROVE  RestShape /\ Restarting(n)
<1>1. Id(0, n) \in Ids /\ NoId \in Ids
  BY NoIdLeast
<1>2. NewProposer(n) \in AnyProposer
  BY <1>1 DEF NewProposer, AnyProposer, Vals
<1> QED
  BY <1>2 DEF Restart, Restarting, RestShape, Set, Shape

LEMMA Sorted ==
    ASSUME PaxosAssumption, Shape, Next
    PROVE  /\ RestShape
           /\ \/ Silent
              \/ \E n \in Nodes, m \in msgs : Promising(n, m) \/ Accepting(n, m)
              \/ \E n \in Nodes, i \in Nat, id \in Ids : Advancing(n, i, id)
              \/ \E n \in Nodes : Restarting(n)
<1>1. PICK n \in Nodes :
        \/ lease_expired(n) \/ Drive(n) \/ send_accept_REAL(n) \/ Restart(n)
        \/ \E v \in App : handle_propose(n, v)
        \/ \E m \in msgs : Receive(n, m)
        \/ \E m \in Nodes : receive_catchup(n, m)
  BY DEF Next
<1>2. CASE lease_expired(n) \/ send_accept_REAL(n)
  BY <1>2, LeaseSorted, LeakSorted
<1>3. CASE Drive(n) \/ \E v \in App : handle_propose(n, v)
  BY <1>3, DriveSorted
<1>4. CASE Restart(n)
  BY <1>4, RestartSorted
<1>5. ASSUME NEW m \in msgs, Receive(n, m)
      PROVE  /\ RestShape
             /\ \/ Silent \/ Promising(n, m) \/ Accepting(n, m)
                \/ \E i \in Nat, id \in Ids : Advancing(n, i, id)
  BY <1>5, PrepareSorted, AcceptSorted, NackSorted, PromiseSorted, AcceptedSorted DEF Receive
<1>6. CASE \E m \in Nodes : receive_catchup(n, m)
  BY <1>6, CatchupSorted
<1> QED
  BY <1>1, <1>2, <1>3, <1>4, <1>5, <1>6

-----------------------------------------------------------------------------
(* What was said                                                           *)

\* What is saved is at most what is promised, and all that is accepted.
Saves ==
    \A n \in Nodes :
        /\ acceptor[n].inst = disk[n].inst
        /\ cmp_geq(acceptor[n].promised, disk[n].promised)
        /\ acceptor[n].accepted = disk[n].accepted
        /\ cmp_geq(disk[n].promised, disk[n].accepted)

\* What node n with a saved has once said with message m.
Stands(a, m) ==
    /\ m.inst <= a.inst
    /\ m.type = "promise" /\ m.inst = a.inst => cmp_geq(a.promised, m.id)
    /\ m.type = "accepted" /\ m.inst = a.inst => cmp_geq(a.accepted, m.id)

Answer == {m \in AnyMessage : m.type \in {"promise", "accepted"}}

AllStands == \A m \in msgs \cap Answer : Stands(disk[m.from], m)

PInv == Shape /\ Saves /\ AllStands

LEMMA AnswerShape ==
    ASSUME NEW m \in Answer
    PROVE  m.from \in Nodes /\ m.inst \in Nat /\ m.id \in Ids
BY MessageKinds DEF Answer, Promises, Votes

LEMMA RequestsNoAnswer == (Requests \cup Refusals) \cap Answer = {}
BY DEF Requests, Refusals, Answer, Prepares, Votes

\* What stood stands when a node saves more.
LEMMA StillStands ==
    ASSUME NEW a \in AnyAcceptor, NEW b \in AnyAcceptor, NEW m \in Answer, Stands(a, m),
           b.inst = a.inst, cmp_geq(b.promised, a.promised), cmp_geq(b.accepted, a.accepted)
    PROVE  Stands(b, m)
<1>1. m.id \in Ids /\ {a.promised, a.accepted, b.promised, b.accepted} \subseteq Ids
  BY AnswerShape DEF AnyAcceptor
<1> QED
  BY <1>1, GeqTransitive DEF Stands

LEMMA SilentKeeps ==
    ASSUME PInv, RestShape, Silent
    PROVE  PInv'
<1>1. PICK sent \in SUBSET (Requests \cup Refusals) : msgs' = msgs \cup sent
  BY DEF Silent
<1>2. sent \subseteq AnyMessage
  BY DEF Requests, AnyMessage
<1>3. Shape'
  BY <1>1, <1>2 DEF PInv, Shape, RestShape, Silent
<1>4. msgs' \cap Answer = msgs \cap Answer
  BY <1>1, RequestsNoAnswer
<1>5. AllStands'
  BY <1>4 DEF PInv, AllStands, Silent
<1> QED
  BY <1>3, <1>5 DEF PInv, Saves, Silent

\* A node that saves more and says one thing, which it has saved.
LEMMA SavingKeeps ==
    ASSUME PInv, RestShape, NEW n \in Nodes, NEW a \in AnyAcceptor, NEW said \in Answer,
           Saved(n, a), msgs' = msgs \cup {said}, said.from = n, Stands(a, said),
           a.inst = disk[n].inst, cmp_geq(a.promised, disk[n].promised),
           cmp_geq(a.accepted, disk[n].accepted), cmp_geq(a.promised, a.accepted)
    PROVE  PInv'
<1>1. /\ acceptor' = [acceptor EXCEPT ![n] = a] /\ disk' = [disk EXCEPT ![n] = a]
      /\ acceptor \in [Nodes -> AnyAcceptor] /\ disk \in [Nodes -> AnyAcceptor]
  BY DEF Saved, Set, PInv, Shape
<1>2. Shape'
  BY <1>1 DEF PInv, Shape, RestShape, Answer
<1>3. cmp_geq(a.promised, a.promised)
  BY GeqReflexive DEF AnyAcceptor
<1>4. Saves'
  BY <1>1, <1>3 DEF PInv, Saves
<1>5. ASSUME NEW m \in msgs' \cap Answer PROVE Stands(disk'[m.from], m)
  <2>1. CASE m = said
    BY <1>1, <2>1
  <2>2. CASE m # said /\ m.from = n
    <3>1. Stands(disk[n], m)
      BY <1>5, <2>2 DEF PInv, AllStands
    <3> QED
      BY <1>1, <2>2, <3>1, StillStands
  <2>3. CASE m # said /\ m.from # n
    BY <1>1, <1>5, <2>3, AnswerShape DEF PInv, AllStands
  <2> QED
    BY <2>1, <2>2, <2>3
<1> QED
  BY <1>2, <1>4, <1>5 DEF PInv, AllStands

LEMMA PromisingKeeps ==
    ASSUME PInv, RestShape, NEW n \in Nodes, NEW m, Promising(n, m)
    PROVE  PInv'
<1> DEFINE a == acceptor_receive_prepare(acceptor[n], m)
           said == promise(n, m.from, m.inst, m.id, acceptor[n])
<1>1. m.from \in Nodes /\ m.inst \in Nat /\ m.id \in Ids /\ m.inst = acceptor[n].inst
  BY DEF Promising, Prepares, inst
<1>2. acceptor[n] \in AnyAcceptor /\ disk[n] \in AnyAcceptor
  BY DEF PInv, Shape
<1>3. a \in AnyAcceptor /\ a.inst = acceptor[n].inst /\ a.promised = m.id
      /\ a.accepted = acceptor[n].accepted
  BY <1>1, <1>2 DEF acceptor_receive_prepare, AnyAcceptor
<1>4. said \in Answer /\ said.from = n /\ said.inst = m.inst /\ said.id = m.id
      /\ said.type = "promise"
  BY <1>1, <1>2 DEF promise, Answer, AnyMessage, Promises, AnyAcceptor
<1>5. {acceptor[n].promised, disk[n].promised, disk[n].accepted} \subseteq Ids
  BY <1>2 DEF AnyAcceptor
<1>6. cmp_geq(m.id, acceptor[n].promised) /\ Saved(n, a) /\ msgs' = msgs \cup {said}
  BY DEF Promising
<1>7. /\ cmp_geq(acceptor[n].promised, disk[n].promised) /\ cmp_geq(disk[n].promised, disk[n].accepted)
      /\ acceptor[n].accepted = disk[n].accepted /\ acceptor[n].inst = disk[n].inst
  BY DEF PInv, Saves
<1>8. cmp_geq(m.id, disk[n].promised) /\ cmp_geq(m.id, disk[n].accepted)
  BY <1>1, <1>5, <1>6, <1>7, GeqTransitive
<1>9. cmp_geq(m.id, m.id) /\ cmp_geq(disk[n].accepted, disk[n].accepted)
  BY <1>1, <1>5, GeqReflexive
<1>10. Stands(a, said)
  BY <1>1, <1>3, <1>4, <1>9 DEF Stands
<1> HIDE DEF a, said
<1> QED
  BY <1>3, <1>4, <1>6, <1>7, <1>8, <1>9, <1>10, SavingKeeps

LEMMA AcceptingKeeps ==
    ASSUME PInv, RestShape, NEW n \in Nodes, NEW m, Accepting(n, m)
    PROVE  PInv'
<1> DEFINE a == acceptor_receive_accept(acceptor[n], m)
           said == accepted(n, m.inst, m.id, m.value)
<1>1. m.inst \in Nat /\ m.id \in Ids /\ m.inst = acceptor[n].inst /\ m.value \in Vals
  BY DEF Accepting, Votes, inst
<1>2. acceptor[n] \in AnyAcceptor /\ disk[n] \in AnyAcceptor
  BY DEF PInv, Shape
<1>3. a \in AnyAcceptor /\ a.inst = acceptor[n].inst /\ a.promised = m.id /\ a.accepted = m.id
  BY <1>1, <1>2 DEF acceptor_receive_accept, AnyAcceptor
<1>4. said \in Answer /\ said.from = n /\ said.inst = m.inst /\ said.id = m.id
      /\ said.type = "accepted"
  BY <1>1 DEF accepted, Answer, AnyMessage, Votes
<1>5. {acceptor[n].promised, disk[n].promised, disk[n].accepted} \subseteq Ids
  BY <1>2 DEF AnyAcceptor
<1>6. cmp_geq(m.id, acceptor[n].promised) /\ Saved(n, a) /\ msgs' = msgs \cup {said}
  BY DEF Accepting
<1>7. /\ cmp_geq(acceptor[n].promised, disk[n].promised) /\ cmp_geq(disk[n].promised, disk[n].accepted)
      /\ acceptor[n].accepted = disk[n].accepted /\ acceptor[n].inst = disk[n].inst
  BY DEF PInv, Saves
<1>8. cmp_geq(m.id, disk[n].promised) /\ cmp_geq(m.id, disk[n].accepted)
  BY <1>1, <1>5, <1>6, <1>7, GeqTransitive
<1>9. cmp_geq(m.id, m.id)
  BY <1>1, GeqReflexive
<1>10. Stands(a, said)
  BY <1>1, <1>3, <1>4, <1>9 DEF Stands
<1> HIDE DEF a, said
<1> QED
  BY <1>3, <1>4, <1>6, <1>7, <1>8, <1>9, <1>10, SavingKeeps

\* Nothing was said yet in the next instance.
LEMMA AdvancingKeeps ==
    ASSUME PaxosAssumption, PInv, RestShape, NEW n \in Nodes, NEW i \in Nat, NEW id \in Ids,
           Advancing(n, i, id)
    PROVE  PInv'
<1> DEFINE a == NewAcceptor(i)
           b == [NewAcceptor(i) EXCEPT !.promised = id]
<1>1. NoId \in Ids /\ cmp_geq(NoId, NoId)
  BY NoIdLeast, GeqReflexive
<1>2. /\ a \in AnyAcceptor /\ a.inst = i /\ a.promised = NoId /\ a.accepted = NoId
      /\ b \in AnyAcceptor /\ b.inst = i /\ b.promised = id /\ b.accepted = NoId
  BY <1>1 DEF NewAcceptor, AnyAcceptor, Vals
<1>3. cmp_geq(id, NoId) /\ i > acceptor[n].inst
  BY DEF Advancing, inst
<1> HIDE DEF a, b
<1>4. /\ acceptor' = [acceptor EXCEPT ![n] = b] /\ disk' = [disk EXCEPT ![n] = a]
      /\ acceptor \in [Nodes -> AnyAcceptor] /\ disk \in [Nodes -> AnyAcceptor]
  BY DEF Advancing, Set, PInv, Shape, a, b
<1>5. PICK sent \in SUBSET Requests : msgs' = msgs \cup sent
  BY DEF Advancing
<1>6. sent \subseteq AnyMessage
  BY DEF Requests, AnyMessage
<1>7. Shape'
  BY <1>2, <1>4, <1>5, <1>6 DEF PInv, Shape, RestShape
<1>8. Saves'
  BY <1>1, <1>2, <1>3, <1>4 DEF PInv, Saves
<1>9. msgs' \cap Answer = msgs \cap Answer
  BY <1>5, RequestsNoAnswer
<1>10. ASSUME NEW m \in msgs \cap Answer PROVE Stands(disk'[m.from], m)
  <2>1. Stands(disk[m.from], m) /\ m.from \in Nodes /\ m.inst \in Nat
    BY <1>10, AnswerShape DEF PInv, AllStands
  <2>2. CASE m.from = n
    <3>1. m.inst <= disk[n].inst /\ disk[n].inst = acceptor[n].inst /\ disk[n].inst \in Nat
      BY <1>4, <2>1, <2>2 DEF Stands, PInv, Saves, AnyAcceptor
    <3> QED
      BY <1>2, <1>3, <1>4, <2>1, <2>2, <3>1 DEF Stands
  <2>3. CASE m.from # n
    BY <1>4, <2>1, <2>3
  <2> QED
    BY <2>2, <2>3
<1> QED
  BY <1>7, <1>8, <1>9, <1>10 DEF PInv, AllStands

LEMMA RestartingKeeps ==
    ASSUME PInv, RestShape, NEW n \in Nodes, Restarting(n)
    PROVE  PInv'
<1>1. /\ acceptor' = [acceptor EXCEPT ![n] = disk[n]] /\ UNCHANGED <<disk, msgs>>
      /\ acceptor \in [Nodes -> AnyAcceptor] /\ disk \in [Nodes -> AnyAcceptor]
  BY DEF Restarting, Set, PInv, Shape
<1>2. cmp_geq(disk[n].promised, disk[n].promised)
  BY <1>1, GeqReflexive DEF AnyAcceptor
<1>3. Saves'
  BY <1>1, <1>2 DEF PInv, Saves
<1> QED
  BY <1>1, <1>3 DEF PInv, Shape, RestShape, AllStands

LEMMA InitKept ==
    ASSUME PaxosAssumption, Init
    PROVE  PInv
<1>1. NoId \in Ids /\ cmp_geq(NoId, NoId) /\ \A n \in Nodes : Id(0, n) \in Ids
  BY NoIdLeast, GeqReflexive
<1>2. NewAcceptor(0) \in AnyAcceptor
  BY <1>1 DEF NewAcceptor, AnyAcceptor, Vals
<1>3. \A n \in Nodes : NewProposer(n) \in AnyProposer
  BY <1>1 DEF NewProposer, AnyProposer, Vals
<1>4. Shape
  BY <1>2, <1>3 DEF Init, Shape
<1>5. Saves
  BY <1>1 DEF Init, Saves, NewAcceptor
<1> QED
  BY <1>4, <1>5 DEF Init, PInv, AllStands

LEMMA NextKept ==
    ASSUME PaxosAssumption, PInv, [Next]_vars
    PROVE  PInv'
<1>1. CASE UNCHANGED vars
  BY <1>1 DEF vars, nodeVars, lease, PInv, Shape, Saves, AllStands
<1>2. CASE Next
  <2>1. RestShape
    BY <1>2, Sorted DEF PInv
  <2> QED
    BY <1>2, <2>1, Sorted, SilentKeeps, PromisingKeeps, AcceptingKeeps, AdvancingKeeps,
       RestartingKeeps DEF PInv
<1> QED
  BY <1>1, <1>2

-----------------------------------------------------------------------------
(* The theorems                                                            *)

\* A promise or a vote that a node has sent it still knows after a restart: what
\* it has on disk is no less (paxos_instance.cpp:108-170, 255, 283).
THEOREM NothingForgotten ==
    ASSUME PaxosAssumption
    PROVE  Spec => []SaidIsSaved
<1>1. Init => PInv
  BY InitKept
<1>2. PInv /\ [Next]_vars => PInv'
  BY NextKept
<1>3. PInv => SaidIsSaved
  <2>1. SUFFICES ASSUME PInv, NEW m \in msgs, m.type \in {"promise", "accepted"}
                 PROVE  Stands(disk[m.from], m)
    BY DEF SaidIsSaved, Stands
  <2>2. m \in AnyMessage
    BY <2>1 DEF PInv, Shape
  <2>3. m \in msgs \cap Answer
    BY <2>1, <2>2 DEF Answer
  <2> QED
    BY <2>1, <2>3 DEF PInv, AllStands
<1> QED
  BY <1>1, <1>2, <1>3, PTL DEF Spec

\* A step never takes a node back to an earlier instance or promise.
Back(n) ==
    /\ disk'[n].inst >= disk[n].inst
    /\ disk'[n].inst = disk[n].inst => cmp_geq(disk'[n].promised, disk[n].promised)

LEMMA NoneGoesBack ==
    ASSUME PaxosAssumption, PInv, [Next]_vars
    PROVE  \A n \in Nodes : Back(n)
<1>1. CASE UNCHANGED disk
  <2>1. \A n \in Nodes : disk[n].inst \in Nat /\ cmp_geq(disk[n].promised, disk[n].promised)
    BY GeqReflexive DEF PInv, Shape, AnyAcceptor
  <2> QED
    BY <1>1, <2>1 DEF Back
<1>2. ASSUME NEW k \in Nodes, NEW a \in AnyAcceptor, disk' = Set(disk, k, a),
             \/ a.inst > disk[k].inst
             \/ a.inst = disk[k].inst /\ cmp_geq(a.promised, disk[k].promised)
      PROVE  \A n \in Nodes : Back(n)
  <2>1. \A n \in Nodes : disk[n].inst \in Nat /\ cmp_geq(disk[n].promised, disk[n].promised)
    BY GeqReflexive DEF PInv, Shape, AnyAcceptor
  <2> QED
    BY <1>2, <2>1 DEF Back, Set, PInv, Shape, AnyAcceptor
<1>3. ASSUME NEW k \in Nodes, NEW m, Promising(k, m) \/ Accepting(k, m)
      PROVE  \A n \in Nodes : Back(n)
  <2>1. PICK a : /\ disk' = Set(disk, k, a) /\ a.inst = acceptor[k].inst /\ a.promised = m.id
                 /\ a \in AnyAcceptor /\ m.id \in Ids
    <3>1. acceptor[k] \in AnyAcceptor
      BY DEF PInv, Shape
    <3>2. CASE Promising(k, m)
      <4> DEFINE a == acceptor_receive_prepare(acceptor[k], m)
      <4>1. disk' = Set(disk, k, a) /\ m.id \in Ids
        BY <3>2 DEF Promising, Saved, Prepares
      <4>2. a \in AnyAcceptor /\ a.inst = acceptor[k].inst /\ a.promised = m.id
        BY <3>1, <4>1 DEF acceptor_receive_prepare, AnyAcceptor
      <4> QED
        BY <4>1, <4>2
    <3>3. CASE Accepting(k, m)
      <4> DEFINE a == acceptor_receive_accept(acceptor[k], m)
      <4>1. disk' = Set(disk, k, a) /\ m.id \in Ids /\ m.value \in Vals
        BY <3>3 DEF Accepting, Saved, Votes
      <4>2. a \in AnyAcceptor /\ a.inst = acceptor[k].inst /\ a.promised = m.id
        BY <3>1, <4>1 DEF acceptor_receive_accept, AnyAcceptor
      <4> QED
        BY <4>1, <4>2
    <3> QED
      BY <1>3, <3>2, <3>3
  <2>2. cmp_geq(m.id, acceptor[k].promised) /\ cmp_geq(acceptor[k].promised, disk[k].promised)
        /\ acceptor[k].inst = disk[k].inst
    BY <1>3 DEF Promising, Accepting, PInv, Saves
  <2>3. acceptor[k].promised \in Ids /\ disk[k].promised \in Ids
    BY DEF PInv, Shape, AnyAcceptor
  <2>4. cmp_geq(a.promised, disk[k].promised)
    BY <2>1, <2>2, <2>3, GeqTransitive
  <2> QED
    BY <1>2, <2>1, <2>2, <2>4
<1>4. ASSUME NEW k \in Nodes, NEW i \in Nat, NEW id \in Ids, Advancing(k, i, id)
      PROVE  \A n \in Nodes : Back(n)
  <2>1. NewAcceptor(i) \in AnyAcceptor /\ NewAcceptor(i).inst = i
    BY NoIdLeast DEF NewAcceptor, AnyAcceptor, Vals
  <2>2. i > disk[k].inst
    BY <1>4 DEF Advancing, inst, PInv, Saves
  <2> QED
    BY <1>2, <1>4, <2>1, <2>2 DEF Advancing
<1>5. CASE UNCHANGED vars
  BY <1>1, <1>5 DEF vars, nodeVars
<1>6. CASE Next
  BY <1>1, <1>3, <1>4, <1>6, Sorted DEF PInv, Silent, Restarting
<1> QED
  BY <1>5, <1>6

\* On disk a node never goes back, to an earlier instance or to a smaller
\* promise (paxos_instance.cpp:940-975).
THEOREM NeverGoesBack ==
    ASSUME PaxosAssumption
    PROVE  Spec => PromisesKept
<1>1. Init => PInv
  BY InitKept
<1>2. PInv /\ [Next]_vars => PInv'
  BY NextKept
<1>3. PInv /\ [Next]_vars => [\A n \in Nodes : Back(n)]_disk
  BY NoneGoesBack
<1>4. Spec => [][\A n \in Nodes : Back(n)]_disk
  BY <1>1, <1>2, <1>3, PTL DEF Spec
<1> QED
  BY <1>4 DEF PromisesKept, Back

-----------------------------------------------------------------------------
(* Agreement: what is sent, by kind                                        *)

Asked == {m \in msgs : m.type = "prepare"}
Promised == {m \in msgs : m.type = "promise"}
Offered == {m \in msgs : m.type = "accept"}
Voted == {m \in msgs : m.type = "accepted"}

LEMMA Adds ==
    ASSUME NEW S, msgs' = msgs \cup S
    PROVE  /\ Asked' = Asked \cup {m \in S : m.type = "prepare"}
           /\ Promised' = Promised \cup {m \in S : m.type = "promise"}
           /\ Offered' = Offered \cup {m \in S : m.type = "accept"}
           /\ Voted' = Voted \cup {m \in S : m.type = "accepted"}
BY DEF Asked, Promised, Offered, Voted

LEMMA AddsNothing ==
    ASSUME UNCHANGED msgs
    PROVE  UNCHANGED <<Asked, Promised, Offered, Voted>>
BY DEF Asked, Promised, Offered, Voted

LEMMA KindShapes ==
    ASSUME Shape
    PROVE  /\ Asked \subseteq Prepares
           /\ Promised \subseteq Promises
           /\ Offered \subseteq Votes
           /\ Voted \subseteq Votes
BY MessageKinds DEF Shape, Asked, Promised, Offered, Voted

-----------------------------------------------------------------------------
(* What agreement rests on                                                 *)

\* A proposer that has not drawn an id.
Idle(p) == /\ p.highest_accepted = NoId /\ p.proposed = NoValue
           /\ ~p.leader /\ p.promises = {} /\ p.copies = 0

\* A proposer's ids are its own, and the highest it knows of.  A node that is its
\* own master has drawn an id since, so that none is proposed without promises.
ProposersKept ==
    \A n \in Nodes :
        /\ proposer[n].id.node = n /\ proposer[n].id.count >= 0
        /\ cmp_geq(proposer[n].highest, proposer[n].id)
        /\ proposer[n].id.count = 0 => Idle(proposer[n])
        /\ n \notin Proposers => proposer[n] = NewProposer(n)
        /\ _master_uid[n] = n => n \in Proposers /\ proposer[n].id.count >= 2

AskedKept ==
    \A m \in Asked :
        /\ m.from \in Proposers /\ m.inst < bound.instance
        /\ proposer[m.from].id.count >= 1
        /\ cmp_geq(proposer[m.from].highest, m.id)
        /\ m.id = proposer[m.from].id => m.id.count <= MaxCount

\* Promises for a proposer's id are for one instance.
AskedOnce ==
    \A m, k \in Asked :
        (m.from = k.from /\ m.id = k.id /\ m.id = proposer[m.from].id) => m.inst = k.inst

\* A value is offered with promises asked for, and a node begins to be offered
\* by itself.
OfferedKept ==
    \A m \in Offered :
        /\ m.id.node = m.from /\ m.from \in Proposers /\ m.id.count \in 1..MaxCount
        /\ m.inst <= inst(m.from) /\ m.value \in Values
        /\ \E k \in Asked : k.from = m.from /\ k.inst = m.inst /\ k.id = m.id
        /\ m.value \in Nodes => \E k \in Offered : k.from = m.value /\ k.inst = m.inst

\* A proposer that has offered a value under its id is the leader, and keeps it.
LedKept ==
    \A m \in Offered :
        /\ cmp_geq(proposer[m.from].id, m.id)
        /\ m.id = proposer[m.from].id =>
              /\ proposer[m.from].leader
              /\ m.inst = inst(m.from) => proposer[m.from].proposed = m.value

\* An id stands for one value of one instance.
OfferedOnce == \A m, k \in Offered : m.id = k.id => m.inst = k.inst /\ m.value = k.value

VotedKept == \A m \in Voted : \E k \in Offered : k.inst = m.inst /\ k.id = m.id /\ k.value = m.value

HasVoted(n, i, id, v) == \E k \in Voted : k.from = n /\ k.inst = i /\ k.id = id /\ k.value = v

\* A promise tells the last vote, and no vote comes between it and the promise.
PromisedKept ==
    \A m \in Promised :
        /\ \E k \in Asked : k.from = m.to /\ k.inst = m.inst /\ k.id = m.id
        /\ m.last = NoId \/ HasVoted(m.from, m.inst, m.last, m.value)
        /\ \A k \in Voted : (k.from = m.from /\ k.inst = m.inst) =>
                cmp_geq(m.last, k.id) \/ cmp_geq(k.id, m.id)

AcceptorsKept ==
    \A n \in Nodes : \A a \in {acceptor[n], disk[n]} :
        a.accepted = NoId \/ HasVoted(n, a.inst, a.accepted, a.value)

\* Only a node itself begins to propose itself.
ProposedKept ==
    \A n \in Nodes : (proposer[n].proposed \in Nodes /\ proposer[n].proposed # n) =>
        \E k \in Offered : k.from = proposer[n].proposed /\ k.inst = inst(n)

HighestKept ==
    \A n \in Nodes : proposer[n].highest_accepted = NoId
        \/ \E k \in Offered : k.id = proposer[n].highest_accepted

\* Who is counted has promised, and what it told was taken: the proposer's highest
\* is no lower, and is of the same instance if it told of a vote.
Told(m, a, n, p, offers) ==
    /\ m.from = a /\ m.to = n /\ m.id = p.id /\ cmp_geq(p.highest_accepted, m.last)
    /\ m.last = NoId \/ \E k \in offers : k.inst = m.inst /\ k.id = p.highest_accepted

GatheredKept ==
    \A n \in Nodes : \A a \in proposer[n].promises :
        \E m \in Promised : Told(m, a, n, proposer[n], Offered)

AInv == /\ PInv /\ bound \in Bounds
        /\ ProposersKept /\ AskedKept /\ AskedOnce
        /\ OfferedKept /\ LedKept /\ OfferedOnce
        /\ VotedKept /\ PromisedKept /\ AcceptorsKept
        /\ ProposedKept /\ HighestKept /\ GatheredKept

-----------------------------------------------------------------------------
(* Steps, by what they do to a proposer                                    *)

Sees(p, q) ==
    /\ q.id = p.id /\ q.highest_accepted = p.highest_accepted /\ q.proposed = p.proposed
    /\ q.leader = p.leader /\ q.promises = p.promises /\ q.copies = p.copies
    /\ cmp_geq(q.highest, p.highest)

\* It draws the next id.
Draws(n, p, q) ==
    /\ q.id.node = n /\ q.id.count > p.highest.count /\ cmp_geq(q.highest, q.id)
    /\ ~q.leader /\ q.promises = {} /\ q.highest_accepted = p.highest_accepted

Others(n) == \A k \in Nodes \ {n} : proposer'[k] = proposer[k]
MastersLeft(S) == \A k \in S : _master_uid'[k] \in {NoNode, _master_uid[k]}

NewlyAsked(n) ==
    /\ Asked \subseteq Asked'
    /\ \A m \in Asked' \ Asked :
          /\ m.from = n /\ m.inst = inst(n) /\ inst(n) < bound.instance
          /\ cmp_geq(proposer'[n].highest, m.id)

Asking(n) ==
    /\ n \in Proposers /\ Others(n) /\ MastersLeft(Nodes)
    /\ Draws(n, proposer[n], proposer'[n]) /\ proposer'[n].id.count <= MaxCount
    /\ \/ proposer'[n].proposed = proposer[n].proposed
       \/ proposer[n].proposed = NoValue /\ proposer'[n].proposed \in App \cup {n}
    /\ NewlyAsked(n)
    /\ UNCHANGED <<bound, acceptor, disk, Promised, Offered, Voted>>

\* Its acceptor answers, or nobody does.
Hearing ==
    /\ \A n \in Nodes : /\ Sees(proposer[n], proposer'[n])
                        /\ n \notin Proposers => proposer'[n] = proposer[n]
    /\ MastersLeft(Nodes)
    /\ UNCHANGED <<bound, Asked, Offered>>
    /\ \/ UNCHANGED <<acceptor, disk, Promised, Voted>>
       \/ \E n \in Nodes : Restarting(n) /\ UNCHANGED <<Promised, Voted>>
       \/ \E n \in Nodes, m \in Asked :
             /\ Promising(n, m) /\ UNCHANGED Voted
             /\ Promised' = Promised \cup {promise(n, m.from, m.inst, m.id, acceptor[n])}
       \/ \E n \in Nodes, m \in Offered :
             /\ Accepting(n, m) /\ UNCHANGED Promised
             /\ Voted' = Voted \cup {accepted(n, m.inst, m.id, m.value)}

\* A promise that counts, and that passes over nothing.
Gathering(n, m) ==
    /\ m.to = n /\ m.inst = inst(n) /\ m.id = proposer[n].id /\ m.id.count # 0
    /\ ~proposer[n].leader
    /\ Others(n) /\ MastersLeft(Nodes)
    /\ proposer'[n].id = proposer[n].id
    /\ cmp_geq(proposer'[n].highest, proposer[n].highest)
    /\ IF m.last # NoId /\ cmp_gt(m.last, proposer[n].highest_accepted)
       THEN /\ proposer'[n].highest_accepted = m.last
            /\ proposer'[n].proposed = IF m.value # NoValue THEN m.value ELSE proposer[n].proposed
       ELSE /\ proposer'[n].highest_accepted = proposer[n].highest_accepted
            /\ proposer'[n].proposed = proposer[n].proposed
            /\ m.last # NoId =>
                  \E k \in Voted : k.inst = m.inst /\ k.id = proposer[n].highest_accepted
    /\ UNCHANGED <<bound, acceptor, disk, Asked, Promised, Voted>>

Joining(n, m) ==
    /\ Gathering(n, m)
    /\ proposer'[n].promises \subseteq proposer[n].promises \cup {m.from}
    /\ UNCHANGED Offered

Winning(n, m) ==
    /\ Gathering(n, m) /\ m.from \notin proposer[n].promises
    /\ proposer'[n].leader /\ proposer'[n].promises = {} /\ proposer'[n].proposed # NoValue
    /\ Cardinality(proposer[n].promises \cup {m.from}) = quorum_size
    /\ Offered' = Offered \cup {accept(n, inst(n), proposer[n].id, proposer'[n].proposed)}

\* It goes to another instance, and sends nothing of its new id.
Moving(n, i) ==
    /\ \E id \in Ids : Advancing(n, i, id)
    /\ Others(n) /\ MastersLeft(Nodes \ {n})
    /\ _master_uid'[n] = n => n \in Proposers /\ proposer'[n].id.count >= 2
    /\ proposer'[n].proposed = NoValue
    /\ n \notin Proposers => proposer'[n] = proposer[n]
    /\ \/ Draws(n, proposer[n], proposer'[n])
       \/ Sees([proposer[n] EXCEPT !.proposed = NoValue], proposer'[n])
    /\ NewlyAsked(n)
    /\ \A m \in Asked' \ Asked :
          n \in Proposers /\ m.id # proposer'[n].id /\ proposer'[n].id.count >= 1
    /\ UNCHANGED <<bound, Promised, Offered, Voted>>

\* What the shape says of one node.
LEMMA OneShape ==
    ASSUME PaxosAssumption, Shape, NEW n \in Nodes
    PROVE  /\ proposer[n] \in AnyProposer
           /\ acceptor[n] \in AnyAcceptor /\ disk[n] \in AnyAcceptor
           /\ inst(n) \in Nat /\ n \in Nat \ {0} /\ n # NoNode /\ n \in Vals
           /\ proposer[n].id \in Ids /\ proposer[n].highest \in Ids
           /\ proposer[n].highest_accepted \in Ids
BY DEF Shape, AnyProposer, AnyAcceptor, inst, PaxosAssumption, NoNode, Vals, Values

LEMMA BoundShape ==
    ASSUME PaxosAssumption, bound \in Bounds
    PROVE  /\ \A n \in Nodes : bound.count[n] \in 0..MaxCount
           /\ bound.instance \in 0..MaxInstance /\ MaxCount \in Nat /\ MaxInstance \in Nat
           /\ Proposers \subseteq Nodes
           /\ \A n \in Nodes : n \in Proposers <=> bound.count[n] > 0
<1>1. bound \in Bound /\ MaxCount \in Nat /\ MaxInstance \in Nat
  BY DEF PaxosAssumption
<1>2. bound.count \in [Nodes -> 0..MaxCount] /\ bound.instance \in 0..MaxInstance
  BY <1>1 DEF Bound
<1> QED
  BY <1>1, <1>2 DEF Proposers

\* A proposer that forgets nothing.
LEMMA HighestStays ==
    ASSUME PaxosAssumption, ~Forgets, Shape, NEW n \in Nodes, proposer'[n] \in AnyProposer
    PROVE  /\ cmp_geq(proposer'[n].highest, proposer[n].highest)
           /\ cmp_geq(proposer'[n].highest, proposer'[n].id)
<1>1. {proposer[n].highest, proposer'[n].highest, proposer'[n].id} \subseteq Ids
  BY OneShape DEF AnyProposer
<1>2. \A id \in {proposer[n].highest, proposer'[n].id} : ~cmp_gt(id, proposer'[n].highest)
  BY DEF Forgets
<1>3. ~cmp_gt(proposer[n].highest, proposer'[n].highest) /\ ~cmp_gt(proposer'[n].id, proposer'[n].highest)
  BY <1>2
<1> QED
  BY <1>1, <1>3 DEF cmp_gt, cmp_geq, Ids

LEMMA ObservedSees ==
    ASSUME PaxosAssumption, ~Forgets, Shape, NEW n \in Nodes, NEW id \in Ids, Observed(n, id)
    PROVE  \A k \in Nodes : /\ Sees(proposer[k], proposer'[k])
                            /\ k \notin Proposers => proposer'[k] = proposer[k]
<1>1. \A k \in Nodes : Sees(proposer[k], proposer[k])
  BY OneShape, GeqReflexive DEF Sees
<1>2. CASE n \notin Proposers
  BY <1>1, <1>2 DEF Observed
<1>3. CASE n \in Proposers
  <2>1. PICK q \in proposer_observe_proposal(proposer[n], id) : proposer' = Set(proposer, n, q)
    BY <1>3 DEF Observed
  <2>2. proposer[n] \in AnyProposer /\ q \in AnyProposer
    BY <2>1, OneShape, ObserveShape
  <2>3. q = proposer[n] \/ q = [proposer[n] EXCEPT !.highest = id]
    BY <2>1 DEF proposer_observe_proposal
  <2>4. proposer'[n] = q /\ \A k \in Nodes \ {n} : proposer'[k] = proposer[k]
    BY <2>1 DEF Set, Shape
  <2>5. cmp_geq(q.highest, proposer[n].highest)
    BY <2>2, <2>4, HighestStays
  <2>6. Sees(proposer[n], q)
    BY <2>2, <2>3, <2>5 DEF Sees, AnyProposer
  <2> QED
    BY <1>1, <1>3, <2>4, <2>6
<1> QED
  BY <1>2, <1>3

LEMMA PrepareDraws ==
    ASSUME PaxosAssumption, NEW p \in AnyProposer, NEW n \in Nodes
    PROVE  /\ Draws(n, p, proposer_prepare(p, n))
           /\ proposer_prepare(p, n).proposed = p.proposed
           /\ proposer_prepare(p, n).id.count = p.highest.count + 1
<1> DEFINE id == Id(p.highest.count + 1, n)
<1>1. p.highest.count \in Int
  BY DEF AnyProposer, Ids
<1>2. id.count = p.highest.count + 1 /\ id.node = n
  BY DEF Id
<1>3. id \in Ids
  BY <1>1 DEF Id, Ids, PaxosAssumption
<1> HIDE DEF id
<1>4. proposer_prepare(p, n) = [p EXCEPT !.leader = FALSE, !.promises = {}, !.copies = 0,
                                         !.id = id, !.highest = id]
  BY DEF proposer_prepare, id
<1>5. cmp_geq(id, id)
  BY <1>3, GeqReflexive
<1> QED
  BY <1>1, <1>2, <1>4, <1>5 DEF AnyProposer, Draws

LEMMA DriveDraws ==
    ASSUME PaxosAssumption, NEW p \in AnyProposer, NEW n \in Nodes, NEW u,
           ~(u = n /\ p.id.count = 1)
    PROVE  /\ Draws(n, p, drive_to_resolution(p, n, u).p)
           /\ drive_to_resolution(p, n, u).p.proposed = p.proposed
           /\ drive_to_resolution(p, n, u).sent =
                  {prepare(n, inst(n), drive_to_resolution(p, n, u).p.id)}
<1>1. drive_to_resolution(p, n, u).p = proposer_prepare(p, n)
      /\ drive_to_resolution(p, n, u).sent = {prepare(n, inst(n), proposer_prepare(p, n).id)}
  BY DEF drive_to_resolution
<1> QED
  BY <1>1, PrepareDraws

\* All that is sent are prepares of ids that the proposer knows of.
Announces(n, q, sent) ==
    \A m \in sent : m.type = "prepare" /\ m.from = n /\ m.inst = inst(n) /\ cmp_geq(q.highest, m.id)

LEMMA DrawnAnnounced ==
    ASSUME NEW n, NEW p \in AnyProposer, NEW q \in AnyProposer, Draws(n, p, q)
    PROVE  /\ Announces(n, q, {prepare(n, inst(n), q.id)})
           /\ Announces(n, q, {prepare(n, inst(n), p.highest)})
           /\ cmp_geq(q.highest, p.highest)
<1>1. q.id \in Ids /\ q.highest \in Ids /\ p.highest \in Ids
  BY DEF AnyProposer
<1>2. cmp_geq(q.highest, q.id) /\ cmp_geq(q.highest, p.highest)
  BY <1>1 DEF Draws, cmp_geq, Ids
<1> QED
  BY <1>2 DEF Announces, prepare

LEMMA ProposeDraws ==
    ASSUME PaxosAssumption, Shape, NEW p \in AnyProposer, NEW n \in Nodes, NEW u, NEW v \in Vals,
           ~(u = n /\ p.id.count = 1)
    PROVE  /\ Draws(n, p, propose_value(p, n, v, u).p)
           /\ propose_value(p, n, v, u).p.proposed = IF p.proposed = NoValue THEN v ELSE p.proposed
           /\ Announces(n, propose_value(p, n, v, u).p, propose_value(p, n, v, u).sent)
<1> DEFINE w == IF p.proposed = NoValue THEN v ELSE p.proposed
           p2 == [p EXCEPT !.proposed = w]
           d == drive_to_resolution(p2, n, u)
<1>1. w \in Vals
  BY DEF AnyProposer
<1> HIDE DEF w
<1>2. /\ p2 \in AnyProposer /\ p2.id = p.id /\ p2.highest = p.highest /\ p2.proposed = w
      /\ p2.highest_accepted = p.highest_accepted
  BY <1>1 DEF AnyProposer
<1> HIDE DEF p2
<1>3. Draws(n, p2, d.p) /\ d.p.proposed = w /\ d.sent = {prepare(n, inst(n), d.p.id)}
  BY <1>2, DriveDraws
<1>4. d.p \in AnyProposer
  BY <1>2, DriveShape
<1>5. d = [p |-> d.p, sent |-> d.sent, leaks |-> d.leaks]
  BY DEF drive_to_resolution
<1>6. propose_value(p, n, v, u) = [d EXCEPT !.sent = @ \cup Announced(p, n)]
  BY DEF propose_value, p2, w
<1> HIDE DEF d
<1>7. propose_value(p, n, v, u).p = d.p
      /\ propose_value(p, n, v, u).sent = d.sent \cup Announced(p, n)
  BY <1>5, <1>6
<1>8. Draws(n, p, d.p)
  BY <1>2, <1>3 DEF Draws
<1>9. Announces(n, d.p, d.sent) /\ Announces(n, d.p, {prepare(n, inst(n), p.highest)})
  <2>1. /\ Announces(n, d.p, {prepare(n, inst(n), d.p.id)})
        /\ Announces(n, d.p, {prepare(n, inst(n), p2.highest)})
    BY <1>2, <1>3, <1>4, DrawnAnnounced
  <2> QED
    BY <1>2, <1>3, <2>1
<1>10. Announces(n, d.p, d.sent \cup Announced(p, n))
  BY <1>9 DEF Announces, Announced
<1> QED
  BY <1>3, <1>7, <1>8, <1>10 DEF w

-----------------------------------------------------------------------------
(* Which step is which                                                     *)

\* A proposer that is driven.
LEMMA DrivenAsks ==
    ASSUME PaxosAssumption, AInv, NEW n \in Nodes, NEW d, inst(n) < bound.instance,
           Driven(n, d), d.p \in AnyProposer, Draws(n, proposer[n], d.p),
           Announces(n, d.p, d.sent), MastersLeft(Nodes),
           \/ d.p.proposed = proposer[n].proposed
           \/ proposer[n].proposed = NoValue /\ d.p.proposed \in App \cup {n},
           UNCHANGED <<bound, acceptor, disk>>
    PROVE  Asking(n)
<1>1. proposer' = [proposer EXCEPT ![n] = d.p] /\ msgs' = msgs \cup d.sent
      /\ d.p.id.count <= bound.count[n]
  BY DEF Driven, Set
<1>2. proposer'[n] = d.p /\ Others(n)
  BY <1>1 DEF Others, AInv, PInv, Shape
<1>3. proposer[n].highest.count >= 0
  <2>1. proposer[n].highest \in Ids /\ proposer[n].id \in Ids
    BY OneShape DEF AInv, PInv
  <2>2. cmp_geq(proposer[n].highest, proposer[n].id) /\ proposer[n].id.count >= 0
    BY DEF AInv, ProposersKept
  <2> QED
    BY <2>1, <2>2 DEF cmp_geq, Ids
<1>4. d.p.id.count > 0
  <2>1. proposer[n].highest \in Ids /\ d.p.id \in Ids
    BY OneShape DEF AInv, PInv, AnyProposer
  <2> QED
    BY <1>3, <2>1 DEF Draws, Ids
<1>5. n \in Proposers /\ d.p.id.count <= MaxCount
  <2>1. bound.count[n] \in 0..MaxCount /\ (n \in Proposers <=> bound.count[n] > 0) /\ MaxCount \in Nat
    BY BoundShape DEF AInv
  <2>2. d.p.id.count \in Int
    BY DEF AnyProposer, Ids
  <2> QED
    BY <1>1, <1>4, <2>1, <2>2
<1>6. /\ Asked' = Asked \cup d.sent
      /\ UNCHANGED <<Promised, Offered, Voted>>
  <2>1. \A m \in d.sent : m.type = "prepare"
    BY DEF Announces
  <2>2. {m \in d.sent : m.type = "prepare"} = d.sent
    BY <2>1
  <2>3. /\ {m \in d.sent : m.type = "promise"} = {}
        /\ {m \in d.sent : m.type = "accept"} = {}
        /\ {m \in d.sent : m.type = "accepted"} = {}
    BY <2>1
  <2>4. /\ Asked' = Asked \cup {m \in d.sent : m.type = "prepare"}
        /\ Promised' = Promised \cup {m \in d.sent : m.type = "promise"}
        /\ Offered' = Offered \cup {m \in d.sent : m.type = "accept"}
        /\ Voted' = Voted \cup {m \in d.sent : m.type = "accepted"}
    BY <1>1, Adds, Zenon
  <2>5. Asked' = Asked \cup d.sent
    BY <2>2, <2>4
  <2>6. UNCHANGED <<Promised, Offered, Voted>>
    BY <2>3, <2>4
  <2> QED
    BY <2>5, <2>6
<1>7. NewlyAsked(n)
  BY <1>2, <1>6 DEF NewlyAsked, Announces
<1> QED
  BY <1>2, <1>5, <1>6, <1>7 DEF Asking

LEMMA LeftAsTheyAre ==
    ASSUME PaxosAssumption, Shape, UNCHANGED <<bound, proposer, acceptor, disk, msgs>>, MastersLeft(Nodes)
    PROVE  Hearing
<1>1. \A k \in Nodes : Sees(proposer[k], proposer[k])
  BY OneShape, GeqReflexive DEF Sees
<1>2. UNCHANGED <<Asked, Promised, Offered, Voted>>
  BY AddsNothing
<1> QED
  BY <1>1, <1>2 DEF Hearing

LEMMA LeaseKind ==
    ASSUME PaxosAssumption, AInv, NEW n \in Nodes, lease_expired(n)
    PROVE  Asking(n) \/ Hearing
<1>1. MastersLeft(Nodes)
  BY DEF lease_expired, Set, MastersLeft, AInv, PInv, Shape
<1>2. UNCHANGED <<bound, acceptor, disk>> /\ inst(n) < bound.instance
  BY DEF lease_expired
<1>3. CASE _master_attempt[n]
  <2>1. UNCHANGED <<proposer, msgs>>
    BY <1>3 DEF lease_expired
  <2> QED
    BY <1>1, <1>2, <2>1, LeftAsTheyAre DEF AInv, PInv
<1>4. CASE ~_master_attempt[n]
  <2> DEFINE d == propose_value(proposer[n], n, n, NoNode)
  <2>1. Driven(n, d)
    BY <1>4 DEF lease_expired
  <2>2. proposer[n] \in AnyProposer /\ n \in Vals /\ n # NoNode
    BY OneShape DEF AInv, PInv
  <2>3. Shape
    BY DEF AInv, PInv
  <2>4. d.p \in AnyProposer
    BY <2>2, <2>3, ProposeShape
  <2>5. /\ Draws(n, proposer[n], d.p) /\ Announces(n, d.p, d.sent)
        /\ d.p.proposed = IF proposer[n].proposed = NoValue THEN n ELSE proposer[n].proposed
    BY <2>2, <2>3, ProposeDraws
  <2> HIDE DEF d
  <2> QED
    BY <1>1, <1>2, <2>1, <2>4, <2>5, DrivenAsks
<1> QED
  BY <1>3, <1>4

LEMMA DriveKind ==
    ASSUME PaxosAssumption, AInv, NEW n \in Nodes, Drive(n)
    PROVE  Asking(n)
<1> DEFINE d == drive_to_resolution(proposer[n], n, _master_uid[n])
<1>1. UNCHANGED <<bound, acceptor, disk, _master_uid>> /\ inst(n) < bound.instance /\ Driven(n, d)
  BY DEF Drive, lease
<1>2. MastersLeft(Nodes)
  BY <1>1 DEF MastersLeft
<1>3. Shape /\ proposer[n] \in AnyProposer
  BY OneShape DEF AInv, PInv
<1>4. ~(_master_uid[n] = n /\ proposer[n].id.count = 1)
  BY DEF AInv, ProposersKept
<1>5. d.p \in AnyProposer
  BY <1>3, DriveShape
<1>6. /\ Draws(n, proposer[n], d.p) /\ d.p.proposed = proposer[n].proposed
      /\ d.sent = {prepare(n, inst(n), d.p.id)}
  BY <1>3, <1>4, DriveDraws
<1> HIDE DEF d
<1>7. Announces(n, d.p, {prepare(n, inst(n), d.p.id)})
  BY <1>3, <1>5, <1>6, DrawnAnnounced
<1>8. Announces(n, d.p, d.sent)
  BY <1>6, <1>7
<1> QED
  BY <1>1, <1>2, <1>5, <1>6, <1>8, DrivenAsks

LEMMA ClientKind ==
    ASSUME PaxosAssumption, AInv, NEW n \in Nodes, NEW v \in App, handle_propose(n, v)
    PROVE  Asking(n)
<1> DEFINE d == propose_value(proposer[n], n, v, n)
<1>1. /\ UNCHANGED <<bound, acceptor, disk, _master_uid>> /\ inst(n) < bound.instance
      /\ Driven(n, d) /\ _master_uid[n] = n
  BY DEF handle_propose, lease
<1>2. MastersLeft(Nodes)
  BY <1>1 DEF MastersLeft
<1>3. Shape /\ proposer[n] \in AnyProposer /\ v \in Vals
  BY OneShape DEF AInv, PInv, Vals, Values
<1>4. ~(n = n /\ proposer[n].id.count = 1)
  <2>1. proposer[n].id.count >= 2
    BY <1>1 DEF AInv, ProposersKept
  <2> QED
    BY <2>1
<1>5. d.p \in AnyProposer
  BY <1>3, ProposeShape
<1>6. /\ Draws(n, proposer[n], d.p) /\ Announces(n, d.p, d.sent)
      /\ d.p.proposed = IF proposer[n].proposed = NoValue THEN v ELSE proposer[n].proposed
  BY <1>3, <1>4, ProposeDraws
<1> HIDE DEF d
<1> QED
  BY <1>1, <1>2, <1>5, <1>6, DrivenAsks

LEMMA AddsOne ==
    ASSUME NEW m, msgs' = msgs \cup {m}
    PROVE  /\ m.type = "promise" => /\ Promised' = Promised \cup {m}
                                    /\ UNCHANGED Asked /\ UNCHANGED Offered /\ UNCHANGED Voted
           /\ m.type = "accept" => /\ Offered' = Offered \cup {m}
                                   /\ UNCHANGED Asked /\ UNCHANGED Promised /\ UNCHANGED Voted
           /\ m.type = "accepted" => /\ Voted' = Voted \cup {m}
                                     /\ UNCHANGED Asked /\ UNCHANGED Promised /\ UNCHANGED Offered
<1>1. CASE m.type = "promise"
  BY <1>1 DEF Asked, Promised, Offered, Voted
<1>2. CASE m.type = "accept"
  BY <1>2 DEF Asked, Promised, Offered, Voted
<1>3. CASE m.type = "accepted"
  BY <1>3 DEF Asked, Promised, Offered, Voted
<1> QED
  BY <1>1, <1>2, <1>3

LEMMA AddsRefusals ==
    ASSUME NEW S \in SUBSET Refusals, msgs' = msgs \cup S
    PROVE  UNCHANGED <<Asked, Promised, Offered, Voted>>
<1>1. \A m \in S : m.type = "nack"
  BY DEF Refusals
<1> QED
  BY <1>1 DEF Asked, Promised, Offered, Voted

LEMMA PrepareKind ==
    ASSUME PaxosAssumption, ~Forgets, AInv, NEW n \in Nodes, NEW m \in msgs, receive_prepare(n, m)
    PROVE  Hearing
<1>1. m \in Prepares /\ m.id \in Ids /\ m \in Asked /\ Shape
  BY MessageKinds DEF AInv, PInv, Shape, receive_prepare, Prepares, Asked
<1>2. Observed(n, m.id) /\ UNCHANGED <<bound, _master_uid>>
  BY DEF receive_prepare, lease
<1>3. \A k \in Nodes : /\ Sees(proposer[k], proposer'[k])
                       /\ k \notin Proposers => proposer'[k] = proposer[k]
  BY <1>1, <1>2, ObservedSees
<1>4. MastersLeft(Nodes)
  BY <1>2 DEF MastersLeft
<1>5. CASE Heard(n, m) /\ cmp_geq(m.id, acceptor[n].promised)
  <2> DEFINE said == promise(n, m.from, m.inst, m.id, acceptor[n])
  <2>1. Promising(n, m) /\ msgs' = msgs \cup {said}
    BY <1>1, <1>5 DEF receive_prepare, Promising, Heard
  <2>2. said.type = "promise"
    BY DEF promise
  <2> HIDE DEF said
  <2>3. Promised' = Promised \cup {said} /\ UNCHANGED Asked /\ UNCHANGED Offered /\ UNCHANGED Voted
    BY <2>1, <2>2, AddsOne
  <2> QED
    BY <1>1, <1>2, <1>3, <1>4, <2>1, <2>3 DEF Hearing, said
<1>6. CASE ~(Heard(n, m) /\ cmp_geq(m.id, acceptor[n].promised))
  <2> DEFINE sent == IF Heard(n, m) THEN Nacks(n, m) ELSE {}
  <2>1. UNCHANGED <<acceptor, disk>> /\ msgs' = msgs \cup sent
    BY <1>6 DEF receive_prepare
  <2>2. sent \in SUBSET Refusals
    BY <1>1, NacksShape
  <2>3. UNCHANGED <<Asked, Promised, Offered, Voted>>
    BY <2>1, <2>2, AddsRefusals
  <2> QED
    BY <1>2, <1>3, <1>4, <2>1, <2>3 DEF Hearing
<1> QED
  BY <1>5, <1>6

LEMMA AcceptKind ==
    ASSUME PaxosAssumption, ~Forgets, AInv, NEW n \in Nodes, NEW m \in msgs, receive_accept(n, m)
    PROVE  Hearing
<1>1. m \in Votes /\ m.id \in Ids /\ m \in Offered /\ Shape
  BY MessageKinds DEF AInv, PInv, Shape, receive_accept, Votes, Offered
<1>2. Observed(n, m.id) /\ UNCHANGED <<bound, _master_uid>>
  BY DEF receive_accept, lease
<1>3. \A k \in Nodes : /\ Sees(proposer[k], proposer'[k])
                       /\ k \notin Proposers => proposer'[k] = proposer[k]
  BY <1>1, <1>2, ObservedSees
<1>4. MastersLeft(Nodes)
  BY <1>2 DEF MastersLeft
<1>5. CASE Heard(n, m) /\ cmp_geq(m.id, acceptor[n].promised)
  <2> DEFINE said == accepted(n, m.inst, m.id, m.value)
  <2>1. Accepting(n, m) /\ msgs' = msgs \cup {said}
    BY <1>1, <1>5 DEF receive_accept, Accepting, Heard
  <2>2. said.type = "accepted"
    BY DEF accepted
  <2> HIDE DEF said
  <2>3. Voted' = Voted \cup {said} /\ UNCHANGED Asked /\ UNCHANGED Promised /\ UNCHANGED Offered
    BY <2>1, <2>2, AddsOne
  <2> QED
    BY <1>1, <1>2, <1>3, <1>4, <2>1, <2>3 DEF Hearing, said
<1>6. CASE ~(Heard(n, m) /\ cmp_geq(m.id, acceptor[n].promised))
  <2> DEFINE sent == IF Heard(n, m) THEN Nacks(n, m) ELSE {}
  <2>1. UNCHANGED <<acceptor, disk>> /\ msgs' = msgs \cup sent
    BY <1>6 DEF receive_accept
  <2>2. sent \in SUBSET Refusals
    BY <1>1, NacksShape
  <2>3. UNCHANGED <<Asked, Promised, Offered, Voted>>
    BY <2>1, <2>2, AddsRefusals
  <2> QED
    BY <1>2, <1>3, <1>4, <2>1, <2>3 DEF Hearing
<1> QED
  BY <1>5, <1>6

LEMMA NackKind ==
    ASSUME PaxosAssumption, ~Forgets, AInv, NEW n \in Nodes, NEW m \in msgs, receive_nack(n, m)
    PROVE  Hearing
<1>1. m.promised \in Ids /\ Shape
  BY MessageKinds DEF AInv, PInv, Shape, receive_nack, Refusals
<1>2. Observed(n, m.promised) /\ UNCHANGED <<bound, acceptor, disk, _master_uid, msgs>>
  BY DEF receive_nack, lease
<1>3. UNCHANGED <<Asked, Promised, Offered, Voted>>
  BY <1>2, AddsNothing
<1>4. MastersLeft(Nodes)
  BY <1>2 DEF MastersLeft
<1>5. \A k \in Nodes : /\ Sees(proposer[k], proposer'[k])
                       /\ k \notin Proposers => proposer'[k] = proposer[k]
  BY <1>1, <1>2, ObservedSees
<1> QED
  BY <1>2, <1>3, <1>4, <1>5 DEF Hearing

\* What a promise that counts does to a proposer.
LEMMA PromiseEffect ==
    ASSUME NEW p \in AnyProposer, NEW m \in Promises, ~p.leader, m.id = p.id
    PROVE  LET q == proposer_receive_promise(p, m)
               size == Cardinality(p.promises) + p.copies + 1
           IN  /\ q.id = p.id /\ q.highest = p.highest
               /\ IF m.last # NoId /\ cmp_gt(m.last, p.highest_accepted)
                  THEN /\ q.highest_accepted = m.last
                       /\ q.proposed = IF m.value # NoValue THEN m.value ELSE p.proposed
                  ELSE /\ q.highest_accepted = p.highest_accepted /\ q.proposed = p.proposed
               /\ q.leader = (size = quorum_size)
               /\ q.promises = IF size = quorum_size THEN {} ELSE p.promises \cup {m.from}
<1> DEFINE newer == m.last # NoId /\ cmp_gt(m.last, p.highest_accepted)
           size == Cardinality(p.promises) + p.copies + 1
<1>1. proposer_receive_promise(p, m) =
        [p EXCEPT !.highest_accepted = IF newer THEN m.last ELSE @,
                  !.proposed = IF newer /\ m.value # NoValue THEN m.value ELSE @,
                  !.leader = size = quorum_size,
                  !.promises = IF size = quorum_size THEN {} ELSE @ \cup {m.from},
                  !.copies = IF size = quorum_size THEN 0
                             ELSE IF m.from \in p.promises THEN @ + 1 ELSE @]
  BY DEF proposer_receive_promise
<1> HIDE DEF newer, size
<1>2. proposer_receive_promise(p, m).leader = (size = quorum_size)
  BY <1>1 DEF AnyProposer
<1>3. proposer_receive_promise(p, m).promises
        = IF size = quorum_size THEN {} ELSE p.promises \cup {m.from}
  BY <1>1 DEF AnyProposer
<1>4. /\ proposer_receive_promise(p, m).highest_accepted = IF newer THEN m.last ELSE p.highest_accepted
      /\ proposer_receive_promise(p, m).proposed
            = IF newer /\ m.value # NoValue THEN m.value ELSE p.proposed
  BY <1>1 DEF AnyProposer
<1>5. proposer_receive_promise(p, m).id = p.id /\ proposer_receive_promise(p, m).highest = p.highest
  BY <1>1 DEF AnyProposer
<1> QED
  BY <1>2, <1>3, <1>4, <1>5 DEF newer, size

LEMMA PromiseKind ==
    ASSUME PaxosAssumption, ~Forgets, AInv, NEW n \in Nodes, NEW m \in msgs,
           receive_promise(n, m), ~Short(n, m), ~PassesOver(n, m)
    PROVE  Hearing \/ (m \in Promised /\ (Joining(n, m) \/ Winning(n, m)))
<1>1. m \in Promises /\ m \in Promised /\ m.id \in Ids /\ Shape /\ m.to = n /\ m.inst = inst(n)
  BY MessageKinds DEF AInv, PInv, Shape, receive_promise, Promises, Promised
<1>2. UNCHANGED <<bound, acceptor, disk, _master_uid>>
  BY DEF receive_promise, lease
<1>3. MastersLeft(Nodes)
  BY <1>2 DEF MastersLeft
<1>4. n \in Proposers /\ proposer[n].id.count >= 1
  BY <1>1 DEF AInv, PromisedKept, AskedKept
<1>5. PICK p \in proposer_observe_proposal(proposer[n], m.id) :
        LET q == proposer_receive_promise(p, m)
            elected == q.leader /\ ~p.leader /\ q.proposed # NoValue
        IN  /\ proposer' = Set(proposer, n, q)
            /\ msgs' = msgs \cup IF elected THEN {accept(n, m.inst, q.id, q.proposed)} ELSE {}
  BY DEF receive_promise
<1> DEFINE q == proposer_receive_promise(p, m)
<1>6. proposer[n] \in AnyProposer /\ p \in AnyProposer /\ q \in AnyProposer
  BY <1>1, OneShape, ObserveShape, PromiseShape
<1>7. proposer'[n] = q /\ Others(n)
  BY <1>1, <1>5 DEF Set, Shape, Others
<1>8. Sees(proposer[n], p)
  <2>1. p = proposer[n] \/ p = [proposer[n] EXCEPT !.highest = m.id]
    BY DEF proposer_observe_proposal
  <2>2. q.highest = p.highest
    BY <1>6 DEF proposer_receive_promise, AnyProposer
  <2>3. cmp_geq(p.highest, proposer[n].highest)
    BY <1>1, <1>6, <1>7, <2>2, HighestStays
  <2> QED
    BY <1>6, <2>1, <2>3 DEF Sees, AnyProposer
<1>9. \A k \in Nodes : Sees(proposer[k], proposer[k])
  BY <1>1, OneShape, GeqReflexive DEF Sees
<1>10. CASE p.leader \/ m.id # p.id
  <2>1. q = p
    BY <1>10 DEF proposer_receive_promise
  <2>2. msgs' = msgs
    BY <1>5, <2>1
  <2>3. UNCHANGED <<Asked, Promised, Offered, Voted>>
    BY <2>2, AddsNothing
  <2>4. \A k \in Nodes : /\ Sees(proposer[k], proposer'[k])
                         /\ k \notin Proposers => proposer'[k] = proposer[k]
    BY <1>4, <1>7, <1>8, <1>9, <2>1 DEF Others
  <2> QED
    BY <1>2, <1>3, <2>3, <2>4 DEF Hearing
<1>11. CASE ~p.leader /\ m.id = p.id
  <2>1. /\ p.id = proposer[n].id /\ p.promises = proposer[n].promises /\ p.copies = proposer[n].copies
        /\ p.highest_accepted = proposer[n].highest_accepted /\ p.proposed = proposer[n].proposed
        /\ p.leader = proposer[n].leader /\ cmp_geq(p.highest, proposer[n].highest)
    BY <1>8 DEF Sees
  <2>2. IsFiniteSet(p.promises)
    BY <1>6, FS_Subset DEF AnyProposer, PaxosAssumption
  <2>3. PICK had : had = Cardinality(p.promises) /\ had \in Nat
    BY <2>2, FS_CardinalityType
  <2> DEFINE size == had + p.copies + 1
  <2>4. /\ q.id = p.id /\ q.highest = p.highest
        /\ IF m.last # NoId /\ cmp_gt(m.last, p.highest_accepted)
           THEN /\ q.highest_accepted = m.last
                /\ q.proposed = IF m.value # NoValue THEN m.value ELSE p.proposed
           ELSE /\ q.highest_accepted = p.highest_accepted /\ q.proposed = p.proposed
        /\ q.leader = (size = quorum_size)
        /\ q.promises = IF size = quorum_size THEN {} ELSE p.promises \cup {m.from}
    BY <1>1, <1>6, <1>11, <2>3, PromiseEffect
  <2>5. m.last # NoId => \/ cmp_gt(m.last, p.highest_accepted)
                         \/ \E k \in Voted : k.inst = m.inst /\ k.id = proposer[n].highest_accepted
    BY <1>1, <1>11, <2>1 DEF PassesOver, Promises, Voted
  <2>6. m.id.count # 0
    <3>1. proposer[n].id.count \in Int
      BY <1>6 DEF AnyProposer, Ids
    <3> QED
      BY <1>4, <1>11, <2>1, <3>1
  <2>7. msgs' = msgs \cup IF q.leader /\ q.proposed # NoValue
                          THEN {accept(n, m.inst, q.id, q.proposed)} ELSE {}
    BY <1>5, <1>11
  <2> HIDE DEF q, size
  <2>8. CASE q.leader /\ q.proposed # NoValue
    <3> DEFINE said == accept(n, m.inst, q.id, q.proposed)
    <3>1. msgs' = msgs \cup {said} /\ said.type = "accept"
      BY <2>7, <2>8 DEF accept
    <3> HIDE DEF said
    <3>2. Offered' = Offered \cup {said} /\ UNCHANGED Asked /\ UNCHANGED Promised /\ UNCHANGED Voted
      BY <3>1, AddsOne
    <3>3. Gathering(n, m)
      BY <1>1, <1>2, <1>3, <1>7, <1>11, <2>1, <2>4, <2>5, <2>6, <3>2 DEF Gathering
    <3>4. size = quorum_size /\ q.promises = {}
      BY <2>4, <2>8
    <3>5. Offered' = Offered \cup {accept(n, inst(n), proposer[n].id, proposer'[n].proposed)}
      BY <1>1, <1>7, <2>1, <2>4, <3>2 DEF said
    <3>6. m.from \notin p.promises /\ ~(p.copies > 0)
      BY <1>1, <1>7, <1>11, <2>1, <2>8 DEF Short, Promises
    <3>7. p.copies \in Nat
      BY <1>6 DEF AnyProposer
    <3>8. size = had + 1
      BY <2>3, <3>6, <3>7 DEF size
    <3>9. Cardinality(p.promises \cup {m.from}) = had + 1
      BY <2>2, <2>3, <3>6, FS_AddElement
    <3> QED
      BY <1>1, <1>7, <2>1, <2>8, <3>3, <3>4, <3>5, <3>6, <3>8, <3>9 DEF Winning
  <2>9. CASE ~(q.leader /\ q.proposed # NoValue)
    <3>1. msgs' = msgs
      BY <2>7, <2>9
    <3>2. UNCHANGED <<Asked, Promised, Offered, Voted>>
      BY <3>1, AddsNothing
    <3>3. Gathering(n, m)
      BY <1>1, <1>2, <1>3, <1>7, <1>11, <2>1, <2>4, <2>5, <2>6, <3>2 DEF Gathering
    <3>4. proposer'[n].promises \subseteq proposer[n].promises \cup {m.from}
      BY <1>7, <2>1, <2>4
    <3> QED
      BY <1>1, <3>2, <3>3, <3>4 DEF Joining
  <2> QED
    BY <2>8, <2>9
<1> QED
  BY <1>10, <1>11

\* The proposer of a master in its next instance, which has been seen before.
LEMMA ReadyDraws ==
    ASSUME PaxosAssumption, NEW p \in AnyProposer, NEW n \in Nodes, p.highest.count >= 1,
           NEW q \in proposer_observe_proposal(
               [proposer_prepare(p, n) EXCEPT !.leader = proposer_prepare(p, n).id = Id(1, n)],
               Id(1, n)),
           cmp_geq(q.highest, q.id)
    PROVE  Draws(n, p, q) /\ q.id.count >= 2 /\ q.proposed = p.proposed
<1> DEFINE r == proposer_prepare(p, n)
           r1 == [r EXCEPT !.leader = r.id = Id(1, n)]
<1>1. r \in AnyProposer /\ p.highest.count \in Int
  BY PrepareShape DEF AnyProposer, Ids
<1>2. Draws(n, p, r) /\ r.proposed = p.proposed /\ r.id.count = p.highest.count + 1
  BY PrepareDraws
<1>3. r.id.count >= 2 /\ Id(1, n).count = 1
  BY <1>1, <1>2 DEF Id
<1>4. r.id # Id(1, n)
  BY <1>3
<1> HIDE DEF r
<1>5. r1 = [r EXCEPT !.leader = FALSE]
  BY <1>4
<1>6. /\ r1 \in AnyProposer /\ Draws(n, p, r1) /\ r1.proposed = p.proposed /\ r1.id = r.id
  BY <1>1, <1>2, <1>5 DEF AnyProposer, Draws
<1> HIDE DEF r1
<1>7. q = r1 \/ q = [r1 EXCEPT !.highest = Id(1, n)]
  BY DEF proposer_observe_proposal, r1, r
<1> QED
  BY <1>3, <1>6, <1>7 DEF Draws, AnyProposer

\* A proposer draws twice, and its proposal is no matter.
LEMMA DrawsTwice ==
    ASSUME NEW n, NEW p \in AnyProposer, NEW r \in AnyProposer, NEW q \in AnyProposer,
           Draws(n, p, r), Draws(n, [r EXCEPT !.proposed = NoValue], q)
    PROVE  Draws(n, p, q) /\ q.id.count > r.highest.count /\ cmp_geq(q.highest, r.highest)
<1>1. {p.highest, r.id, r.highest, q.id, q.highest} \subseteq Ids
  BY DEF AnyProposer
<1> DEFINE r0 == [r EXCEPT !.proposed = NoValue]
<1>2. r0.highest = r.highest /\ r0.highest_accepted = r.highest_accepted
  BY DEF AnyProposer
<1> HIDE DEF r0
<1>3. Draws(n, r0, q)
  BY DEF r0
<1> QED
  BY <1>1, <1>2, <1>3 DEF Draws, cmp_geq, Ids

\* A node that has offered a value has drawn an id.
LEMMA OfferedDrawn ==
    ASSUME PaxosAssumption, AInv, NEW n \in Nodes,
           _master_uid[n] = n \/ \E k \in Offered : k.from = n
    PROVE  n \in Proposers /\ proposer[n].id.count >= 1 /\ proposer[n].highest.count >= 1
<1>1. proposer[n].id \in Ids /\ proposer[n].highest \in Ids
  BY OneShape DEF AInv, PInv
<1>2. cmp_geq(proposer[n].highest, proposer[n].id)
  BY DEF AInv, ProposersKept
<1>3. n \in Proposers /\ proposer[n].id.count >= 1
  <2>1. CASE _master_uid[n] = n
    <3>1. n \in Proposers /\ proposer[n].id.count >= 2
      BY <2>1 DEF AInv, ProposersKept
    <3> QED
      BY <1>1, <3>1 DEF Ids
  <2>2. ASSUME NEW k \in Offered, k.from = n PROVE n \in Proposers /\ proposer[n].id.count >= 1
    <3>1. n \in Proposers /\ cmp_geq(proposer[n].id, k.id) /\ k.id.count \in 1..MaxCount
      BY <2>2 DEF AInv, OfferedKept, LedKept
    <3>2. k.id \in Ids
      BY KindShapes DEF AInv, PInv, Votes
    <3> QED
      BY <1>1, <3>1, <3>2 DEF cmp_geq, Ids
  <2> QED
    BY <2>1, <2>2
<1> QED
  BY <1>1, <1>2, <1>3 DEF cmp_geq, Ids

\* What a master sends as it proposes itself again: the offer that was just
\* taken, or prepares of an id that it gives up at once.
LEMMA AgainSends ==
    ASSUME PaxosAssumption, AInv, NEW n \in Nodes, NEW k \in Offered,
           k.from = n, k.inst = inst(n),
           msgs' = msgs \cup propose_value(proposer[n], n, n, n).sent
    PROVE  LET d == propose_value(proposer[n], n, n, n)
           IN  /\ d.p = proposer[n] \/ Draws(n, proposer[n], d.p)
               /\ UNCHANGED <<Promised, Offered, Voted>>
               /\ Asked \subseteq Asked'
               /\ \A m \in Asked' \ Asked :
                     m.from = n /\ m.inst = inst(n) /\ cmp_geq(d.p.highest, m.id)
               /\ d.p = proposer[n] => UNCHANGED Asked
<1> DEFINE d == propose_value(proposer[n], n, n, n)
<1>1. Shape /\ proposer[n] \in AnyProposer /\ proposer[n].id \in Ids /\ n \in Vals
  BY OneShape DEF AInv, PInv
<1>2. k \in Votes /\ k.type = "accept" /\ k.id \in Ids
  BY <1>1, KindShapes DEF Offered, Votes
<1>3. CASE proposer[n].id.count = 1
  <2>1. k.id = proposer[n].id
    <3>1. /\ k.id.node = n /\ cmp_geq(proposer[n].id, k.id) /\ k.id.count \in 1..MaxCount
          /\ proposer[n].id.node = n
      BY DEF AInv, OfferedKept, LedKept, ProposersKept
    <3>2. k.id.count = proposer[n].id.count
      BY <1>1, <1>2, <1>3, <3>1 DEF cmp_geq, Ids
    <3> QED
      BY <1>1, <1>2, <3>1, <3>2 DEF Ids
  <2>2. proposer[n].leader /\ proposer[n].proposed = k.value /\ k.value \in Values
    BY <2>1 DEF AInv, OfferedKept, LedKept
  <2>3. proposer[n].proposed # NoValue
    BY <2>2 DEF PaxosAssumption, Values
  <2>4. [proposer[n] EXCEPT !.proposed = IF @ = NoValue THEN n ELSE @] = proposer[n]
    BY <1>1, <2>3 DEF AnyProposer
  <2>5. drive_to_resolution(proposer[n], n, n)
           = [p |-> proposer[n],
              sent |-> {accept(n, inst(n), proposer[n].id, proposer[n].proposed),
                        prepare(n, inst(n), proposer[n].id)},
              leaks |-> {[id |-> proposer[n].id, value |-> proposer[n].proposed]}]
    BY <1>3 DEF drive_to_resolution
  <2>6. Announced(proposer[n], n) = {}
    BY <2>2 DEF Announced
  <2>7. /\ d.p = proposer[n]
        /\ d.sent = {accept(n, inst(n), proposer[n].id, proposer[n].proposed),
                     prepare(n, inst(n), proposer[n].id)}
    BY <2>4, <2>5, <2>6 DEF propose_value
  <2>8. accept(n, inst(n), proposer[n].id, proposer[n].proposed) = k
    BY <1>2, <2>1, <2>2 DEF accept, Votes
  <2>9. prepare(n, inst(n), proposer[n].id) \in msgs
    <3>1. PICK j \in Asked : j.from = n /\ j.inst = inst(n) /\ j.id = proposer[n].id
      BY <2>1 DEF AInv, OfferedKept
    <3>2. j = prepare(n, inst(n), proposer[n].id)
      BY <1>1, <3>1, KindShapes DEF prepare, Prepares, Asked
    <3> QED
      BY <3>1, <3>2 DEF Asked
  <2>10. msgs' = msgs
    BY <2>7, <2>8, <2>9 DEF Offered
  <2>11. UNCHANGED <<Asked, Promised, Offered, Voted>>
    BY <2>10, AddsNothing
  <2> QED
    BY <2>7, <2>11
<1>4. CASE proposer[n].id.count # 1
  <2>1. Draws(n, proposer[n], d.p) /\ Announces(n, d.p, d.sent)
    BY <1>1, <1>4, ProposeDraws
  <2> HIDE DEF d
  <2>2. \A m \in d.sent : m.type = "prepare"
    BY <2>1 DEF Announces
  <2>3. Asked' = Asked \cup d.sent /\ UNCHANGED <<Promised, Offered, Voted>>
    <3>1. msgs' = msgs \cup d.sent
      BY DEF d
    <3> QED
      BY <2>2, <3>1 DEF Asked, Promised, Offered, Voted
  <2>4. d.p # proposer[n]
    <3>1. cmp_geq(proposer[n].highest, proposer[n].id)
      BY DEF AInv, ProposersKept
    <3>2. d.p.id.count > proposer[n].highest.count /\ proposer[n].highest \in Ids
      BY <1>1, <2>1, OneShape DEF Draws
    <3> QED
      BY <1>1, <3>1, <3>2 DEF cmp_geq, Ids
  <2>5. \A m \in Asked' \ Asked : m.from = n /\ m.inst = inst(n) /\ cmp_geq(d.p.highest, m.id)
    BY <2>1, <2>3 DEF Announces
  <2> QED
    BY <2>1, <2>3, <2>4, <2>5 DEF d
<1> QED
  BY <1>3, <1>4

LEMMA AdvanceKind ==
    ASSUME PaxosAssumption, ~Forgets, AInv, NEW n \in Nodes, NEW m \in Voted, m.inst = inst(n),
           UNCHANGED bound, advance_instance(n, m.value)
    PROVE  \E i \in Nat : Moving(n, i)
<1> DEFINE v == m.value
           master == IF v \in Nodes THEN v ELSE _master_uid[n]
           again == v = n /\ "lease" \notin timers[n]
           d == IF again THEN propose_value(proposer[n], n, n, n)
                ELSE [p |-> proposer[n], sent |-> {}, leaks |-> {}]
           p0 == [d.p EXCEPT !.proposed = NoValue]
           r == proposer_prepare(p0, n)
           Ready == IF master = NoNode THEN {p0}
                    ELSE IF n \notin Proposers THEN {p0}
                    ELSE IF master # n THEN proposer_observe_proposal(p0, Id(1, master))
                    ELSE proposer_observe_proposal([r EXCEPT !.leader = r.id = Id(1, n)], Id(1, n))
<1>1. /\ inst(n) + 1 <= bound.instance
      /\ _master_uid' = Set(_master_uid, n, master)
      /\ msgs' = msgs \cup d.sent
      /\ \E p \in Ready : proposer' = Set(proposer, n, p)
  BY DEF advance_instance
<1>2. PICK q \in Ready : proposer' = Set(proposer, n, q)
  BY <1>1
<1>3. /\ Shape /\ proposer[n] \in AnyProposer /\ n \in Vals /\ n # NoNode /\ inst(n) \in Nat
      /\ proposer[n].id \in Ids /\ proposer[n].highest \in Ids
  BY OneShape DEF AInv, PInv
<1>4. v \in Vals
  BY <1>3, KindShapes DEF Votes
<1>5. PICK i \in Nat, id \in Ids : Advancing(n, i, id)
  BY <1>3, <1>4, AdvanceSorted
<1>6. proposer'[n] = q /\ Others(n)
  BY <1>2, <1>3 DEF Set, Shape, Others
<1>7. MastersLeft(Nodes \ {n}) /\ _master_uid'[n] = master
  BY <1>1, <1>3 DEF Set, Shape, MastersLeft
<1>8. v = n => \E k \in Offered : k.from = n /\ k.inst = inst(n)
  <2>1. PICK k \in Offered : k.inst = inst(n) /\ k.value = v
    BY DEF AInv, VotedKept
  <2> QED
    BY <2>1 DEF AInv, OfferedKept
<1>9. master = n => n \in Proposers /\ proposer[n].id.count >= 1 /\ proposer[n].highest.count >= 1
  <2>1. master = n => v = n \/ _master_uid[n] = n
    OBVIOUS
  <2> HIDE DEF master
  <2> QED
    BY <1>8, <2>1, OfferedDrawn
<1>10. again => master = n
  OBVIOUS
<1> HIDE DEF v, master, again
<1>11. /\ d.p = proposer[n] \/ Draws(n, proposer[n], d.p)
       /\ UNCHANGED <<Promised, Offered, Voted>>
       /\ Asked \subseteq Asked'
       /\ \A j \in Asked' \ Asked : j.from = n /\ j.inst = inst(n) /\ cmp_geq(d.p.highest, j.id)
       /\ d.p = proposer[n] => UNCHANGED Asked
       /\ ~again => d.p = proposer[n]
  <2>1. CASE again
    <3>1. PICK k \in Offered : k.from = n /\ k.inst = inst(n)
      BY <1>8, <2>1 DEF again
    <3>2. d = propose_value(proposer[n], n, n, n)
      BY <2>1
    <3>3. msgs' = msgs \cup propose_value(proposer[n], n, n, n).sent
      BY <1>1, <3>2
    <3> HIDE DEF d
    <3> QED
      BY <2>1, <3>1, <3>2, <3>3, AgainSends
  <2>2. CASE ~again
    <3>1. d.p = proposer[n] /\ msgs' = msgs
      BY <1>1, <2>2
    <3>2. UNCHANGED <<Asked, Promised, Offered, Voted>>
      BY <3>1, AddsNothing
    <3> HIDE DEF d
    <3> QED
      BY <2>2, <3>1, <3>2
  <2> QED
    BY <2>1, <2>2
<1>12. d.p \in AnyProposer
  BY <1>3, ProposeShape
<1> HIDE DEF d
<1>13. p0 \in AnyProposer /\ p0.highest = d.p.highest /\ p0.proposed = NoValue
  BY <1>12 DEF AnyProposer, Vals
<1>14. q \in AnyProposer
  <2>1. proposer' \in [Nodes -> AnyProposer]
    BY <1>3, <1>4, AdvanceSorted DEF RestShape, v
  <2> QED
    BY <1>6, <2>1
<1>15. CASE master = n
  <2>1. d.p.highest.count >= 1
    <3>1. d.p.highest \in Ids /\ d.p.id \in Ids
      BY <1>12 DEF AnyProposer
    <3> QED
      BY <1>3, <1>9, <1>11, <1>15, <3>1 DEF Draws, cmp_geq, Ids
  <2>2. q \in proposer_observe_proposal([r EXCEPT !.leader = r.id = Id(1, n)], Id(1, n))
    BY <1>2, <1>3, <1>9, <1>15
  <2>3. Draws(n, p0, q) /\ q.id.count >= 2 /\ q.proposed = NoValue
    <3>1. cmp_geq(q.highest, q.id)
      BY <1>3, <1>6, <1>14, HighestStays
    <3> QED
      BY <1>13, <2>1, <2>2, <3>1, ReadyDraws
  <2>4. Draws(n, proposer[n], q) /\ q.id.count > d.p.highest.count /\ cmp_geq(q.highest, d.p.highest)
    <3>1. CASE d.p = proposer[n]
      <4>1. q.id \in Ids /\ q.highest \in Ids
        BY <1>14 DEF AnyProposer
      <4>2. p0.highest_accepted = proposer[n].highest_accepted /\ p0.highest = proposer[n].highest
        BY <1>3, <3>1 DEF AnyProposer
      <4> HIDE DEF p0
      <4> QED
        BY <1>3, <2>3, <3>1, <4>1, <4>2 DEF Draws, cmp_geq, Ids
    <3>2. CASE Draws(n, proposer[n], d.p)
      BY <1>3, <1>12, <1>14, <2>3, <3>2, DrawsTwice
    <3> QED
      BY <1>11, <3>1, <3>2
  <2>5. \A j \in Asked' \ Asked : cmp_geq(q.highest, j.id) /\ j.id # q.id
    <3>1. SUFFICES ASSUME NEW j \in Asked' \ Asked PROVE cmp_geq(q.highest, j.id) /\ j.id # q.id
      OBVIOUS
    <3>2. cmp_geq(d.p.highest, j.id)
      BY <1>11
    <3>3. j.id \in Ids
      <4>1. Shape'
        BY NextKept, <1>5, AdvancingKeeps, <1>3, <1>4, AdvanceSorted DEF AInv, PInv, v
      <4>2. Asked' \subseteq Prepares
        BY <4>1, MessageKinds DEF Shape, Asked
      <4> QED
        BY <4>2 DEF Prepares
    <3>4. {d.p.highest, q.id, q.highest} \subseteq Ids
      BY <1>12, <1>14 DEF AnyProposer
    <3> QED
      BY <2>4, <3>2, <3>3, <3>4 DEF cmp_geq, Ids
  <2>6. inst(n) < bound.instance
    BY <1>1, <1>3, BoundShape DEF AInv
  <2>7. NewlyAsked(n)
    BY <1>6, <1>11, <2>5, <2>6 DEF NewlyAsked
  <2>8. n \in Proposers
    BY <1>9, <1>15
  <2>9. q.id.count >= 1
    <3>1. q.id \in Ids
      BY <1>14 DEF AnyProposer
    <3> QED
      BY <2>3, <3>1 DEF Ids
  <2> QED
    BY <1>5, <1>6, <1>7, <1>11, <2>3, <2>4, <2>5, <2>7, <2>8, <2>9 DEF Moving
<1>16. CASE master # n
  <2>1. d.p = proposer[n] /\ UNCHANGED Asked
    BY <1>10, <1>11, <1>16
  <2>2. NewlyAsked(n) /\ Asked' \ Asked = {}
    BY <2>1 DEF NewlyAsked
  <2>3. q = p0 \/ \E j : q = [p0 EXCEPT !.highest = j]
    <3> HIDE DEF p0
    <3> QED
      BY <1>2, <1>16 DEF proposer_observe_proposal
  <2>4. Sees(p0, q)
    <3>1. cmp_geq(q.highest, p0.highest)
      BY <1>3, <1>6, <1>13, <1>14, <2>1, HighestStays
    <3> HIDE DEF p0
    <3> QED
      BY <1>13, <2>3, <3>1 DEF Sees, AnyProposer
  <2>5. q.proposed = NoValue
    BY <1>13, <2>4 DEF Sees
  <2>6. n \notin Proposers => q = proposer[n]
    <3>1. SUFFICES ASSUME n \notin Proposers PROVE q = proposer[n]
      OBVIOUS
    <3>2. q = p0
      BY <1>2, <1>16, <3>1
    <3>3. proposer[n] = NewProposer(n)
      BY <3>1 DEF AInv, ProposersKept
    <3>4. proposer[n].proposed = NoValue
      BY <3>3 DEF NewProposer
    <3>5. p0 = proposer[n]
      BY <1>3, <2>1, <3>4 DEF AnyProposer
    <3> QED
      BY <3>2, <3>5
  <2> QED
    BY <1>5, <1>6, <1>7, <1>11, <1>16, <2>1, <2>2, <2>4, <2>5, <2>6 DEF Moving
<1> QED
  BY <1>15, <1>16

LEMMA CatchupKind ==
    ASSUME PaxosAssumption, AInv, NEW n \in Nodes, NEW k \in Nodes, receive_catchup(n, k)
    PROVE  \E i \in Nat : Moving(n, i)
<1> DEFINE p == [proposer[n] EXCEPT !.proposed = NoValue]
           q == proposer_prepare(p, n)
<1>1. /\ UNCHANGED <<bound, _master_uid, msgs>>
      /\ IF n \in Proposers THEN proposer' = Set(proposer, n, q) ELSE UNCHANGED proposer
  BY DEF receive_catchup
<1>2. /\ Shape /\ proposer[n] \in AnyProposer
      /\ proposer[n].id \in Ids /\ proposer[n].highest \in Ids
  BY OneShape DEF AInv, PInv
<1>3. PICK i \in Nat, id \in Ids : Advancing(n, i, id)
  BY <1>2, CatchupSorted
<1>4. UNCHANGED <<Asked, Promised, Offered, Voted>>
  BY <1>1, AddsNothing
<1>5. NewlyAsked(n) /\ Asked' \ Asked = {}
  BY <1>4 DEF NewlyAsked
<1>6. MastersLeft(Nodes \ {n}) /\ _master_uid'[n] = _master_uid[n]
  BY <1>1 DEF MastersLeft
<1>7. CASE n \in Proposers
  <2>1. proposer'[n] = q /\ Others(n)
    BY <1>1, <1>2, <1>7 DEF Set, Shape, Others
  <2>2. p \in AnyProposer /\ p.highest = proposer[n].highest /\ p.proposed = NoValue
        /\ p.highest_accepted = proposer[n].highest_accepted
    BY <1>2 DEF AnyProposer, Vals
  <2> HIDE DEF p
  <2>3. Draws(n, p, q) /\ q.proposed = NoValue
    BY <2>2, PrepareDraws
  <2>4. Draws(n, proposer[n], q)
    BY <2>2, <2>3 DEF Draws
  <2>5. q \in AnyProposer
    BY <2>2, PrepareShape
  <2> HIDE DEF q
  <2>6. _master_uid[n] = n => q.id.count >= 2
    <3>1. SUFFICES ASSUME _master_uid[n] = n PROVE q.id.count >= 2
      OBVIOUS
    <3>2. proposer[n].id.count >= 2 /\ cmp_geq(proposer[n].highest, proposer[n].id)
      BY <3>1 DEF AInv, ProposersKept
    <3>3. q.id \in Ids
      BY <2>5 DEF AnyProposer
    <3> QED
      BY <1>2, <2>4, <3>2, <3>3 DEF Draws, cmp_geq, Ids
  <2> QED
    BY <1>1, <1>3, <1>4, <1>5, <1>6, <1>7, <2>1, <2>3, <2>4, <2>6 DEF Moving
<1>8. CASE n \notin Proposers
  <2>1. proposer'[n] = proposer[n] /\ Others(n)
    BY <1>1, <1>8 DEF Others
  <2>2. proposer[n] = NewProposer(n)
    BY <1>8 DEF AInv, ProposersKept
  <2>3. proposer[n].proposed = NoValue
    BY <2>2 DEF NewProposer
  <2>4. p = proposer[n]
    BY <1>2, <2>3 DEF AnyProposer
  <2>5. Sees(p, proposer'[n])
    BY <1>2, <2>1, <2>4, GeqReflexive DEF Sees
  <2>6. _master_uid[n] # n
    BY <1>8 DEF AInv, ProposersKept
  <2> QED
    BY <1>1, <1>3, <1>4, <1>5, <1>6, <1>8, <2>1, <2>3, <2>5, <2>6 DEF Moving
<1> QED
  BY <1>7, <1>8

LEMMA RestartKind ==
    ASSUME PaxosAssumption, ~Forgets, AInv, NEW n \in Nodes, Restart(n)
    PROVE  Hearing
<1>1. /\ proposer' = Set(proposer, n, NewProposer(n))
      /\ _master_uid' = Set(_master_uid, n, NoNode) /\ UNCHANGED <<bound, disk, msgs>>
      /\ acceptor' = Set(acceptor, n, disk[n])
  BY DEF Restart
<1>2. Shape /\ proposer[n] \in AnyProposer /\ proposer[n].id \in Ids /\ proposer[n].highest \in Ids
  BY OneShape DEF AInv, PInv
<1>3. proposer'[n] = NewProposer(n) /\ \A k \in Nodes \ {n} : proposer'[k] = proposer[k]
  BY <1>1, <1>2 DEF Set, Shape
<1>4. NewProposer(n) \in AnyProposer
  BY NoIdLeast DEF NewProposer, AnyProposer, Vals
<1>5. Sees(proposer[n], NewProposer(n))
  <2>1. cmp_geq(NewProposer(n).highest, proposer[n].highest) /\ NewProposer(n).highest = Id(0, n)
    BY <1>2, <1>3, <1>4, HighestStays DEF NewProposer
  <2>2. /\ proposer[n].id.node = n /\ proposer[n].id.count >= 0
        /\ cmp_geq(proposer[n].highest, proposer[n].id)
        /\ proposer[n].id.count = 0 => Idle(proposer[n])
    BY DEF AInv, ProposersKept
  <2>3. proposer[n].id.count = 0
    BY <1>2, <2>1, <2>2 DEF cmp_geq, Ids, Id
  <2>4. proposer[n].id = Id(0, n) /\ Idle(proposer[n])
    BY <1>2, <2>2, <2>3 DEF Ids, Id
  <2> QED
    <3> DEFINE q == NewProposer(n)
    <3>1. /\ q.id = Id(0, n) /\ q.highest_accepted = NoId /\ q.proposed = NoValue
          /\ q.leader = FALSE /\ q.promises = {} /\ q.copies = 0
      BY DEF NewProposer
    <3> HIDE DEF q
    <3>2. proposer[n].leader = FALSE
      BY <1>2, <2>4 DEF Idle, AnyProposer
    <3> QED
      BY <2>1, <2>4, <3>1, <3>2 DEF Sees, Idle, q
<1>6. \A k \in Nodes : Sees(proposer[k], proposer'[k])
  BY <1>2, <1>3, <1>5, OneShape, GeqReflexive DEF Sees
<1>7. \A k \in Nodes : k \notin Proposers => proposer'[k] = proposer[k]
  BY <1>3 DEF AInv, ProposersKept
<1>8. MastersLeft(Nodes)
  BY <1>1, <1>2 DEF MastersLeft, Set, Shape
<1>9. UNCHANGED <<Asked, Promised, Offered, Voted>>
  BY <1>1, AddsNothing
<1>10. Restarting(n)
  BY <1>1 DEF Restarting
<1> QED
  BY <1>1, <1>6, <1>7, <1>8, <1>9, <1>10 DEF Hearing

Kinds ==
    \/ Hearing
    \/ \E n \in Nodes : Asking(n)
    \/ \E n \in Nodes, m \in Promised : Joining(n, m) \/ Winning(n, m)
    \/ \E n \in Nodes, i \in Nat : Moving(n, i)

LEMMA MessageKind ==
    ASSUME PaxosAssumption, ~Forgets, AInv, NEW n \in Nodes, NEW m \in msgs,
           ~Short(n, m), ~PassesOver(n, m), Receive(n, m)
    PROVE  Kinds
<1>1. CASE receive_prepare(n, m) \/ receive_accept(n, m) \/ receive_nack(n, m)
  BY <1>1, PrepareKind, AcceptKind, NackKind DEF Kinds
<1>2. CASE receive_promise(n, m)
  BY <1>2, PromiseKind DEF Kinds
<1>3. CASE receive_accepted(n, m)
  <2>0. /\ m.type = "accepted" /\ m.inst = inst(n) /\ bound' = bound
        /\ \/ advance_instance(n, m.value)
           \/ UNCHANGED <<acceptor, disk, proposer, lease, timers, leaked, msgs, log>>
    BY <1>3, Zenon DEF receive_accepted
  <2>1. m \in Voted /\ m.inst = inst(n) /\ UNCHANGED bound
    BY <2>0 DEF Voted
  <2>2. CASE advance_instance(n, m.value)
    BY <2>1, <2>2, AdvanceKind DEF Kinds
  <2>3. CASE UNCHANGED <<acceptor, disk, proposer, lease, timers, leaked, msgs, log>>
    <3>1. UNCHANGED <<bound, proposer, acceptor, disk, msgs, _master_uid>>
      BY <2>1, <2>3 DEF lease
    <3>2. MastersLeft(Nodes)
      BY <3>1 DEF MastersLeft
    <3> QED
      BY <3>1, <3>2, LeftAsTheyAre DEF Kinds, AInv, PInv
  <2> QED
    BY <2>0, <2>2, <2>3
<1> QED
  BY <1>1, <1>2, <1>3 DEF Receive

\* A leaked timer that sends what was sent already.
LEMMA LeakKind ==
    ASSUME PaxosAssumption, AInv, NEW n \in Nodes, send_accept_REAL(n), msgs' = msgs
    PROVE  Hearing
<1>1. UNCHANGED <<bound, proposer, acceptor, disk, _master_uid>>
  BY DEF send_accept_REAL, nodeVars, lease
<1>2. MastersLeft(Nodes)
  BY <1>1 DEF MastersLeft
<1> QED
  BY <1>1, <1>2, LeftAsTheyAre DEF AInv, PInv

\* Every step that is no breach.
LEMMA StepKind ==
    ASSUME PaxosAssumption, AInv, Next, ~breach'
    PROVE  Kinds
<1>1. PICK n \in Nodes :
        \/ lease_expired(n) /\ Breaches(Forgets)
        \/ Drive(n) /\ Breaches(Forgets)
        \/ send_accept_REAL(n) /\ Breaches(msgs' # msgs)
        \/ Restart(n) /\ Breaches(Forgets)
        \/ \E v \in App : handle_propose(n, v) /\ Breaches(Forgets)
        \/ \E m \in Nodes : receive_catchup(n, m) /\ Breaches(Forgets)
        \/ \E m \in msgs :
              Arrives(m) /\ Receive(n, m) /\ Breaches(Forgets \/ Short(n, m) \/ PassesOver(n, m))
  BY DEF Next
<1>2. CASE lease_expired(n)
  BY <1>2, LeaseKind DEF Kinds
<1>3. CASE Drive(n)
  BY <1>3, DriveKind DEF Kinds
<1>4. CASE send_accept_REAL(n) /\ Breaches(msgs' # msgs)
  BY <1>4, LeakKind DEF Kinds, Breaches
<1>5. CASE Restart(n) /\ Breaches(Forgets)
  BY <1>5, RestartKind DEF Kinds, Breaches
<1>6. CASE \E v \in App : handle_propose(n, v)
  BY <1>6, ClientKind DEF Kinds
<1>7. CASE \E m \in Nodes : receive_catchup(n, m)
  BY <1>7, CatchupKind DEF Kinds
<1>8. ASSUME NEW m \in msgs, Receive(n, m), Breaches(Forgets \/ Short(n, m) \/ PassesOver(n, m))
      PROVE  Kinds
  BY <1>8, MessageKind DEF Breaches
<1> QED
  BY <1>1, <1>2, <1>3, <1>4, <1>5, <1>6, <1>7, <1>8

-----------------------------------------------------------------------------
(* Every kind of step keeps what agreement rests on                        *)

\* Ids of one node, as they compare.
LEMMA IdOrder ==
    ASSUME NEW a \in Ids, NEW b \in Ids, NEW c \in Ids
    PROVE  /\ cmp_geq(a, b) /\ cmp_geq(b, c) => cmp_geq(a, c)
           /\ cmp_geq(a, b) /\ c.count > a.count => c # b /\ cmp_geq(c, b) /\ c.count > b.count
           /\ cmp_geq(a, b) => a.count >= b.count
           /\ ~cmp_gt(a, b) => cmp_geq(b, a)
           /\ cmp_gt(a, b) => cmp_geq(a, b) /\ a # b
           /\ cmp_geq(a, b) /\ a # b => cmp_gt(a, b)
           /\ cmp_gt(a, b) /\ cmp_geq(b, c) => cmp_gt(a, c)
           /\ cmp_geq(a, b) /\ cmp_gt(b, c) => cmp_gt(a, c)
           /\ cmp_geq(a, b) => ~cmp_gt(b, a)
BY DEF cmp_geq, cmp_gt, Ids

LEMMA KindsBound ==
    ASSUME Kinds
    PROVE  bound' = bound
<1>1. CASE Hearing
  BY <1>1 DEF Hearing
<1>2. ASSUME NEW n \in Nodes, Asking(n) PROVE bound' = bound
  BY <1>2 DEF Asking
<1>3. ASSUME NEW n \in Nodes, NEW m \in Promised, Gathering(n, m) PROVE bound' = bound
  BY <1>3 DEF Gathering
<1>4. ASSUME NEW n \in Nodes, NEW i \in Nat, Moving(n, i) PROVE bound' = bound
  BY <1>4 DEF Moving
<1> QED
  BY <1>1, <1>2, <1>3, <1>4 DEF Kinds, Joining, Winning

\* An answer leaves every node in its instance.
LEMMA HearingInst ==
    ASSUME PInv, Hearing, NEW k \in Nodes
    PROVE  inst(k)' = inst(k)
<1>1. ASSUME UNCHANGED acceptor PROVE inst(k)' = inst(k)
  BY <1>1 DEF inst
<1>2. ASSUME NEW n \in Nodes, Restarting(n) PROVE inst(k)' = inst(k)
  BY <1>2 DEF Restarting, Set, inst, PInv, Shape, Saves
<1>3. ASSUME NEW n \in Nodes, NEW a \in AnyAcceptor, acceptor' = Set(acceptor, n, a), a.inst = inst(n)
      PROVE  inst(k)' = inst(k)
  BY <1>3 DEF Set, inst, PInv, Shape
<1>4. ASSUME NEW n \in Nodes, NEW m, Promising(n, m) PROVE inst(k)' = inst(k)
  <2> DEFINE a == acceptor_receive_prepare(acceptor[n], m)
  <2>1. acceptor[n] \in AnyAcceptor /\ m.id \in Ids /\ acceptor' = Set(acceptor, n, a)
    BY <1>4 DEF Promising, Prepares, Saved, PInv, Shape
  <2>2. a \in AnyAcceptor /\ a.inst = inst(n)
    BY <2>1 DEF acceptor_receive_prepare, AnyAcceptor, inst
  <2> QED
    BY <1>3, <2>1, <2>2
<1>5. ASSUME NEW n \in Nodes, NEW m, Accepting(n, m) PROVE inst(k)' = inst(k)
  <2> DEFINE a == acceptor_receive_accept(acceptor[n], m)
  <2>1. acceptor[n] \in AnyAcceptor /\ m.id \in Ids /\ m.value \in Vals
        /\ acceptor' = Set(acceptor, n, a)
    BY <1>5 DEF Accepting, Votes, Saved, PInv, Shape
  <2>2. a \in AnyAcceptor /\ a.inst = inst(n)
    BY <2>1 DEF acceptor_receive_accept, AnyAcceptor, inst
  <2> QED
    BY <1>3, <2>1, <2>2
<1> QED
  BY <1>1, <1>2, <1>4, <1>5 DEF Hearing

\* What the steps have in common, by which the lemmas below are told.
Before == PaxosAssumption /\ AInv /\ PInv' /\ Kinds

LEMMA Basics ==
    ASSUME Before
    PROVE  /\ PaxosAssumption /\ AInv /\ Shape /\ Shape' /\ bound' = bound /\ bound \in Bounds
           /\ Proposers' = Proposers
           /\ \A n \in Nodes : /\ n \in Nat \ {0} /\ n # NoNode /\ inst(n) \in Nat
                               /\ proposer[n] \in AnyProposer /\ proposer'[n] \in AnyProposer
                               /\ {proposer[n].id, proposer[n].highest,
                                   proposer[n].highest_accepted} \subseteq Ids
                               /\ {proposer'[n].id, proposer'[n].highest,
                                   proposer'[n].highest_accepted} \subseteq Ids
           /\ \A m \in Asked \cup Promised \cup Offered \cup Voted : m.inst \in Nat /\ m.id \in Ids
           /\ \A m \in Asked' \cup Promised' \cup Offered' \cup Voted' : m.inst \in Nat /\ m.id \in Ids
           /\ \A m \in Asked \cup Offered \cup Voted \cup Promised : m.from \in Nodes
           /\ \A m \in Asked' \cup Offered' \cup Voted' \cup Promised' : m.from \in Nodes
           /\ \A m \in Promised : m.last \in Ids /\ m.to \in Nodes /\ m.value \in Vals
<1>1. PaxosAssumption /\ AInv /\ Shape /\ Shape' /\ PInv /\ Kinds /\ bound \in Bounds
  BY DEF Before, AInv, PInv
<1>2. bound' = bound /\ Proposers' = Proposers
  BY <1>1, KindsBound DEF Proposers
<1>3. \A n \in Nodes : /\ n \in Nat \ {0} /\ n # NoNode /\ inst(n) \in Nat
                       /\ proposer[n] \in AnyProposer
                       /\ {proposer[n].id, proposer[n].highest,
                           proposer[n].highest_accepted} \subseteq Ids
  BY <1>1, OneShape
<1>4. \A n \in Nodes : proposer'[n] \in AnyProposer
  BY <1>1 DEF Shape
<1>5. \A n \in Nodes : {proposer'[n].id, proposer'[n].highest,
                        proposer'[n].highest_accepted} \subseteq Ids
  BY <1>4 DEF AnyProposer
<1>6. /\ Asked \subseteq Prepares /\ Promised \subseteq Promises
      /\ Offered \subseteq Votes /\ Voted \subseteq Votes
  BY <1>1, KindShapes
<1>7. Asked' \subseteq Prepares /\ Promised' \subseteq Promises
  BY <1>1, MessageKinds DEF Shape, Asked, Promised
<1>8. Offered' \subseteq Votes /\ Voted' \subseteq Votes
  BY <1>1, MessageKinds DEF Shape, Offered, Voted
<1>9. /\ \A m \in Prepares : m.inst \in Nat /\ m.id \in Ids /\ m.from \in Nodes
      /\ \A m \in Votes : m.inst \in Nat /\ m.id \in Ids /\ m.from \in Nodes
      /\ \A m \in Promises : /\ m.inst \in Nat /\ m.id \in Ids /\ m.from \in Nodes
                             /\ m.last \in Ids /\ m.to \in Nodes /\ m.value \in Vals
  BY DEF Prepares, Votes, Promises
<1>10. \A m \in Asked \cup Promised \cup Offered \cup Voted :
         m.inst \in Nat /\ m.id \in Ids /\ m.from \in Nodes
  BY <1>6, <1>9
<1>11. \A m \in Asked' \cup Promised' \cup Offered' \cup Voted' :
         m.inst \in Nat /\ m.id \in Ids /\ m.from \in Nodes
  BY <1>7, <1>8, <1>9
<1>12. \A m \in Promised : m.last \in Ids /\ m.to \in Nodes /\ m.value \in Vals
  BY <1>6, <1>9
<1> QED
  BY <1>1, <1>2, <1>3, <1>5, <1>4, <1>10, <1>11, <1>12

\* Offers stay sound while none is added.
LEMMA OffersStay ==
    ASSUME Before, Offered' = Offered, Asked \subseteq Asked',
           \A k \in Nodes : inst(k)' \in Nat /\ inst(k)' >= inst(k)
    PROVE  OfferedKept' /\ OfferedOnce'
<1>1. Proposers' = Proposers
  BY Basics
<1>2. SUFFICES ASSUME NEW m \in Offered
               PROVE  /\ m.id.node = m.from /\ m.from \in Proposers /\ m.id.count \in 1..MaxCount
                      /\ m.inst <= inst(m.from)' /\ m.value \in Values
                      /\ \E k \in Asked' : k.from = m.from /\ k.inst = m.inst /\ k.id = m.id
                      /\ m.value \in Nodes => \E k \in Offered : k.from = m.value /\ k.inst = m.inst
  <2>1. OfferedOnce'
    BY DEF Before, AInv, OfferedOnce
  <2> QED
    BY <1>1, <1>2, <2>1 DEF OfferedKept
<1>3. /\ m.id.node = m.from /\ m.from \in Proposers /\ m.id.count \in 1..MaxCount
      /\ m.inst <= inst(m.from) /\ m.value \in Values
      /\ \E k \in Asked : k.from = m.from /\ k.inst = m.inst /\ k.id = m.id
      /\ m.value \in Nodes => \E k \in Offered : k.from = m.value /\ k.inst = m.inst
  BY DEF Before, AInv, OfferedKept
<1>4. m.from \in Nodes /\ m.inst \in Nat /\ inst(m.from) \in Nat
  BY Basics
<1>5. m.inst <= inst(m.from)'
  BY <1>3, <1>4
<1> QED
  BY <1>3, <1>5

\* Of one proposer that is as it was, what is known stays.
LEMMA OneOffer ==
    ASSUME Before, NEW m \in Offered, proposer'[m.from] = proposer[m.from],
           inst(m.from)' = inst(m.from)
    PROVE  /\ cmp_geq(proposer'[m.from].id, m.id)
           /\ m.id = proposer'[m.from].id =>
                 /\ proposer'[m.from].leader
                 /\ m.inst = inst(m.from)' => proposer'[m.from].proposed = m.value
<1>1. /\ cmp_geq(proposer[m.from].id, m.id)
      /\ m.id = proposer[m.from].id =>
            /\ proposer[m.from].leader
            /\ m.inst = inst(m.from) => proposer[m.from].proposed = m.value
  BY DEF Before, AInv, LedKept
<1> QED
  BY <1>1

\* One proposer at a time.
Fit(n) ==
    /\ proposer[n].id.node = n /\ proposer[n].id.count >= 0
    /\ cmp_geq(proposer[n].highest, proposer[n].id)
    /\ proposer[n].id.count = 0 => Idle(proposer[n])
    /\ n \notin Proposers => proposer[n] = NewProposer(n)
    /\ _master_uid[n] = n => n \in Proposers /\ proposer[n].id.count >= 2

LEMMA FitStays ==
    ASSUME Before, NEW n \in Nodes, proposer'[n] = proposer[n],
           _master_uid'[n] \in {NoNode, _master_uid[n]}
    PROVE  Fit(n)'
<1>1. Fit(n) /\ n # NoNode /\ Proposers' = Proposers
  BY Basics DEF Before, AInv, ProposersKept, Fit
<1>2. _master_uid'[n] = n => _master_uid[n] = n
  BY <1>1
<1> QED
  BY <1>1, <1>2 DEF Fit, Idle, NewProposer

LEMMA AskingKeeps ==
    ASSUME Before, NEW n \in Nodes, Asking(n)
    PROVE  AInv'
<1> DEFINE p == proposer[n]
           q == proposer'[n]
<1>1. /\ n \in Proposers /\ \A k \in Nodes \ {n} : proposer'[k] = proposer[k]
      /\ q.id.node = n /\ q.id.count > p.highest.count /\ cmp_geq(q.highest, q.id)
      /\ ~q.leader /\ q.promises = {} /\ q.highest_accepted = p.highest_accepted
      /\ q.id.count <= MaxCount
      /\ q.proposed = p.proposed \/ (p.proposed = NoValue /\ q.proposed \in App \cup {n})
      /\ \A k \in Nodes : _master_uid'[k] \in {NoNode, _master_uid[k]}
      /\ Promised' = Promised /\ Offered' = Offered /\ Voted' = Voted
      /\ acceptor' = acceptor /\ disk' = disk
  BY DEF Asking, Others, Draws, MastersLeft
<1>2. /\ Asked \subseteq Asked'
      /\ \A m \in Asked' \ Asked : /\ m.from = n /\ m.inst = inst(n) /\ inst(n) < bound.instance
                                   /\ cmp_geq(q.highest, m.id)
  BY DEF Asking, NewlyAsked
<1>3. /\ bound' = bound /\ Proposers' = Proposers /\ bound \in Bounds /\ PInv'
      /\ {p.id, p.highest, q.id, q.highest} \subseteq Ids
      /\ cmp_geq(p.highest, p.id) /\ p.id.count >= 0
      /\ \A k \in Nodes : k # NoNode
      /\ \A m \in Asked \cup Offered : m.id \in Ids
  BY Basics DEF Before, AInv, ProposersKept
<1>4. \A k \in Nodes : inst(k)' = inst(k)
  BY <1>1 DEF inst
<1>5. \A j \in Ids : cmp_geq(p.highest, j) => j # q.id /\ cmp_geq(q.id, j) /\ cmp_geq(q.highest, j)
  BY <1>1, <1>3, IdOrder
<1>6. q.id.count > p.id.count /\ q.id.count >= 1
  <2>1. q.id.count > p.id.count
    BY <1>3, <1>1, IdOrder DEF Ids
  <2> QED
    BY <1>3, <2>1 DEF Ids
<1> HIDE DEF p, q
<1>7. ProposersKept'
  <2>1. ASSUME NEW k \in Nodes, k # n PROVE Fit(k)'
    BY <1>1, <2>1, FitStays
  <2>2. _master_uid'[n] = n => q.id.count >= 2
    <3>1. SUFFICES ASSUME _master_uid'[n] = n PROVE q.id.count >= 2
      OBVIOUS
    <3>2. _master_uid[n] = n
      BY <1>1, <1>3, <3>1
    <3>3. p.id.count >= 2
      BY <3>2 DEF Before, AInv, ProposersKept, p
    <3> QED
      BY <1>3, <1>6, <3>3 DEF Ids
  <2>3. q.id.count >= 0 /\ q.id.count # 0
    BY <1>3, <1>6 DEF Ids
  <2>4. Fit(n)'
    BY <1>1, <1>3, <2>2, <2>3 DEF Fit, q
  <2> QED
    BY <2>1, <2>4 DEF ProposersKept, Fit
<1>8. AskedKept'
  <2>1. SUFFICES ASSUME NEW m \in Asked'
                 PROVE  /\ m.from \in Proposers /\ m.inst < bound.instance
                        /\ proposer'[m.from].id.count >= 1
                        /\ cmp_geq(proposer'[m.from].highest, m.id)
                        /\ m.id = proposer'[m.from].id => m.id.count <= MaxCount
    BY <1>3 DEF AskedKept
  <2>2. CASE m \notin Asked
    BY <1>1, <1>2, <1>6, <2>1, <2>2 DEF q
  <2>3. CASE m \in Asked
    <3>1. /\ m.from \in Proposers /\ m.inst < bound.instance /\ m.from \in Nodes
          /\ proposer[m.from].id.count >= 1
          /\ cmp_geq(proposer[m.from].highest, m.id)
          /\ m.id = proposer[m.from].id => m.id.count <= MaxCount
      BY <2>3, Basics DEF Before, AInv, AskedKept
    <3>2. CASE m.from = n
      BY <1>3, <1>5, <1>6, <2>3, <3>1, <3>2 DEF p, q
    <3>3. CASE m.from # n
      BY <1>1, <3>1, <3>3
    <3> QED
      BY <3>2, <3>3
  <2> QED
    BY <2>2, <2>3
<1>9. AskedOnce'
  <2>1. SUFFICES ASSUME NEW m \in Asked', NEW k \in Asked',
                        m.from = k.from, m.id = k.id, m.id = proposer'[m.from].id
                 PROVE  m.inst = k.inst
    BY DEF AskedOnce
  <2>2. CASE m.from = n
    <3>1. ASSUME NEW j \in Asked, j.from = n PROVE j.id # q.id
      BY <1>3, <1>5, <3>1 DEF Before, AInv, AskedKept, p
    <3>2. m \notin Asked /\ k \notin Asked
      BY <2>1, <2>2, <3>1 DEF q
    <3> QED
      BY <1>2, <3>2
  <2>3. CASE m.from # n
    <3>1. m \in Asked /\ k \in Asked
      BY <1>2, <2>1, <2>3
    <3>2. m.from \in Nodes
      BY <3>1, Basics
    <3>3. proposer'[m.from] = proposer[m.from]
      BY <1>1, <2>3, <3>2
    <3> QED
      BY <2>1, <3>1, <3>3 DEF Before, AInv, AskedOnce
  <2> QED
    BY <2>2, <2>3
<1>10. OfferedKept' /\ OfferedOnce'
  <2>1. \A k \in Nodes : inst(k)' \in Nat /\ inst(k)' >= inst(k)
    <3>1. \A k \in Nodes : inst(k) \in Nat
      BY Basics
    <3> QED
      BY <1>4, <3>1
  <2> QED
    BY <1>1, <1>2, <2>1, OffersStay
<1>11. LedKept'
  <2>1. SUFFICES ASSUME NEW m \in Offered
                 PROVE  /\ cmp_geq(proposer'[m.from].id, m.id)
                        /\ m.id = proposer'[m.from].id =>
                              /\ proposer'[m.from].leader
                              /\ m.inst = inst(m.from)' => proposer'[m.from].proposed = m.value
    BY <1>1 DEF LedKept
  <2>2. m.from \in Nodes /\ m.id \in Ids /\ cmp_geq(proposer[m.from].id, m.id)
    BY Basics DEF Before, AInv, LedKept
  <2>3. CASE m.from = n
    <3>1. cmp_geq(p.highest, m.id)
      BY <1>3, <2>2, <2>3, IdOrder DEF p
    <3> QED
      BY <1>5, <2>2, <2>3, <3>1 DEF q
  <2>4. CASE m.from # n
    BY <1>1, <1>4, <2>2, <2>4, OneOffer
  <2> QED
    BY <2>3, <2>4
<1>12. VotedKept' /\ AcceptorsKept' /\ PromisedKept'
  <2>1. VotedKept' /\ AcceptorsKept'
    BY <1>1 DEF Before, AInv, VotedKept, AcceptorsKept, HasVoted
  <2>2. PromisedKept'
    BY <1>1, <1>2 DEF Before, AInv, PromisedKept, HasVoted
  <2> QED
    BY <2>1, <2>2
<1>13. ProposedKept'
  <2>1. \A k \in Nodes : k # n => proposer'[k].proposed = proposer[k].proposed
    BY <1>1
  <2>2. (q.proposed \in Nodes /\ q.proposed # n) => q.proposed = p.proposed
    BY <1>1 DEF Before, PaxosAssumption
  <2>3. SUFFICES ASSUME NEW k \in Nodes, proposer'[k].proposed \in Nodes, proposer'[k].proposed # k
                 PROVE  \E j \in Offered : j.from = proposer'[k].proposed /\ j.inst = inst(k)
    BY <1>1, <1>4 DEF ProposedKept
  <2>4. proposer'[k].proposed = proposer[k].proposed
    BY <2>1, <2>2, <2>3 DEF p, q
  <2> QED
    BY <2>3, <2>4 DEF Before, AInv, ProposedKept
<1>14. HighestKept'
  BY <1>1 DEF Before, AInv, HighestKept, p, q
<1>15. GatheredKept'
  BY <1>1 DEF Before, AInv, GatheredKept, Told, q
<1> QED
  BY <1>3, <1>7, <1>8, <1>9, <1>10, <1>11, <1>12, <1>13, <1>14, <1>15 DEF AInv

\* What an answer adds.
LEMMA HearingVotes ==
    ASSUME Before, Hearing
    PROVE  VotedKept' /\ PromisedKept' /\ AcceptorsKept'
<1>1. Asked' = Asked /\ Offered' = Offered
  BY DEF Hearing
<1>2. /\ acceptor \in [Nodes -> AnyAcceptor] /\ disk \in [Nodes -> AnyAcceptor]
      /\ VotedKept /\ PromisedKept /\ AcceptorsKept /\ Saves /\ AllStands
  BY DEF Before, AInv, PInv, Shape
<1>3. CASE acceptor' = acceptor /\ disk' = disk /\ Promised' = Promised /\ Voted' = Voted
  BY <1>1, <1>2, <1>3 DEF VotedKept, PromisedKept, AcceptorsKept, HasVoted
<1>4. ASSUME NEW n \in Nodes, Restarting(n), Promised' = Promised, Voted' = Voted
      PROVE  VotedKept' /\ PromisedKept' /\ AcceptorsKept'
  <2>1. disk' = disk /\ \A k \in Nodes : acceptor'[k] \in {acceptor[k], disk[k]}
    BY <1>2, <1>4 DEF Restarting, Set
  <2>2. AcceptorsKept'
    BY <1>2, <1>4, <2>1 DEF AcceptorsKept, HasVoted
  <2> QED
    BY <1>1, <1>2, <1>4, <2>2 DEF VotedKept, PromisedKept, HasVoted
<1>5. ASSUME NEW n \in Nodes, NEW m \in Asked, Promising(n, m), Voted' = Voted,
             Promised' = Promised \cup {promise(n, m.from, m.inst, m.id, acceptor[n])}
      PROVE  VotedKept' /\ PromisedKept' /\ AcceptorsKept'
  <2> DEFINE a == acceptor_receive_prepare(acceptor[n], m)
             said == promise(n, m.from, m.inst, m.id, acceptor[n])
  <2>1. /\ acceptor' = Set(acceptor, n, a) /\ disk' = Set(disk, n, a)
        /\ m.inst = inst(n) /\ m.id \in Ids
    BY <1>5 DEF Promising, Saved, Prepares
  <2>2. a.inst = acceptor[n].inst /\ a.accepted = acceptor[n].accepted /\ a.value = acceptor[n].value
    BY <1>2, <2>1 DEF acceptor_receive_prepare, AnyAcceptor
  <2>3. /\ said.from = n /\ said.to = m.from /\ said.inst = m.inst /\ said.id = m.id
        /\ said.last = acceptor[n].accepted /\ said.value = acceptor[n].value
    BY DEF promise
  <2> HIDE DEF a, said
  <2>4. AcceptorsKept'
    <3>1. SUFFICES ASSUME NEW k \in Nodes, NEW b \in {acceptor'[k], disk'[k]}
                   PROVE  b.accepted = NoId \/ HasVoted(k, b.inst, b.accepted, b.value)
      BY <1>5 DEF AcceptorsKept, HasVoted
    <3>2. CASE k = n
      <4>1. b = a
        BY <1>2, <2>1, <3>1, <3>2 DEF Set
      <4> QED
        BY <1>2, <2>2, <3>2, <4>1 DEF AcceptorsKept
    <3>3. CASE k # n
      BY <1>2, <2>1, <3>1, <3>3 DEF Set, AcceptorsKept
    <3> QED
      BY <3>2, <3>3
  <2>5. said.last = NoId \/ HasVoted(n, said.inst, said.last, said.value)
    BY <1>2, <2>1, <2>3 DEF AcceptorsKept, inst
  <2>6. ASSUME NEW k \in Voted, k.from = n, k.inst = said.inst
        PROVE  cmp_geq(said.last, k.id)
    <3>1. k \in msgs \cap Answer
      BY KindShapes, Basics DEF Voted, Answer, AnyMessage, Before, AInv, PInv, Votes
    <3>2. Stands(disk[n], k) /\ k.type = "accepted"
      BY <1>2, <2>6, <3>1 DEF AllStands, Voted
    <3>3. disk[n].inst = acceptor[n].inst /\ disk[n].accepted = acceptor[n].accepted
      BY <1>2 DEF Saves
    <3> QED
      BY <2>1, <2>3, <2>6, <3>2, <3>3 DEF Stands, inst
  <2>7. PromisedKept'
    <3>1. SUFFICES ASSUME NEW j \in Promised \cup {said}
                   PROVE  /\ \E k \in Asked : k.from = j.to /\ k.inst = j.inst /\ k.id = j.id
                          /\ j.last = NoId \/ HasVoted(j.from, j.inst, j.last, j.value)
                          /\ \A k \in Voted : (k.from = j.from /\ k.inst = j.inst) =>
                                cmp_geq(j.last, k.id) \/ cmp_geq(k.id, j.id)
      BY <1>1, <1>5 DEF PromisedKept, HasVoted, said
    <3>2. CASE j \in Promised
      BY <1>2, <3>2 DEF PromisedKept
    <3>3. CASE j = said
      BY <2>3, <2>5, <2>6, <3>3
    <3> QED
      BY <3>1, <3>2, <3>3
  <2>8. VotedKept'
    BY <1>1, <1>2, <1>5 DEF VotedKept
  <2> QED
    BY <2>4, <2>7, <2>8
<1>6. ASSUME NEW n \in Nodes, NEW m \in Offered, Accepting(n, m), Promised' = Promised,
             Voted' = Voted \cup {accepted(n, m.inst, m.id, m.value)}
      PROVE  VotedKept' /\ PromisedKept' /\ AcceptorsKept'
  <2> DEFINE a == acceptor_receive_accept(acceptor[n], m)
             said == accepted(n, m.inst, m.id, m.value)
  <2>1. /\ acceptor' = Set(acceptor, n, a) /\ disk' = Set(disk, n, a)
        /\ m.inst = inst(n) /\ m.id \in Ids /\ m.value \in Vals /\ cmp_geq(m.id, acceptor[n].promised)
    BY <1>6 DEF Accepting, Saved, Votes
  <2>2. a.inst = acceptor[n].inst /\ a.accepted = m.id /\ a.value = m.value
    BY <1>2, <2>1 DEF acceptor_receive_accept, AnyAcceptor
  <2>3. said.from = n /\ said.inst = m.inst /\ said.id = m.id /\ said.value = m.value
    BY DEF accepted
  <2> HIDE DEF a, said
  <2>4. Voted' = Voted \cup {said}
    BY <1>6 DEF said
  <2>5. AcceptorsKept'
    <3>1. SUFFICES ASSUME NEW k \in Nodes, NEW b \in {acceptor'[k], disk'[k]}
                   PROVE  b.accepted = NoId \/ HasVoted(k, b.inst, b.accepted, b.value)'
      BY DEF AcceptorsKept, HasVoted
    <3>2. CASE k = n
      <4>1. b = a
        BY <1>2, <2>1, <3>1, <3>2 DEF Set
      <4> QED
        BY <2>1, <2>2, <2>3, <2>4, <3>2, <4>1 DEF HasVoted, inst
    <3>3. CASE k # n
      <4>1. b.accepted = NoId \/ HasVoted(k, b.inst, b.accepted, b.value)
        BY <1>2, <2>1, <3>1, <3>3 DEF Set, AcceptorsKept
      <4> QED
        BY <2>4, <4>1 DEF HasVoted
    <3> QED
      BY <3>2, <3>3
  <2>6. ASSUME NEW j \in Promised, j.from = n, j.inst = said.inst
        PROVE  cmp_geq(said.id, j.id)
    <3>1. j \in msgs \cap Answer
      BY KindShapes, Basics DEF Promised, Answer, AnyMessage, Before, AInv, PInv, Promises
    <3>2. Stands(disk[n], j) /\ j.type = "promise"
      BY <1>2, <2>6, <3>1 DEF AllStands, Promised
    <3>3. disk[n].inst = acceptor[n].inst /\ cmp_geq(acceptor[n].promised, disk[n].promised)
      BY <1>2 DEF Saves
    <3>4. cmp_geq(disk[n].promised, j.id)
      BY <2>1, <2>3, <2>6, <3>2, <3>3 DEF Stands, inst
    <3>5. {disk[n].promised, acceptor[n].promised, j.id} \subseteq Ids
      BY <1>2, Basics DEF AnyAcceptor
    <3> QED
      BY <2>1, <2>3, <3>3, <3>4, <3>5, GeqTransitive
  <2>7. PromisedKept'
    <3>1. SUFFICES ASSUME NEW j \in Promised
                   PROVE  /\ \E k \in Asked : k.from = j.to /\ k.inst = j.inst /\ k.id = j.id
                          /\ j.last = NoId \/ HasVoted(j.from, j.inst, j.last, j.value)'
                          /\ \A k \in Voted \cup {said} : (k.from = j.from /\ k.inst = j.inst) =>
                                cmp_geq(j.last, k.id) \/ cmp_geq(k.id, j.id)
      BY <1>1, <1>6, <2>4 DEF PromisedKept
    <3>2. /\ \E k \in Asked : k.from = j.to /\ k.inst = j.inst /\ k.id = j.id
          /\ j.last = NoId \/ HasVoted(j.from, j.inst, j.last, j.value)
          /\ \A k \in Voted : (k.from = j.from /\ k.inst = j.inst) =>
                cmp_geq(j.last, k.id) \/ cmp_geq(k.id, j.id)
      BY <1>2 DEF PromisedKept
    <3>3. j.last = NoId \/ HasVoted(j.from, j.inst, j.last, j.value)'
      BY <2>4, <3>2 DEF HasVoted
    <3>4. (said.from = j.from /\ said.inst = j.inst) => cmp_geq(said.id, j.id)
      BY <2>3, <2>6
    <3> QED
      BY <3>2, <3>3, <3>4
  <2>8. VotedKept'
    BY <1>1, <1>2, <1>6, <2>3, <2>4 DEF VotedKept
  <2> QED
    BY <2>5, <2>7, <2>8
<1> QED
  BY <1>3, <1>4, <1>5, <1>6 DEF Hearing

LEMMA HearingKeeps ==
    ASSUME Before, Hearing
    PROVE  AInv'
<1>1. /\ \A n \in Nodes : /\ Sees(proposer[n], proposer'[n])
                          /\ n \notin Proposers => proposer'[n] = proposer[n]
      /\ \A k \in Nodes : _master_uid'[k] \in {NoNode, _master_uid[k]}
      /\ Asked' = Asked /\ Offered' = Offered
      /\ Promised \subseteq Promised' /\ Voted \subseteq Voted'
  BY DEF Hearing, MastersLeft
<1>2. /\ bound' = bound /\ Proposers' = Proposers /\ bound \in Bounds /\ PInv'
      /\ \A k \in Nodes : k # NoNode
  BY Basics DEF Before
<1>3. \A k \in Nodes : inst(k)' = inst(k) /\ inst(k) \in Nat
  <2>1. \A k \in Nodes, n \in Nodes, i \in Nat : inst(k) \in Nat
    BY Basics
  <2>2. ASSUME NEW k \in Nodes PROVE inst(k)' = inst(k)
    BY HearingInst DEF Before, AInv
  <2> QED
    BY <2>2, Basics
<1>4. \A n \in Nodes :
         /\ proposer'[n].id = proposer[n].id
         /\ proposer'[n].highest_accepted = proposer[n].highest_accepted
         /\ proposer'[n].proposed = proposer[n].proposed
         /\ proposer'[n].leader = proposer[n].leader
         /\ proposer'[n].promises = proposer[n].promises
         /\ proposer'[n].copies = proposer[n].copies
  BY <1>1 DEF Sees
<1>5. \A n \in Nodes : \A j \in Ids : cmp_geq(proposer[n].highest, j) => cmp_geq(proposer'[n].highest, j)
  <2>1. SUFFICES ASSUME NEW n \in Nodes, NEW j \in Ids, cmp_geq(proposer[n].highest, j)
                 PROVE  cmp_geq(proposer'[n].highest, j)
    OBVIOUS
  <2>2. cmp_geq(proposer'[n].highest, proposer[n].highest)
    BY <1>1 DEF Sees
  <2>3. proposer[n].highest \in Ids /\ proposer'[n].highest \in Ids
    BY Basics
  <2> QED
    BY <2>1, <2>2, <2>3, IdOrder
<1>6. ProposersKept'
  <2>1. SUFFICES ASSUME NEW n \in Nodes PROVE Fit(n)'
    BY DEF ProposersKept, Fit
  <2>2. Fit(n) /\ proposer[n].id \in Ids
    BY Basics DEF Before, AInv, ProposersKept, Fit
  <2>3. cmp_geq(proposer'[n].highest, proposer'[n].id)
    BY <1>4, <1>5, <2>2 DEF Fit
  <2>4. n \notin Proposers' => proposer'[n] = NewProposer(n)
    BY <1>1, <1>2, <2>2 DEF Fit
  <2>5. _master_uid'[n] = n => _master_uid[n] = n
    BY <1>1, <1>2
  <2>6. NewProposer(n)' = NewProposer(n)
    BY DEF NewProposer
  <2>7. proposer'[n].id.count = 0 => Idle(proposer'[n])
    BY <1>4, <2>2 DEF Fit, Idle
  <2> QED
    BY <1>2, <1>4, <2>2, <2>3, <2>4, <2>5, <2>6, <2>7 DEF Fit, Idle
<1>7. AskedKept' /\ AskedOnce'
  <2>1. AskedKept'
    <3>1. SUFFICES ASSUME NEW m \in Asked
                   PROVE  /\ m.from \in Proposers /\ m.inst < bound.instance
                          /\ proposer'[m.from].id.count >= 1
                          /\ cmp_geq(proposer'[m.from].highest, m.id)
                          /\ m.id = proposer'[m.from].id => m.id.count <= MaxCount
      BY <1>1, <1>2 DEF AskedKept
    <3>2. /\ m.from \in Proposers /\ m.inst < bound.instance
          /\ proposer[m.from].id.count >= 1
          /\ cmp_geq(proposer[m.from].highest, m.id)
          /\ m.id = proposer[m.from].id => m.id.count <= MaxCount
      BY DEF Before, AInv, AskedKept
    <3>3. m.from \in Nodes /\ m.id \in Ids
      BY Basics
    <3> QED
      BY <1>4, <1>5, <3>2, <3>3
  <2>2. AskedOnce'
    <3>1. SUFFICES ASSUME NEW m \in Asked, NEW k \in Asked,
                          m.from = k.from, m.id = k.id, m.id = proposer'[m.from].id
                   PROVE  m.inst = k.inst
      BY <1>1 DEF AskedOnce
    <3>2. m.from \in Nodes
      BY Basics
    <3>3. m.id = proposer[m.from].id
      BY <1>4, <3>1, <3>2
    <3> QED
      BY <3>1, <3>3 DEF Before, AInv, AskedOnce
  <2> QED
    BY <2>1, <2>2
<1>8. OfferedKept' /\ OfferedOnce'
  BY <1>1, <1>3, OffersStay
<1>9. LedKept'
  <2>1. SUFFICES ASSUME NEW m \in Offered
                 PROVE  /\ cmp_geq(proposer'[m.from].id, m.id)
                        /\ m.id = proposer'[m.from].id =>
                              /\ proposer'[m.from].leader
                              /\ m.inst = inst(m.from)' => proposer'[m.from].proposed = m.value
    BY <1>1 DEF LedKept
  <2>2. m.from \in Nodes
    BY Basics
  <2>3. /\ cmp_geq(proposer[m.from].id, m.id)
        /\ m.id = proposer[m.from].id =>
              /\ proposer[m.from].leader
              /\ m.inst = inst(m.from) => proposer[m.from].proposed = m.value
    BY DEF Before, AInv, LedKept
  <2> QED
    BY <1>3, <1>4, <2>2, <2>3
<1>10. ProposedKept'
  BY <1>1, <1>3, <1>4 DEF Before, AInv, ProposedKept
<1>11. HighestKept'
  BY <1>1, <1>4 DEF Before, AInv, HighestKept
<1>12. GatheredKept'
  <2>1. SUFFICES ASSUME NEW n \in Nodes, NEW a \in proposer'[n].promises
                 PROVE  \E m \in Promised' : Told(m, a, n, proposer'[n], Offered')
    BY DEF GatheredKept, Told
  <2>2. PICK m \in Promised : Told(m, a, n, proposer[n], Offered)
    BY <1>4, <2>1 DEF Before, AInv, GatheredKept
  <2>3. Told(m, a, n, proposer'[n], Offered')
    BY <1>1, <1>4, <2>2 DEF Told
  <2> QED
    BY <1>1, <2>3
<1> QED
  BY <1>2, <1>6, <1>7, <1>8, <1>9, <1>10, <1>11, <1>12, HearingVotes DEF AInv


\* What the two kinds of promise that count have in common.
LEMMA GatheringKeeps ==
    ASSUME Before, NEW n \in Nodes, NEW m \in Promised, Gathering(n, m),
           Offered \subseteq Offered'
    PROVE  /\ n \in Proposers /\ proposer[n].id.count \in 1..MaxCount
           /\ \E k \in Asked : k.from = n /\ k.inst = inst(n) /\ k.id = proposer[n].id
           /\ \A k \in Offered : k.id # proposer[n].id
           /\ \A k \in Nodes : inst(k)' = inst(k) /\ inst(k) \in Nat
           /\ cmp_geq(proposer'[n].highest_accepted, proposer[n].highest_accepted)
           /\ cmp_geq(proposer'[n].highest_accepted, m.last)
           /\ ProposersKept' /\ AskedKept' /\ AskedOnce'
           /\ VotedKept' /\ PromisedKept' /\ AcceptorsKept'
           /\ Asked' = Asked /\ Voted' = Voted /\ Promised' = Promised
<1> DEFINE p == proposer[n]
           q == proposer'[n]
<1>1. /\ m.to = n /\ m.inst = inst(n) /\ m.id = p.id /\ m.id.count # 0
      /\ ~p.leader
      /\ \A k \in Nodes \ {n} : proposer'[k] = proposer[k]
      /\ \A k \in Nodes : _master_uid'[k] \in {NoNode, _master_uid[k]}
      /\ q.id = p.id /\ cmp_geq(q.highest, p.highest)
      /\ Asked' = Asked /\ Voted' = Voted /\ Promised' = Promised
      /\ acceptor' = acceptor /\ disk' = disk
  BY DEF Gathering, Others, MastersLeft
<1>2. /\ bound' = bound /\ Proposers' = Proposers /\ m.last \in Ids
      /\ {p.id, p.highest, p.highest_accepted, q.id, q.highest, q.highest_accepted} \subseteq Ids
      /\ \A k \in Nodes : k # NoNode /\ inst(k) \in Nat
      /\ \A k \in Asked \cup Offered : k.id \in Ids /\ k.from \in Nodes
  BY Basics
<1>3. \A k \in Nodes : inst(k)' = inst(k) /\ inst(k) \in Nat
  BY <1>1, <1>2 DEF inst
<1>4. /\ p.id.node = n /\ p.id.count >= 0 /\ cmp_geq(p.highest, p.id)
      /\ _master_uid[n] = n => n \in Proposers /\ p.id.count >= 2
  BY DEF Before, AInv, ProposersKept
<1>5. PICK ask \in Asked : ask.from = n /\ ask.inst = inst(n) /\ ask.id = p.id
  BY <1>1 DEF Before, AInv, PromisedKept
<1>6. n \in Proposers /\ p.id.count <= MaxCount
  BY <1>5 DEF Before, AInv, AskedKept
<1>7. p.id.count \in 1..MaxCount
  <2>1. MaxCount \in Nat /\ p.id.count \in Int
    BY <1>2 DEF Before, PaxosAssumption, Ids
  <2> QED
    BY <1>1, <1>4, <1>6, <2>1
<1>8. ASSUME NEW j \in Offered PROVE j.id # p.id
  <2>1. SUFFICES ASSUME j.id = p.id PROVE FALSE
    OBVIOUS
  <2>2. j.from = n
    BY <1>4, <2>1 DEF Before, AInv, OfferedKept
  <2> QED
    BY <1>1, <2>1, <2>2 DEF Before, AInv, LedKept
<1>9. q.highest_accepted = IF m.last # NoId /\ cmp_gt(m.last, p.highest_accepted)
                           THEN m.last ELSE p.highest_accepted
  BY DEF Gathering
<1>10. \A k \in Asked : k.from \in Nodes /\ k.id \in Ids
  BY <1>2
<1> HIDE DEF p, q
<1>11. cmp_geq(q.highest_accepted, p.highest_accepted)
  BY <1>2, <1>9, IdOrder, GeqReflexive
<1>12. cmp_geq(q.highest_accepted, m.last)
  <2>1. CASE m.last = NoId
    <3>1. m.last.count = 0 - 1 /\ m.last.node = 0
      BY <2>1 DEF NoId, NoNode
    <3>2. p.highest_accepted = NoId \/ p.highest_accepted.count >= 1
      <4>1. SUFFICES ASSUME NEW j \in Offered, j.id = p.highest_accepted
                     PROVE  p.highest_accepted.count >= 1
        BY DEF Before, AInv, HighestKept, p
      <4>2. j.id.count \in 1..MaxCount /\ MaxCount \in Nat
        BY DEF Before, AInv, OfferedKept, PaxosAssumption
      <4> QED
        BY <4>1, <4>2
    <3>3. cmp_geq(p.highest_accepted, m.last)
      BY <1>2, <2>1, <3>1, <3>2, GeqReflexive DEF cmp_geq, Ids
    <3> QED
      BY <1>9, <2>1, <3>3
  <2>2. CASE m.last # NoId
    BY <1>2, <1>9, <2>2, IdOrder, GeqReflexive
  <2> QED
    BY <2>1, <2>2
<1>13. ProposersKept'
  <2>1. ASSUME NEW k \in Nodes, k # n PROVE Fit(k)'
    BY <1>1, <2>1, FitStays
  <2>2. cmp_geq(q.highest, q.id)
    BY <1>1, <1>2, <1>4, GeqTransitive DEF p, q
  <2>3. _master_uid'[n] = n => _master_uid[n] = n
    BY <1>1, <1>2
  <2>4. q.id.count # 0 /\ q.id.count >= 0 /\ q.id.node = n
    BY <1>1, <1>4
  <2>5. Fit(n)'
    BY <1>1, <1>2, <1>4, <1>6, <2>2, <2>3, <2>4 DEF Fit, p, q
  <2> QED
    BY <2>1, <2>5 DEF ProposersKept, Fit
<1>14. ASSUME NEW k \in Nodes
       PROVE  /\ proposer'[k].id = proposer[k].id
              /\ \A j \in Ids : cmp_geq(proposer[k].highest, j) => cmp_geq(proposer'[k].highest, j)
  <2>1. CASE k = n
    BY <1>1, <1>2, <2>1, GeqTransitive DEF p, q
  <2>2. CASE k # n
    BY <1>1, <2>2
  <2> QED
    BY <2>1, <2>2
<1>15. AskedKept'
  <2>1. SUFFICES ASSUME NEW k \in Asked
                 PROVE  /\ k.from \in Proposers /\ k.inst < bound.instance
                        /\ proposer'[k.from].id.count >= 1
                        /\ cmp_geq(proposer'[k.from].highest, k.id)
                        /\ k.id = proposer'[k.from].id => k.id.count <= MaxCount
    BY <1>1, <1>2 DEF AskedKept
  <2>2. /\ k.from \in Proposers /\ k.inst < bound.instance
        /\ proposer[k.from].id.count >= 1
        /\ cmp_geq(proposer[k.from].highest, k.id)
        /\ k.id = proposer[k.from].id => k.id.count <= MaxCount
    BY DEF Before, AInv, AskedKept
  <2> QED
    BY <1>10, <1>14, <2>2
<1>16. AskedOnce'
  <2>1. SUFFICES ASSUME NEW k \in Asked, NEW j \in Asked,
                        k.from = j.from, k.id = j.id, k.id = proposer'[k.from].id
                 PROVE  k.inst = j.inst
    BY <1>1 DEF AskedOnce
  <2>2. k.id = proposer[k.from].id
    BY <1>10, <1>14, <2>1
  <2> QED
    BY <2>1, <2>2 DEF Before, AInv, AskedOnce
<1>17. VotedKept'
  BY <1>1 DEF Before, AInv, VotedKept
<1>18. PromisedKept' /\ AcceptorsKept'
  <2>1. AcceptorsKept'
    BY <1>1 DEF Before, AInv, AcceptorsKept, HasVoted
  <2>2. PromisedKept'
    BY <1>1 DEF Before, AInv, PromisedKept, HasVoted
  <2> QED
    BY <2>1, <2>2
<1> QED
  BY <1>1, <1>3, <1>5, <1>6, <1>7, <1>8, <1>11, <1>12, <1>13, <1>15, <1>16, <1>17, <1>18 DEF p, q

\* What was accepted last was offered before.
LEMMA LastOffered ==
    ASSUME AInv, NEW m \in Promised, m.last # NoId
    PROVE  \E k \in Offered : k.inst = m.inst /\ k.id = m.last /\ k.value = m.value
<1>1. PICK j \in Voted : j.inst = m.inst /\ j.id = m.last /\ j.value = m.value
  BY DEF AInv, PromisedKept, HasVoted
<1> QED
  BY <1>1 DEF AInv, VotedKept

\* The value it proposes is one that was offered, or its own.
LEMMA GatheringProposes ==
    ASSUME Before, NEW n \in Nodes, NEW m \in Promised, Gathering(n, m),
           Offered \subseteq Offered'
    PROVE  /\ ProposedKept' /\ HighestKept'
           /\ (proposer'[n].proposed \in Nodes /\ proposer'[n].proposed # n) =>
                 \E k \in Offered : k.from = proposer'[n].proposed /\ k.inst = inst(n)
<1> DEFINE p == proposer[n]
           q == proposer'[n]
           newer == m.last # NoId /\ cmp_gt(m.last, p.highest_accepted)
<1>1. /\ m.inst = inst(n) /\ \A k \in Nodes \ {n} : proposer'[k] = proposer[k]
      /\ q.highest_accepted = IF newer THEN m.last ELSE p.highest_accepted
      /\ q.proposed = IF newer /\ m.value # NoValue THEN m.value ELSE p.proposed
  BY DEF Gathering, Others
<1>2. \A k \in Nodes : inst(k)' = inst(k)
  BY GatheringKeeps
<1>3. ProposedKept /\ HighestKept /\ AInv
  BY DEF Before, AInv
<1> HIDE DEF p, q
<1>4. (q.proposed \in Nodes /\ q.proposed # n) =>
         \E k \in Offered : k.from = q.proposed /\ k.inst = inst(n)
  <2>1. CASE newer /\ m.value # NoValue
    <3>1. PICK k \in Offered : k.inst = m.inst /\ k.id = m.last /\ k.value = m.value
      BY <1>3, <2>1, LastOffered
    <3>2. k.value \in Nodes => \E j \in Offered : j.from = k.value /\ j.inst = k.inst
      BY <1>3 DEF AInv, OfferedKept
    <3> QED
      BY <1>1, <2>1, <3>1, <3>2
  <2>2. CASE ~(newer /\ m.value # NoValue)
    BY <1>1, <1>3, <2>2 DEF ProposedKept, p
  <2> QED
    BY <2>1, <2>2
<1>5. ProposedKept'
  <2>1. SUFFICES ASSUME NEW k \in Nodes, proposer'[k].proposed \in Nodes, proposer'[k].proposed # k
                 PROVE  \E j \in Offered : j.from = proposer'[k].proposed /\ j.inst = inst(k)
    BY <1>2 DEF ProposedKept
  <2>2. CASE k = n
    BY <1>4, <2>1, <2>2 DEF q
  <2>3. CASE k # n
    BY <1>1, <1>3, <2>1, <2>3 DEF ProposedKept
  <2> QED
    BY <2>2, <2>3
<1>6. HighestKept'
  <2>1. SUFFICES ASSUME NEW k \in Nodes
                 PROVE  \/ proposer'[k].highest_accepted = NoId
                        \/ \E j \in Offered : j.id = proposer'[k].highest_accepted
    BY DEF HighestKept
  <2>2. CASE k = n /\ newer
    <3>1. PICK j \in Offered : j.inst = m.inst /\ j.id = m.last /\ j.value = m.value
      BY <1>3, <2>2, LastOffered
    <3> QED
      BY <1>1, <2>2, <3>1 DEF q
  <2>3. CASE k = n /\ ~newer
    BY <1>1, <1>3, <2>3 DEF HighestKept, p, q
  <2>4. CASE k # n
    BY <1>1, <1>3, <2>4 DEF HighestKept
  <2> QED
    BY <2>2, <2>3, <2>4
<1> QED
  BY <1>4, <1>5, <1>6 DEF q

\* Promises of one id are of the instance of its proposer.
LEMMA PromisesAgree ==
    ASSUME Before, NEW n \in Nodes, NEW m \in Promised, NEW j \in Promised,
           m.to = n, j.to = n, m.id = proposer[n].id, j.id = m.id
    PROVE  j.inst = m.inst
<1>1. PICK k \in Asked : k.from = n /\ k.inst = m.inst /\ k.id = m.id
  BY DEF Before, AInv, PromisedKept
<1>2. PICK l \in Asked : l.from = n /\ l.inst = j.inst /\ l.id = m.id
  BY DEF Before, AInv, PromisedKept
<1> QED
  BY <1>1, <1>2 DEF Before, AInv, AskedOnce

LEMMA GatheringCounts ==
    ASSUME Before, NEW n \in Nodes, NEW m \in Promised, Gathering(n, m),
           Offered \subseteq Offered', NEW a \in proposer[n].promises \cup {m.from}
    PROVE  \E j \in Promised : Told(j, a, n, proposer'[n], Offered)
<1> DEFINE h == proposer[n].highest_accepted
           g == proposer'[n].highest_accepted
           newer == m.last # NoId /\ cmp_gt(m.last, h)
<1>1. /\ m.to = n /\ m.id = proposer[n].id /\ proposer'[n].id = proposer[n].id
      /\ cmp_geq(g, h) /\ cmp_geq(g, m.last)
  BY GatheringKeeps DEF Gathering
<1>2. /\ newer => g = m.last
      /\ ~newer => g = h
      /\ ~newer /\ m.last # NoId => \E k \in Voted : k.inst = m.inst /\ k.id = h
  BY DEF Gathering
<1>3. {h, g} \subseteq Ids /\ \A j \in Promised : j.last \in Ids
  BY Basics
<1> HIDE DEF h, g, newer
<1>4. newer => \E k \in Offered : k.inst = m.inst /\ k.id = g
  <2>1. SUFFICES ASSUME newer PROVE \E k \in Offered : k.inst = m.inst /\ k.id = g
    OBVIOUS
  <2>2. PICK k \in Offered : k.inst = m.inst /\ k.id = m.last
    BY <2>1, LastOffered DEF Before, newer
  <2> QED
    BY <1>2, <2>1, <2>2
<1>5. CASE a = m.from
  <2>1. m.last = NoId \/ \E k \in Offered : k.inst = m.inst /\ k.id = g
    <3>1. CASE newer
      BY <1>4, <3>1
    <3>2. CASE ~newer /\ m.last # NoId
      <4>1. PICK k \in Voted : k.inst = m.inst /\ k.id = h
        BY <1>2, <3>2
      <4>2. PICK o \in Offered : o.inst = k.inst /\ o.id = k.id
        BY DEF Before, AInv, VotedKept
      <4> QED
        BY <1>2, <3>2, <4>1, <4>2
    <3> QED
      BY <3>1, <3>2
  <2> QED
    BY <1>1, <1>5, <2>1 DEF Told, g
<1>6. CASE a \in proposer[n].promises
  <2>1. PICK j \in Promised : Told(j, a, n, proposer[n], Offered)
    BY <1>6 DEF Before, AInv, GatheredKept, h
  <2>2. j.from = a /\ j.to = n /\ j.id = proposer[n].id /\ cmp_geq(h, j.last)
    BY <2>1 DEF Told, h
  <2>3. cmp_geq(g, j.last)
    BY <1>1, <1>3, <2>2, GeqTransitive
  <2>4. j.inst = m.inst
    BY <1>1, <2>2, PromisesAgree
  <2>5. j.last = NoId \/ \E k \in Offered : k.inst = j.inst /\ k.id = g
    <3>1. CASE newer
      BY <1>4, <2>4, <3>1
    <3>2. CASE ~newer
      BY <1>2, <2>1, <3>2 DEF Told, h
    <3> QED
      BY <3>1, <3>2
  <2> QED
    BY <1>1, <2>2, <2>3, <2>5 DEF Told, g
<1> QED
  BY <1>5, <1>6

LEMMA GatheringGathers ==
    ASSUME Before, NEW n \in Nodes, NEW m \in Promised, Gathering(n, m),
           Offered \subseteq Offered',
           proposer'[n].promises \subseteq proposer[n].promises \cup {m.from}
    PROVE  GatheredKept'
<1>1. Promised' = Promised /\ \A k \in Nodes \ {n} : proposer'[k] = proposer[k]
  BY DEF Gathering, Others
<1>2. SUFFICES ASSUME NEW k \in Nodes, NEW a \in proposer'[k].promises
               PROVE  \E j \in Promised : Told(j, a, k, proposer'[k], Offered')
  BY <1>1 DEF GatheredKept, Told
<1>3. \E j \in Promised : Told(j, a, k, proposer'[k], Offered)
  <2>1. CASE k = n
    BY <1>2, <2>1, GatheringCounts
  <2>2. CASE k # n
    BY <1>1, <1>2, <2>2 DEF Before, AInv, GatheredKept
  <2> QED
    BY <2>1, <2>2
<1> QED
  BY <1>3 DEF Told

LEMMA JoiningKeeps ==
    ASSUME Before, NEW n \in Nodes, NEW m \in Promised, Joining(n, m)
    PROVE  AInv'
<1>1. /\ Gathering(n, m) /\ Offered' = Offered
      /\ proposer'[n].promises \subseteq proposer[n].promises \cup {m.from}
  BY DEF Joining
<1>2. Offered \subseteq Offered'
  BY <1>1
<1>3. /\ \A k \in Offered : k.id # proposer[n].id
      /\ \A k \in Nodes : inst(k)' = inst(k) /\ inst(k) \in Nat
      /\ ProposersKept' /\ AskedKept' /\ AskedOnce'
      /\ VotedKept' /\ PromisedKept' /\ AcceptorsKept' /\ Asked' = Asked
  BY <1>1, <1>2, GatheringKeeps
<1>4. PInv' /\ bound' = bound /\ bound \in Bounds
  BY Basics DEF Before
<1>5. OfferedKept' /\ OfferedOnce'
  BY <1>1, <1>3, OffersStay
<1>6. LedKept'
  <2>1. SUFFICES ASSUME NEW k \in Offered
                 PROVE  /\ cmp_geq(proposer'[k.from].id, k.id)
                        /\ k.id = proposer'[k.from].id =>
                              /\ proposer'[k.from].leader
                              /\ k.inst = inst(k.from)' => proposer'[k.from].proposed = k.value
    BY <1>1 DEF LedKept
  <2>2. k.from \in Nodes /\ cmp_geq(proposer[k.from].id, k.id)
    BY Basics DEF Before, AInv, LedKept
  <2>3. CASE k.from = n
    BY <1>1, <1>3, <2>2, <2>3 DEF Gathering
  <2>4. CASE k.from # n
    BY <1>1, <1>3, <2>2, <2>4, OneOffer DEF Gathering, Others
  <2> QED
    BY <2>3, <2>4
<1>7. ProposedKept' /\ HighestKept'
  BY <1>1, <1>2, GatheringProposes
<1>8. GatheredKept'
  BY <1>1, <1>2, GatheringGathers
<1> QED
  BY <1>3, <1>4, <1>5, <1>6, <1>7, <1>8 DEF AInv

LEMMA WinningKeeps ==
    ASSUME Before, NEW n \in Nodes, NEW m \in Promised, Winning(n, m)
    PROVE  AInv'
<1> DEFINE q == proposer'[n]
           new == accept(n, inst(n), proposer[n].id, q.proposed)
<1>1. /\ Gathering(n, m) /\ Offered' = Offered \cup {new}
      /\ q.leader /\ q.promises = {} /\ q.proposed # NoValue /\ q.id = proposer[n].id
      /\ \A k \in Nodes \ {n} : proposer'[k] = proposer[k]
  BY DEF Winning, Gathering, Others
<1>2. Offered \subseteq Offered'
  BY <1>1
<1>3. /\ \A k \in Offered : k.id # proposer[n].id
      /\ n \in Proposers /\ proposer[n].id.count \in 1..MaxCount
      /\ \E k \in Asked : k.from = n /\ k.inst = inst(n) /\ k.id = proposer[n].id
      /\ \A k \in Nodes : inst(k)' = inst(k) /\ inst(k) \in Nat
      /\ ProposersKept' /\ AskedKept' /\ AskedOnce'
      /\ VotedKept' /\ PromisedKept' /\ AcceptorsKept' /\ Asked' = Asked
  BY <1>1, <1>2, GatheringKeeps
<1>4. /\ PInv' /\ bound' = bound /\ bound \in Bounds /\ Proposers' = Proposers
      /\ q.id \in Ids /\ q \in AnyProposer
  BY Basics DEF Before
<1>5. /\ new.from = n /\ new.inst = inst(n) /\ new.id = q.id /\ new.value = q.proposed
      /\ q.id.node = n
  BY <1>1 DEF accept, Before, AInv, ProposersKept
<1>6. /\ ProposedKept' /\ HighestKept'
      /\ (q.proposed \in Nodes /\ q.proposed # n) =>
             \E k \in Offered : k.from = q.proposed /\ k.inst = inst(n)
  BY <1>1, <1>2, GatheringProposes
<1>7. GatheredKept'
  BY <1>1, <1>2, GatheringGathers
<1>8. q.proposed \in Values
  BY <1>1, <1>4 DEF AnyProposer, Vals
<1> HIDE DEF q, new
<1>9. OfferedKept'
  <2>1. SUFFICES ASSUME NEW k \in Offered \cup {new}
                 PROVE  /\ k.id.node = k.from /\ k.from \in Proposers /\ k.id.count \in 1..MaxCount
                        /\ k.inst <= inst(k.from) /\ k.value \in Values /\ k.from \in Nodes
                        /\ \E j \in Asked : j.from = k.from /\ j.inst = k.inst /\ j.id = k.id
                        /\ k.value \in Nodes =>
                              \E j \in Offered \cup {new} : j.from = k.value /\ j.inst = k.inst
    BY <1>1, <1>3, <1>4 DEF OfferedKept
  <2>2. CASE k = new
    <3>1. k.value \in Nodes => \E j \in Offered \cup {new} : j.from = k.value /\ j.inst = k.inst
      <4>1. k.value = q.proposed /\ k.inst = inst(n) /\ new.from = n /\ new.inst = inst(n)
        BY <1>5, <2>2
      <4>2. CASE q.proposed = n
        BY <4>1, <4>2
      <4>3. CASE q.proposed # n
        BY <1>6, <4>1, <4>3
      <4> QED
        BY <4>2, <4>3
    <3> QED
      BY <1>1, <1>3, <1>5, <1>8, <2>2, <3>1
  <2>3. CASE k \in Offered
    <3>1. k.from \in Nodes
      BY <2>3, Basics
    <3> QED
      BY <2>3, <3>1 DEF Before, AInv, OfferedKept
  <2> QED
    BY <2>1, <2>2, <2>3
<1>10. LedKept'
  <2>1. SUFFICES ASSUME NEW k \in Offered \cup {new}
                 PROVE  /\ cmp_geq(proposer'[k.from].id, k.id)
                        /\ k.id = proposer'[k.from].id =>
                              /\ proposer'[k.from].leader
                              /\ k.inst = inst(k.from)' => proposer'[k.from].proposed = k.value
    BY <1>1 DEF LedKept
  <2>2. CASE k = new
    BY <1>1, <1>4, <1>5, <2>2, GeqReflexive DEF q
  <2>3. CASE k \in Offered
    <3>1. k.from \in Nodes /\ cmp_geq(proposer[k.from].id, k.id)
      BY <2>3, Basics DEF Before, AInv, LedKept
    <3>2. CASE k.from = n
      BY <1>1, <1>3, <2>3, <3>1, <3>2 DEF q
    <3>3. CASE k.from # n
      BY <1>1, <1>3, <2>3, <3>1, <3>3, OneOffer
    <3> QED
      BY <3>2, <3>3
  <2> QED
    BY <2>1, <2>2, <2>3
<1>11. OfferedOnce'
  <2>1. SUFFICES ASSUME NEW k \in Offered \cup {new}, NEW j \in Offered \cup {new}, k.id = j.id
                 PROVE  k.inst = j.inst /\ k.value = j.value
    BY <1>1 DEF OfferedOnce
  <2>2. k = new <=> j = new
    BY <1>1, <1>3, <1>5, <2>1
  <2> QED
    BY <2>1, <2>2 DEF Before, AInv, OfferedOnce
<1>12. PInv' /\ (bound \in Bounds)'
  BY <1>4
<1>13. /\ ProposersKept' /\ AskedKept' /\ AskedOnce'
       /\ VotedKept' /\ PromisedKept' /\ AcceptorsKept'
  BY <1>3
<1>14. ProposedKept' /\ HighestKept'
  BY <1>6
<1> QED
  BY <1>7, <1>9, <1>10, <1>11, <1>12, <1>13, <1>14 DEF AInv

\* Of the node that goes on, nothing of the next instance is known.
LEMMA MovingAcceptors ==
    ASSUME Before, NEW n \in Nodes, NEW i \in Nat, Moving(n, i)
    PROVE  /\ AcceptorsKept' /\ VotedKept' /\ PromisedKept'
           /\ i > inst(n) /\ inst(n)' = i
           /\ \A k \in Nodes \ {n} : inst(k)' = inst(k)
           /\ \A k \in Nodes : inst(k)' \in Nat /\ inst(k)' >= inst(k)
<1>1. PICK id \in Ids : Advancing(n, i, id)
  BY DEF Moving
<1>2. /\ i > inst(n) /\ disk' = Set(disk, n, NewAcceptor(i))
      /\ acceptor' = Set(acceptor, n, [NewAcceptor(i) EXCEPT !.promised = id])
  BY <1>1 DEF Advancing
<1>3. /\ Offered' = Offered /\ Voted' = Voted /\ Promised' = Promised /\ Asked \subseteq Asked'
  BY DEF Moving, NewlyAsked
<1>4. acceptor \in [Nodes -> AnyAcceptor] /\ disk \in [Nodes -> AnyAcceptor]
  BY DEF Before, AInv, PInv, Shape
<1>5. ASSUME NEW k \in Nodes, k # n PROVE acceptor'[k] = acceptor[k] /\ disk'[k] = disk[k]
  BY <1>2, <1>4, <1>5 DEF Set
<1>6. /\ acceptor'[n].inst = i /\ acceptor'[n].accepted = NoId
      /\ disk'[n].inst = i /\ disk'[n].accepted = NoId
  BY <1>2, <1>4 DEF Set, NewAcceptor
<1>7. AcceptorsKept'
  <2>1. SUFFICES ASSUME NEW k \in Nodes, NEW a \in {acceptor'[k], disk'[k]}
                 PROVE  a.accepted = NoId \/ HasVoted(k, a.inst, a.accepted, a.value)
    BY <1>3 DEF AcceptorsKept, HasVoted
  <2>2. CASE k = n
    BY <1>6, <2>1, <2>2
  <2>3. CASE k # n
    BY <1>5, <2>1, <2>3 DEF Before, AInv, AcceptorsKept
  <2> QED
    BY <2>2, <2>3
<1>8. VotedKept'
  BY <1>3 DEF Before, AInv, VotedKept
<1>9. PromisedKept'
  <2>1. SUFFICES ASSUME NEW j \in Promised
                 PROVE  /\ \E k \in Asked' : k.from = j.to /\ k.inst = j.inst /\ k.id = j.id
                        /\ j.last = NoId \/ HasVoted(j.from, j.inst, j.last, j.value)
                        /\ \A k \in Voted : (k.from = j.from /\ k.inst = j.inst) =>
                              cmp_geq(j.last, k.id) \/ cmp_geq(k.id, j.id)
    BY <1>3 DEF PromisedKept, HasVoted
  <2>2. /\ \E k \in Asked : k.from = j.to /\ k.inst = j.inst /\ k.id = j.id
        /\ j.last = NoId \/ HasVoted(j.from, j.inst, j.last, j.value)
        /\ \A k \in Voted : (k.from = j.from /\ k.inst = j.inst) =>
              cmp_geq(j.last, k.id) \/ cmp_geq(k.id, j.id)
    BY DEF Before, AInv, PromisedKept
  <2> QED
    BY <1>3, <2>2
<1>10. \A k \in Nodes \ {n} : inst(k)' = inst(k)
  BY <1>5 DEF inst
<1>11. inst(n)' = i
  BY <1>6 DEF inst
<1>12. \A k \in Nodes : inst(k) \in Nat
  BY Basics
<1>13. ASSUME NEW k \in Nodes PROVE inst(k)' \in Nat /\ inst(k)' >= inst(k)
  <2>1. CASE k = n
    BY <1>2, <1>11, <1>12, <2>1
  <2>2. CASE k # n
    BY <1>10, <1>12, <2>2
  <2> QED
    BY <2>1, <2>2
<1> QED
  BY <1>2, <1>7, <1>8, <1>9, <1>10, <1>11, <1>13

\* Its proposer has its old id, or one that nobody has seen.
LEMMA MovingDraws ==
    ASSUME Before, NEW n \in Nodes, NEW i \in Nat, Moving(n, i)
    PROVE  LET p == proposer[n]
               q == proposer'[n]
           IN  /\ q.proposed = NoValue
               /\ q.highest_accepted = p.highest_accepted
               /\ q.id.node = n /\ q.id.count >= p.id.count /\ cmp_geq(q.highest, q.id)
               /\ \A j \in Ids : cmp_geq(p.highest, j) => cmp_geq(q.highest, j)
               /\ \/ /\ \A j \in Ids : cmp_geq(p.highest, j) => j # q.id /\ cmp_geq(q.id, j)
                     /\ ~q.leader /\ q.promises = {} /\ q.id.count > p.highest.count
                  \/ /\ q.id = p.id /\ q.leader = p.leader /\ q.promises = p.promises
                     /\ q.copies = p.copies
<1> DEFINE p == proposer[n]
           q == proposer'[n]
<1>1. q.proposed = NoValue /\ (Draws(n, p, q) \/ Sees([p EXCEPT !.proposed = NoValue], q))
  BY DEF Moving
<1>2. /\ p.id.node = n /\ p.id.count >= 0 /\ cmp_geq(p.highest, p.id)
      /\ {p.id, p.highest, q.id, q.highest} \subseteq Ids /\ p \in AnyProposer
  BY Basics DEF Before, AInv, ProposersKept
<1> HIDE DEF p, q
<1>3. CASE Draws(n, p, q)
  <2>1. /\ q.id.node = n /\ q.id.count > p.highest.count /\ cmp_geq(q.highest, q.id)
        /\ ~q.leader /\ q.promises = {} /\ q.highest_accepted = p.highest_accepted
    BY <1>3 DEF Draws
  <2>2. \A j \in Ids : cmp_geq(p.highest, j) => j # q.id /\ cmp_geq(q.id, j) /\ cmp_geq(q.highest, j)
    BY <1>2, <2>1, IdOrder
  <2>3. q.id.count >= p.id.count
    BY <1>2, <2>1, IdOrder DEF Ids
  <2> QED
    BY <1>1, <2>1, <2>2, <2>3 DEF p, q
<1>4. CASE Sees([p EXCEPT !.proposed = NoValue], q)
  <2>1. /\ q.id = p.id /\ q.highest_accepted = p.highest_accepted
        /\ q.leader = p.leader /\ q.promises = p.promises /\ q.copies = p.copies
        /\ cmp_geq(q.highest, p.highest)
    BY <1>2, <1>4 DEF Sees, AnyProposer
  <2>2. \A j \in Ids : cmp_geq(p.highest, j) => cmp_geq(q.highest, j)
    BY <1>2, <2>1, GeqTransitive
  <2>3. q.id.count >= p.id.count /\ cmp_geq(q.highest, q.id)
    BY <1>2, <2>1, <2>2 DEF Ids
  <2> QED
    BY <1>1, <1>2, <2>1, <2>2, <2>3 DEF p, q
<1> QED
  BY <1>1, <1>3, <1>4

LEMMA MovingKeeps ==
    ASSUME Before, NEW n \in Nodes, NEW i \in Nat, Moving(n, i)
    PROVE  AInv'
<1> DEFINE p == proposer[n]
           q == proposer'[n]
           Drawn == /\ \A j \in Ids : cmp_geq(p.highest, j) => j # q.id /\ cmp_geq(q.id, j)
                    /\ ~q.leader /\ q.promises = {} /\ q.id.count > p.highest.count
           Same == /\ q.id = p.id /\ q.leader = p.leader /\ q.promises = p.promises
                   /\ q.copies = p.copies
<1>1. /\ \A k \in Nodes \ {n} : /\ proposer'[k] = proposer[k]
                                /\ _master_uid'[k] \in {NoNode, _master_uid[k]}
      /\ _master_uid'[n] = n => n \in Proposers /\ q.id.count >= 2
      /\ n \notin Proposers => q = p
      /\ Offered' = Offered /\ Promised' = Promised
  BY DEF Moving, Others, MastersLeft
<1>2. /\ Asked \subseteq Asked'
      /\ \A m \in Asked' \ Asked : /\ m.from = n /\ m.inst = inst(n) /\ inst(n) < bound.instance
                                   /\ cmp_geq(q.highest, m.id) /\ n \in Proposers /\ m.id # q.id
                                   /\ q.id.count >= 1
  BY DEF Moving, NewlyAsked
<1>3. /\ AcceptorsKept' /\ VotedKept' /\ PromisedKept' /\ i > inst(n) /\ inst(n)' = i
      /\ \A k \in Nodes \ {n} : inst(k)' = inst(k)
      /\ \A k \in Nodes : inst(k)' \in Nat /\ inst(k)' >= inst(k)
  BY MovingAcceptors
<1>4. /\ q.proposed = NoValue /\ q.highest_accepted = p.highest_accepted
      /\ q.id.node = n /\ q.id.count >= p.id.count /\ cmp_geq(q.highest, q.id)
      /\ \A j \in Ids : cmp_geq(p.highest, j) => cmp_geq(q.highest, j)
      /\ Drawn \/ Same
  BY MovingDraws
<1>5. /\ bound' = bound /\ Proposers' = Proposers /\ bound \in Bounds /\ PInv'
      /\ {p.id, p.highest, q.id, q.highest} \subseteq Ids
      /\ \A k \in Nodes : k # NoNode /\ inst(k) \in Nat
      /\ \A m \in Asked \cup Offered : m.id \in Ids /\ m.from \in Nodes /\ m.inst \in Nat
      /\ PaxosAssumption
  BY Basics DEF Before
<1>6. /\ cmp_geq(p.highest, p.id) /\ p.id.count >= 0
      /\ p.id.count = 0 => Idle(p)
      /\ n \notin Proposers => p = NewProposer(n)
  BY DEF Before, AInv, ProposersKept
<1> HIDE DEF p, q, Drawn, Same
<1>7. ProposersKept'
  <2>1. ASSUME NEW k \in Nodes, k # n PROVE Fit(k)'
    BY <1>1, <2>1, FitStays
  <2>2. q.id.count >= 0
    BY <1>4, <1>5, <1>6 DEF Ids
  <2>3. NewProposer(n)' = NewProposer(n)
    BY DEF NewProposer
  <2>4. q.id.count = 0 => Idle(q)
    <3>1. CASE Drawn
      BY <1>5, <1>6, <3>1 DEF Drawn, cmp_geq, Ids
    <3>2. CASE Same
      BY <1>4, <1>6, <3>2 DEF Same, Idle
    <3> QED
      BY <1>4, <3>1, <3>2
  <2>5. Fit(n)'
    BY <1>1, <1>4, <1>5, <1>6, <2>2, <2>3, <2>4 DEF Fit, Idle, p, q
  <2> QED
    BY <2>1, <2>5 DEF ProposersKept, Fit
<1>8. AskedKept'
  <2>1. SUFFICES ASSUME NEW m \in Asked'
                 PROVE  /\ m.from \in Proposers /\ m.inst < bound.instance
                        /\ proposer'[m.from].id.count >= 1
                        /\ cmp_geq(proposer'[m.from].highest, m.id)
                        /\ m.id = proposer'[m.from].id => m.id.count <= MaxCount
    BY <1>5 DEF AskedKept
  <2>2. CASE m \notin Asked
    BY <1>2, <2>1, <2>2 DEF q
  <2>3. CASE m \in Asked
    <3>1. /\ m.from \in Proposers /\ m.inst < bound.instance /\ m.from \in Nodes /\ m.id \in Ids
          /\ proposer[m.from].id.count >= 1
          /\ cmp_geq(proposer[m.from].highest, m.id)
          /\ m.id = proposer[m.from].id => m.id.count <= MaxCount
      BY <1>5, <2>3 DEF Before, AInv, AskedKept
    <3>2. CASE m.from = n
      <4>1. cmp_geq(p.highest, m.id) /\ cmp_geq(q.highest, m.id)
        BY <1>4, <3>1, <3>2 DEF p
      <4>2. CASE Drawn
        <5>1. q.id.count >= 1
          BY <1>5, <1>6, <4>2 DEF Drawn, cmp_geq, Ids
        <5> QED
          BY <3>1, <3>2, <4>1, <4>2, <5>1 DEF Drawn, q
      <4>3. CASE Same
        BY <3>1, <3>2, <4>1, <4>3 DEF Same, p, q
      <4> QED
        BY <1>4, <4>2, <4>3
    <3>3. CASE m.from # n
      BY <1>1, <3>1, <3>3
    <3> QED
      BY <3>2, <3>3
  <2> QED
    BY <2>2, <2>3
<1>9. AskedOnce'
  <2>1. SUFFICES ASSUME NEW m \in Asked', NEW k \in Asked',
                        m.from = k.from, m.id = k.id, m.id = proposer'[m.from].id
                 PROVE  m.inst = k.inst
    BY DEF AskedOnce
  <2>2. CASE m.from = n
    <3>1. m \in Asked /\ k \in Asked
      BY <1>2, <2>1, <2>2 DEF q
    <3>2. CASE Drawn
      BY <1>5, <2>1, <2>2, <3>1, <3>2 DEF Drawn, Before, AInv, AskedKept, p, q
    <3>3. CASE Same
      BY <2>1, <2>2, <3>1, <3>3 DEF Same, Before, AInv, AskedOnce, p, q
    <3> QED
      BY <1>4, <3>2, <3>3
  <2>3. CASE m.from # n
    <3>1. m \in Asked /\ k \in Asked
      BY <1>2, <2>1, <2>3
    <3>2. proposer'[m.from] = proposer[m.from]
      BY <1>1, <1>5, <2>3, <3>1
    <3> QED
      BY <2>1, <3>1, <3>2 DEF Before, AInv, AskedOnce
  <2> QED
    BY <2>2, <2>3
<1>10. OfferedKept' /\ OfferedOnce'
  BY <1>1, <1>2, <1>3, OffersStay
<1>11. LedKept'
  <2>1. SUFFICES ASSUME NEW m \in Offered
                 PROVE  /\ cmp_geq(proposer'[m.from].id, m.id)
                        /\ m.id = proposer'[m.from].id =>
                              /\ proposer'[m.from].leader
                              /\ m.inst = inst(m.from)' => proposer'[m.from].proposed = m.value
    BY <1>1 DEF LedKept
  <2>2. /\ m.from \in Nodes /\ m.id \in Ids /\ m.inst \in Nat
        /\ cmp_geq(proposer[m.from].id, m.id) /\ m.inst <= inst(m.from)
        /\ m.id = proposer[m.from].id => proposer[m.from].leader
    BY <1>5 DEF Before, AInv, LedKept, OfferedKept
  <2>3. CASE m.from = n
    <3>1. cmp_geq(p.highest, m.id)
      BY <1>5, <1>6, <2>2, <2>3, GeqTransitive DEF p
    <3>2. m.inst # i
      BY <1>3, <1>5, <2>2, <2>3
    <3>3. CASE Drawn
      BY <2>2, <2>3, <3>1, <3>3 DEF Drawn, q
    <3>4. CASE Same
      BY <1>3, <2>2, <2>3, <3>2, <3>4 DEF Same, p, q
    <3> QED
      BY <1>4, <3>3, <3>4
  <2>4. CASE m.from # n
    BY <1>1, <1>3, <2>2, <2>4, OneOffer
  <2> QED
    BY <2>3, <2>4
<1>12. ProposedKept'
  <2>1. SUFFICES ASSUME NEW k \in Nodes, proposer'[k].proposed \in Nodes, proposer'[k].proposed # k
                 PROVE  \E j \in Offered : j.from = proposer'[k].proposed /\ j.inst = inst(k)'
    BY <1>1 DEF ProposedKept
  <2>2. k # n
    BY <1>4, <1>5, <2>1 DEF PaxosAssumption, q
  <2> QED
    BY <1>1, <1>3, <2>1, <2>2 DEF Before, AInv, ProposedKept
<1>13. HighestKept'
  <2>1. \A k \in Nodes : proposer'[k].highest_accepted = proposer[k].highest_accepted
    BY <1>1, <1>4 DEF p, q
  <2> QED
    BY <1>1, <2>1 DEF Before, AInv, HighestKept
<1>14. GatheredKept'
  <2>1. SUFFICES ASSUME NEW k \in Nodes, NEW a \in proposer'[k].promises
                 PROVE  \E j \in Promised : Told(j, a, k, proposer'[k], Offered)
    BY <1>1 DEF GatheredKept, Told
  <2>2. /\ a \in proposer[k].promises /\ proposer'[k].id = proposer[k].id
        /\ proposer'[k].highest_accepted = proposer[k].highest_accepted
    <3>1. CASE k = n
      BY <1>4, <2>1, <3>1 DEF Drawn, Same, p, q
    <3>2. CASE k # n
      BY <1>1, <2>1, <3>2
    <3> QED
      BY <3>1, <3>2
  <2>3. PICK j \in Promised : Told(j, a, k, proposer[k], Offered)
    BY <2>2 DEF Before, AInv, GatheredKept
  <2> QED
    BY <2>2, <2>3 DEF Told
<1>15. PInv' /\ (bound \in Bounds)'
  BY <1>5
<1>16. AcceptorsKept' /\ VotedKept' /\ PromisedKept'
  BY <1>3
<1> QED
  BY <1>7, <1>8, <1>9, <1>10, <1>11, <1>12, <1>13, <1>14, <1>15, <1>16 DEF AInv

-----------------------------------------------------------------------------
(* The invariant                                                           *)

LEMMA AInit ==
    ASSUME PaxosAssumption, Init
    PROVE  AInv
<1>1. PInv
  BY InitKept
<1>2. Asked = {} /\ Promised = {} /\ Offered = {} /\ Voted = {}
  BY DEF Init, Asked, Promised, Offered, Voted
<1>3. /\ \A n \in Nodes : /\ proposer[n] = NewProposer(n) /\ _master_uid[n] = NoNode
                          /\ acceptor[n] = NewAcceptor(0) /\ disk[n] = NewAcceptor(0)
      /\ bound \in Bounds
  BY DEF Init
<1>4. \A n \in Nodes : n # NoNode /\ n \in Nat /\ NoValue # n /\ NoValue \notin Nodes
  BY DEF PaxosAssumption, NoNode
<1>5. \A n \in Nodes :
         LET p == NewProposer(n)
         IN  /\ p.id.node = n /\ p.id.count = 0 /\ p.highest = p.id /\ Idle(p)
             /\ p.highest_accepted = NoId /\ p.proposed = NoValue /\ p.promises = {}
  BY DEF NewProposer, Id, Idle
<1>6. ProposersKept
  <2>1. SUFFICES ASSUME NEW n \in Nodes
                 PROVE  /\ proposer[n].id.node = n /\ proposer[n].id.count >= 0
                        /\ cmp_geq(proposer[n].highest, proposer[n].id)
                        /\ proposer[n].id.count = 0 => Idle(proposer[n])
                        /\ n \notin Proposers => proposer[n] = NewProposer(n)
                        /\ _master_uid[n] = n => n \in Proposers /\ proposer[n].id.count >= 2
    BY DEF ProposersKept
  <2>2. /\ proposer[n] = NewProposer(n) /\ _master_uid[n] # n
        /\ proposer[n].id.node = n /\ proposer[n].id.count = 0 /\ proposer[n].highest = proposer[n].id
        /\ Idle(proposer[n]) /\ n \in Nat
    <3>1. proposer[n] = NewProposer(n) /\ _master_uid[n] # n /\ n \in Nat
      BY <1>3, <1>4
    <3> QED
      BY <1>5, <3>1
  <2>3. cmp_geq(proposer[n].highest, proposer[n].id)
    BY <2>2 DEF cmp_geq
  <2> QED
    BY <2>2, <2>3
<1>7. /\ AskedKept /\ AskedOnce /\ OfferedKept /\ LedKept /\ OfferedOnce /\ VotedKept
      /\ PromisedKept
  BY <1>2 DEF AskedKept, AskedOnce, OfferedKept, LedKept, OfferedOnce, VotedKept, PromisedKept
<1>8. AcceptorsKept /\ HighestKept
  <2>1. NewAcceptor(0).accepted = NoId
    BY DEF NewAcceptor
  <2> QED
    <3>1. AcceptorsKept
      BY <1>3, <2>1 DEF AcceptorsKept
    <3>2. \A n \in Nodes : proposer[n].highest_accepted = NoId
      BY <1>3, <1>5
    <3> QED
      BY <3>1, <3>2 DEF HighestKept
<1>9. ProposedKept /\ GatheredKept
  <2>1. \A n \in Nodes : proposer[n].proposed = NoValue /\ proposer[n].promises = {}
    BY <1>3, <1>5
  <2> QED
    BY <1>4, <2>1 DEF ProposedKept, GatheredKept
<1> QED
  BY <1>1, <1>3, <1>6, <1>7, <1>8, <1>9 DEF AInv

LEMMA AStutters ==
    ASSUME PaxosAssumption, AInv, UNCHANGED vars
    PROVE  AInv'
<1>1. UNCHANGED <<bound, acceptor, disk, proposer, _master_uid, msgs>>
  BY DEF vars, nodeVars, lease
<1>2. UNCHANGED <<Asked, Promised, Offered, Voted>>
  BY <1>1, AddsNothing
<1>3. /\ Asked' = Asked /\ Promised' = Promised /\ Offered' = Offered /\ Voted' = Voted
      /\ bound' = bound /\ acceptor' = acceptor /\ disk' = disk /\ proposer' = proposer
      /\ _master_uid' = _master_uid /\ msgs' = msgs
  BY <1>1, <1>2
<1>4. PInv' /\ (bound \in Bounds)' /\ ProposersKept' /\ AskedKept' /\ AskedOnce'
  <2>1. PInv'
    BY NextKept DEF AInv
  <2>2. ProposersKept' /\ (bound \in Bounds)'
    BY <1>3 DEF AInv, ProposersKept, Idle, Proposers, NewProposer
  <2>3. AskedKept' /\ AskedOnce'
    BY <1>3 DEF AInv, AskedKept, AskedOnce, Proposers
  <2> QED
    BY <2>1, <2>2, <2>3
<1>5. OfferedKept' /\ LedKept' /\ OfferedOnce' /\ VotedKept'
  BY <1>3 DEF AInv, OfferedKept, LedKept, OfferedOnce, VotedKept, Proposers, inst
<1>6. PromisedKept' /\ AcceptorsKept'
  BY <1>3 DEF AInv, PromisedKept, AcceptorsKept, HasVoted
<1>7. ProposedKept' /\ HighestKept' /\ GatheredKept'
  BY <1>3 DEF AInv, ProposedKept, HighestKept, GatheredKept, Told, inst
<1> QED
  BY <1>4, <1>5, <1>6, <1>7 DEF AInv

LEMMA StepBefore ==
    ASSUME PaxosAssumption, AInv, Next, ~breach'
    PROVE  Before
<1>1. PInv' /\ Kinds
  BY NextKept, StepKind DEF AInv
<1> QED
  BY <1>1 DEF Before

LEMMA ANext ==
    ASSUME PaxosAssumption, AInv, [Next]_vars, ~breach'
    PROVE  AInv'
<1>1. CASE UNCHANGED vars
  BY <1>1, AStutters
<1>2. CASE Next
  <2>1. Before /\ Kinds
    BY <1>2, StepBefore DEF Before
  <2>2. CASE Hearing
    BY <2>1, <2>2, HearingKeeps
  <2>3. ASSUME NEW n \in Nodes, Asking(n) PROVE AInv'
    BY <2>1, <2>3, AskingKeeps
  <2>4. ASSUME NEW n \in Nodes, NEW m \in Promised, Joining(n, m) \/ Winning(n, m) PROVE AInv'
    BY <2>1, <2>4, JoiningKeeps, WinningKeeps
  <2>5. ASSUME NEW n \in Nodes, NEW i \in Nat, Moving(n, i) PROVE AInv'
    BY <2>1, <2>5, MovingKeeps
  <2> QED
    BY <2>1, <2>2, <2>3, <2>4, <2>5 DEF Kinds
<1> QED
  BY <1>1, <1>2

\* What was breached stays so, and is not to begin with.
LEMMA BreachStays ==
    ASSUME [Next]_vars, breach
    PROVE  breach'
BY DEF Next, Breaches, vars

\* Until a proposer forgets an id, is elected by a promise that it counted twice,
\* or passes over a vote, or a leaked timer offers an old value (breach), no id of
\* an instance is used for two values: a node draws a higher id for every value and
\* every instance, and offers one under it only while it has offered none
\* (proposer_propose_value(), proposer_receive_promise(), load_state()).
THEOREM IdsAreUnique ==
    ASSUME PaxosAssumption
    PROVE  Spec => [](breach \/ OneValuePerId)
<1>1. Init => AInv
  BY AInit
<1>2. (breach \/ AInv) /\ [Next]_vars => (breach \/ AInv)'
  BY ANext, BreachStays
<1>3. AInv => OneValuePerId
  BY DEF AInv, OfferedOnce, Offered, OneValuePerId
<1> QED
  BY <1>1, <1>2, <1>3, PTL DEF Spec

-----------------------------------------------------------------------------
(* Counting                                                                *)

LEMMA FewerNodes ==
    ASSUME PaxosAssumption, NEW T \in SUBSET Nodes, NEW S \in SUBSET T
    PROVE  /\ Cardinality(S) \in Nat /\ Cardinality(T) \in Nat /\ Cardinality(Nodes) \in Nat
           /\ Cardinality(S) <= Cardinality(T)
<1>1. IsFiniteSet(Nodes)
  BY DEF PaxosAssumption
<1>2. IsFiniteSet(T)
  BY <1>1, FS_Subset
<1>3. IsFiniteSet(S) /\ Cardinality(S) <= Cardinality(T)
  BY <1>2, FS_Subset
<1> QED
  BY <1>1, <1>2, <1>3, FS_CardinalityType

Backers(i, id, v) == {x \in Nodes : HasVoted(x, i, id, v)}

\* As many votes as there are nodes that gave one.
LEMMA Counted ==
    ASSUME PaxosAssumption, Shape, NEW i, NEW id, NEW v
    PROVE  Cardinality({b \in Voted : b.inst = i /\ b.id = id /\ b.value = v})
               = Cardinality(Backers(i, id, v))
<1> DEFINE B == {b \in Voted : b.inst = i /\ b.id = id /\ b.value = v}
           f == [b \in B |-> b.from]
<1>1. B \subseteq Votes /\ \A b \in B : b.type = "accepted"
  BY KindShapes DEF Voted
<1>2. f \in [B -> Backers(i, id, v)]
  BY <1>1 DEF Backers, HasVoted, Votes
<1>3. \A b, c \in B : b.from = c.from => b = c
  BY <1>1 DEF Votes
<1>4. \A x \in Backers(i, id, v) : \E b \in B : b.from = x
  BY DEF Backers, HasVoted
<1>5. f \in Injection(B, Backers(i, id, v)) /\ f \in Surjection(B, Backers(i, id, v))
  BY <1>2, <1>3, <1>4 DEF Injection, IsInjective, Surjection
<1>6. IsFiniteSet(Backers(i, id, v))
  BY FS_Subset DEF Backers, PaxosAssumption
<1> QED
  BY <1>5, <1>6, FS_Injection

LEMMA QuorumSize ==
    ASSUME PaxosAssumption
    PROVE  /\ quorum_size \in Nat \ {0} /\ Cardinality(Nodes) \in Nat
           /\ quorum_size + quorum_size > Cardinality(Nodes)
<1>1. Cardinality(Nodes) \in Nat
  BY FewerNodes
<1> QED
  BY <1>1 DEF quorum_size

LEMMA ChosenBacked ==
    ASSUME PaxosAssumption, Shape, NEW i, NEW v
    PROVE  <<i, v>> \in Chosen <=> \E id : Cardinality(Backers(i, id, v)) >= quorum_size
<1> DEFINE B(j, id, w) == {b \in Voted : b.inst = j /\ b.id = id /\ b.value = w}
<1>1. Chosen = {<<m.inst, m.value>> : m \in {a \in Voted :
                    Cardinality(B(a.inst, a.id, a.value)) >= quorum_size}}
  BY DEF Chosen, Voted
<1>2. \A j, id, w : Cardinality(B(j, id, w)) = Cardinality(Backers(j, id, w))
  BY Counted
<1>3. ASSUME <<i, v>> \in Chosen
      PROVE  \E id : Cardinality(Backers(i, id, v)) >= quorum_size
  <2>1. PICK a \in Voted : /\ Cardinality(B(a.inst, a.id, a.value)) >= quorum_size
                           /\ <<i, v>> = <<a.inst, a.value>>
    BY <1>1, <1>3
  <2>2. Cardinality(Backers(a.inst, a.id, a.value)) >= quorum_size
    BY <1>2, <2>1
  <2> QED
    BY <2>1, <2>2
<1>4. ASSUME NEW id, Cardinality(Backers(i, id, v)) >= quorum_size
      PROVE  <<i, v>> \in Chosen
  <2>1. Backers(i, id, v) # {}
    BY <1>4, QuorumSize, FS_EmptySet
  <2>2. PICK a \in Voted : a.inst = i /\ a.id = id /\ a.value = v
    BY <2>1 DEF Backers, HasVoted
  <2>3. Cardinality(B(a.inst, a.id, a.value)) >= quorum_size
    BY <1>2, <1>4, <2>2
  <2> QED
    BY <1>1, <2>2, <2>3
<1> QED
  BY <1>3, <1>4

-----------------------------------------------------------------------------
(* Learners                                                                *)

LearnerShape ==
    /\ learner \in [Nodes -> [acceptors : [Nodes -> Ids], accepts : [PAXOS_ID -> Nat]]]
    /\ log \in [Nodes -> [Instances -> Vals]]

Voters(l, id) ==
    {x \in Nodes : cmp_geq(l.acceptors[x], id) /\ \E k \in Voted : k.from = x /\ k.id = id}

\* No more votes are counted for an id than nodes gave one, that were heard then.
LearnersKept ==
    \A n \in Nodes : \A id \in PAXOS_ID :
        learner[n].accepts[id] <= Cardinality(Voters(learner[n], id))

LogKept ==
    \A n \in Nodes : \A i \in Instances \ {0} : log[n][i] # NoValue =>
        \E id : Cardinality(Backers(i - 1, id, log[n][i])) >= quorum_size

LInv == AInv /\ LearnerShape /\ LearnersKept /\ LogKept

LEMMA LearnersLearn ==
    ASSUME PaxosAssumption, LInv
    PROVE  OutcomesAreChosen
<1>1. SUFFICES ASSUME NEW n \in Nodes, NEW i \in Instances \ {0}, log[n][i] # NoValue
               PROVE  <<i - 1, log[n][i]>> \in Chosen
  BY DEF OutcomesAreChosen
<1>2. Shape
  BY DEF LInv, AInv, PInv
<1>3. \E id : Cardinality(Backers(i - 1, id, log[n][i])) >= quorum_size
  BY <1>1 DEF LInv, LogKept
<1> QED
  BY <1>2, <1>3, ChosenBacked

\* Votes are for good.
LEMMA VotesStay ==
    ASSUME Before
    PROVE  /\ Voted \subseteq Voted'
           /\ \A i, id, v : Backers(i, id, v) \subseteq Backers(i, id, v)'
<1>1. Kinds
  BY DEF Before
<1>2. ASSUME Hearing PROVE Voted \subseteq Voted'
  BY <1>2 DEF Hearing
<1>3. ASSUME NEW n \in Nodes, Asking(n) PROVE Voted \subseteq Voted'
  BY <1>3 DEF Asking
<1>4. ASSUME NEW n \in Nodes, NEW m \in Promised, Gathering(n, m) PROVE Voted \subseteq Voted'
  BY <1>4 DEF Gathering
<1>5. ASSUME NEW n \in Nodes, NEW i \in Nat, Moving(n, i) PROVE Voted \subseteq Voted'
  BY <1>5 DEF Moving
<1>6. Voted \subseteq Voted'
  BY <1>1, <1>2, <1>3, <1>4, <1>5 DEF Kinds, Joining, Winning
<1> QED
  BY <1>6 DEF Backers, HasVoted

LEMMA LogStays ==
    ASSUME PaxosAssumption, LInv, Before, NEW n \in Nodes, NEW i \in Instances \ {0},
           NEW v, v = log[n][i], v # NoValue
    PROVE  \E id : Cardinality(Backers(i - 1, id, v)') >= quorum_size
<1>1. PICK id : Cardinality(Backers(i - 1, id, v)) >= quorum_size
  BY DEF LInv, LogKept
<1> DEFINE S == Backers(i - 1, id, v)
           T == Backers(i - 1, id, v)'
<1>2. S \subseteq T
  BY VotesStay
<1>3. T \subseteq Nodes
  BY DEF Backers
<1>4. Cardinality(S) >= quorum_size
  BY <1>1
<1> HIDE DEF S, T
<1>5. Cardinality(S) <= Cardinality(T) /\ Cardinality(S) \in Nat /\ Cardinality(T) \in Nat
  BY <1>2, <1>3, FewerNodes
<1>6. Cardinality(T) >= quorum_size
  BY <1>4, <1>5, QuorumSize
<1> QED
  BY <1>6 DEF T

LEMMA LearnerStays ==
    ASSUME PaxosAssumption, LInv, Before, NEW n \in Nodes, learner'[n] = learner[n],
           NEW id \in PAXOS_ID
    PROVE  learner'[n].accepts[id] <= Cardinality(Voters(learner[n], id)')
<1> DEFINE S == Voters(learner[n], id)
           T == Voters(learner[n], id)'
<1>1. learner[n].accepts[id] <= Cardinality(S)
  BY DEF LInv, LearnersKept
<1>2. learner[n].accepts[id] \in Nat
  <2>1. learner[n] \in [acceptors : [Nodes -> Ids], accepts : [PAXOS_ID -> Nat]]
    BY DEF LInv, LearnerShape
  <2> QED
    BY <2>1
<1>3. S \subseteq T /\ T \subseteq Nodes
  BY VotesStay DEF Voters
<1>4. Cardinality(S) <= Cardinality(T) /\ Cardinality(S) \in Nat /\ Cardinality(T) \in Nat
  BY <1>3, FewerNodes
<1> QED
  BY <1>1, <1>2, <1>4

\* A vote that counts.
LEMMA VoteCounts ==
    ASSUME PaxosAssumption, LInv, NEW n \in Nodes, NEW m \in Voted, m.inst = inst(n),
           cmp_gt(m.id, learner[n].acceptors[m.from])
    PROVE  LET l == learner[n]
           IN  /\ m.id \in PAXOS_ID /\ m.from \in Nodes /\ m.value \in Vals
               /\ m.from \notin Voters(l, m.id)
               /\ Voters(l, m.id) \cup {m.from} \subseteq Backers(m.inst, m.id, m.value)
<1> DEFINE l == learner[n]
<1>1. Shape /\ OfferedKept /\ OfferedOnce /\ VotedKept
  BY DEF LInv, AInv, PInv
<1>2. m \in Votes /\ m.from \in Nodes /\ m.id \in Ids /\ m.value \in Vals
  BY <1>1, KindShapes DEF Votes
<1>3. l.acceptors[m.from] \in Ids
  <2>1. l \in [acceptors : [Nodes -> Ids], accepts : [PAXOS_ID -> Nat]]
    BY DEF LInv, LearnerShape
  <2> QED
    BY <1>2, <2>1
<1>4. PICK o \in Offered : o.inst = m.inst /\ o.id = m.id /\ o.value = m.value
  BY <1>1 DEF VotedKept
<1>5. m.id \in PAXOS_ID
  <2>1. o.id.count \in 1..MaxCount /\ o.id.node = o.from /\ o.from \in Nodes /\ MaxCount \in Nat
    BY <1>1, KindShapes DEF OfferedKept, Votes, PaxosAssumption
  <2>2. o.id.count \in 0..MaxCount /\ o.id.node \in Nodes
    BY <2>1
  <2> QED
    BY <1>2, <1>4, <2>2 DEF Ids, PAXOS_ID
<1>6. m.from \notin Voters(l, m.id)
  <2>1. ~cmp_geq(l.acceptors[m.from], m.id)
    BY <1>2, <1>3, IdOrder
  <2> QED
    BY <2>1 DEF Voters
<1>7. ASSUME NEW x \in Nodes, NEW k \in Voted, k.from = x, k.id = m.id
      PROVE  x \in Backers(m.inst, m.id, m.value)
  <2>1. PICK j \in Offered : j.inst = k.inst /\ j.id = k.id /\ j.value = k.value
    BY <1>1 DEF VotedKept
  <2>2. j.inst = o.inst /\ j.value = o.value
    BY <1>1, <1>4, <1>7, <2>1 DEF OfferedOnce
  <2>3. k.inst = m.inst /\ k.value = m.value
    BY <1>4, <2>1, <2>2
  <2> QED
    BY <1>7, <2>3 DEF Backers, HasVoted
<1>8. Voters(l, m.id) \cup {m.from} \subseteq Backers(m.inst, m.id, m.value)
  <2>1. m.from \in Backers(m.inst, m.id, m.value)
    BY <1>2, <1>7
  <2>2. Voters(l, m.id) \subseteq Backers(m.inst, m.id, m.value)
    BY <1>7 DEF Voters
  <2> QED
    BY <2>1, <2>2
<1> QED
  BY <1>2, <1>5, <1>6, <1>8

\* What is left of a learner when a vote has been counted.
CountedOne(l, m, r) ==
    /\ r.acceptors = Set(l.acceptors, m.from, m.id)
    /\ r.accepts \in [PAXOS_ID -> Nat]
    /\ \A id \in PAXOS_ID : r.accepts[id] <= l.accepts[id] + IF id = m.id THEN 1 ELSE 0

LEMMA VoteAdds ==
    ASSUME PaxosAssumption, LInv, NEW n \in Nodes, NEW m \in Voted, receive_accepted(n, m)
    PROVE  LET l == learner[n]
           IN  /\ m.inst = inst(n) /\ cmp_gt(m.id, l.acceptors[m.from]) /\ UNCHANGED bound
               /\ \/ /\ l.accepts[m.id] + 1 >= quorum_size
                     /\ learner' = Set(learner, n, NewLearner) /\ advance_instance(n, m.value)
                  \/ /\ \E r : learner' = Set(learner, n, r) /\ CountedOne(l, m, r)
                              /\ r \in [acceptors : [Nodes -> Ids], accepts : [PAXOS_ID -> Nat]]
                     /\ UNCHANGED <<acceptor, disk, proposer, lease, timers, leaked, msgs, log>>
<1> DEFINE l == learner[n]
           last == l.acceptors[m.from]
           latest == Set(l.acceptors, m.from, m.id)
           kept == IF last = NoId \/ \E x \in Nodes : latest[x] = last THEN l.accepts
                   ELSE Set(l.accepts, last, 0)
           counted == Set(kept, m.id, kept[m.id] + 1)
           r == [acceptors |-> latest, accepts |-> counted]
<1>1. /\ m.inst = inst(n) /\ cmp_gt(m.id, last) /\ UNCHANGED bound
      /\ IF counted[m.id] = quorum_size
         THEN /\ learner' = Set(learner, n, NewLearner) /\ advance_instance(n, m.value)
         ELSE /\ learner' = Set(learner, n, r)
              /\ UNCHANGED <<acceptor, disk, proposer, lease, timers, leaked, msgs, log>>
  BY Zenon DEF receive_accepted
<1> HIDE DEF kept, counted, r, latest
<1>2. m.id \in PAXOS_ID /\ m.from \in Nodes
  <2>1. m.inst = inst(n) /\ cmp_gt(m.id, learner[n].acceptors[m.from])
    BY <1>1
  <2> QED
    BY <2>1, VoteCounts
<1>3. l.acceptors \in [Nodes -> Ids] /\ l.accepts \in [PAXOS_ID -> Nat]
  <2>1. l \in [acceptors : [Nodes -> Ids], accepts : [PAXOS_ID -> Nat]]
    BY DEF LInv, LearnerShape
  <2> QED
    BY <2>1
<1>4. m.id \in Ids
  BY KindShapes DEF LInv, AInv, PInv, Votes
<1> HIDE DEF l, last
<1>5. latest \in [Nodes -> Ids]
  BY <1>3, <1>4 DEF Set, latest
<1>6. kept \in [PAXOS_ID -> Nat] /\ \A id \in PAXOS_ID : kept[id] <= l.accepts[id]
  <2>1. \A id \in PAXOS_ID : l.accepts[id] \in Nat
    BY <1>3
  <2>2. CASE kept = l.accepts
    BY <1>3, <2>1, <2>2
  <2>3. CASE kept = Set(l.accepts, last, 0)
    <3>1. kept = [id \in PAXOS_ID |-> IF id = last THEN 0 ELSE l.accepts[id]]
      BY <1>3, <2>3 DEF Set
    <3> QED
      BY <2>1, <3>1
  <2> QED
    BY <2>2, <2>3 DEF kept
<1>7. counted \in [PAXOS_ID -> Nat] /\ counted[m.id] = kept[m.id] + 1
  BY <1>2, <1>6 DEF Set, counted
<1>8. \A id \in PAXOS_ID : counted[id] <= l.accepts[id] + IF id = m.id THEN 1 ELSE 0
  BY <1>2, <1>3, <1>6 DEF Set, counted
<1>9. CASE counted[m.id] = quorum_size
  <2>1. l.accepts[m.id] + 1 >= quorum_size
    BY <1>2, <1>3, <1>6, <1>7, <1>9
  <2> QED
    BY <1>1, <1>9, <2>1 DEF l, last
<1>10. CASE counted[m.id] # quorum_size
  <2>1. r \in [acceptors : [Nodes -> Ids], accepts : [PAXOS_ID -> Nat]]
    BY <1>5, <1>7 DEF r
  <2>2. CountedOne(l, m, r)
    BY <1>7, <1>8 DEF CountedOne, latest, r
  <2>3. /\ learner' = Set(learner, n, r)
        /\ UNCHANGED <<acceptor, disk, proposer, lease, timers, leaked, msgs, log>>
    BY <1>1, <1>10
  <2> QED
    BY <1>1, <2>1, <2>2, <2>3 DEF l, last
<1> QED
  BY <1>9, <1>10

LEMMA CountingKeeps ==
    ASSUME PaxosAssumption, LInv, Before, NEW n \in Nodes, NEW m \in Voted, m.inst = inst(n),
           cmp_gt(m.id, learner[n].acceptors[m.from]), NEW r, CountedOne(learner[n], m, r),
           NEW id \in PAXOS_ID
    PROVE  r.accepts[id] <= Cardinality(Voters(r, id)')
<1> DEFINE l == learner[n]
           S == Voters(l, id)
           T == Voters(r, id)'
<1>1. /\ m.id \in PAXOS_ID /\ m.from \in Nodes /\ m.from \notin Voters(l, m.id)
  BY VoteCounts
<1>2. m.id \in Ids /\ id \in Ids
  <2>1. m.id \in Ids
    BY Basics
  <2>2. id \in Ids
    <3>1. MaxCount \in Nat /\ Nodes \subseteq Nat
      BY DEF PaxosAssumption
    <3>2. 0..MaxCount \subseteq Int
      BY <3>1
    <3> QED
      BY <3>1, <3>2 DEF PAXOS_ID, Ids
  <2> QED
    BY <2>1, <2>2
<1>3. l.acceptors \in [Nodes -> Ids] /\ l.accepts \in [PAXOS_ID -> Nat]
  <2>1. l \in [acceptors : [Nodes -> Ids], accepts : [PAXOS_ID -> Nat]]
    BY DEF LInv, LearnerShape
  <2> QED
    BY <2>1
<1>4. l.accepts[id] <= Cardinality(S)
  BY DEF LInv, LearnersKept
<1>5. /\ r.acceptors = Set(l.acceptors, m.from, m.id) /\ r.accepts[id] \in Nat
      /\ r.accepts[id] <= l.accepts[id] + IF id = m.id THEN 1 ELSE 0
  BY DEF CountedOne
<1>6. cmp_gt(m.id, l.acceptors[m.from])
  OBVIOUS
<1> HIDE DEF l
<1>7. \A x \in Nodes : cmp_geq(l.acceptors[x], id) => cmp_geq(r.acceptors[x], id)
  <2>1. SUFFICES ASSUME NEW x \in Nodes, cmp_geq(l.acceptors[x], id)
                 PROVE  cmp_geq(r.acceptors[x], id)
    OBVIOUS
  <2>2. CASE x = m.from
    <3>1. r.acceptors[x] = m.id
      BY <1>1, <1>3, <1>5, <2>2 DEF Set
    <3>2. cmp_geq(m.id, l.acceptors[x])
      BY <1>2, <1>3, <1>6, <2>2, IdOrder
    <3> QED
      BY <1>2, <1>3, <2>1, <3>1, <3>2, GeqTransitive
  <2>3. CASE x # m.from
    BY <1>3, <1>5, <2>1, <2>3 DEF Set
  <2> QED
    BY <2>2, <2>3
<1>8. Voted \subseteq Voted'
  BY VotesStay
<1>9. S \subseteq T /\ T \subseteq Nodes
  BY <1>7, <1>8 DEF Voters
<1>10. id = m.id => m.from \in T
  <2>1. r.acceptors[m.from] = m.id /\ cmp_geq(m.id, m.id)
    BY <1>1, <1>2, <1>3, <1>5, GeqReflexive DEF Set
  <2>2. m \in Voted'
    BY <1>8
  <2> QED
    BY <1>1, <2>1, <2>2 DEF Voters
<1>11. id = m.id => m.from \notin S
  BY <1>1
<1>12. l.accepts[id] \in Nat
  BY <1>3
<1> HIDE DEF S, T
<1>13. CASE id # m.id
  <2>1. Cardinality(S) <= Cardinality(T) /\ Cardinality(S) \in Nat /\ Cardinality(T) \in Nat
    BY <1>9, FewerNodes
  <2> QED
    BY <1>4, <1>5, <1>12, <1>13, <2>1 DEF T
<1>14. CASE id = m.id
  <2> DEFINE U == S \cup {m.from}
  <2>1. U \subseteq T
    BY <1>9, <1>10, <1>14
  <2>2. Cardinality(U) <= Cardinality(T) /\ Cardinality(U) \in Nat /\ Cardinality(T) \in Nat
    BY <1>9, <2>1, FewerNodes
  <2>3. IsFiniteSet(S) /\ Cardinality(S) \in Nat
    BY <1>9, FewerNodes, FS_Subset DEF PaxosAssumption
  <2>4. Cardinality(U) = Cardinality(S) + 1
    BY <1>11, <1>14, <2>3, FS_AddElement
  <2> QED
    BY <1>4, <1>5, <1>12, <1>14, <2>2, <2>3, <2>4 DEF T
<1> QED
  BY <1>13, <1>14

\* A quorum that a learner has counted is one.
LEMMA QuorumCounted ==
    ASSUME PaxosAssumption, LInv, NEW n \in Nodes, NEW m \in Voted, m.inst = inst(n),
           cmp_gt(m.id, learner[n].acceptors[m.from]),
           learner[n].accepts[m.id] + 1 >= quorum_size
    PROVE  Cardinality(Backers(m.inst, m.id, m.value)) >= quorum_size
<1> DEFINE l == learner[n]
           S == Voters(l, m.id)
           T == Backers(m.inst, m.id, m.value)
           U == S \cup {m.from}
<1>1. m.id \in PAXOS_ID /\ m.from \in Nodes /\ m.from \notin S /\ U \subseteq T
  BY VoteCounts
<1>2. l.accepts[m.id] \in Nat
  <2>1. l \in [acceptors : [Nodes -> Ids], accepts : [PAXOS_ID -> Nat]]
    BY DEF LInv, LearnerShape
  <2> QED
    BY <1>1, <2>1
<1>3. l.accepts[m.id] <= Cardinality(S)
  BY <1>1 DEF LInv, LearnersKept
<1>4. S \subseteq Nodes /\ T \subseteq Nodes
  BY DEF Voters, Backers
<1>5. l.accepts[m.id] + 1 >= quorum_size
  OBVIOUS
<1> HIDE DEF l, S, T
<1>6. Cardinality(U) <= Cardinality(T) /\ Cardinality(U) \in Nat /\ Cardinality(T) \in Nat
  BY <1>1, <1>4, FewerNodes
<1>7. IsFiniteSet(S) /\ Cardinality(S) \in Nat
  BY <1>4, FewerNodes, FS_Subset DEF PaxosAssumption
<1>8. Cardinality(U) = Cardinality(S) + 1
  BY <1>1, <1>7, FS_AddElement
<1>9. quorum_size \in Nat
  BY QuorumSize
<1>10. Cardinality(T) >= quorum_size
  BY <1>2, <1>3, <1>5, <1>6, <1>7, <1>8, <1>9
<1> QED
  BY <1>10 DEF T

\* A new learner has counted nothing.
LEMMA NoneCounted ==
    ASSUME PaxosAssumption, NEW id \in PAXOS_ID
    PROVE  /\ NewLearner.accepts[id] = 0
           /\ Cardinality(Voters(NewLearner, id)') \in Nat
           /\ NewLearner \in [acceptors : [Nodes -> Ids], accepts : [PAXOS_ID -> Nat]]
<1>1. Voters(NewLearner, id)' \subseteq Nodes
  BY DEF Voters
<1>2. Cardinality(Voters(NewLearner, id)') \in Nat
  BY <1>1, FewerNodes
<1>3. NoId \in Ids
  BY NoIdLeast
<1>4. NewLearner.accepts[id] = 0
  BY DEF NewLearner
<1>5. NewLearner \in [acceptors : [Nodes -> Ids], accepts : [PAXOS_ID -> Nat]]
  BY <1>3 DEF NewLearner
<1> QED
  BY <1>2, <1>4, <1>5

\* Only a vote, a quorum of votes and a restart change what is learned.
LEMMA LearnsBy ==
    ASSUME AInv, Next
    PROVE  \/ UNCHANGED <<learner, log>>
           \/ \E n \in Nodes : learner' = Set(learner, n, NewLearner) /\ log' = log
           \/ \E n \in Nodes, m \in Voted : receive_accepted(n, m)
<1>1. PICK n \in Nodes :
        \/ lease_expired(n) \/ Drive(n) \/ Restart(n) \/ send_accept_REAL(n)
        \/ \E v \in App : handle_propose(n, v)
        \/ \E m \in msgs : Receive(n, m)
        \/ \E m \in Nodes : receive_catchup(n, m)
  BY DEF Next
<1>2. CASE lease_expired(n)
  BY <1>2 DEF lease_expired
<1>3. CASE Drive(n)
  BY <1>3 DEF Drive
<1>4. CASE Restart(n)
  BY <1>4 DEF Restart
<1>5. ASSUME NEW v \in App, handle_propose(n, v) PROVE UNCHANGED <<learner, log>>
  BY <1>5 DEF handle_propose
<1>6. ASSUME NEW k \in Nodes, receive_catchup(n, k) PROVE UNCHANGED <<learner, log>>
  BY <1>6 DEF receive_catchup
<1>7. ASSUME NEW m \in msgs, Receive(n, m)
      PROVE  UNCHANGED <<learner, log>> \/ (m \in Voted /\ receive_accepted(n, m))
  <2>1. CASE receive_prepare(n, m)
    BY <2>1 DEF receive_prepare
  <2>2. CASE receive_accept(n, m)
    BY <2>2 DEF receive_accept
  <2>3. CASE receive_nack(n, m)
    BY <2>3 DEF receive_nack
  <2>4. CASE receive_promise(n, m)
    BY <2>4 DEF receive_promise
  <2>5. CASE receive_accepted(n, m)
    <3>1. m.type = "accepted"
      BY <2>5 DEF receive_accepted
    <3> QED
      BY <2>5, <3>1 DEF Voted
  <2> QED
    BY <1>7, <2>1, <2>2, <2>3, <2>4, <2>5 DEF Receive
<1>8. CASE send_accept_REAL(n)
  BY <1>8 DEF send_accept_REAL, nodeVars
<1> QED
  BY <1>1, <1>2, <1>3, <1>4, <1>5, <1>6, <1>7, <1>8

LEMMA AdvanceLogs ==
    ASSUME PaxosAssumption, LInv, Before, NEW n \in Nodes, NEW m \in Voted, m.inst = inst(n),
           advance_instance(n, m.value)
    PROVE  /\ inst(n) + 1 \in Instances \ {0} /\ m.value \in Vals
           /\ log' = [log EXCEPT ![n][inst(n) + 1] = m.value]
<1>1. /\ inst(n) + 1 <= bound.instance
      /\ log' = [log EXCEPT ![n][inst(n) + 1] = m.value]
  BY DEF advance_instance
<1>2. inst(n) \in Nat /\ bound.instance \in 0..MaxInstance /\ MaxInstance \in Nat
  BY Basics, BoundShape
<1>3. m.value \in Vals
  BY KindShapes DEF Before, AInv, PInv, Votes
<1> QED
  BY <1>1, <1>2, <1>3 DEF Instances

LEMMA LInit ==
    ASSUME PaxosAssumption, Init
    PROVE  LInv
<1>1. AInv
  BY AInit
<1>2. /\ learner = [n \in Nodes |-> NewLearner]
      /\ log = [n \in Nodes |-> [i \in Instances |-> NoValue]]
  BY DEF Init
<1>3. LearnerShape
  <2>1. NewLearner \in [acceptors : [Nodes -> Ids], accepts : [PAXOS_ID -> Nat]]
    BY NoIdLeast DEF NewLearner
  <2> QED
    BY <1>2, <2>1 DEF LearnerShape, Vals
<1>4. LearnersKept
  <2>1. SUFFICES ASSUME NEW n \in Nodes, NEW id \in PAXOS_ID
                 PROVE  NewLearner.accepts[id] <= Cardinality(Voters(NewLearner, id))
    BY <1>2 DEF LearnersKept
  <2>2. Voters(NewLearner, id) \subseteq Nodes
    BY DEF Voters
  <2>3. Cardinality(Voters(NewLearner, id)) \in Nat
    BY <2>2, FewerNodes
  <2>4. NewLearner.accepts[id] = 0
    BY DEF NewLearner
  <2> QED
    BY <2>3, <2>4
<1>5. LogKept
  BY <1>2 DEF LogKept
<1> QED
  BY <1>1, <1>3, <1>4, <1>5 DEF LInv

\* The learners but one are as they were, and so is the log but for one entry.
LEMMA LearnersStay ==
    ASSUME PaxosAssumption, LInv, Before, NEW n \in Nodes,
           NEW r \in [acceptors : [Nodes -> Ids], accepts : [PAXOS_ID -> Nat]],
           learner' = Set(learner, n, r),
           \A id \in PAXOS_ID : r.accepts[id] <= Cardinality(Voters(r, id)')
    PROVE  /\ learner' \in [Nodes -> [acceptors : [Nodes -> Ids], accepts : [PAXOS_ID -> Nat]]]
           /\ LearnersKept'
<1>1. learner \in [Nodes -> [acceptors : [Nodes -> Ids], accepts : [PAXOS_ID -> Nat]]]
  BY DEF LInv, LearnerShape
<1>2. learner' = [k \in Nodes |-> IF k = n THEN r ELSE learner[k]]
  BY <1>1 DEF Set
<1>3. LearnersKept'
  <2>1. SUFFICES ASSUME NEW k \in Nodes, NEW id \in PAXOS_ID
                 PROVE  (learner[k].accepts[id] <= Cardinality(Voters(learner[k], id)))'
    BY DEF LearnersKept
  <2>2. CASE k = n
    <3>1. learner'[k] = r
      BY <1>2, <2>2
    <3> QED
      BY <3>1 DEF Voters
  <2>3. CASE k # n
    <3>1. learner'[k] = learner[k]
      BY <1>2, <2>3
    <3>2. learner'[k].accepts[id] <= Cardinality(Voters(learner[k], id)')
      BY <3>1, LearnerStays
    <3> QED
      BY <3>1, <3>2 DEF Voters
  <2> QED
    BY <2>2, <2>3
<1> QED
  BY <1>1, <1>2, <1>3

LEMMA LogsStay ==
    ASSUME PaxosAssumption, LInv, Before, log' = log
    PROVE  LogKept'
<1>1. SUFFICES ASSUME NEW n \in Nodes, NEW i \in Instances \ {0}, log[n][i] # NoValue
               PROVE  \E id : Cardinality(Backers(i - 1, id, log[n][i]))' >= quorum_size
  BY DEF LogKept
<1>2. \E id : Cardinality(Backers(i - 1, id, log[n][i])') >= quorum_size
  <2> DEFINE v == log[n][i]
  <2>1. \E id : Cardinality(Backers(i - 1, id, v)') >= quorum_size
    BY <1>1, LogStays
  <2> QED
    BY <2>1 DEF Backers
<1> QED
  BY <1>2

LEMMA LogGrows ==
    ASSUME PaxosAssumption, LInv, Before, NEW n \in Nodes, NEW m, m.inst = inst(n),
           inst(n) + 1 \in Instances \ {0},
           log' = [log EXCEPT ![n][inst(n) + 1] = m.value],
           Cardinality(Backers(m.inst, m.id, m.value)) >= quorum_size
    PROVE  LogKept'
<1>1. SUFFICES ASSUME NEW k \in Nodes, NEW i \in Instances \ {0}, log'[k][i] # NoValue
               PROVE  (\E id : Cardinality(Backers(i - 1, id, log[k][i])) >= quorum_size)'
  BY DEF LogKept
<1>2. log \in [Nodes -> [Instances -> Vals]]
  BY DEF LInv, LearnerShape
<1>3. inst(n) \in Nat
  BY Basics
<1>4. CASE k = n /\ i = inst(n) + 1
  <2>1. log'[k][i] = m.value
    BY <1>2, <1>4
  <2>2. i - 1 = m.inst
    BY <1>3, <1>4
  <2> DEFINE S == Backers(m.inst, m.id, m.value)
             T == Backers(m.inst, m.id, m.value)'
  <2>3. S \subseteq T
    BY VotesStay
  <2>4. T \subseteq Nodes
    BY DEF Backers
  <2>5. Cardinality(S) >= quorum_size
    OBVIOUS
  <2> HIDE DEF S, T
  <2>6. Cardinality(S) <= Cardinality(T) /\ Cardinality(S) \in Nat /\ Cardinality(T) \in Nat
    BY <2>3, <2>4, FewerNodes
  <2>7. Cardinality(T) >= quorum_size
    BY <2>5, <2>6, QuorumSize
  <2>8. T = Backers(i - 1, m.id, log[k][i])'
    BY <2>1, <2>2 DEF T, Backers, HasVoted
  <2>9. Cardinality(Backers(i - 1, m.id, log[k][i])') >= quorum_size
    BY <2>7, <2>8
  <2> QED
    BY <2>9
<1>5. CASE ~(k = n /\ i = inst(n) + 1)
  <2>1. log'[k][i] = log[k][i]
    BY <1>2, <1>5
  <2> DEFINE v == log[k][i]
  <2>2. PICK id : Cardinality(Backers(i - 1, id, v)') >= quorum_size
    BY <1>1, <2>1, LogStays
  <2> QED
    BY <2>1, <2>2 DEF Backers, HasVoted
<1> QED
  BY <1>4, <1>5

LEMMA LNext ==
    ASSUME PaxosAssumption, LInv, [Next]_vars, ~breach'
    PROVE  LInv'
<1>1. CASE UNCHANGED vars
  <2>1. AInv'
    BY <1>1, ANext DEF LInv
  <2>2. learner' = learner /\ log' = log /\ Voted' = Voted
    BY <1>1, AddsNothing DEF vars, nodeVars
  <2>3. LearnerShape'
    BY <2>2 DEF LInv, LearnerShape
  <2>4. LearnersKept'
    BY <2>2 DEF LInv, LearnersKept, Voters
  <2>5. LogKept'
    <3>1. SUFFICES ASSUME NEW n \in Nodes, NEW i \in Instances \ {0}, log'[n][i] # NoValue
                   PROVE  \E id : Cardinality(Backers(i - 1, id, log[n][i]))' >= quorum_size
      BY DEF LogKept
    <3>2. PICK id : Cardinality(Backers(i - 1, id, log[n][i])) >= quorum_size
      BY <2>2, <3>1 DEF LInv, LogKept
    <3>3. Backers(i - 1, id, log[n][i])' = Backers(i - 1, id, log[n][i])
      BY <2>2 DEF Backers, HasVoted
    <3> QED
      BY <3>2, <3>3
  <2> QED
    BY <2>1, <2>3, <2>4, <2>5 DEF LInv
<1>2. CASE Next
  <2>1. Before /\ AInv'
    BY <1>2, StepBefore, ANext DEF LInv
  <2>2. LearnerShape
    BY DEF LInv
  <2>3. CASE UNCHANGED <<learner, log>>
    <3>1. LearnersKept'
      <4>1. SUFFICES ASSUME NEW k \in Nodes, NEW id \in PAXOS_ID
                     PROVE  learner'[k].accepts[id] <= Cardinality(Voters(learner[k], id))'
        BY DEF LearnersKept
      <4>2. learner'[k] = learner[k]
        BY <2>3
      <4>3. learner'[k].accepts[id] <= Cardinality(Voters(learner[k], id)')
        <5> DEFINE l == learner[k]
        <5>1. learner'[k].accepts[id] <= Cardinality(Voters(l, id)')
          BY <2>1, <4>2, LearnerStays
        <5> QED
          BY <4>2, <5>1 DEF Voters
      <4> QED
        BY <4>3
    <3>2. LogKept'
      BY <2>1, <2>3, LogsStay
    <3> QED
      BY <2>1, <2>2, <2>3, <3>1, <3>2 DEF LInv, LearnerShape
  <2>4. ASSUME NEW n \in Nodes, learner' = Set(learner, n, NewLearner), log' = log
        PROVE  LInv'
    <3>1. /\ NewLearner \in [acceptors : [Nodes -> Ids], accepts : [PAXOS_ID -> Nat]]
          /\ \A id \in PAXOS_ID : NewLearner.accepts[id] <= Cardinality(Voters(NewLearner, id)')
      <4>1. \A id \in PAXOS_ID : NewLearner.accepts[id] <= Cardinality(Voters(NewLearner, id)')
        BY NoneCounted
      <4> QED
        BY <4>1, NoIdLeast DEF NewLearner
    <3>2. /\ learner' \in [Nodes -> [acceptors : [Nodes -> Ids], accepts : [PAXOS_ID -> Nat]]]
          /\ LearnersKept'
      BY <2>1, <2>4, <3>1, LearnersStay
    <3>3. LogKept'
      BY <2>1, <2>4, LogsStay
    <3> QED
      BY <2>1, <2>2, <2>4, <3>2, <3>3 DEF LInv, LearnerShape
  <2>5. ASSUME NEW n \in Nodes, NEW m \in Voted, receive_accepted(n, m)
        PROVE  LInv'
    <3>1. /\ m.inst = inst(n) /\ cmp_gt(m.id, learner[n].acceptors[m.from])
      BY <2>5, VoteAdds
    <3>2. ASSUME NEW r \in [acceptors : [Nodes -> Ids], accepts : [PAXOS_ID -> Nat]],
                 learner' = Set(learner, n, r), CountedOne(learner[n], m, r), log' = log
          PROVE  LInv'
      <4>1. \A id \in PAXOS_ID : r.accepts[id] <= Cardinality(Voters(r, id)')
        BY <2>1, <3>1, <3>2, CountingKeeps
      <4>2. /\ learner' \in [Nodes -> [acceptors : [Nodes -> Ids], accepts : [PAXOS_ID -> Nat]]]
            /\ LearnersKept'
        BY <2>1, <3>2, <4>1, LearnersStay
      <4>3. LogKept'
        BY <2>1, <3>2, LogsStay
      <4> QED
        BY <2>1, <2>2, <3>2, <4>2, <4>3 DEF LInv, LearnerShape
    <3>3. ASSUME learner[n].accepts[m.id] + 1 >= quorum_size, advance_instance(n, m.value),
                 learner' = Set(learner, n, NewLearner)
          PROVE  LInv'
      <4>1. /\ NewLearner \in [acceptors : [Nodes -> Ids], accepts : [PAXOS_ID -> Nat]]
            /\ \A id \in PAXOS_ID : NewLearner.accepts[id] <= Cardinality(Voters(NewLearner, id)')
        <5>1. \A id \in PAXOS_ID : NewLearner.accepts[id] <= Cardinality(Voters(NewLearner, id)')
          BY NoneCounted
        <5> QED
          BY <5>1, NoIdLeast DEF NewLearner
      <4>2. /\ learner' \in [Nodes -> [acceptors : [Nodes -> Ids], accepts : [PAXOS_ID -> Nat]]]
            /\ LearnersKept'
        BY <2>1, <3>3, <4>1, LearnersStay
      <4>3. /\ inst(n) + 1 \in Instances \ {0} /\ m.value \in Vals
            /\ log' = [log EXCEPT ![n][inst(n) + 1] = m.value]
        BY <2>1, <3>1, <3>3, AdvanceLogs
      <4>4. Cardinality(Backers(m.inst, m.id, m.value)) >= quorum_size
        BY <3>1, <3>3, QuorumCounted
      <4>5. log \in [Nodes -> [Instances -> Vals]]
        BY <2>2 DEF LearnerShape
      <4>6. log' \in [Nodes -> [Instances -> Vals]]
        BY <4>3, <4>5
      <4>7. LogKept'
        BY <2>1, <3>1, <4>3, <4>4, LogGrows
      <4> QED
        BY <2>1, <4>2, <4>6, <4>7 DEF LInv, LearnerShape
    <3> QED
      BY <2>5, <3>2, <3>3, VoteAdds
  <2> QED
    BY <1>2, <2>3, <2>4, <2>5, LearnsBy DEF LInv
<1> QED
  BY <1>1, <1>2

\* What a node takes for the outcome of an instance was chosen in it, until one of
\* those four events (breach): a learner counts a node once for an id, however often and late its
\* votes come, and an id stands for one value (learner_receive_accepted(),
\* advance_instance()).
THEOREM OutcomesChosen ==
    ASSUME PaxosAssumption
    PROVE  Spec => [](breach \/ OutcomesAreChosen)
<1>1. Init => LInv
  BY LInit
<1>2. (breach \/ LInv) /\ [Next]_vars => (breach \/ LInv)'
  BY LNext, BreachStays
<1>3. LInv => OutcomesAreChosen
  BY LearnersLearn
<1> QED
  BY <1>1, <1>2, <1>3, PTL DEF Spec

-----------------------------------------------------------------------------
(* Agreement                                                               *)

\* What h and v are to who proposes in instance i: h is of no later instance, and
\* if it is of this one, v was offered with it.
Known(h, v, i) == \A k \in Offered : k.id = h => k.inst <= i /\ (k.inst = i => k.value = v)

Fresh == \A n \in Nodes : Known(proposer[n].highest_accepted, proposer[n].proposed, inst(n))

\* It has gone further than id in instance i, and votes for it no more.
WontVote(a, i, id) == disk[a].inst > i \/ (disk[a].inst = i /\ cmp_gt(disk[a].promised, id))

\* No other value than v can be chosen under the lower id c.
Barred(a, i, c, v) ==
    /\ \A k \in Voted : (k.from = a /\ k.inst = i /\ k.id = c) => k.value = v
    /\ WontVote(a, i, c) \/ \E k \in Voted : k.from = a /\ k.inst = i /\ k.id = c

SafeAt(i, b, v) ==
    \A c \in Ids : cmp_gt(b, c) =>
        \E Q \in SUBSET Nodes : Cardinality(Q) = quorum_size /\ \A a \in Q : Barred(a, i, c, v)

AllSafe == \A m \in Offered : SafeAt(m.inst, m.id, m.value)

CInv == AInv /\ Fresh /\ AllSafe

\* Votes of one id of one instance are for one value.
LEMMA VotesOnce ==
    ASSUME AInv, NEW m \in Voted, NEW k \in Voted, m.id = k.id
    PROVE  m.inst = k.inst /\ m.value = k.value
BY DEF AInv, VotedKept, OfferedOnce

\* Two values of one instance are not both chosen.
OneForEach == \A i, v, w : (<<i, v>> \in Chosen /\ <<i, w>> \in Chosen) => v = w

\* A quorum chose v: whoever is barred for another value is in it.
LEMMA LowerWins ==
    ASSUME PaxosAssumption, AInv, AllSafe, NEW i, NEW v, NEW w, NEW c \in Ids, NEW d \in Ids,
           Cardinality(Backers(i, c, v)) >= quorum_size,
           Cardinality(Backers(i, d, w)) >= quorum_size, cmp_gt(d, c)
    PROVE  v = w
<1> DEFINE B == Backers(i, c, v)
<1>1. PICK m \in Voted : m.inst = i /\ m.id = d /\ m.value = w
  <2>1. Backers(i, d, w) # {}
    BY QuorumSize, FS_EmptySet
  <2> QED
    BY <2>1 DEF Backers, HasVoted
<1>2. PICK o \in Offered : o.inst = i /\ o.id = d /\ o.value = w
  BY <1>1 DEF AInv, VotedKept
<1>3. SafeAt(i, d, w)
  BY <1>2 DEF AllSafe
<1>4. PICK Q \in SUBSET Nodes : Cardinality(Q) = quorum_size /\ \A a \in Q : Barred(a, i, c, w)
  BY <1>3 DEF SafeAt
<1>5. B \subseteq Nodes
  BY DEF Backers
<1>6. Cardinality(B) >= quorum_size
  OBVIOUS
<1> HIDE DEF B
<1>7. Cardinality(B) \in Nat
  BY <1>5, FewerNodes
<1>8. IsFiniteSet(Nodes)
  BY DEF PaxosAssumption
<1>9. Cardinality(B) + Cardinality(Q) > Cardinality(Nodes)
  BY <1>4, <1>6, <1>7, QuorumSize
<1>10. B \cap Q # {}
  BY <1>4, <1>5, <1>8, <1>9, FS_MajoritiesIntersect
<1>11. PICK a : a \in B /\ a \in Q
  BY <1>10
<1>12. PICK k \in Voted : k.from = a /\ k.inst = i /\ k.id = c /\ k.value = v
  BY <1>11 DEF B, Backers, HasVoted
<1> QED
  BY <1>4, <1>11, <1>12 DEF Barred

LEMMA ValuesAgree ==
    ASSUME PaxosAssumption, CInv
    PROVE  OneForEach
<1>1. SUFFICES ASSUME NEW i, NEW v, NEW w, <<i, v>> \in Chosen, <<i, w>> \in Chosen
               PROVE  v = w
  BY DEF OneForEach
<1>2. AInv /\ AllSafe /\ Shape
  BY DEF CInv, AInv, PInv
<1>3. PICK c : Cardinality(Backers(i, c, v)) >= quorum_size
  BY <1>1, <1>2, ChosenBacked
<1>4. PICK d : Cardinality(Backers(i, d, w)) >= quorum_size
  BY <1>1, <1>2, ChosenBacked
<1>5. Backers(i, c, v) # {} /\ Backers(i, d, w) # {}
  BY <1>3, <1>4, QuorumSize, FS_EmptySet
<1>6. PICK m \in Voted : m.inst = i /\ m.id = c /\ m.value = v
  BY <1>5 DEF Backers, HasVoted
<1>7. PICK k \in Voted : k.inst = i /\ k.id = d /\ k.value = w
  BY <1>5 DEF Backers, HasVoted
<1>8. c \in Ids /\ d \in Ids
  BY <1>2, <1>6, <1>7, KindShapes DEF Votes
<1>9. c = d \/ cmp_gt(c, d) \/ cmp_gt(d, c)
  BY <1>8 DEF Ids, cmp_gt
<1>10. CASE c = d
  BY <1>2, <1>6, <1>7, <1>10, VotesOnce
<1>11. CASE cmp_gt(d, c)
  BY <1>2, <1>3, <1>4, <1>8, <1>11, LowerWins
<1>12. CASE cmp_gt(c, d)
  BY <1>2, <1>3, <1>4, <1>8, <1>12, LowerWins
<1> QED
  BY <1>9, <1>10, <1>11, <1>12

-----------------------------------------------------------------------------
(* Who is barred stays barred                                              *)

LEMMA WontStays ==
    ASSUME Before, NEW a \in Nodes, Back(a), NEW i \in Nat, NEW c \in Ids, WontVote(a, i, c)
    PROVE  WontVote(a, i, c)'
<1>1. /\ disk[a].inst \in Nat /\ disk'[a].inst \in Nat
      /\ disk[a].promised \in Ids /\ disk'[a].promised \in Ids
  <2>1. disk[a] \in AnyAcceptor /\ disk'[a] \in AnyAcceptor
    BY Basics DEF Shape
  <2> QED
    BY <2>1 DEF AnyAcceptor
<1>2. /\ disk'[a].inst >= disk[a].inst
      /\ disk'[a].inst = disk[a].inst => cmp_geq(disk'[a].promised, disk[a].promised)
  BY DEF Back
<1>3. CASE disk'[a].inst > i
  BY <1>3 DEF WontVote
<1>4. CASE ~(disk'[a].inst > i)
  <2>1. disk[a].inst = i /\ cmp_gt(disk[a].promised, c) /\ disk'[a].inst = i
    BY <1>1, <1>2, <1>4 DEF WontVote
  <2>2. cmp_gt(disk'[a].promised, c)
    BY <1>1, <1>2, <2>1, IdOrder
  <2> QED
    BY <2>1, <2>2 DEF WontVote
<1> QED
  BY <1>3, <1>4

\* A node that takes part no more gives no vote.
LEMMA NewVote ==
    ASSUME Before, NEW m \in Voted', m \notin Voted
    PROVE  /\ Voted' = Voted \cup {m}
           /\ \E o \in Offered : o.inst = m.inst /\ o.id = m.id /\ o.value = m.value
           /\ \A c \in Ids : m.id = c => ~WontVote(m.from, m.inst, c)
<1>1. Hearing
  <2>1. ASSUME NEW n \in Nodes, Asking(n) PROVE FALSE
    BY <2>1 DEF Asking
  <2>2. ASSUME NEW n \in Nodes, NEW k \in Promised, Gathering(n, k) PROVE FALSE
    BY <2>2 DEF Gathering
  <2>3. ASSUME NEW n \in Nodes, NEW i \in Nat, Moving(n, i) PROVE FALSE
    BY <2>3 DEF Moving
  <2> QED
    BY <2>1, <2>2, <2>3 DEF Before, Kinds, Joining, Winning
<1>2. PICK n \in Nodes, o \in Offered :
        /\ Accepting(n, o) /\ Voted' = Voted \cup {accepted(n, o.inst, o.id, o.value)}
  BY <1>1 DEF Hearing
<1>3. m = accepted(n, o.inst, o.id, o.value)
  BY <1>2
<1>4. m.from = n /\ m.inst = o.inst /\ m.id = o.id /\ m.value = o.value
  BY <1>3 DEF accepted
<1>5. Voted' = Voted \cup {m}
  BY <1>2, <1>3
<1>6. o.inst = inst(n) /\ cmp_geq(o.id, acceptor[n].promised)
  BY <1>2 DEF Accepting
<1>7. /\ acceptor[n].inst = disk[n].inst /\ cmp_geq(acceptor[n].promised, disk[n].promised)
      /\ {acceptor[n].promised, disk[n].promised, o.id} \subseteq Ids /\ disk[n].inst \in Nat
  <2>1. acceptor[n] \in AnyAcceptor /\ disk[n] \in AnyAcceptor
    BY Basics DEF Shape
  <2>2. acceptor[n].inst = disk[n].inst /\ cmp_geq(acceptor[n].promised, disk[n].promised)
    BY DEF Before, AInv, PInv, Saves
  <2>3. o.id \in Ids
    BY Basics
  <2> QED
    BY <2>1, <2>2, <2>3 DEF AnyAcceptor
<1>8. cmp_geq(o.id, disk[n].promised)
  BY <1>6, <1>7, GeqTransitive
<1>9. ~cmp_gt(disk[n].promised, o.id)
  BY <1>7, <1>8, IdOrder
<1>10. ~(disk[n].inst > o.inst)
  BY <1>6, <1>7 DEF inst
<1>11. ~WontVote(n, o.inst, o.id)
  BY <1>9, <1>10 DEF WontVote
<1> QED
  BY <1>4, <1>5, <1>11

LEMMA BarredStays ==
    ASSUME Before, AInv', NEW a \in Nodes, Back(a), NEW i \in Nat, NEW c \in Ids, NEW v,
           Barred(a, i, c, v)
    PROVE  Barred(a, i, c, v)'
<1>1. Voted \subseteq Voted'
  BY VotesStay
<1>2. \/ WontVote(a, i, c)'
      \/ \E k \in Voted' : k.from = a /\ k.inst = i /\ k.id = c
  <2>1. CASE WontVote(a, i, c)
    BY <2>1, WontStays
  <2>2. CASE ~WontVote(a, i, c)
    BY <1>1, <2>2 DEF Barred
  <2> QED
    BY <2>1, <2>2
<1>3. ASSUME NEW m \in Voted', m.from = a, m.inst = i, m.id = c PROVE m.value = v
  <2>1. CASE m \in Voted
    BY <1>3, <2>1 DEF Barred
  <2>2. CASE m \notin Voted
    <3>1. ~WontVote(a, i, c)
      BY <1>3, <2>2, NewVote
    <3>2. PICK k \in Voted : k.from = a /\ k.inst = i /\ k.id = c
      BY <3>1 DEF Barred
    <3>3. k.value = v
      BY <3>2 DEF Barred
    <3>4. PICK o \in Offered : o.inst = m.inst /\ o.id = m.id /\ o.value = m.value
      BY <2>2, NewVote
    <3>5. PICK p \in Offered : p.inst = k.inst /\ p.id = k.id /\ p.value = k.value
      BY <3>2 DEF Before, AInv, VotedKept
    <3>6. o.value = p.value
      BY <1>3, <3>2, <3>4, <3>5 DEF Before, AInv, OfferedOnce
    <3> QED
      BY <3>3, <3>4, <3>5, <3>6
  <2> QED
    BY <2>1, <2>2
<1> QED
  BY <1>2, <1>3 DEF Barred

LEMMA SafeStays ==
    ASSUME Before, AInv', \A a \in Nodes : Back(a), NEW i \in Nat, NEW b, NEW v, SafeAt(i, b, v)
    PROVE  SafeAt(i, b, v)'
<1>1. SUFFICES ASSUME NEW c \in Ids, cmp_gt(b, c)
               PROVE  \E Q \in SUBSET Nodes : /\ Cardinality(Q) = quorum_size
                                              /\ \A a \in Q : Barred(a, i, c, v)'
  BY DEF SafeAt
<1>2. PICK Q \in SUBSET Nodes : Cardinality(Q) = quorum_size /\ \A a \in Q : Barred(a, i, c, v)
  BY <1>1 DEF SafeAt
<1>3. \A a \in Q : Barred(a, i, c, v)'
  BY <1>2, BarredStays
<1> QED
  BY <1>2, <1>3

-----------------------------------------------------------------------------
(* What a proposer knows stays of use                                      *)

\* A promise that counts keeps it so.
LEMMA GatheringKnown ==
    ASSUME Before, Fresh, NEW n \in Nodes, NEW m \in Promised, Gathering(n, m)
    PROVE  Known(proposer'[n].highest_accepted, proposer'[n].proposed, inst(n))
<1> DEFINE p == proposer[n]
           q == proposer'[n]
           newer == m.last # NoId /\ cmp_gt(m.last, p.highest_accepted)
<1>1. /\ m.inst = inst(n)
      /\ q.highest_accepted = IF newer THEN m.last ELSE p.highest_accepted
      /\ q.proposed = IF newer /\ m.value # NoValue THEN m.value ELSE p.proposed
  BY DEF Gathering
<1>2. Known(p.highest_accepted, p.proposed, inst(n))
  BY DEF Fresh
<1>3. OfferedOnce /\ inst(n) \in Nat
  BY Basics DEF AInv
<1> HIDE DEF p, q
<1>4. CASE newer
  <2>1. PICK k \in Offered : k.inst = m.inst /\ k.id = m.last /\ k.value = m.value
    BY <1>4, LastOffered DEF Before
  <2>2. m.value # NoValue
    <3>1. k.value \in Values
      BY <2>1 DEF Before, AInv, OfferedKept
    <3> QED
      BY <2>1, <3>1 DEF Before, PaxosAssumption, Values
  <2>3. q.highest_accepted = m.last /\ q.proposed = m.value
    BY <1>1, <1>4, <2>2
  <2>4. ASSUME NEW o \in Offered, o.id = m.last PROVE o.inst = inst(n) /\ o.value = m.value
    BY <1>1, <1>3, <2>1, <2>4 DEF OfferedOnce
  <2> QED
    BY <1>3, <2>3, <2>4 DEF Known, q
<1>5. CASE ~newer
  BY <1>1, <1>2, <1>5 DEF q
<1> QED
  BY <1>4, <1>5

\* While nothing is offered.
LEMMA KnownStays ==
    ASSUME Before, Fresh, Offered' = Offered, NEW n \in Nodes, inst(n)' = inst(n),
           proposer'[n].highest_accepted = proposer[n].highest_accepted,
           proposer'[n].proposed = proposer[n].proposed \/ proposer[n].proposed = NoValue
    PROVE  Known(proposer[n].highest_accepted, proposer[n].proposed, inst(n))'
<1> DEFINE h == proposer[n].highest_accepted
           v == proposer[n].proposed
<1>1. Known(h, v, inst(n))
  BY DEF Fresh
<1>2. SUFFICES ASSUME NEW k \in Offered, k.id = h
               PROVE  k.inst <= inst(n) /\ (k.inst = inst(n) => k.value = proposer'[n].proposed)
  BY DEF Known
<1>3. k.inst <= inst(n) /\ (k.inst = inst(n) => k.value = v)
  BY <1>1, <1>2 DEF Known
<1>4. k.value \in Values /\ NoValue \notin Values
  BY DEF Before, AInv, OfferedKept, PaxosAssumption, Values
<1> QED
  BY <1>3, <1>4

\* A new offer's id is not one of those known.
LEMMA FreshWinning ==
    ASSUME Before, Fresh, NEW n \in Nodes, NEW m \in Promised, Winning(n, m)
    PROVE  Fresh'
<1> DEFINE new == accept(n, inst(n), proposer[n].id, proposer'[n].proposed)
<1>1. /\ Gathering(n, m) /\ Offered' = Offered \cup {new} /\ Offered \subseteq Offered'
      /\ \A k \in Nodes \ {n} : proposer'[k] = proposer[k]
  BY DEF Winning, Gathering, Others
<1>2. /\ \A k \in Nodes : inst(k)' = inst(k)
      /\ \A o \in Offered : o.id # proposer[n].id
      /\ proposer[n].id.count >= 1
  BY <1>1, GatheringKeeps
<1>3. HighestKept
  BY DEF Before, AInv
<1>4. SUFFICES ASSUME NEW k \in Nodes
               PROVE  Known(proposer[k].highest_accepted, proposer[k].proposed, inst(k))'
  BY DEF Fresh
<1> DEFINE h == proposer'[k].highest_accepted
           v == proposer'[k].proposed
<1>5. new.id = proposer[n].id /\ new.id # NoId
  BY <1>2 DEF accept, NoId
<1>6. Known(h, v, inst(k)) /\ (h = NoId \/ \E o \in Offered : o.id = h)
  <2>1. CASE k = n
    <3>1. Known(h, v, inst(k))
      BY <1>1, <2>1, GatheringKnown
    <3>2. h = proposer[k].highest_accepted \/ (m.last # NoId /\ h = m.last)
      BY <1>1, <2>1 DEF Gathering
    <3>3. CASE h = proposer[k].highest_accepted
      BY <1>3, <3>1, <3>3 DEF HighestKept
    <3>4. CASE m.last # NoId /\ h = m.last
      BY <3>1, <3>4, LastOffered DEF Before
    <3> QED
      BY <3>2, <3>3, <3>4
  <2>2. CASE k # n
    BY <1>1, <1>3, <2>2 DEF Fresh, HighestKept
  <2> QED
    BY <2>1, <2>2
<1> HIDE DEF h, v, new
<1>7. SUFFICES ASSUME NEW o \in Offered \cup {new}, o.id = h
               PROVE  o.inst <= inst(k) /\ (o.inst = inst(k) => o.value = v)
  BY <1>1, <1>2 DEF Known, h, v
<1>8. o # new
  BY <1>2, <1>5, <1>6, <1>7
<1> QED
  BY <1>6, <1>7, <1>8 DEF Known

LEMMA FreshMoving ==
    ASSUME Before, Fresh, NEW n \in Nodes, NEW i \in Nat, Moving(n, i)
    PROVE  Fresh'
<1>1. /\ Offered' = Offered /\ \A k \in Nodes \ {n} : proposer'[k] = proposer[k]
      /\ n \notin Proposers => proposer'[n] = proposer[n]
  BY DEF Moving, Others
<1>2. i > inst(n) /\ inst(n)' = i /\ \A k \in Nodes \ {n} : inst(k)' = inst(k)
  BY MovingAcceptors
<1>3. proposer'[n].highest_accepted = proposer[n].highest_accepted
  BY MovingDraws
<1>4. PaxosAssumption /\ AInv /\ inst(n) \in Nat /\ \A m \in Offered : m.inst \in Nat
  BY Basics
<1>5. SUFFICES ASSUME NEW k \in Nodes
               PROVE  Known(proposer[k].highest_accepted, proposer[k].proposed, inst(k))'
  BY DEF Fresh
<1>6. CASE k # n
  BY <1>1, <1>2, <1>6 DEF Fresh, Known
<1>7. CASE k = n
  <2>1. Known(proposer[n].highest_accepted, proposer[n].proposed, inst(n))
    BY DEF Fresh
  <2>2. ASSUME NEW o \in Offered, o.id = proposer[n].highest_accepted PROVE o.inst < i
    BY <1>2, <1>4, <2>1, <2>2 DEF Known
  <2>3. \A o \in Offered : o.id = proposer[n].highest_accepted => o.inst <= i /\ o.inst # i
    BY <1>4, <2>2
  <2> QED
    BY <1>1, <1>2, <1>3, <1>7, <2>3 DEF Known
<1> QED
  BY <1>6, <1>7

LEMMA FreshNext ==
    ASSUME Before, Fresh
    PROVE  Fresh'
<1>1. CASE Hearing
  <2>1. Offered' = Offered
    BY <1>1 DEF Hearing
  <2>2. ASSUME NEW n \in Nodes
        PROVE  Known(proposer[n].highest_accepted, proposer[n].proposed, inst(n))'
    <3>1. /\ proposer'[n].highest_accepted = proposer[n].highest_accepted
          /\ proposer'[n].proposed = proposer[n].proposed
      BY <1>1 DEF Hearing, Sees
    <3>2. inst(n)' = inst(n)
      BY <1>1, HearingInst DEF Before, AInv
    <3> QED
      BY <2>1, <3>1, <3>2, KnownStays
  <2> QED
    BY <2>2 DEF Fresh
<1>2. ASSUME NEW n \in Nodes, Asking(n) PROVE Fresh'
  <2>1. /\ Offered' = Offered /\ acceptor' = acceptor
        /\ \A k \in Nodes \ {n} : proposer'[k] = proposer[k]
        /\ proposer'[n].highest_accepted = proposer[n].highest_accepted
        /\ proposer'[n].proposed = proposer[n].proposed \/ proposer[n].proposed = NoValue
    BY <1>2 DEF Asking, Others, Draws
  <2>2. ASSUME NEW k \in Nodes
        PROVE  Known(proposer[k].highest_accepted, proposer[k].proposed, inst(k))'
    <3>1. inst(k)' = inst(k)
      BY <2>1 DEF inst
    <3>2. /\ proposer'[k].highest_accepted = proposer[k].highest_accepted
          /\ proposer'[k].proposed = proposer[k].proposed \/ proposer[k].proposed = NoValue
      BY <2>1
    <3> QED
      BY <2>1, <3>1, <3>2, KnownStays
  <2> QED
    BY <2>2 DEF Fresh
<1>3. ASSUME NEW n \in Nodes, NEW m \in Promised, Joining(n, m) PROVE Fresh'
  <2>1. /\ Gathering(n, m) /\ Offered' = Offered /\ Offered \subseteq Offered'
        /\ \A k \in Nodes \ {n} : proposer'[k] = proposer[k]
    BY <1>3 DEF Joining, Gathering, Others
  <2>2. \A k \in Nodes : inst(k)' = inst(k)
    BY <2>1, GatheringKeeps
  <2>3. Known(proposer'[n].highest_accepted, proposer'[n].proposed, inst(n))
    BY <2>1, GatheringKnown
  <2>4. ASSUME NEW k \in Nodes
        PROVE  Known(proposer[k].highest_accepted, proposer[k].proposed, inst(k))'
    <3>1. CASE k = n
      BY <2>1, <2>2, <2>3, <3>1 DEF Known
    <3>2. CASE k # n
      BY <2>1, <2>2, <3>2 DEF Known, Fresh
    <3> QED
      BY <3>1, <3>2
  <2> QED
    BY <2>4 DEF Fresh
<1>4. ASSUME NEW n \in Nodes, NEW m \in Promised, Winning(n, m) PROVE Fresh'
  BY <1>4, FreshWinning
<1>5. ASSUME NEW n \in Nodes, NEW i \in Nat, Moving(n, i) PROVE Fresh'
  BY <1>5, FreshMoving
<1> QED
  BY <1>1, <1>2, <1>3, <1>4, <1>5 DEF Before, Kinds

-----------------------------------------------------------------------------
(* What is offered is safe                                                 *)

\* Who has promised b gives no vote under a lower id.
LEMMA PromisedWont ==
    ASSUME PaxosAssumption, AInv, NEW j \in Promised, NEW c \in Ids, cmp_gt(j.id, c)
    PROVE  j.from \in Nodes /\ WontVote(j.from, j.inst, c)
<1>1. Shape /\ AllStands
  BY DEF AInv, PInv
<1>2. j \in Promises /\ j \in msgs /\ j.type = "promise"
  BY <1>1, KindShapes DEF Promised
<1>3. j \in Answer /\ j.from \in Nodes /\ j.inst \in Nat /\ j.id \in Ids
  BY <1>2 DEF Answer, AnyMessage, Promises
<1>4. Stands(disk[j.from], j)
  BY <1>1, <1>2, <1>3 DEF AllStands
<1>5. disk[j.from].inst \in Nat /\ disk[j.from].promised \in Ids
  BY <1>1, <1>3 DEF Shape, AnyAcceptor
<1>6. CASE disk[j.from].inst > j.inst
  BY <1>3, <1>6 DEF WontVote
<1>7. CASE disk[j.from].inst = j.inst
  <2>1. cmp_geq(disk[j.from].promised, j.id)
    BY <1>2, <1>4, <1>7 DEF Stands
  <2>2. cmp_gt(disk[j.from].promised, c)
    BY <1>3, <1>5, <2>1, IdOrder
  <2> QED
    BY <1>3, <1>7, <2>2 DEF WontVote
<1>8. j.inst <= disk[j.from].inst
  BY <1>4 DEF Stands
<1> QED
  BY <1>3, <1>5, <1>6, <1>7, <1>8

\* Nor has it given one above the last it told.
LEMMA PromisedTold ==
    ASSUME PaxosAssumption, AInv, NEW j \in Promised, NEW c \in Ids, cmp_gt(j.id, c),
           NEW h \in Ids, cmp_geq(h, j.last),
           NEW k \in Voted, k.from = j.from, k.inst = j.inst, k.id = c
    PROVE  cmp_geq(j.last, c) /\ cmp_geq(h, c)
<1>1. j.last \in Ids /\ j.id \in Ids
  BY KindShapes DEF AInv, PInv, Promises
<1>2. cmp_geq(j.last, c) \/ cmp_geq(c, j.id)
  BY DEF AInv, PromisedKept
<1>3. ~cmp_geq(c, j.id)
  BY <1>1, IdOrder
<1> QED
  BY <1>1, <1>2, <1>3, GeqTransitive

LEMMA WinnerSafe ==
    ASSUME Before, Fresh, AllSafe, NEW n \in Nodes, NEW m \in Promised, Winning(n, m)
    PROVE  SafeAt(inst(n), proposer[n].id, proposer'[n].proposed)
<1> DEFINE b == proposer[n].id
           i == inst(n)
           h == proposer'[n].highest_accepted
           v == proposer'[n].proposed
           Q == proposer[n].promises \cup {m.from}
<1>1. /\ Gathering(n, m) /\ Offered \subseteq Offered' /\ Cardinality(Q) = quorum_size
      /\ proposer'[n].id = b
  BY DEF Winning, Gathering
<1>2. Known(h, v, i)
  BY <1>1, GatheringKnown
<1>3. /\ PaxosAssumption /\ AInv /\ h \in Ids /\ b \in Ids
      /\ proposer[n] \in AnyProposer /\ m.from \in Nodes
      /\ \A o \in Offered : o.id \in Ids /\ o.inst \in Nat
  BY Basics
<1>4. Q \in SUBSET Nodes
  BY <1>3 DEF AnyProposer
<1>5. ASSUME NEW a \in Q
      PROVE  \E j \in Promised :
                /\ j.from = a /\ j.inst = i /\ j.id = b /\ cmp_geq(h, j.last)
                /\ j.last = NoId \/ \E o \in Offered : o.inst = i /\ o.id = h
  <2>1. PICK j \in Promised : Told(j, a, n, proposer'[n], Offered)
    BY <1>1, <1>5, GatheringCounts
  <2>2. PICK k \in Asked : k.from = n /\ k.inst = j.inst /\ k.id = b
    BY <1>1, <1>3, <2>1 DEF AInv, PromisedKept, Told
  <2>3. PICK l \in Asked : l.from = n /\ l.inst = i /\ l.id = b
    BY <1>1, GatheringKeeps
  <2>4. k.inst = l.inst
    BY <1>3, <2>2, <2>3 DEF AInv, AskedOnce
  <2>5. j.inst = i
    BY <2>2, <2>3, <2>4
  <2> QED
    BY <1>1, <2>1, <2>5 DEF Told
<1> HIDE DEF b, i, h, v, Q
<1>6. SUFFICES ASSUME NEW c \in Ids, cmp_gt(b, c)
               PROVE  \E R \in SUBSET Nodes : Cardinality(R) = quorum_size
                                              /\ \A a \in R : Barred(a, i, c, v)
  BY DEF SafeAt, b, i, v
<1>7. CASE \A a \in Q : \A k \in Voted : (k.from = a /\ k.inst = i /\ k.id = c) => k.value = v
  <2>1. ASSUME NEW a \in Q PROVE Barred(a, i, c, v)
    <3>1. PICK j \in Promised : j.from = a /\ j.inst = i /\ j.id = b
      BY <1>5
    <3>2. WontVote(a, i, c)
      BY <1>3, <1>6, <3>1, PromisedWont
    <3> QED
      BY <1>7, <3>2 DEF Barred
  <2> QED
    BY <1>1, <1>4, <2>1
<1>8. ASSUME NEW a \in Q, NEW k \in Voted, k.from = a, k.inst = i, k.id = c, k.value # v
      PROVE  \E o \in Offered : o.inst = i /\ o.id = h /\ o.value = v /\ cmp_gt(h, c)
  <2>1. PICK j \in Promised : /\ j.from = a /\ j.inst = i /\ j.id = b /\ cmp_geq(h, j.last)
                              /\ j.last = NoId \/ \E o \in Offered : o.inst = i /\ o.id = h
    BY <1>5
  <2>2. cmp_geq(j.last, c) /\ cmp_geq(h, c)
    BY <1>3, <1>6, <1>8, <2>1, PromisedTold
  <2>3. PICK x \in Offered : x.inst = i /\ x.id = c /\ x.value = k.value
    BY <1>3, <1>8 DEF AInv, VotedKept
  <2>4. j.last # NoId
    <3>1. c.count >= 1
      <4>1. x.id.count \in 1..MaxCount /\ MaxCount \in Nat
        BY <1>3 DEF AInv, OfferedKept, PaxosAssumption
      <4> QED
        BY <2>3, <4>1
    <3>2. j.last \in Ids
      BY Basics
    <3>3. j.last.count >= c.count
      BY <2>2, <3>2, IdOrder
    <3>4. j.last.count \in Int /\ c.count \in Int
      BY <3>2 DEF Ids
    <3> QED
      BY <3>1, <3>3, <3>4 DEF NoId
  <2>5. PICK o \in Offered : o.inst = i /\ o.id = h
    BY <2>1, <2>4
  <2>6. o.value = v
    BY <1>2, <2>5 DEF Known
  <2>7. h # c
    BY <1>3, <1>8, <2>3, <2>5, <2>6 DEF AInv, OfferedOnce
  <2>8. cmp_gt(h, c)
    BY <1>3, <2>2, <2>7, IdOrder
  <2> QED
    BY <2>5, <2>6, <2>8
<1>9. CASE \E o \in Offered : o.inst = i /\ o.id = h /\ o.value = v /\ cmp_gt(h, c)
  <2>1. SafeAt(i, h, v)
    BY <1>9 DEF AllSafe
  <2> QED
    BY <1>6, <1>9, <2>1 DEF SafeAt
<1> QED
  BY <1>7, <1>8, <1>9

LEMMA AllSafeNext ==
    ASSUME Before, AInv', \A a \in Nodes : Back(a), Fresh, AllSafe
    PROVE  AllSafe'
<1>1. \A o \in Offered : o.inst \in Nat
  BY Basics
<1>2. ASSUME NEW o \in Offered PROVE SafeAt(o.inst, o.id, o.value)'
  <2>1. SafeAt(o.inst, o.id, o.value)
    BY DEF AllSafe
  <2> QED
    BY <1>1, <2>1, SafeStays
<1>3. CASE Offered' = Offered
  BY <1>2, <1>3 DEF AllSafe
<1>4. ASSUME NEW n \in Nodes, NEW m \in Promised, Winning(n, m) PROVE AllSafe'
  <2> DEFINE b == proposer[n].id
             i == inst(n)
             v == proposer'[n].proposed
             new == accept(n, i, b, v)
  <2>1. Offered' = Offered \cup {new}
    BY <1>4 DEF Winning
  <2>2. new.inst = i /\ new.id = b /\ new.value = v
    BY DEF accept
  <2>3. SafeAt(i, b, v)
    BY <1>4, WinnerSafe
  <2>4. i \in Nat
    BY Basics
  <2> HIDE DEF b, i, v, new
  <2>5. SafeAt(new.inst, new.id, new.value)
    BY <2>2, <2>3
  <2>6. SUFFICES ASSUME NEW o \in Offered' PROVE SafeAt(o.inst, o.id, o.value)'
    BY DEF AllSafe
  <2>7. CASE o \in Offered
    BY <1>2, <2>7
  <2>8. CASE o = new
    <3>1. SafeAt(o.inst, o.id, o.value) /\ o.inst \in Nat
      BY <2>2, <2>4, <2>5, <2>8
    <3> QED
      BY <3>1, SafeStays
  <2> QED
    BY <2>1, <2>6, <2>7, <2>8
<1>5. CASE Hearing
  BY <1>3, <1>5 DEF Hearing
<1>6. ASSUME NEW n \in Nodes, Asking(n) PROVE AllSafe'
  BY <1>3, <1>6 DEF Asking
<1>7. ASSUME NEW n \in Nodes, NEW m \in Promised, Joining(n, m) PROVE AllSafe'
  BY <1>3, <1>7 DEF Joining
<1>8. ASSUME NEW n \in Nodes, NEW i \in Nat, Moving(n, i) PROVE AllSafe'
  BY <1>3, <1>8 DEF Moving
<1> QED
  BY <1>4, <1>5, <1>6, <1>7, <1>8 DEF Before, Kinds

LEMMA CNext ==
    ASSUME PaxosAssumption, CInv, [Next]_vars, ~breach'
    PROVE  CInv'
<1>1. CASE UNCHANGED vars
  <2>1. AInv'
    BY <1>1, ANext DEF CInv
  <2>2. /\ bound' = bound /\ acceptor' = acceptor /\ disk' = disk /\ proposer' = proposer
        /\ Offered' = Offered /\ Voted' = Voted
    BY <1>1, AddsNothing DEF vars, nodeVars
  <2>3. Fresh'
    BY <2>2 DEF CInv, Fresh, Known, inst
  <2>4. AllSafe'
    BY <2>2 DEF CInv, AllSafe, SafeAt, Barred, WontVote
  <2> QED
    BY <2>1, <2>3, <2>4 DEF CInv
<1>2. CASE Next
  <2>1. Before /\ AInv' /\ Fresh /\ AllSafe
    BY <1>2, StepBefore, ANext DEF CInv
  <2>2. \A a \in Nodes : Back(a)
    BY <1>2, NoneGoesBack DEF CInv, AInv
  <2>3. Fresh'
    BY <2>1, FreshNext
  <2>4. AllSafe'
    BY <2>1, <2>2, AllSafeNext
  <2> QED
    BY <2>1, <2>3, <2>4 DEF CInv
<1> QED
  BY <1>1, <1>2

-----------------------------------------------------------------------------
(* The group implements consensus                                          *)

\* A value is chosen in an instance exactly when a quorum backs it under one id.
IsBacked(i, v) == <<i, v>> \in Chosen <=> \E id : Cardinality(Backers(i, id, v)) >= quorum_size

\* What is known of the chosen, in terms that are easy to compare between states.
ChosenKnown ==
    /\ \A i, v : IsBacked(i, v)
    /\ \A d \in Chosen : \E m \in Voted : d = <<m.inst, m.value>>
    /\ OneForEach
    /\ \A m \in Voted : m.inst \in Instances /\ m.value \in Values

LEMMA ChosenAre ==
    ASSUME PaxosAssumption, CInv
    PROVE  ChosenKnown
<1>1. Shape /\ AInv
  BY DEF CInv, AInv, PInv
<1>2. \A i, v : IsBacked(i, v)
  <2>1. ASSUME NEW i, NEW v PROVE IsBacked(i, v)
    BY <1>1, ChosenBacked DEF IsBacked
  <2> QED
    BY <2>1
<1>3. \A d \in Chosen : \E m \in Voted : d = <<m.inst, m.value>>
  BY DEF Chosen, Voted
<1>4. OneForEach
  BY ValuesAgree
<1>5. ASSUME NEW m \in Voted PROVE m.inst \in Instances /\ m.value \in Values
  <2>1. PICK o \in Offered : o.inst = m.inst /\ o.value = m.value
    BY <1>1 DEF AInv, VotedKept
  <2>2. o.value \in Values /\ \E k \in Asked : k.inst = o.inst
    BY <1>1 DEF AInv, OfferedKept
  <2>3. PICK k \in Asked : k.inst = o.inst
    BY <2>2
  <2>4. k.inst < bound.instance /\ k.inst \in Nat
    BY <1>1, KindShapes DEF AInv, AskedKept, Prepares
  <2>5. bound.instance \in 0..MaxInstance /\ MaxInstance \in Nat
    BY <1>1, BoundShape DEF AInv
  <2> QED
    BY <2>1, <2>2, <2>3, <2>4, <2>5 DEF Instances
<1> QED
  BY <1>2, <1>3, <1>4, <1>5 DEF ChosenKnown

\* A step chooses nothing, or one value of an instance that had none.
LEMMA ChoosesOne ==
    ASSUME Before, ChosenKnown, ChosenKnown'
    PROVE  [Agreed!Next]_Chosen
<1>1. Chosen \subseteq Chosen'
  <2>1. SUFFICES ASSUME NEW d \in Chosen PROVE d \in Chosen'
    OBVIOUS
  <2>2. PICK m \in Voted : d = <<m.inst, m.value>>
    BY DEF ChosenKnown
  <2> DEFINE i == m.inst
             v == m.value
  <2> HIDE DEF i, v
  <2>3. d = <<i, v>>
    BY <2>2 DEF i, v
  <2>4. PICK id : Cardinality(Backers(i, id, v)) >= quorum_size
    BY <2>1, <2>3 DEF ChosenKnown, IsBacked
  <2> DEFINE S == Backers(i, id, v)
             T == Backers(i, id, v)'
  <2>5. S \subseteq T
    BY VotesStay
  <2>6. T \subseteq Nodes
    BY DEF Backers
  <2>7. Cardinality(S) >= quorum_size
    BY <2>4
  <2> HIDE DEF S, T
  <2>8. PaxosAssumption
    BY DEF Before
  <2>9. Cardinality(S) <= Cardinality(T) /\ Cardinality(S) \in Nat /\ Cardinality(T) \in Nat
    BY <2>5, <2>6, <2>8, FewerNodes
  <2>10. Cardinality(T) >= quorum_size
    BY <2>7, <2>8, <2>9, QuorumSize
  <2> QED
    BY <2>3, <2>10 DEF ChosenKnown, IsBacked, T, i, v
<1>2. ASSUME NEW d \in Chosen', d \notin Chosen
      PROVE  \E id : Backers(d[1], id, d[2])' # Backers(d[1], id, d[2])
  <2>1. PICK m \in Voted' : d = <<m.inst, m.value>>
    BY <1>2 DEF ChosenKnown
  <2> DEFINE i == m.inst
             v == m.value
  <2> HIDE DEF i, v
  <2>2. d = <<i, v>> /\ d[1] = i /\ d[2] = v
    BY <2>1 DEF i, v
  <2>3. PICK id : Cardinality(Backers(i, id, v)') >= quorum_size
    BY <1>2, <2>2 DEF ChosenKnown, IsBacked
  <2>4. ~(Cardinality(Backers(i, id, v)) >= quorum_size)
    BY <1>2, <2>2 DEF ChosenKnown, IsBacked
  <2>5. Backers(i, id, v)' # Backers(i, id, v)
    BY <2>3, <2>4
  <2>6. /\ Backers(i, id, v) = Backers(d[1], id, d[2])
        /\ Backers(i, id, v)' = Backers(d[1], id, d[2])'
    BY <2>2 DEF Backers, HasVoted
  <2> QED
    BY <2>5, <2>6
<1>3. CASE Voted' = Voted
  <2>1. \A d, id : Backers(d[1], id, d[2])' = Backers(d[1], id, d[2])
    BY <1>3 DEF Backers, HasVoted
  <2> QED
    BY <1>1, <1>2, <2>1
<1>4. ASSUME NEW m \in Voted', m \notin Voted PROVE [Agreed!Next]_Chosen
  <2> DEFINE e == <<m.inst, m.value>>
  <2>1. Voted' = Voted \cup {m}
    BY <1>4, NewVote
  <2>2. ASSUME NEW d \in Chosen', d \notin Chosen PROVE d = e
    <3>1. PICK id : Backers(d[1], id, d[2])' # Backers(d[1], id, d[2])
      BY <1>2, <2>2
    <3>2. m.inst = d[1] /\ m.value = d[2]
      <4>1. SUFFICES ASSUME ~(m.inst = d[1] /\ m.value = d[2])
                     PROVE  Backers(d[1], id, d[2])' = Backers(d[1], id, d[2])
        BY <3>1
      <4>2. \A x : HasVoted(x, d[1], id, d[2])' <=> HasVoted(x, d[1], id, d[2])
        BY <2>1, <4>1 DEF HasVoted
      <4> QED
        BY <4>2 DEF Backers
    <3>3. PICK k \in Voted' : d = <<k.inst, k.value>>
      BY <2>2 DEF ChosenKnown
    <3> QED
      BY <3>2, <3>3
  <2>3. CASE Chosen' = Chosen
    BY <2>3
  <2>4. CASE Chosen' # Chosen
    <3>1. PICK f : f \in Chosen' /\ f \notin Chosen
      BY <1>1, <2>4
    <3>2. e \in Chosen' /\ e \notin Chosen
      BY <2>2, <3>1
    <3>3. Chosen' = Chosen \cup {e}
      BY <1>1, <2>2, <3>2
    <3>4. m.inst \in Instances /\ m.value \in Values
      BY <1>4 DEF ChosenKnown
    <3>5. ASSUME NEW d \in Chosen PROVE d[1] # m.inst
      <4>1. PICK k \in Voted : d = <<k.inst, k.value>>
        BY DEF ChosenKnown
      <4>2. SUFFICES ASSUME k.inst = m.inst PROVE FALSE
        BY <4>1
      <4> DEFINE v == k.value
                 w == m.value
                 i == m.inst
      <4> HIDE DEF v, w, i
      <4>3. <<i, v>> \in Chosen /\ <<i, v>> \in Chosen' /\ <<i, w>> \in Chosen'
        BY <1>1, <3>2, <3>5, <4>1, <4>2 DEF v, w, i
      <4>4. v = w
        BY <4>3 DEF ChosenKnown, OneForEach
      <4> QED
        BY <3>2, <4>3, <4>4 DEF v, w, i
    <3>6. Agreed!Choose(e[1], e[2])
      BY <3>3, <3>4, <3>5 DEF Agreed!Choose
    <3>7. Agreed!Next
      BY <3>2, <3>6 DEF Agreed!Next
    <3> QED
      BY <3>7
  <2> QED
    BY <2>3, <2>4
<1> QED
  BY <1>3, <1>4, VotesStay

\* Until one of those four events (breach), one value is chosen in an instance,
\* once, and every step is one of Consensus or leaves what is chosen: what promises tell makes a
\* proposer offer what may have been chosen under a lower id, in whatever number
\* of instances, with whatever is lost, repeated or late, and with nodes that
\* restart (proposer_receive_promise(), acceptor_receive_accept()).
THEOREM ConsensusImplemented ==
    ASSUME PaxosAssumption
    PROVE  Spec => Agreed!Init /\ [][breach' \/ Agreed!Next \/ UNCHANGED Chosen]_vars
<1>1. Init => CInv /\ ChosenKnown
  <2>1. SUFFICES ASSUME Init PROVE CInv
    BY ChosenAre
  <2>2. AInv
    BY <2>1, AInit
  <2>3. Offered = {}
    BY <2>1 DEF Init, Offered
  <2>4. Fresh
    BY <2>3 DEF Fresh, Known
  <2>5. AllSafe
    BY <2>3 DEF AllSafe
  <2> QED
    BY <2>2, <2>4, <2>5 DEF CInv
<1>2. (breach \/ CInv) /\ [Next]_vars => (breach \/ CInv)'
  BY CNext, BreachStays
<1>3. CInv => ChosenKnown
  BY ChosenAre
<1>4. ASSUME breach \/ CInv, CInv => ChosenKnown, (CInv => ChosenKnown)', (breach \/ CInv)', [Next]_vars
      PROVE  breach' \/ Agreed!Next \/ UNCHANGED Chosen
  <2>1. SUFFICES ASSUME ~breach' PROVE Agreed!Next \/ UNCHANGED Chosen
    OBVIOUS
  <2>2. ~breach
    BY <1>4, <2>1, BreachStays
  <2>3. CInv /\ ChosenKnown /\ ChosenKnown'
    BY <1>4, <2>1, <2>2
  <2>4. CASE UNCHANGED vars
    BY <2>4 DEF vars, Chosen
  <2>5. CASE Next
    <3>1. Before
      BY <2>1, <2>3, <2>5, StepBefore DEF CInv
    <3> QED
      BY <2>3, <3>1, ChoosesOne
  <2> QED
    BY <1>4, <2>4, <2>5
<1>5. Init => Agreed!Init
  BY DEF Init, Chosen, Agreed!Init
<1>6. (breach \/ CInv) /\ (breach \/ CInv)' /\ (CInv => ChosenKnown) /\ (CInv => ChosenKnown)'
      /\ [Next]_vars => [breach' \/ Agreed!Next \/ UNCHANGED Chosen]_vars
  BY <1>4
<1> QED
  BY <1>1, <1>2, <1>3, <1>5, <1>6, PTL DEF Spec
=============================================================================
