------------------------------ MODULE Transport ------------------------------
(***************************************************************************)
(* The client's transport (rum_master/dpdk_transition.cpp, packet.c).  A   *)
(* thread numbers its request and hands it to the tx thread through a      *)
(* ring; the rx thread copies the reply to the address that the request    *)
(* carried, which is a variable of the call, and sets the flag of the      *)
(* request's number, modulo TRANSPORT_WINDOW_SIZE; the calling thread      *)
(* polls that flag.  Nothing is sent again, and nothing times out.         *)
(*                                                                         *)
(* The slaves are external here: they do what is asked in order, and what  *)
(* they keep under a key is one value.  A write stores its number.         *)
(***************************************************************************)
EXTENDS Integers, Sequences, SequencesExt, FiniteSets

CONSTANTS
    Threads,    \* the client's threads
    Slaves,
    Keys,       \* what requests are about: remote addresses and hashes
    Hashes,     \*   those that are hashes
    Home,       \* key -> its slave
    MaxPackets, \* bound: requests numbered
    MaxLost,    \* bound: packets that the network loses
    TRANSPORT_WINDOW_SIZE,
    RingSize,   \* TX_RING_SIZE
    BURST_SIZE_TX,
    SEND_BURST_RETRY,
    Pool,       \* the mbufs of mbuf_pool that requests can have
    NicTakes,   \* what the NIC may take of a burst: "all", "some", "none" of it
    BigEnough   \* whether the window is "big enough", see InWindow

ASSUME TransportAssumption ==
    /\ IsFiniteSet(Threads)
    /\ Hashes \subseteq Keys /\ Home \in [Keys -> Slaves]
    /\ MaxPackets \in Nat /\ MaxLost \in Nat /\ Pool \in Nat
    /\ TRANSPORT_WINDOW_SIZE \in Nat \ {0} /\ RingSize \in Nat \ {0}
    /\ BURST_SIZE_TX \in Nat \ {0} /\ SEND_BURST_RETRY \in Nat \ {0}
    /\ NicTakes \subseteq {"all", "some", "none"}
    /\ BigEnough \in BOOLEAN

VARIABLES
    packet_number,      \* of the next request
    call,               \* thread -> the request it has at hand, and where it is
    buf,                \* thread -> what was last written to its call's variables
    TX_RING_,           \* the requests that wait for the tx thread
    tx,                 \* the tx thread in send_burst_fast()
    free,               \* the mbufs left
    to,                 \* the packets on their way to the slaves, as they were sent
    from,               \* the replies, in the order in which they arrive
    rx,                 \* the reply that the rx thread is at, or NoReply
    packet_received,    \* the flags
    store,              \* key -> what its slave keeps under it
    latest,             \* key -> what it will keep when all that was enqueued is done
    sent,               \* number -> how many times its request was sent
    lost,               \* the numbers of requests of which something was lost
    leaked              \* the mbufs of requests that found the ring full

callVars == <<call, buf, packet_number>>
wireVars == <<to, from, store>>
vars == <<callVars, TX_RING_, tx, free, wireVars, rx, packet_received, latest, sent, lost, leaked>>

Ops == {"ALLOC", "DEALLOC", "READ", "WRITE",
        "ALLOC_HASH", "DEALLOC_HASH", "READ_HASH", "WRITE_HASH", "GET"}
Answered == {"ALLOC", "READ", "ALLOC_HASH", "READ_HASH", "GET"}
Numbers == 0..(MaxPackets - 1)
New == MaxPackets           \* what a slave keeps under a key just allocated,
Gone == MaxPackets + 1      \*   and under one that is not
Kept == Numbers \cup {New, Gone}
NoNumber == 0 - 1

Packet == [op : Ops, key : Keys, thread : Threads, pak_num : Numbers]
Reply == [thread : Threads, pak_num : Numbers, value : Kept]
NoReply == [pak_num |-> NoNumber]
NoCall == [at |-> "none"]
Calls == {NoCall} \cup [at : {"numbered", "waiting"}, packet : Packet, expect : Kept]
Bursts == [bufs : Seq(Packet), pkts : Nat, cnt : Nat, retry : 0..SEND_BURST_RETRY]
NoBurst == [bufs |-> <<>>, pkts |-> 0, cnt |-> 0, retry |-> 0]
id(n) == n % TRANSPORT_WINDOW_SIZE

\* The shape of the state.
TypeOK ==
    /\ packet_number \in 0..MaxPackets
    /\ call \in [Threads -> Calls]
    /\ buf \in [Threads -> [pak_num : Numbers \cup {NoNumber}, value : Kept]]
    /\ TX_RING_ \in Seq(Packet) /\ Len(TX_RING_) <= RingSize
    /\ tx \in Bursts
    /\ Len(tx.bufs) <= BURST_SIZE_TX /\ tx.pkts + tx.cnt = Len(tx.bufs)
    /\ free \in 0..Pool
    /\ to \in Seq(Packet) /\ from \in Seq(Reply)
    /\ rx \in {NoReply} \cup Reply
    /\ packet_received \in [0..(TRANSPORT_WINDOW_SIZE - 1) -> BOOLEAN]
    /\ store \in [Keys -> Kept] /\ latest \in [Keys -> Kept]
    /\ sent \in [Numbers -> Nat] /\ lost \subseteq Numbers
    /\ leaked \in 0..Pool

\* dpdk_main(): dpdk_init_transport() clears the flags, the tx and the rx
\* thread are started.
Init ==
    /\ packet_number = 0
    /\ call = [th \in Threads |-> NoCall]
    /\ buf = [th \in Threads |-> [pak_num |-> NoNumber, value |-> Gone]]
    /\ TX_RING_ = <<>> /\ tx = NoBurst /\ free = Pool
    /\ to = <<>> /\ from = <<>>
    /\ rx = NoReply
    /\ packet_received = [i \in 0..(TRANSPORT_WINDOW_SIZE - 1) |-> FALSE]
    /\ store = [k \in Keys |-> Gone] /\ latest = store
    /\ sent = [n \in Numbers |-> 0] /\ lost = {} /\ leaked = 0

-----------------------------------------------------------------------------
(* The calling thread.                                                     *)

\* "Window size must be big enough so that the transport ID does not
\* wrap-around": while the call of a number lasts, fewer than a window of
\* other numbers are drawn.
InWindow ==
    \A th \in Threads :
        (call[th] # NoCall /\ call[th].packet.op \in Answered) =>
            packet_number - call[th].packet.pak_num < TRANSPORT_WINDOW_SIZE

\* Each call begins by taking an mbuf and a number; the packet is complete,
\* with the data of a write, before it is enqueued.  A call that finds the
\* pool empty returns at once and changes nothing; its caller does not notice.
Begin(th, op, key) ==
    /\ call[th] = NoCall /\ packet_number < MaxPackets
    /\ BigEnough => InWindow
    /\ free > 0
    /\ free' = free - 1
    /\ packet_number' = packet_number + 1
    /\ call' = [call EXCEPT ![th] =
                   [at |-> "numbered", expect |-> Gone,
                    packet |-> [op |-> op, key |-> key, thread |-> th,
                                pak_num |-> packet_number]]]
    /\ UNCHANGED <<buf, TX_RING_, tx, wireVars, rx, packet_received, latest, sent, lost, leaked>>

dpdk_alloc(th, k) == k \notin Hashes /\ Begin(th, "ALLOC", k)
dpdk_dealloc(th, k) == k \notin Hashes /\ Begin(th, "DEALLOC", k)
dpdk_read(th, k) == k \notin Hashes /\ Begin(th, "READ", k)
dpdk_write(th, k) == k \notin Hashes /\ Begin(th, "WRITE", k)
dpdk_alloc_hash(th, k) == k \in Hashes /\ Begin(th, "ALLOC_HASH", k)
dpdk_dealloc_hash(th, k) == k \in Hashes /\ Begin(th, "DEALLOC_HASH", k)
dpdk_read_hash(th, k) == k \in Hashes /\ Begin(th, "READ_HASH", k)
dpdk_write_hash(th, k) == k \in Hashes /\ Begin(th, "WRITE_HASH", k)
dpdk_get_hash(th, k) == k \in Hashes /\ Begin(th, "GET", k)

\* What a slave keeps under a key after a request.
After(p, kept) ==
    CASE p.op \in {"WRITE", "WRITE_HASH"} -> p.pak_num
      [] p.op \in {"DEALLOC", "DEALLOC_HASH"} -> Gone
      [] p.op = "ALLOC" -> New
      [] p.op = "ALLOC_HASH" -> IF kept = Gone THEN New ELSE kept
      [] OTHER -> kept

Enqueue_Front(th) ==    \* mutant: the ring is a stack
    /\ call[th] # NoCall /\ call[th].at = "numbered"
    /\ LET p == call[th].packet
           after == After(p, latest[p.key])
       IN  /\ IF Len(TX_RING_) < RingSize
              THEN TX_RING_' = <<p>> \o TX_RING_ /\ UNCHANGED <<lost, leaked>>
              ELSE /\ lost' = lost \cup {p.pak_num} /\ leaked' = leaked + 1
                   /\ UNCHANGED TX_RING_
           /\ latest' = [latest EXCEPT ![p.key] = after]
           /\ call' = [call EXCEPT ![th] = IF p.op \in Answered
                          THEN [@ EXCEPT !.at = "waiting", !.expect = after] ELSE NoCall]
    /\ UNCHANGED <<buf, packet_number, tx, free, wireVars, rx, packet_received, sent>>

\* rte_ring_enqueue(), whose result is ignored: a request that finds the ring
\* full is lost, and its mbuf leaks.  Only the calls that get an answer wait.
Enqueue(th) ==
    /\ call[th] # NoCall /\ call[th].at = "numbered"
    /\ LET p == call[th].packet
           after == After(p, latest[p.key])
       IN  /\ IF Len(TX_RING_) < RingSize
              THEN TX_RING_' = Append(TX_RING_, p) /\ UNCHANGED <<lost, leaked>>
              ELSE /\ lost' = lost \cup {p.pak_num} /\ leaked' = leaked + 1
                   /\ UNCHANGED TX_RING_
           /\ latest' = [latest EXCEPT ![p.key] = after]
           /\ call' = [call EXCEPT ![th] = IF p.op \in Answered
                          THEN [@ EXCEPT !.at = "waiting", !.expect = after] ELSE NoCall]
    /\ UNCHANGED <<buf, packet_number, tx, free, wireVars, rx, packet_received, sent>>

dpdkWaitFor_Left(th) == \* mutant: the flag stays set
    /\ call[th] # NoCall /\ call[th].at = "waiting"
    /\ packet_received[id(call[th].packet.pak_num)]
    /\ call' = [call EXCEPT ![th] = NoCall]
    /\ UNCHANGED <<buf, packet_number, TX_RING_, tx, free, wireVars, rx, packet_received,
                   latest, sent, lost, leaked>>

\* dpdkWaitFor() finds the flag set, clears it, and the call returns.
dpdkWaitFor(th) ==
    /\ call[th] # NoCall /\ call[th].at = "waiting"
    /\ packet_received[id(call[th].packet.pak_num)]
    /\ packet_received' = [packet_received EXCEPT ![id(call[th].packet.pak_num)] = FALSE]
    /\ call' = [call EXCEPT ![th] = NoCall]
    /\ UNCHANGED <<buf, packet_number, TX_RING_, tx, free, wireVars, rx, latest, sent, lost,
                   leaked>>

-----------------------------------------------------------------------------
(* The tx thread.                                                          *)

\* One round of dpdk_lcore_tx(), as far as the call of send_burst_fast().
dpdk_lcore_tx ==
    /\ tx = NoBurst /\ TX_RING_ # <<>>
    /\ LET n == IF Len(TX_RING_) < BURST_SIZE_TX THEN Len(TX_RING_) ELSE BURST_SIZE_TX
       IN  /\ tx' = [bufs |-> SubSeq(TX_RING_, 1, n), pkts |-> 0, cnt |-> n,
                     retry |-> SEND_BURST_RETRY]
           /\ TX_RING_' = SubSeq(TX_RING_, n + 1, Len(TX_RING_))
    /\ UNCHANGED <<callVars, free, wireVars, rx, packet_received, latest, sent, lost, leaked>>

\* rte_eth_tx_burst(): how many of n packets the NIC takes.
Taken(n) == (IF "all" \in NicTakes THEN {n} ELSE {})
            \cup (IF "some" \in NicTakes THEN 1..(n - 1) ELSE {})
            \cup (IF "none" \in NicTakes THEN {0} ELSE {})

send_burst_fast_Again ==  \* mutant: a short burst does not reduce cnt
    /\ tx.cnt > 0 /\ tx.retry > 0
    /\ \E ret \in Taken(tx.cnt) :
        LET out == SubSeq(tx.bufs, 1, ret)
        IN  /\ tx' = [tx EXCEPT !.pkts = @ + ret,
                                !.retry = IF ret = 0 THEN @ - 1 ELSE @]
            /\ free' = free + ret
            /\ to' = to \o out
            /\ sent' = [n \in Numbers |->
                           sent[n] + Cardinality({i \in 1..ret : out[i].pak_num = n})]
    /\ UNCHANGED <<callVars, TX_RING_, from, store, rx, packet_received, latest, lost, leaked>>

\* A round of the loop of send_burst_fast().  What is offered to the NIC is
\* always the beginning of bufs.
send_burst_fast ==
    /\ tx.cnt > 0 /\ tx.retry > 0
    /\ \E ret \in Taken(tx.cnt) :
        LET out == SubSeq(tx.bufs, 1, ret)
        IN  /\ tx' = [tx EXCEPT !.pkts = @ + ret, !.cnt = @ - ret,
                                !.retry = IF ret = 0 THEN @ - 1 ELSE @]
            /\ free' = free + ret
            /\ to' = to \o out
            /\ sent' = [n \in Numbers |->
                           sent[n] + Cardinality({i \in 1..ret : out[i].pak_num = n})]
    /\ UNCHANGED <<callVars, TX_RING_, from, store, rx, packet_received, latest, lost, leaked>>

send_burst_fast_End_Kept == \* mutant: the packets not sent are not freed
    /\ tx # NoBurst /\ (tx.cnt = 0 \/ tx.retry = 0)
    /\ lost' = lost \cup {tx.bufs[i].pak_num : i \in (tx.pkts + 1)..Len(tx.bufs)}
    /\ tx' = NoBurst
    /\ UNCHANGED <<callVars, TX_RING_, free, wireVars, rx, packet_received, latest, sent, leaked>>

\* Its end: the packets that were not sent are freed.
send_burst_fast_End ==
    /\ tx # NoBurst /\ (tx.cnt = 0 \/ tx.retry = 0)
    /\ lost' = lost \cup {tx.bufs[i].pak_num : i \in (tx.pkts + 1)..Len(tx.bufs)}
    /\ free' = free + Len(tx.bufs) - tx.pkts
    /\ tx' = NoBurst
    /\ UNCHANGED <<callVars, TX_RING_, wireVars, rx, packet_received, latest, sent, leaked>>

-----------------------------------------------------------------------------
(* The network and the slaves, and the rx thread.                          *)

\* The wire keeps the order of the packets for each slave.
Arrives(s, i) == Home[to[i].key] = s /\ \A j \in 1..(i - 1) : Home[to[j].key] # s

Serve(s) ==
    \E i \in DOMAIN to :
        /\ Arrives(s, i)
        /\ LET p == to[i]
               after == After(p, store[p.key])
           IN  /\ store' = [store EXCEPT ![p.key] = after]
               /\ from' = IF p.op \in Answered
                          THEN Append(from, [thread |-> p.thread, pak_num |-> p.pak_num,
                                             value |-> after])
                          ELSE from
        /\ to' = RemoveAt(to, i)
        /\ UNCHANGED <<callVars, TX_RING_, tx, free, rx, packet_received, latest, sent, lost,
                       leaked>>

\* The network loses a request or a reply.
LoseRequest(s) ==
    \E i \in DOMAIN to :
        /\ Arrives(s, i) /\ Cardinality(lost) < MaxLost
        /\ lost' = lost \cup {to[i].pak_num}
        /\ to' = RemoveAt(to, i)
        /\ UNCHANGED <<callVars, TX_RING_, tx, free, from, store, rx, packet_received,
                       latest, sent, leaked>>

LoseReply ==
    /\ Cardinality(lost) < MaxLost /\ from # <<>>
    /\ lost' = lost \cup {Head(from).pak_num}
    /\ from' = Tail(from)
    /\ UNCHANGED <<callVars, TX_RING_, tx, free, to, store, rx, packet_received, latest, sent,
                   leaked>>

\* dpdk_recv_worker() writes the reply to the address it carries...
dpdk_recv_worker ==
    /\ rx = NoReply /\ from # <<>>
    /\ rx' = Head(from)
    /\ from' = Tail(from)
    /\ buf' = [buf EXCEPT ![rx'.thread] = [pak_num |-> rx'.pak_num, value |-> rx'.value]]
    /\ UNCHANGED <<call, packet_number, TX_RING_, tx, free, to, store, packet_received,
                   latest, sent, lost, leaked>>

dpdk_recv_worker_flag_Off ==    \* mutant: the number counted from one
    /\ rx # NoReply
    /\ packet_received' = [packet_received EXCEPT ![id(rx.pak_num + 1)] = TRUE]
    /\ rx' = NoReply
    /\ UNCHANGED <<callVars, TX_RING_, tx, free, wireVars, latest, sent, lost, leaked>>

\* ... and then sets the flag of its number.
dpdk_recv_worker_flag ==
    /\ rx # NoReply
    /\ packet_received' = [packet_received EXCEPT ![id(rx.pak_num)] = TRUE]
    /\ rx' = NoReply
    /\ UNCHANGED <<callVars, TX_RING_, tx, free, wireVars, latest, sent, lost, leaked>>

-----------------------------------------------------------------------------
Call(th, k) ==
    \/ dpdk_alloc(th, k) \/ dpdk_dealloc(th, k) \/ dpdk_read(th, k) \/ dpdk_write(th, k)
    \/ dpdk_alloc_hash(th, k) \/ dpdk_dealloc_hash(th, k) \/ dpdk_read_hash(th, k)
    \/ dpdk_write_hash(th, k) \/ dpdk_get_hash(th, k)

Next ==
    \/ \E th \in Threads : Enqueue(th) \/ dpdkWaitFor(th) \/ \E k \in Keys : Call(th, k)
    \/ dpdk_lcore_tx \/ send_burst_fast \/ send_burst_fast_End
    \/ \E s \in Slaves : Serve(s) \/ LoseRequest(s)
    \/ LoseReply \/ dpdk_recv_worker \/ dpdk_recv_worker_flag

Spec == Init /\ [][Next]_vars

-----------------------------------------------------------------------------
(* Properties                                                              *)

\* A thread that finds its flag set finds the reply to its own request, and no
\* older one, in its variables.
OwnReply ==
    \A th \in Threads :
        (call[th] # NoCall /\ call[th].at = "waiting"
            /\ packet_received[id(call[th].packet.pak_num)]) =>
                buf[th].pak_num = call[th].packet.pak_num

\* A write is not waited for, and yet what is read later, by any thread, is what
\* was written last: replies tell the state that all the requests enqueued
\* before have left, unless one of them was lost.
ReadsWhatWasWritten ==
    \A th \in Threads :
        (call[th] # NoCall /\ call[th].at = "waiting"
            /\ packet_received[id(call[th].packet.pak_num)] /\ lost = {}) =>
                buf[th].value = call[th].expect

\* send_burst_fast() "frees packets not sent": of the burst it is given, each
\* packet is sent once, or else freed.
SentOrFreedOnce ==
    /\ \A n \in Numbers : sent[n] <= 1
    /\ tx # NoBurst /\ (tx.cnt = 0 \/ tx.retry = 0) =>
           \A i \in 1..Len(tx.bufs) : i > tx.pkts <=> sent[tx.bufs[i].pak_num] = 0

\* The mbufs of requests on their way to the NIC: in the ring, in the burst, or at
\* a call that has not enqueued its own.
Queued == Len(TX_RING_) + (Len(tx.bufs) - tx.pkts)
Numbered == {th \in Threads : call[th] # NoCall /\ call[th].at = "numbered"}
Held == Queued + Cardinality(Numbered)

\* Each mbuf is in the pool or with a request on its way to the NIC, whatever the
\* NIC refuses, the tx thread gives up (packet.c:37-41) or the network loses.  The
\* full ring (dpdk_transition.cpp:638) is the only place where one leaks.
NoMbufLeaks == free + Held + leaked = Pool

\* No call waits in vain, as nothing is sent again and nothing times out: unless
\* something of it was lost, its request or its reply is on its way, or its flag
\* is set.
OnItsWay ==
    \A th \in Threads :
        LET n == call[th].packet.pak_num
            Among(q) == \E i \in DOMAIN q : q[i].pak_num = n
        IN  (call[th] # NoCall /\ call[th].at = "waiting" /\ n \notin lost) =>
                \/ Among(TX_RING_) \/ Among(tx.bufs) \/ Among(to)
                \/ Among(from) \/ rx.pak_num = n \/ packet_received[id(n)]

=============================================================================
