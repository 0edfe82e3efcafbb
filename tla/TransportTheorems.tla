-------------------------- MODULE TransportTheorems --------------------------
(***************************************************************************)
(* Proofs about Transport, for any threads, slaves and keys, every size of *)
(* the window, the ring, a burst and the pool, and any number of requests  *)
(* and losses.                                                             *)
(***************************************************************************)
EXTENDS Transport, FiniteSetTheorems, SequenceTheorems, TLAPS

-----------------------------------------------------------------------------
(* The pipe: the requests on their way to the slaves, first come first     *)

Rest == SubSeq(tx.bufs, tx.pkts + 1, Len(tx.bufs))
Pipe == to \o Rest \o TX_RING_

LEMMA Cut ==
    ASSUME NEW X, NEW s \in Seq(X), NEW i \in 1..Len(s)
    PROVE  /\ RemoveAt(s, i) \in Seq(X) /\ Len(RemoveAt(s, i)) = Len(s) - 1
           /\ \A j \in 1..(Len(s) - 1) : RemoveAt(s, i)[j] = s[IF j < i THEN j ELSE j + 1]
<1> DEFINE u == SubSeq(s, 1, i - 1)
           v == SubSeq(s, i + 1, Len(s))
<1>1. Len(s) \in Nat /\ \A j \in 1..Len(s) : s[j] \in X
  BY ElementOfSeq, LenProperties
<1>2. /\ u \in Seq(X) /\ Len(u) = i - 1 /\ \A j \in 1..(i - 1) : u[j] = s[j]
      /\ v \in Seq(X) /\ Len(v) = Len(s) - i /\ \A j \in 1..(Len(s) - i) : v[j] = s[i + j]
  BY <1>1, SubSeqProperties
<1> HIDE DEF u, v
<1>3. /\ u \o v \in Seq(X) /\ Len(u \o v) = Len(u) + Len(v)
      /\ \A j \in 1..(Len(u) + Len(v)) :
             (u \o v)[j] = IF j <= Len(u) THEN u[j] ELSE v[j - Len(u)]
  BY <1>2, ConcatProperties
<1>4. ASSUME NEW j \in 1..(Len(s) - 1)
      PROVE  (u \o v)[j] = s[IF j < i THEN j ELSE j + 1]
  <2>1. CASE j < i
    BY <1>1, <1>2, <1>3, <2>1
  <2>2. CASE j >= i
    <3>1. (u \o v)[j] = v[j - (i - 1)] /\ j - (i - 1) \in 1..(Len(s) - i)
      BY <1>1, <1>2, <1>3, <2>2
    <3>2. v[j - (i - 1)] = s[i + (j - (i - 1))] /\ i + (j - (i - 1)) = j + 1
      BY <1>1, <1>2, <3>1
    <3> QED  BY <3>1, <3>2, <2>2
  <2>3. j < i \/ j >= i
    OBVIOUS
  <2> QED  BY <2>1, <2>2, <2>3
<1>5. u \o v \in Seq(X) /\ Len(u \o v) = Len(s) - 1
  BY <1>1, <1>2, <1>3
<1> QED  BY <1>4, <1>5 DEF RemoveAt, u, v

LEMMA CutFirst ==
    ASSUME NEW X, NEW s \in Seq(X), NEW t \in Seq(X), NEW i \in 1..Len(s)
    PROVE  RemoveAt(s, i) \o t = RemoveAt(s \o t, i)
<1> DEFINE c == RemoveAt(s, i)
           u == c \o t
           w == s \o t
           v == RemoveAt(w, i)
<1>1. /\ w \in Seq(X) /\ Len(w) = Len(s) + Len(t)
      /\ \A j \in 1..(Len(s) + Len(t)) : w[j] = IF j <= Len(s) THEN s[j] ELSE t[j - Len(s)]
      /\ Len(s) \in Nat /\ Len(t) \in Nat
  BY ConcatProperties, LenProperties
<1>2. /\ c \in Seq(X) /\ Len(c) = Len(s) - 1
      /\ \A j \in 1..(Len(s) - 1) : c[j] = s[IF j < i THEN j ELSE j + 1]
  BY Cut
<1> HIDE DEF w
<1>3. /\ v \in Seq(X) /\ Len(v) = Len(w) - 1
      /\ \A j \in 1..(Len(w) - 1) : v[j] = w[IF j < i THEN j ELSE j + 1]
  <2>1. i \in 1..Len(w)
    BY <1>1
  <2> QED  BY <1>1, <2>1, Cut
<1> HIDE DEF c, v
<1>4. /\ u \in Seq(X) /\ Len(u) = Len(c) + Len(t)
      /\ \A j \in 1..(Len(c) + Len(t)) :
             u[j] = IF j <= Len(c) THEN c[j] ELSE t[j - Len(c)]
  BY <1>2, ConcatProperties
<1> HIDE DEF u
<1>5. ASSUME NEW j \in 1..Len(u)
      PROVE  u[j] = v[j]
  <2>1. CASE j <= Len(s) - 1
    <3>1. j \in 1..(Len(s) - 1) /\ j \in 1..(Len(w) - 1) /\ j <= Len(c) /\ j \in 1..(Len(c) + Len(t))
      BY <1>1, <1>2, <1>4, <2>1
    <3>2. u[j] = s[IF j < i THEN j ELSE j + 1]
      BY <1>2, <1>4, <3>1
    <3>3. v[j] = w[IF j < i THEN j ELSE j + 1]
      BY <1>3, <3>1
    <3>4. \A k \in 1..Len(s) : w[k] = s[k]
      BY <1>1
    <3>5. (IF j < i THEN j ELSE j + 1) \in 1..Len(s)
      BY <1>1, <3>1
    <3> QED  BY <3>2, <3>3, <3>4, <3>5
  <2>2. CASE j > Len(s) - 1
    <3>1. /\ j \in 1..(Len(w) - 1) /\ j \in 1..(Len(c) + Len(t)) /\ ~ (j <= Len(c))
          /\ j + 1 \in 1..(Len(s) + Len(t)) /\ ~ (j < i) /\ ~ (j + 1 <= Len(s))
          /\ j - Len(c) = (j + 1) - Len(s)
      BY <1>1, <1>2, <1>4, <2>2
    <3>2. u[j] = t[j - Len(c)]
      BY <1>4, <3>1
    <3>3. v[j] = w[j + 1]
      BY <1>3, <3>1
    <3>4. w[j + 1] = t[(j + 1) - Len(s)]
      BY <1>1, <3>1
    <3> QED  BY <3>1, <3>2, <3>3, <3>4
  <2> QED  BY <1>1, <1>2, <1>4, <2>1, <2>2
<1>6. u = v
  BY <1>1, <1>2, <1>3, <1>4, <1>5, SeqEqual
<1> QED  BY <1>6 DEF u, v, c, w

LEMMA WholeSeq ==
    ASSUME NEW X, NEW s \in Seq(X)
    PROVE  /\ SubSeq(s, 1, Len(s)) = s /\ SubSeq(s, Len(s) + 1, Len(s)) = <<>>
           /\ SubSeq(s, 1, 0) = <<>> /\ <<>> \o s = s /\ s \o <<>> = s
BY SubSeqEmpty, SubSeqFull, ConcatEmptySeq, LenProperties

LEMMA JoinAppend ==
    ASSUME NEW X, NEW s \in Seq(X), NEW t \in Seq(X), NEW p \in X
    PROVE  s \o Append(t, p) = Append(s \o t, p)
<1>1. /\ Append(t, p) = t \o <<p>> /\ s \o t \in Seq(X)
      /\ Append(s \o t, p) = (s \o t) \o <<p>> /\ <<p>> \in Seq(X)
  BY AppendIsConcat, ConcatProperties
<1> QED  BY <1>1, ConcatAssociative

-----------------------------------------------------------------------------
(* The shape of the state, and where the mbufs are                         *)

\* What is not in the pool is held, or has leaked at the full ring; which a ring
\* that has room for the whole pool never is.
Mbufs == free + Held + leaked = Pool /\ (Pool <= RingSize => leaked = 0)
Shape == TypeOK /\ Mbufs

LEMMA AfterIsKept ==
    ASSUME NEW p \in Packet, NEW kept \in Kept
    PROVE  After(p, kept) \in Kept
BY TransportAssumption DEF After, Packet, Kept, Numbers, New, Gone

LEMMA Finite == Numbered \subseteq Threads /\ IsFiniteSet(Numbered) /\ Cardinality(Numbered) \in Nat
BY TransportAssumption, FS_Subset, FS_CardinalityType DEF Numbered

LEMMA CallBegins ==
    ASSUME NEW th \in Threads, NEW k \in Keys, Call(th, k)
    PROVE  \E op \in Ops : Begin(th, op, k)
BY DEF Call, Ops, dpdk_alloc, dpdk_dealloc, dpdk_read, dpdk_write, dpdk_alloc_hash,
       dpdk_dealloc_hash, dpdk_read_hash, dpdk_write_hash, dpdk_get_hash

LEMMA CallTypes ==
    ASSUME Shape
    PROVE  /\ packet_number \in 0..MaxPackets /\ call \in [Threads -> Calls]
           /\ buf \in [Threads -> [pak_num : Numbers \cup {NoNumber}, value : Kept]]
           /\ packet_received \in [0..(TRANSPORT_WINDOW_SIZE - 1) -> BOOLEAN]
           /\ latest \in [Keys -> Kept]
BY DEF Shape, TypeOK

LEMMA TxTypes ==
    ASSUME Shape
    PROVE  /\ TX_RING_ \in Seq(Packet) /\ Len(TX_RING_) \in 0..RingSize
           /\ tx \in Bursts /\ tx.bufs \in Seq(Packet) /\ Len(tx.bufs) \in 0..BURST_SIZE_TX
           /\ tx.pkts \in Nat /\ tx.cnt \in Nat /\ tx.pkts + tx.cnt = Len(tx.bufs)
           /\ free \in 0..Pool /\ leaked \in 0..Pool
<1>1. TypeOK
  BY DEF Shape
<1>2. tx \in Bursts /\ tx.bufs \in Seq(Packet) /\ tx.pkts \in Nat /\ tx.cnt \in Nat
  BY <1>1 DEF TypeOK, Bursts
<1>3. Len(TX_RING_) \in 0..RingSize /\ Len(tx.bufs) \in 0..BURST_SIZE_TX
  BY <1>1, <1>2, LenProperties, TransportAssumption DEF TypeOK
<1> QED  BY <1>1, <1>2, <1>3 DEF TypeOK

LEMMA WireTypes ==
    ASSUME Shape
    PROVE  /\ to \in Seq(Packet) /\ from \in Seq(Reply) /\ rx \in {NoReply} \cup Reply
           /\ store \in [Keys -> Kept] /\ sent \in [Numbers -> Nat] /\ lost \subseteq Numbers
BY DEF Shape, TypeOK

LEMMA HeldIsNat ==
    ASSUME Shape
    PROVE  /\ Queued \in Nat /\ Held \in Nat /\ Held = Queued + Cardinality(Numbered)
           /\ free \in Nat /\ leaked \in Nat
BY TxTypes, Finite DEF Queued, Held

LEMMA Fits ==
    ASSUME NEW p \in Nat, NEW a \in Nat, NEW b \in Nat, NEW c \in Nat, a + b + c = p
    PROVE  a \in 0..p /\ c \in 0..p
OBVIOUS

LEMMA Moved ==
    ASSUME NEW f \in Nat, NEW q \in Nat, NEW c \in Nat, NEW l \in Nat,
           NEW q2 \in Nat, NEW c2 \in Nat, NEW l2 \in Nat, c2 = c - 1,
           (q2 = q + 1 /\ l2 = l) \/ (q2 = q /\ l2 = l + 1)
    PROVE  f + (q2 + c2) + l2 = f + (q + c) + l
OBVIOUS

LEMMA Remain ==
    ASSUME NEW pkts \in Nat, NEW cnt \in Nat, NEW n \in Nat, NEW ret \in Nat, NEW r \in Nat,
           pkts + cnt = n, ret <= cnt
    PROVE  r + (n - (pkts + ret)) \in Nat
OBVIOUS

LEMMA BeginShape ==
    ASSUME Shape, NEW th \in Threads, NEW k \in Keys, NEW op \in Ops, Begin(th, op, k)
    PROVE  Shape'
<1> DEFINE p == [op |-> op, key |-> k, thread |-> th, pak_num |-> packet_number]
           c == [at |-> "numbered", expect |-> Gone, packet |-> p]
<1>1. /\ call[th] = NoCall /\ packet_number < MaxPackets /\ free > 0 /\ free' = free - 1
      /\ packet_number' = packet_number + 1 /\ call' = [call EXCEPT ![th] = c]
      /\ UNCHANGED <<buf, TX_RING_, tx, to, from, store, rx, packet_received, latest, sent, lost,
                     leaked>>
  BY DEF Begin, wireVars
<1>2. packet_number \in 0..MaxPackets /\ free \in 0..Pool
  BY CallTypes, TxTypes
<1>3. packet_number \in Numbers /\ packet_number' \in 0..MaxPackets /\ free' \in 0..Pool
  BY <1>1, <1>2, TransportAssumption DEF Numbers
<1>4. p \in Packet
  BY <1>3 DEF Packet
<1>5. c \in Calls /\ c.at = "numbered" /\ c # NoCall
  BY <1>4 DEF Calls, NoCall, Kept
<1> HIDE DEF c, p
<1>6. call' \in [Threads -> Calls]
  BY <1>1, <1>5, CallTypes
<1>7. TypeOK'
  <2>1. TypeOK
    BY DEF Shape
  <2> QED  BY <1>1, <1>3, <1>6, <2>1 DEF TypeOK
<1>8. Numbered' = Numbered \cup {th} /\ th \notin Numbered
  BY <1>1, <1>5, CallTypes DEF Numbered
<1>9. Cardinality(Numbered') = Cardinality(Numbered) + 1
  BY <1>8, Finite, FS_AddElement
<1>10. Mbufs'
  <2>1. Queued' = Queued /\ leaked' = leaked
    BY <1>1 DEF Queued
  <2>2. free' + Held' = free + Held
    BY <1>1, <1>9, <2>1, Finite, HeldIsNat DEF Held
  <2> QED  BY <2>1, <2>2 DEF Shape, Mbufs
<1> QED  BY <1>7, <1>10 DEF Shape

LEMMA EnqueueShape ==
    ASSUME Shape, NEW th \in Threads, Enqueue(th)
    PROVE  Shape'
<1> DEFINE p == call[th].packet
           after == After(p, latest[p.key])
           c == IF p.op \in Answered
                THEN [call[th] EXCEPT !.at = "waiting", !.expect = after] ELSE NoCall
<1>1. /\ call[th] # NoCall /\ call[th].at = "numbered"
      /\ IF Len(TX_RING_) < RingSize
         THEN TX_RING_' = Append(TX_RING_, p) /\ UNCHANGED <<lost, leaked>>
         ELSE /\ lost' = lost \cup {p.pak_num} /\ leaked' = leaked + 1
              /\ UNCHANGED TX_RING_
      /\ latest' = [latest EXCEPT ![p.key] = after]
      /\ call' = [call EXCEPT ![th] = c]
      /\ UNCHANGED <<buf, packet_number, tx, free, to, from, store, rx, packet_received, sent>>
  BY DEF Enqueue, wireVars
<1>2. call[th] \in [at : {"numbered", "waiting"}, packet : Packet, expect : Kept] /\ p \in Packet
  BY <1>1, CallTypes DEF Calls
<1>3. p.key \in Keys /\ p.pak_num \in Numbers
  BY <1>2 DEF Packet
<1>4. after \in Kept
  BY <1>2, <1>3, CallTypes, AfterIsKept
<1>5. c \in Calls /\ (c = NoCall \/ c.at = "waiting") /\ NoCall.at = "none"
  BY <1>2, <1>4 DEF Calls, NoCall
<1> HIDE DEF p, after, c
<1>6. /\ TX_RING_' \in Seq(Packet) /\ Len(TX_RING_') <= RingSize /\ lost' \subseteq Numbers
      /\ \/ Len(TX_RING_') = Len(TX_RING_) + 1 /\ leaked' = leaked
         \/ /\ Len(TX_RING_') = Len(TX_RING_) /\ leaked' = leaked + 1
            /\ RingSize <= Len(TX_RING_)
  <2>1. CASE Len(TX_RING_) < RingSize
    <3>1. TX_RING_' = Append(TX_RING_, p) /\ lost' = lost /\ leaked' = leaked
      BY <1>1, <2>1
    <3>2. TX_RING_' \in Seq(Packet) /\ Len(TX_RING_') = Len(TX_RING_) + 1
      BY <1>2, <3>1, TxTypes, AppendProperties
    <3>3. Len(TX_RING_') <= RingSize
      BY <2>1, <3>2, TxTypes, TransportAssumption
    <3>4. lost' \subseteq Numbers
      BY <3>1, WireTypes
    <3> QED  BY <3>1, <3>2, <3>3, <3>4
  <2>2. CASE ~ (Len(TX_RING_) < RingSize)
    <3>1. TX_RING_' = TX_RING_ /\ lost' = lost \cup {p.pak_num} /\ leaked' = leaked + 1
      BY <1>1, <2>2
    <3>2. Len(TX_RING_') <= RingSize
      BY <3>1, TxTypes, TransportAssumption
    <3>3. TX_RING_' \in Seq(Packet)
      BY <3>1, TxTypes
    <3>4. lost' \subseteq Numbers
      BY <1>3, <3>1, WireTypes
    <3>5. RingSize <= Len(TX_RING_)
      BY <2>2, TxTypes, TransportAssumption
    <3> QED  BY <3>1, <3>2, <3>3, <3>4, <3>5
  <2> QED  BY <2>1, <2>2
<1>7. latest' \in [Keys -> Kept] /\ call' \in [Threads -> Calls]
  BY <1>1, <1>3, <1>4, <1>5, CallTypes
<1>8. Numbered' = Numbered \ {th} /\ th \in Numbered
  BY <1>1, <1>5, CallTypes DEF Numbered
<1>9. Cardinality(Numbered') = Cardinality(Numbered) - 1 /\ Cardinality(Numbered') \in Nat
  <2>1. IsFiniteSet(Numbered')
    BY <1>8, Finite, FS_Subset
  <2> QED  BY <1>8, <2>1, Finite, FS_RemoveElement, FS_CardinalityType
<1>10. Mbufs' /\ Held' \in Nat /\ leaked' \in Nat
  <2>1. \/ Queued' = Queued + 1 /\ leaked' = leaked
        \/ Queued' = Queued /\ leaked' = leaked + 1 /\ RingSize <= Len(TX_RING_)
    <3>1. tx' = tx
      BY <1>1
    <3>2. Len(tx.bufs) - tx.pkts \in Int /\ Len(TX_RING_) \in Int
      BY TxTypes
    <3>3. PICK m \in Int : m = Len(tx.bufs) - tx.pkts
      BY <3>2
    <3>4. Queued = Len(TX_RING_) + m /\ Queued' = Len(TX_RING_') + m
      BY <3>1, <3>3 DEF Queued
    <3> QED  BY <1>6, <3>2, <3>3, <3>4
  <2>2. Held' \in Nat /\ leaked' \in Nat /\ free' + Held' + leaked' = free + Held + leaked
    <3>1. Held' = Queued' + Cardinality(Numbered')
      BY DEF Held
    <3>2. Queued' \in Nat
      BY <2>1, HeldIsNat
    <3>3. free' = free
      BY <1>1
    <3>4. leaked' \in Nat /\ Held' \in Nat
      BY <1>9, <2>1, <3>1, <3>2, HeldIsNat
    <3>5. PICK q \in Nat, k \in Nat, l \in Nat :
              q = Queued /\ k = Cardinality(Numbered) /\ l = leaked
      BY Finite, HeldIsNat
    <3>6. PICK q2 \in Nat, k2 \in Nat, l2 \in Nat :
              q2 = Queued' /\ k2 = Cardinality(Numbered') /\ l2 = leaked'
      BY <1>9, <3>2, <3>4
    <3>7. k2 = k - 1 /\ ((q2 = q + 1 /\ l2 = l) \/ (q2 = q /\ l2 = l + 1))
      BY <1>9, <2>1, <3>5, <3>6
    <3>8. \A f \in Nat : f + (q2 + k2) + l2 = f + (q + k) + l
      BY <3>7, Moved
    <3>9. Held' = q2 + k2 /\ Held = q + k
      BY <3>1, <3>5, <3>6, HeldIsNat
    <3> QED  BY <3>3, <3>4, <3>5, <3>6, <3>8, <3>9, HeldIsNat
  \* The caller's mbuf and those in the ring are of the pool.
  <2>3. ASSUME Pool <= RingSize, RingSize <= Len(TX_RING_)
        PROVE  FALSE
    <3>1. Len(TX_RING_) <= Queued /\ Len(TX_RING_) \in Nat
      BY TxTypes DEF Queued
    <3>2. Cardinality(Numbered) >= 1
      BY <1>9, Finite
    <3>3. Len(TX_RING_) + 1 <= Held
      BY <3>1, <3>2, HeldIsNat, Finite
    <3>4. Held <= Pool
      BY HeldIsNat, TransportAssumption DEF Shape, Mbufs
    <3> QED  BY <2>3, <3>1, <3>3, <3>4, HeldIsNat, TransportAssumption
  <2>4. Pool <= RingSize => leaked' = 0
    BY <2>1, <2>3 DEF Shape, Mbufs
  <2> QED  BY <2>2, <2>4 DEF Shape, Mbufs
<1>11. leaked' \in 0..Pool
  <2>1. free' \in Nat /\ free' + Held' + leaked' = Pool /\ Pool \in Nat
    BY <1>1, <1>10, HeldIsNat, TransportAssumption DEF Mbufs
  <2> QED  BY <1>10, <2>1, Fits
<1>12. TypeOK'
  BY <1>1, <1>6, <1>7, <1>11 DEF Shape, TypeOK
<1> QED  BY <1>10, <1>12 DEF Shape

LEMMA WaitShape ==
    ASSUME Shape, NEW th \in Threads, dpdkWaitFor(th)
    PROVE  Shape'
<1>1. /\ call[th].at = "waiting" /\ call' = [call EXCEPT ![th] = NoCall]
      /\ packet_received' = [packet_received EXCEPT ![id(call[th].packet.pak_num)] = FALSE]
      /\ UNCHANGED <<buf, packet_number, TX_RING_, tx, free, to, from, store, rx, latest, sent,
                     lost, leaked>>
  BY DEF dpdkWaitFor, wireVars
<1>2. call' \in [Threads -> Calls]
      /\ packet_received' \in [0..(TRANSPORT_WINDOW_SIZE - 1) -> BOOLEAN]
  BY <1>1, CallTypes DEF Calls
<1>3. TypeOK'
  BY <1>1, <1>2 DEF Shape, TypeOK
<1>4. Numbered' = Numbered
  BY <1>1, CallTypes DEF Numbered, NoCall
<1> QED  BY <1>1, <1>3, <1>4 DEF Shape, Mbufs, Held, Queued

LEMMA FetchShape ==
    ASSUME Shape, dpdk_lcore_tx
    PROVE  Shape'
<1>1. PICK n :
        /\ n = IF Len(TX_RING_) < BURST_SIZE_TX THEN Len(TX_RING_) ELSE BURST_SIZE_TX
        /\ tx' = [bufs |-> SubSeq(TX_RING_, 1, n), pkts |-> 0, cnt |-> n,
                  retry |-> SEND_BURST_RETRY]
        /\ TX_RING_' = SubSeq(TX_RING_, n + 1, Len(TX_RING_))
  BY DEF dpdk_lcore_tx
<1>2. /\ tx = NoBurst
      /\ UNCHANGED <<call, buf, packet_number, free, to, from, store, rx, packet_received,
                     latest, sent, lost, leaked>>
  BY DEF dpdk_lcore_tx, callVars, wireVars
<1>3. Len(TX_RING_) \in Nat /\ BURST_SIZE_TX \in Nat /\ SEND_BURST_RETRY \in Nat
  BY TxTypes, TransportAssumption
<1>4. n \in Nat /\ n <= Len(TX_RING_) /\ n <= BURST_SIZE_TX
  BY <1>1, <1>3
<1>5. \A i \in 1..Len(TX_RING_) : TX_RING_[i] \in Packet
  BY ElementOfSeq, TxTypes
<1> DEFINE b == SubSeq(TX_RING_, 1, n)
<1>6. b \in Seq(Packet) /\ Len(b) = n
  BY <1>3, <1>4, <1>5, SubSeqProperties
<1>7. TX_RING_' \in Seq(Packet) /\ Len(TX_RING_') = Len(TX_RING_) - n
  <2>1. n + 1 \in Int /\ Len(TX_RING_) \in Int /\ \A i \in (n + 1)..Len(TX_RING_) : TX_RING_[i] \in Packet
    BY <1>3, <1>4, <1>5
  <2>2. /\ TX_RING_' \in Seq(Packet)
        /\ Len(TX_RING_') = IF n + 1 <= Len(TX_RING_) THEN Len(TX_RING_) - (n + 1) + 1 ELSE 0
    BY <1>1, <2>1, SubSeqProperties
  <2> QED  BY <1>3, <1>4, <2>2
<1>8. Len(TX_RING_') <= RingSize
  BY <1>3, <1>4, <1>7, TxTypes, TransportAssumption
<1> HIDE DEF b
<1>9. tx' \in Bursts /\ tx'.bufs = b /\ tx'.pkts = 0 /\ tx'.cnt = n
  BY <1>1, <1>3, <1>4, <1>6 DEF Bursts, b
<1>10. tx'.pkts + tx'.cnt = Len(tx'.bufs) /\ Len(tx'.bufs) <= BURST_SIZE_TX
  BY <1>4, <1>6, <1>9
<1>11. TypeOK'
  <2>1. TypeOK
    BY DEF Shape
  <2> QED  BY <1>2, <1>7, <1>8, <1>9, <1>10, <2>1 DEF TypeOK
<1>12. Mbufs'
  <2>1. Queued' = Len(TX_RING_') + (n - 0)
    BY <1>6, <1>9 DEF Queued
  <2>2. Queued = Len(TX_RING_) + (0 - 0)
    BY <1>2, EmptySeq DEF Queued, NoBurst
  <2>3. Queued' = Queued
    BY <1>3, <1>4, <1>7, <2>1, <2>2
  <2>4. Held' = Held
    BY <1>2, <2>3 DEF Held, Numbered
  <2> QED  BY <1>2, <2>4 DEF Shape, Mbufs
<1> QED  BY <1>11, <1>12 DEF Shape

LEMMA SomeOfBurst ==
    ASSUME Shape, send_burst_fast, NEW ret \in Taken(tx.cnt)
    PROVE  /\ ret \in Nat /\ ret <= tx.cnt /\ ret <= Len(tx.bufs)
           /\ SubSeq(tx.bufs, 1, ret) \in Seq(Packet) /\ Len(SubSeq(tx.bufs, 1, ret)) = ret
           /\ \A n : Cardinality({i \in 1..ret : SubSeq(tx.bufs, 1, ret)[i].pak_num = n}) \in Nat
<1>1. tx.cnt \in Nat /\ tx.pkts \in Nat /\ tx.pkts + tx.cnt = Len(tx.bufs) /\ Len(tx.bufs) \in Nat
  BY TxTypes
<1>2. ret \in Nat /\ ret <= tx.cnt
  BY <1>1 DEF Taken
<1>3. ret <= Len(tx.bufs)
  BY <1>1, <1>2
<1>4. \A i \in 1..Len(tx.bufs) : tx.bufs[i] \in Packet
  BY ElementOfSeq, TxTypes
<1>5. SubSeq(tx.bufs, 1, ret) \in Seq(Packet) /\ Len(SubSeq(tx.bufs, 1, ret)) = ret
  BY <1>1, <1>2, <1>3, <1>4, SubSeqProperties
<1>6. ASSUME NEW S, S \subseteq 1..ret
      PROVE  Cardinality(S) \in Nat
  <2>1. IsFiniteSet(1..ret)
    BY <1>2, FS_Interval
  <2>2. IsFiniteSet(S)
    BY <1>6, <2>1, FS_Subset
  <2> QED  BY <2>2, FS_CardinalityType
<1>7. \A n : {i \in 1..ret : SubSeq(tx.bufs, 1, ret)[i].pak_num = n} \subseteq 1..ret
  OBVIOUS
<1>8. \A n : Cardinality({i \in 1..ret : SubSeq(tx.bufs, 1, ret)[i].pak_num = n}) \in Nat
  BY <1>6, <1>7
<1> QED  BY <1>2, <1>3, <1>5, <1>8

LEMMA SendShape ==
    ASSUME Shape, send_burst_fast
    PROVE  Shape'
<1>1. PICK ret \in Taken(tx.cnt) :
        /\ tx' = [tx EXCEPT !.pkts = @ + ret, !.cnt = @ - ret,
                            !.retry = IF ret = 0 THEN @ - 1 ELSE @]
        /\ free' = free + ret
        /\ to' = to \o SubSeq(tx.bufs, 1, ret)
        /\ sent' = [n \in Numbers |->
                      sent[n] + Cardinality({i \in 1..ret : SubSeq(tx.bufs, 1, ret)[i].pak_num = n})]
  BY DEF send_burst_fast
<1>2. /\ tx.cnt > 0 /\ tx.retry > 0
      /\ UNCHANGED <<call, buf, packet_number, TX_RING_, from, store, rx, packet_received,
                     latest, lost, leaked>>
  BY DEF send_burst_fast, callVars
<1>3. /\ ret \in Nat /\ ret <= tx.cnt /\ ret <= Len(tx.bufs)
      /\ SubSeq(tx.bufs, 1, ret) \in Seq(Packet)
      /\ \A n : Cardinality({i \in 1..ret : SubSeq(tx.bufs, 1, ret)[i].pak_num = n}) \in Nat
  BY SomeOfBurst
<1>4. /\ tx \in Bursts /\ tx.cnt \in Nat /\ tx.pkts \in Nat /\ tx.retry \in 0..SEND_BURST_RETRY
      /\ SEND_BURST_RETRY \in Nat /\ Len(tx.bufs) \in Nat /\ tx.bufs \in Seq(Packet)
  BY TxTypes, TransportAssumption DEF Bursts
<1>5. tx'.bufs = tx.bufs /\ tx'.pkts = tx.pkts + ret /\ tx'.cnt = tx.cnt - ret
  BY <1>1, <1>4 DEF Bursts
<1>6. tx' \in Bursts
  <2>1. tx.pkts + ret \in Nat /\ tx.cnt - ret \in Nat
    BY <1>3, <1>4
  <2>2. (IF ret = 0 THEN tx.retry - 1 ELSE tx.retry) \in 0..SEND_BURST_RETRY
    BY <1>2, <1>4
  <2> QED  BY <1>1, <1>4, <2>1, <2>2 DEF Bursts
<1>7. tx'.pkts + tx'.cnt = Len(tx'.bufs) /\ Len(tx'.bufs) <= BURST_SIZE_TX
  BY <1>3, <1>4, <1>5, TxTypes, TransportAssumption
<1>8. to' \in Seq(Packet)
  BY <1>1, <1>3, WireTypes, ConcatProperties
<1>9. sent' \in [Numbers -> Nat]
  <2> DEFINE more(n) == Cardinality({i \in 1..ret : SubSeq(tx.bufs, 1, ret)[i].pak_num = n})
  <2>1. \A n : more(n) \in Nat
    BY <1>3
  <2>2. sent' = [n \in Numbers |-> sent[n] + more(n)]
    BY <1>1
  <2> HIDE DEF more
  <2>3. \A n \in Numbers : sent[n] + more(n) \in Nat
    BY <2>1, WireTypes
  <2> QED  BY <2>2, <2>3
<1>10. Queued' = Queued - ret
  BY <1>2, <1>3, <1>4, <1>5, TxTypes DEF Queued
<1>11. Held' = Held - ret
  <2>1. Numbered' = Numbered
    BY <1>2 DEF Numbered
  <2> QED  BY <1>3, <1>10, <2>1, HeldIsNat, Finite DEF Held
<1>12. free' + Held' = free + Held
  BY <1>1, <1>3, <1>11, HeldIsNat
<1>13. Mbufs'
  BY <1>2, <1>12 DEF Shape, Mbufs
<1>14. free' \in 0..Pool
  <2>1. Queued' \in Nat
    <3>1. tx.pkts + tx.cnt = Len(tx.bufs) /\ Len(TX_RING_) \in Nat
      BY TxTypes, LenProperties
    <3>2. Len(TX_RING_) + (Len(tx.bufs) - (tx.pkts + ret)) \in Nat
      BY <1>3, <1>4, <3>1, Remain
    <3> QED  BY <1>2, <1>5, <3>2 DEF Queued
  <2>2. Held' \in Nat
    BY <1>2, <2>1, Finite DEF Held, Numbered
  <2>3. free' \in Nat
    BY <1>1, <1>3, HeldIsNat
  <2>4. free' + Held' + leaked' = Pool /\ Pool \in Nat /\ leaked' \in Nat
    BY <1>2, <1>13, HeldIsNat, TransportAssumption DEF Mbufs
  <2> QED  BY <2>2, <2>3, <2>4, Fits
<1>15. TypeOK'
  <2>1. TypeOK
    BY DEF Shape
  <2> QED  BY <1>2, <1>6, <1>7, <1>8, <1>9, <1>14, <2>1 DEF TypeOK
<1> QED  BY <1>13, <1>15 DEF Shape

LEMMA EndShape ==
    ASSUME Shape, send_burst_fast_End
    PROVE  Shape'
<1>1. /\ lost' = lost \cup {tx.bufs[i].pak_num : i \in (tx.pkts + 1)..Len(tx.bufs)}
      /\ free' = free + Len(tx.bufs) - tx.pkts /\ tx' = NoBurst
      /\ UNCHANGED <<call, buf, packet_number, TX_RING_, to, from, store, rx, packet_received,
                     latest, sent, leaked>>
  BY DEF send_burst_fast_End, callVars, wireVars
<1>2. /\ tx.pkts \in Nat /\ tx.cnt \in Nat /\ Len(tx.bufs) \in Nat
      /\ tx.pkts + tx.cnt = Len(tx.bufs)
  BY TxTypes
<1>3. \A i \in 1..Len(tx.bufs) : tx.bufs[i] \in Packet
  BY ElementOfSeq, TxTypes
<1>4. \A i \in 1..Len(tx.bufs) : tx.bufs[i].pak_num \in Numbers
  BY <1>3 DEF Packet
<1>5. (tx.pkts + 1)..Len(tx.bufs) \subseteq 1..Len(tx.bufs)
  BY <1>2
<1>6. lost' \subseteq Numbers
  BY <1>1, <1>4, <1>5, WireTypes
<1>7. tx' \in Bursts
  BY <1>1, EmptySeq, TransportAssumption DEF Bursts, NoBurst
<1>8. tx'.bufs = <<>> /\ tx'.pkts = 0 /\ tx'.cnt = 0 /\ Len(tx'.bufs) = 0
  BY <1>1, EmptySeq DEF NoBurst
<1>9. tx'.pkts + tx'.cnt = Len(tx'.bufs) /\ Len(tx'.bufs) <= BURST_SIZE_TX
  BY <1>8, TransportAssumption
<1>10. Queued' = Queued - (Len(tx.bufs) - tx.pkts) /\ Queued' \in Nat
  BY <1>1, <1>2, <1>8, TxTypes DEF Queued
<1>11. Held' = Held - (Len(tx.bufs) - tx.pkts) /\ Held' \in Nat
  <2>1. Numbered' = Numbered
    BY <1>1 DEF Numbered
  <2>2. Held' = Queued' + Cardinality(Numbered)
    BY <2>1 DEF Held
  <2>3. Held' \in Nat
    BY <1>10, <2>2, Finite
  <2>4. \A m \in Nat : Queued' = Queued - m => Held' = Held - m
    BY <2>2, HeldIsNat, Finite
  <2> QED  BY <1>2, <1>10, <2>3, <2>4
<1>12. free' + Held' = free + Held /\ free' \in Nat
  <2>1. free' = free + (Len(tx.bufs) - tx.pkts) /\ Len(tx.bufs) - tx.pkts \in Nat
    BY <1>1, <1>2, HeldIsNat
  <2>2. \A m \in Nat : Held' = Held - m /\ free' = free + m =>
                           free' + Held' = free + Held /\ free' \in Nat
    BY HeldIsNat
  <2> QED  BY <1>11, <2>1, <2>2
<1>13. Mbufs'
  BY <1>1, <1>12 DEF Shape, Mbufs
<1>14. free' \in 0..Pool
  <2>1. free' + Held' + leaked' = Pool /\ Pool \in Nat /\ leaked' \in Nat
    BY <1>1, <1>13, HeldIsNat, TransportAssumption DEF Mbufs
  <2> QED  BY <1>11, <1>12, <2>1, Fits
<1>15. TypeOK'
  <2>1. TypeOK
    BY DEF Shape
  <2> QED  BY <1>1, <1>6, <1>7, <1>9, <1>14, <2>1 DEF TypeOK
<1> QED  BY <1>13, <1>15 DEF Shape

LEMMA WireShape ==
    ASSUME Shape, (\E s \in Slaves : Serve(s) \/ LoseRequest(s)) \/ LoseReply
                  \/ dpdk_recv_worker \/ dpdk_recv_worker_flag
    PROVE  Shape'
<1>1. UNCHANGED <<call, packet_number, TX_RING_, tx, free, latest, sent, leaked>>
  BY DEF Serve, LoseRequest, LoseReply, dpdk_recv_worker, dpdk_recv_worker_flag, callVars, wireVars
<1>2. Mbufs'
  <2>1. Held' = Held
    BY <1>1 DEF Held, Queued, Numbered
  <2> QED  BY <1>1, <2>1 DEF Shape, Mbufs
<1>3. ASSUME NEW i \in 1..Len(to)
      PROVE  /\ to[i] \in Packet /\ to[i].key \in Keys /\ to[i].pak_num \in Numbers
             /\ to[i].thread \in Threads /\ RemoveAt(to, i) \in Seq(Packet)
  <2>1. to[i] \in Packet
    BY ElementOfSeq, WireTypes
  <2> QED  BY <2>1, Cut, WireTypes DEF Packet
<1>4. TypeOK
  BY DEF Shape
<1>5. ASSUME NEW s \in Slaves, Serve(s)
      PROVE  TypeOK'
  <2>1. PICK i \in 1..Len(to) :
          LET p == to[i]
              after == After(p, store[p.key])
          IN  /\ store' = [store EXCEPT ![p.key] = after]
              /\ from' = IF p.op \in Answered
                         THEN Append(from, [thread |-> p.thread, pak_num |-> p.pak_num,
                                            value |-> after])
                         ELSE from
              /\ to' = RemoveAt(to, i)
              /\ UNCHANGED <<callVars, rx, packet_received, lost>>
    BY <1>5, LenProperties, WireTypes DEF Serve
  <2> DEFINE after == After(to[i], store[to[i].key])
             r == [thread |-> to[i].thread, pak_num |-> to[i].pak_num, value |-> after]
  <2>2. after \in Kept
    BY <1>3, WireTypes, AfterIsKept
  <2>3. r \in Reply
    BY <1>3, <2>2 DEF Reply
  <2>4. store' = [store EXCEPT ![to[i].key] = after] /\ from' \in {from, Append(from, r)}
    BY <2>1
  <2> HIDE DEF after, r
  <2>5. store' \in [Keys -> Kept]
    BY <1>3, <2>2, <2>4, WireTypes
  <2>6. from' \in Seq(Reply)
    BY <2>3, <2>4, WireTypes, AppendProperties
  <2>7. to' \in Seq(Packet)
    BY <1>3, <2>1
  <2> QED  BY <1>1, <1>4, <2>1, <2>5, <2>6, <2>7 DEF TypeOK, callVars
<1>6. ASSUME NEW s \in Slaves, LoseRequest(s)
      PROVE  TypeOK'
  <2>1. PICK i \in 1..Len(to) :
          /\ lost' = lost \cup {to[i].pak_num} /\ to' = RemoveAt(to, i)
          /\ UNCHANGED <<callVars, from, store, rx, packet_received>>
    BY <1>6, LenProperties, WireTypes DEF LoseRequest
  <2>2. to' \in Seq(Packet) /\ lost' \subseteq Numbers
    BY <1>3, <2>1, WireTypes
  <2> QED  BY <1>1, <1>4, <2>1, <2>2 DEF TypeOK, callVars
<1>7. ASSUME from # <<>>
      PROVE  Head(from) \in Reply /\ Tail(from) \in Seq(Reply)
  BY <1>7, HeadTailProperties, WireTypes
<1>8. CASE LoseReply
  <2>1. /\ from # <<>> /\ lost' = lost \cup {Head(from).pak_num} /\ from' = Tail(from)
        /\ UNCHANGED <<callVars, to, store, rx, packet_received>>
    BY <1>8 DEF LoseReply
  <2>2. lost' \subseteq Numbers /\ from' \in Seq(Reply)
    BY <1>7, <2>1, WireTypes DEF Reply
  <2>3. UNCHANGED <<buf, to, store, rx, packet_received>>
    BY <2>1 DEF callVars
  <2>6. TypeOK'
    BY <1>1, <1>4, <2>2, <2>3 DEF TypeOK
  <2> QED  BY <1>2, <2>6 DEF Shape
<1>9. CASE dpdk_recv_worker
  <2>1. /\ from # <<>> /\ rx' = Head(from) /\ from' = Tail(from)
        /\ buf' = [buf EXCEPT ![rx'.thread] = [pak_num |-> rx'.pak_num, value |-> rx'.value]]
        /\ UNCHANGED <<to, store, packet_received, lost>>
    BY <1>9 DEF dpdk_recv_worker
  <2>2. rx' \in Reply /\ from' \in Seq(Reply)
    BY <1>7, <2>1
  <2>3. rx'.thread \in Threads /\ rx'.pak_num \in Numbers /\ rx'.value \in Kept
    BY <2>2 DEF Reply
  <2>4. buf' \in [Threads -> [pak_num : Numbers \cup {NoNumber}, value : Kept]]
    BY <2>1, <2>3, CallTypes
  <2>5. UNCHANGED <<to, store, packet_received, lost>>
    BY <2>1
  <2>6. TypeOK'
    BY <1>1, <1>4, <2>2, <2>4, <2>5 DEF TypeOK
  <2> QED  BY <1>2, <2>6 DEF Shape
<1>10. CASE dpdk_recv_worker_flag
  <2>1. /\ packet_received' = [packet_received EXCEPT ![id(rx.pak_num)] = TRUE] /\ rx' = NoReply
        /\ UNCHANGED <<callVars, to, from, store, lost>>
    BY <1>10 DEF dpdk_recv_worker_flag, wireVars
  <2>2. packet_received' \in [0..(TRANSPORT_WINDOW_SIZE - 1) -> BOOLEAN]
    BY <2>1, CallTypes
  <2>3. UNCHANGED <<buf, to, from, store, lost>> /\ rx' \in {NoReply} \cup Reply
    BY <2>1 DEF callVars
  <2>6. TypeOK'
    BY <1>1, <1>4, <2>2, <2>3 DEF TypeOK
  <2> QED  BY <1>2, <2>6 DEF Shape
<1> QED  BY <1>2, <1>5, <1>6, <1>8, <1>9, <1>10 DEF Shape

LEMMA ShapeNext == Shape /\ [Next]_vars => Shape'
<1> SUFFICES ASSUME Shape, [Next]_vars
             PROVE  Shape'
  OBVIOUS
<1>1. ASSUME NEW th \in Threads, Enqueue(th) \/ dpdkWaitFor(th) \/ \E k \in Keys : Call(th, k)
      PROVE  Shape'
  BY <1>1, EnqueueShape, WaitShape, CallBegins, BeginShape
<1>2. CASE UNCHANGED vars
  <2>1. Held' = Held /\ TypeOK
    BY <1>2 DEF vars, callVars, Held, Queued, Numbered, Shape
  <2>2. TypeOK'
    BY <1>2, <2>1 DEF vars, callVars, wireVars, TypeOK
  <2>3. Mbufs'
    BY <1>2, <2>1 DEF vars, Shape, Mbufs
  <2> QED  BY <2>2, <2>3 DEF Shape
<1> QED  BY <1>1, <1>2, FetchShape, SendShape, EndShape, WireShape DEF Next

LEMMA ShapeInit == Init => Shape
<1> SUFFICES ASSUME Init
             PROVE  Shape
  OBVIOUS
<1>1. /\ packet_number = 0 /\ free = Pool /\ rx = NoReply /\ lost = {} /\ leaked = 0
      /\ packet_received = [i \in 0..(TRANSPORT_WINDOW_SIZE - 1) |-> FALSE]
      /\ store = [k \in Keys |-> Gone] /\ latest = store
      /\ sent = [n \in Numbers |-> 0] /\ TX_RING_ = <<>> /\ to = <<>> /\ from = <<>>
  BY DEF Init
<1>2. call \in [Threads -> Calls]
  BY DEF Init, Calls
<1>3. buf \in [Threads -> [pak_num : Numbers \cup {NoNumber}, value : Kept]]
  BY DEF Init, Kept
<1>4. store \in [Keys -> Kept] /\ latest \in [Keys -> Kept] /\ sent \in [Numbers -> Nat]
  BY <1>1 DEF Kept
<1>5. /\ tx.bufs = <<>> /\ tx.pkts = 0 /\ tx.cnt = 0 /\ Len(tx.bufs) = 0 /\ tx \in Bursts
      /\ Len(tx.bufs) <= BURST_SIZE_TX /\ tx.pkts + tx.cnt = Len(tx.bufs)
  BY EmptySeq, TransportAssumption DEF Init, NoBurst, Bursts
<1>6. TX_RING_ \in Seq(Packet) /\ Len(TX_RING_) = 0 /\ to \in Seq(Packet) /\ from \in Seq(Reply)
  BY <1>1, EmptySeq
<1>7. TypeOK
  BY <1>1, <1>2, <1>3, <1>4, <1>5, <1>6, TransportAssumption DEF TypeOK
<1>8. Cardinality(Numbered) = 0
  <2>1. Numbered = {}
    BY DEF Init, Numbered
  <2> QED  BY <2>1, FS_EmptySet
<1>9. Held = 0
  BY <1>5, <1>6, <1>8 DEF Held, Queued
<1>10. Mbufs
  BY <1>1, <1>9, TransportAssumption DEF Mbufs
<1> QED  BY <1>7, <1>10 DEF Shape

LEMMA ShapeAlways == Spec => []Shape
BY ShapeInit, ShapeNext, PTL DEF Spec

\* The state keeps its shape: no more than RingSize requests in the ring, no more
\* than Pool mbufs in the pool.
THEOREM TypeCorrect == Spec => []TypeOK
BY ShapeAlways, PTL DEF Shape

\* With a NIC that takes a burst or refuses it, every mbuf is in the pool, with a
\* request on its way to the NIC, or leaked at the full ring.  (Where the NIC takes
\* a part, an mbuf may be freed in the place of another, which a count cannot tell.)
THEOREM NoneLeaks ==
    ASSUME "some" \notin NicTakes
    PROVE  Spec => []NoMbufLeaks
<1>1. Shape => NoMbufLeaks
  BY DEF Shape, Mbufs, NoMbufLeaks
<1> QED  BY <1>1, ShapeAlways, PTL

\* With a ring that has room for the whole pool, as TX_RING_SIZE has for NUM_MBUFS of
\* up to four ports, no request finds the ring full, and every mbuf that is not on
\* its way to the NIC goes back to the pool.
THEOREM NoneDropped ==
    ASSUME "some" \notin NicTakes, Pool <= RingSize
    PROVE  Spec => [](leaked = 0 /\ free + Held = Pool)
<1>1. Shape => leaked = 0 /\ free + Held = Pool
  BY HeldIsNat DEF Shape, Mbufs
<1> QED  BY <1>1, ShapeAlways, PTL

-----------------------------------------------------------------------------
(* What the steps do to the pipe, when the NIC takes a burst or refuses it *)

\* A burst is out, or none of it is.
Whole == tx.pkts \in {0, Len(tx.bufs)}

\* Some packets have left the pipe; the others are in the same order.
Thinned(f) ==
    /\ f \in [1..Len(Pipe') -> 1..Len(Pipe)]
    /\ \A i \in 1..Len(Pipe') : Pipe'[i] = Pipe[f[i]]
    /\ \A i, j \in 1..Len(Pipe') : i < j => f[i] < f[j]

LEMMA PipeType ==
    ASSUME Shape
    PROVE  /\ Rest \in Seq(Packet) /\ to \o Rest \in Seq(Packet) /\ Pipe \in Seq(Packet)
           /\ Len(Rest) = Len(tx.bufs) - tx.pkts /\ Len(Pipe) = Len(to) + Len(Rest) + Len(TX_RING_)
           /\ Len(to) \in Nat /\ Len(Rest) \in Nat /\ Len(TX_RING_) \in Nat /\ Len(Pipe) \in Nat
           /\ Pipe = to \o (Rest \o TX_RING_) /\ Rest \o TX_RING_ \in Seq(Packet)
           /\ \A i \in 1..Len(Pipe) : Pipe[i] \in Packet
<1>1. /\ tx.bufs \in Seq(Packet) /\ Len(tx.bufs) \in Nat /\ tx.pkts \in Nat
      /\ tx.pkts <= Len(tx.bufs)
  BY TxTypes
<1>2. \A i \in 1..Len(tx.bufs) : tx.bufs[i] \in Packet
  BY <1>1, ElementOfSeq
<1>3. /\ tx.pkts + 1 \in Int /\ Len(tx.bufs) \in Int
      /\ \A i \in (tx.pkts + 1)..Len(tx.bufs) : tx.bufs[i] \in Packet
  BY <1>1, <1>2
<1>4. /\ Rest \in Seq(Packet)
      /\ Len(Rest) = IF tx.pkts + 1 <= Len(tx.bufs) THEN Len(tx.bufs) - (tx.pkts + 1) + 1 ELSE 0
  BY <1>3, SubSeqProperties DEF Rest
<1>5. Len(Rest) = Len(tx.bufs) - tx.pkts
  BY <1>1, <1>4
<1>6. to \in Seq(Packet) /\ Len(to) \in Nat /\ TX_RING_ \in Seq(Packet) /\ Len(TX_RING_) \in Nat
  BY TxTypes, WireTypes, LenProperties
<1>7. to \o Rest \in Seq(Packet) /\ Len(to \o Rest) = Len(to) + Len(Rest)
  BY <1>4, <1>6, ConcatProperties
<1>8. Pipe \in Seq(Packet) /\ Len(Pipe) = Len(to \o Rest) + Len(TX_RING_)
  BY <1>6, <1>7, ConcatProperties DEF Pipe
<1>9. Pipe = to \o (Rest \o TX_RING_) /\ Rest \o TX_RING_ \in Seq(Packet)
  BY <1>4, <1>6, ConcatAssociative, ConcatProperties DEF Pipe
<1>10. Len(Rest) \in Nat /\ Len(Pipe) \in Nat
  BY <1>4, <1>8, LenProperties
<1>11. \A i \in 1..Len(Pipe) : Pipe[i] \in Packet
  BY <1>8, ElementOfSeq
<1>12. Len(Pipe) = Len(to) + Len(Rest) + Len(TX_RING_)
  BY <1>6, <1>7, <1>8, <1>10
<1> QED  BY <1>4, <1>5, <1>6, <1>7, <1>8, <1>9, <1>10, <1>11, <1>12

LEMMA PipeParts ==
    ASSUME Shape
    PROVE  /\ \A i \in 1..Len(to) : i \in 1..Len(Pipe) /\ Pipe[i] = to[i]
           /\ \A i \in 1..Len(Rest) : Len(to) + i \in 1..Len(Pipe) /\ Pipe[Len(to) + i] = Rest[i]
           /\ \A i \in 1..Len(Rest) : Rest[i] = tx.bufs[tx.pkts + i]
           /\ \A i \in 1..Len(TX_RING_) : /\ Len(to) + Len(Rest) + i \in 1..Len(Pipe)
                                          /\ Pipe[Len(to) + Len(Rest) + i] = TX_RING_[i]
           /\ \A i \in 1..Len(Pipe) : \/ i \in 1..Len(to)
                                      \/ \E j \in 1..Len(Rest) : i = Len(to) + j
                                      \/ \E j \in 1..Len(TX_RING_) : i = Len(to) + Len(Rest) + j
<1> DEFINE q == to \o Rest
<1>1. /\ q \in Seq(Packet) /\ Rest \in Seq(Packet) /\ to \in Seq(Packet)
      /\ TX_RING_ \in Seq(Packet) /\ Pipe = q \o TX_RING_
      /\ Len(Pipe) = Len(to) + Len(Rest) + Len(TX_RING_)
      /\ Len(to) \in Nat /\ Len(Rest) \in Nat /\ Len(TX_RING_) \in Nat
      /\ Len(Rest) = Len(tx.bufs) - tx.pkts
  BY PipeType, TxTypes, WireTypes DEF Pipe
<1>2. /\ Len(q) = Len(to) + Len(Rest)
      /\ \A i \in 1..(Len(to) + Len(Rest)) :
             q[i] = IF i <= Len(to) THEN to[i] ELSE Rest[i - Len(to)]
  BY <1>1, ConcatProperties
<1> HIDE DEF q
<1>3. \A i \in 1..(Len(q) + Len(TX_RING_)) :
          Pipe[i] = IF i <= Len(q) THEN q[i] ELSE TX_RING_[i - Len(q)]
  BY <1>1, ConcatProperties
<1>4. ASSUME NEW i \in 1..Len(to)
      PROVE  i \in 1..Len(Pipe) /\ Pipe[i] = to[i]
  <2>1. i \in 1..Len(Pipe) /\ i \in 1..(Len(q) + Len(TX_RING_)) /\ i <= Len(q)
        /\ i \in 1..(Len(to) + Len(Rest)) /\ i <= Len(to)
    BY <1>1, <1>2
  <2> QED  BY <1>2, <1>3, <2>1
<1>5. ASSUME NEW i \in 1..Len(Rest)
      PROVE  Len(to) + i \in 1..Len(Pipe) /\ Pipe[Len(to) + i] = Rest[i]
  <2>1. /\ Len(to) + i \in 1..Len(Pipe) /\ Len(to) + i \in 1..(Len(q) + Len(TX_RING_))
        /\ Len(to) + i <= Len(q) /\ Len(to) + i \in 1..(Len(to) + Len(Rest))
        /\ ~ (Len(to) + i <= Len(to)) /\ (Len(to) + i) - Len(to) = i
    BY <1>1, <1>2
  <2>2. Pipe[Len(to) + i] = q[Len(to) + i]
    BY <1>3, <2>1
  <2>3. q[Len(to) + i] = Rest[(Len(to) + i) - Len(to)]
    BY <1>2, <2>1
  <2> QED  BY <2>1, <2>2, <2>3
<1>6. ASSUME NEW i \in 1..Len(TX_RING_)
      PROVE  /\ Len(to) + Len(Rest) + i \in 1..Len(Pipe)
             /\ Pipe[Len(to) + Len(Rest) + i] = TX_RING_[i]
  <2>1. /\ Len(q) + i \in 1..(Len(q) + Len(TX_RING_)) /\ Len(to) + Len(Rest) + i = Len(q) + i
        /\ ~ (Len(q) + i <= Len(q)) /\ (Len(q) + i) - Len(q) = i
        /\ Len(to) + Len(Rest) + i \in 1..Len(Pipe)
    <3> DEFINE a == Len(to)
               b == Len(Rest)
               c == Len(TX_RING_)
               n == Len(Pipe)
               m == Len(q)
    <3>1. a \in Nat /\ b \in Nat /\ c \in Nat /\ n = a + b + c /\ m = a + b /\ i \in 1..c
      BY <1>1, <1>2
    <3> HIDE DEF a, b, c, n, m
    <3>2. /\ m + i \in 1..(m + c) /\ a + b + i = m + i /\ ~ (m + i <= m) /\ (m + i) - m = i
          /\ a + b + i \in 1..n
      BY <3>1
    <3> QED  BY <3>2 DEF a, b, c, n, m
  <2>2. Pipe[Len(q) + i] = TX_RING_[(Len(q) + i) - Len(q)]
    BY <1>3, <2>1
  <2> QED  BY <2>1, <2>2
<1>7. ASSUME NEW i \in 1..Len(Rest)
      PROVE  Rest[i] = tx.bufs[tx.pkts + i]
  <2>1. /\ tx.bufs \in Seq(Packet) /\ Len(tx.bufs) \in Nat /\ tx.pkts \in Nat
        /\ tx.pkts <= Len(tx.bufs)
    BY TxTypes
  <2>2. \A k \in 1..Len(tx.bufs) : tx.bufs[k] \in Packet
    BY <2>1, ElementOfSeq
  <2>3. /\ tx.pkts + 1 \in Int /\ Len(tx.bufs) \in Int
        /\ \A k \in (tx.pkts + 1)..Len(tx.bufs) : tx.bufs[k] \in Packet
    BY <2>1, <2>2
  <2>4. \A k \in 1..(Len(tx.bufs) - (tx.pkts + 1) + 1) : Rest[k] = tx.bufs[(tx.pkts + 1) + k - 1]
    BY <2>3, SubSeqProperties DEF Rest
  <2>5. i \in 1..(Len(tx.bufs) - (tx.pkts + 1) + 1) /\ (tx.pkts + 1) + i - 1 = tx.pkts + i
    <3> DEFINE n == Len(tx.bufs)
               p == tx.pkts
               m == Len(Rest)
    <3>1. n \in Nat /\ p \in Nat /\ m = n - p /\ i \in 1..m
      BY <1>1, <2>1
    <3> HIDE DEF n, p, m
    <3>2. i \in 1..(n - (p + 1) + 1) /\ (p + 1) + i - 1 = p + i
      BY <3>1
    <3> QED  BY <3>2 DEF n, p
  <2> QED  BY <2>4, <2>5
<1>8. ASSUME NEW i \in 1..Len(Pipe)
      PROVE  \/ i \in 1..Len(to)
             \/ \E j \in 1..Len(Rest) : i = Len(to) + j
             \/ \E j \in 1..Len(TX_RING_) : i = Len(to) + Len(Rest) + j
  <2>1. CASE i <= Len(to)
    BY <1>1, <2>1
  <2>2. CASE i > Len(to) /\ i <= Len(to) + Len(Rest)
    <3>1. i - Len(to) \in 1..Len(Rest) /\ i = Len(to) + (i - Len(to))
      BY <1>1, <2>2
    <3> QED  BY <3>1
  <2>3. CASE i > Len(to) + Len(Rest)
    <3>1. /\ i - (Len(to) + Len(Rest)) \in 1..Len(TX_RING_)
          /\ i = Len(to) + Len(Rest) + (i - (Len(to) + Len(Rest)))
      BY <1>1, <2>3
    <3> QED  BY <3>1
  <2> QED  BY <1>1, <2>1, <2>2, <2>3
<1> QED  BY <1>4, <1>5, <1>6, <1>7, <1>8

LEMMA EnqueuePipe ==
    ASSUME Shape, NEW th \in Threads, Enqueue(th)
    PROVE  \/ Pipe' = Append(Pipe, call[th].packet) /\ lost' = lost
           \/ Pipe' = Pipe /\ lost' = lost \cup {call[th].packet.pak_num}
<1>1. /\ call[th] # NoCall /\ tx' = tx /\ to' = to
      /\ \/ TX_RING_' = Append(TX_RING_, call[th].packet) /\ lost' = lost
         \/ lost' = lost \cup {call[th].packet.pak_num} /\ TX_RING_' = TX_RING_
  BY DEF Enqueue, wireVars
<1>2. call[th].packet \in Packet
  BY <1>1, CallTypes DEF Calls
<1>3. Rest' = Rest
  BY <1>1 DEF Rest
<1>4. CASE TX_RING_' = Append(TX_RING_, call[th].packet) /\ lost' = lost
  <2>1. Pipe' = (to \o Rest) \o Append(TX_RING_, call[th].packet)
    BY <1>1, <1>3, <1>4 DEF Pipe
  <2> DEFINE q == to \o Rest
             p == call[th].packet
  <2>2. q \in Seq(Packet) /\ TX_RING_ \in Seq(Packet) /\ Pipe = q \o TX_RING_ /\ p \in Packet
    BY <1>2, PipeType, TxTypes DEF Pipe
  <2>3. Pipe' = q \o Append(TX_RING_, p)
    BY <2>1
  <2> HIDE DEF q, p
  <2>4. Pipe' = Append(Pipe, p)
    BY <2>2, <2>3, JoinAppend
  <2> QED  BY <1>4, <2>4 DEF p
<1>5. CASE lost' = lost \cup {call[th].packet.pak_num} /\ TX_RING_' = TX_RING_
  BY <1>1, <1>3, <1>5 DEF Pipe
<1> QED  BY <1>1, <1>4, <1>5

LEMMA FetchPipe ==
    ASSUME Shape, dpdk_lcore_tx
    PROVE  Pipe' = Pipe /\ Whole'
<1>1. PICK n :
        /\ n = IF Len(TX_RING_) < BURST_SIZE_TX THEN Len(TX_RING_) ELSE BURST_SIZE_TX
        /\ tx' = [bufs |-> SubSeq(TX_RING_, 1, n), pkts |-> 0, cnt |-> n,
                  retry |-> SEND_BURST_RETRY]
        /\ TX_RING_' = SubSeq(TX_RING_, n + 1, Len(TX_RING_))
  BY DEF dpdk_lcore_tx
<1>2. tx = NoBurst /\ to' = to
  BY DEF dpdk_lcore_tx, wireVars
<1>3. Len(TX_RING_) \in Nat /\ BURST_SIZE_TX \in Nat /\ TX_RING_ \in Seq(Packet)
  BY TxTypes, TransportAssumption
<1>4. n \in Nat /\ n <= Len(TX_RING_)
  BY <1>1, <1>3
<1> DEFINE b == SubSeq(TX_RING_, 1, n)
<1>5. b \in Seq(Packet) /\ Len(b) = n
  <2>1. \A i \in 1..n : TX_RING_[i] \in Packet
    BY <1>3, <1>4, ElementOfSeq
  <2> QED  BY <1>4, <2>1, SubSeqProperties
<1>6. b \o TX_RING_' = TX_RING_
  <2>1. 1 \in 1..(Len(TX_RING_) + 1) /\ n \in (1 - 1)..Len(TX_RING_) /\ Len(TX_RING_) \in n..Len(TX_RING_)
    BY <1>3, <1>4
  <2>2. b \o TX_RING_' = SubSeq(TX_RING_, 1, Len(TX_RING_))
    BY <1>1, <1>3, <2>1, ConcatAdjacentSubSeq
  <2> QED  BY <1>3, <2>2, SubSeqFull
<1>7. tx'.bufs = b /\ tx'.pkts = 0
  BY <1>1
<1> HIDE DEF b
<1>8. Rest' = b
  <2>1. Rest' = SubSeq(tx'.bufs, tx'.pkts + 1, Len(tx'.bufs))
    BY DEF Rest
  <2>2. Rest' = SubSeq(b, 1, Len(b))
    BY <1>7, <2>1
  <2> QED  BY <1>5, <2>2, WholeSeq
<1>9. Rest = <<>>
  BY <1>2, EmptySeq, SubSeqEmpty DEF Rest, NoBurst
<1>10. Pipe = to \o TX_RING_
  BY <1>9, WireTypes, WholeSeq DEF Pipe
<1>11. Pipe' = (to \o b) \o TX_RING_'
  BY <1>2, <1>8 DEF Pipe
<1>12. TX_RING_' \in Seq(Packet)
  <2>1. Shape'
    BY FetchShape
  <2> QED  BY <2>1 DEF Shape, TypeOK
<1>13. Pipe' = to \o (b \o TX_RING_')
  <2> DEFINE r == TX_RING_'
  <2>1. r \in Seq(Packet) /\ to \in Seq(Packet) /\ b \in Seq(Packet) /\ Pipe' = (to \o b) \o r
    BY <1>5, <1>11, <1>12, WireTypes
  <2> HIDE DEF r
  <2>2. (to \o b) \o r = to \o (b \o r)
    BY <2>1, ConcatAssociative
  <2> QED  BY <2>1, <2>2 DEF r
<1>14. Whole'
  BY <1>7 DEF Whole
<1> QED  BY <1>6, <1>10, <1>13, <1>14

LEMMA SendPipe ==
    ASSUME Shape, Whole, "some" \notin NicTakes, send_burst_fast
    PROVE  /\ Pipe' = Pipe /\ Whole'
           /\ \/ UNCHANGED <<to, sent>> /\ tx'.bufs = tx.bufs /\ tx'.pkts = tx.pkts
              \/ /\ tx.pkts = 0 /\ tx'.bufs = tx.bufs /\ tx'.pkts = Len(tx.bufs) /\ Rest = tx.bufs
                 /\ sent' = [n \in Numbers |-> sent[n]
                               + Cardinality({i \in 1..Len(tx.bufs) : tx.bufs[i].pak_num = n})]
<1>1. PICK ret \in Taken(tx.cnt) :
        /\ tx' = [tx EXCEPT !.pkts = @ + ret, !.cnt = @ - ret,
                            !.retry = IF ret = 0 THEN @ - 1 ELSE @]
        /\ to' = to \o SubSeq(tx.bufs, 1, ret)
        /\ sent' = [n \in Numbers |->
                      sent[n] + Cardinality({i \in 1..ret : SubSeq(tx.bufs, 1, ret)[i].pak_num = n})]
  BY DEF send_burst_fast
<1>2. tx.cnt > 0 /\ TX_RING_' = TX_RING_
  BY DEF send_burst_fast
<1>3. /\ tx \in Bursts /\ tx.bufs \in Seq(Packet) /\ tx.pkts \in Nat /\ tx.cnt \in Nat
      /\ Len(tx.bufs) \in Nat /\ tx.pkts + tx.cnt = Len(tx.bufs)
  BY TxTypes
<1>4. tx.pkts = 0 /\ tx.cnt = Len(tx.bufs)
  BY <1>2, <1>3 DEF Whole
<1>5. ret \in {0, tx.cnt}
  BY DEF Taken
<1>6. tx'.bufs = tx.bufs /\ tx'.pkts = ret
  BY <1>1, <1>3, <1>4, <1>5 DEF Bursts
<1>7. Rest = tx.bufs
  <2>1. Rest = SubSeq(tx.bufs, 0 + 1, Len(tx.bufs))
    BY <1>4 DEF Rest
  <2> QED  BY <1>3, <2>1, WholeSeq
<1>8. Rest' = SubSeq(tx.bufs, ret + 1, Len(tx.bufs))
  BY <1>6 DEF Rest
<1>9. CASE ret = 0
  <2>1. SubSeq(tx.bufs, 1, ret) = <<>>
    BY <1>9, SubSeqEmpty
  <2>2. to' = to
    BY <1>1, <2>1, WireTypes, WholeSeq
  <2>3. Rest' = Rest
    BY <1>4, <1>8, <1>9 DEF Rest
  <2>4. \A n : {i \in 1..ret : SubSeq(tx.bufs, 1, ret)[i].pak_num = n} = {}
    BY <1>9
  <2>5. sent' = [n \in Numbers |-> sent[n] + 0]
    BY <1>1, <2>4, FS_EmptySet
  <2>6. sent' = sent
    BY <2>5, WireTypes
  <2> QED  BY <1>2, <1>4, <1>6, <1>9, <2>2, <2>3, <2>6 DEF Pipe, Whole
<1>10. CASE ret = Len(tx.bufs)
  <2>1. SubSeq(tx.bufs, 1, ret) = tx.bufs
    BY <1>3, <1>10, WholeSeq
  <2>2. Rest' = <<>>
    BY <1>3, <1>8, <1>10, WholeSeq
  <2>3. to' = to \o Rest
    BY <1>1, <1>7, <2>1
  <2>4. Pipe' = ((to \o Rest) \o <<>>) \o TX_RING_
    BY <1>2, <2>2, <2>3 DEF Pipe
  <2>5. Pipe' = Pipe
    BY <2>4, PipeType, WholeSeq DEF Pipe
  <2>6. Whole'
    BY <1>6, <1>10 DEF Whole
  <2>7. sent' = [n \in Numbers |-> sent[n]
                   + Cardinality({i \in 1..Len(tx.bufs) : tx.bufs[i].pak_num = n})]
    BY <1>1, <1>10, <2>1
  <2> QED  BY <1>4, <1>6, <1>7, <1>10, <2>5, <2>6, <2>7
<1> QED  BY <1>4, <1>5, <1>9, <1>10

LEMMA EndPipe ==
    ASSUME Shape, Whole, send_burst_fast_End
    PROVE  /\ tx' = NoBurst /\ Whole' /\ \E f : Thinned(f)
           /\ Pipe' = Pipe \/ lost' # {}
           /\ lost \subseteq lost'
           /\ \A i \in 1..Len(Pipe) :
                  Pipe[i].pak_num \notin lost' => \E j \in 1..Len(Pipe') : Pipe'[j] = Pipe[i]
<1>1. /\ lost' = lost \cup {tx.bufs[i].pak_num : i \in (tx.pkts + 1)..Len(tx.bufs)}
      /\ tx' = NoBurst /\ UNCHANGED <<TX_RING_, to>>
  BY DEF send_burst_fast_End, wireVars
<1>2. tx.bufs \in Seq(Packet) /\ tx.pkts \in Nat /\ Len(tx.bufs) \in Nat
  BY TxTypes
<1>3. Whole' /\ lost \subseteq lost'
  BY <1>1 DEF Whole, NoBurst
<1>4. Rest' = <<>>
  BY <1>1, EmptySeq, SubSeqEmpty DEF Rest, NoBurst
<1>5. Pipe' = to \o TX_RING_
  BY <1>1, <1>4, WireTypes, WholeSeq DEF Pipe
<1>6. /\ Len(Pipe') = Len(to) + Len(TX_RING_)
      /\ \A i \in 1..(Len(to) + Len(TX_RING_)) :
             Pipe'[i] = IF i <= Len(to) THEN to[i] ELSE TX_RING_[i - Len(to)]
  BY <1>5, WireTypes, TxTypes, ConcatProperties
<1>7. /\ Len(to) \in Nat /\ Len(TX_RING_) \in Nat /\ Len(Rest) \in Nat
      /\ Len(Pipe) = Len(to) + Len(Rest) + Len(TX_RING_) /\ Len(Rest) = Len(tx.bufs) - tx.pkts
  BY PipeType
<1> DEFINE f == [i \in 1..Len(Pipe') |-> IF i <= Len(to) THEN i ELSE i + Len(Rest)]
<1>8. ASSUME NEW i \in 1..Len(Pipe')
      PROVE  f[i] \in 1..Len(Pipe) /\ Pipe'[i] = Pipe[f[i]]
  <2>1. CASE i <= Len(to)
    <3>1. i \in 1..Len(to) /\ i \in 1..(Len(to) + Len(TX_RING_)) /\ f[i] = i
      BY <1>6, <1>7, <2>1
    <3> QED  BY <1>6, <2>1, <3>1, PipeParts
  <2>2. CASE i > Len(to)
    <3>1. /\ i - Len(to) \in 1..Len(TX_RING_) /\ i \in 1..(Len(to) + Len(TX_RING_))
          /\ ~ (i <= Len(to)) /\ f[i] = i + Len(Rest)
          /\ i + Len(Rest) = Len(to) + Len(Rest) + (i - Len(to))
      BY <1>6, <1>7, <2>2
    <3>2. Pipe'[i] = TX_RING_[i - Len(to)]
      BY <1>6, <3>1
    <3>3. f[i] \in 1..Len(Pipe) /\ Pipe[f[i]] = TX_RING_[i - Len(to)]
      BY <3>1, PipeParts
    <3> QED  BY <3>2, <3>3
  <2> QED  BY <1>7, <2>1, <2>2
<1>9. ASSUME NEW i \in 1..Len(Pipe'), NEW j \in 1..Len(Pipe'), i < j
      PROVE  f[i] < f[j]
  BY <1>6, <1>7, <1>9
<1>10. f \in [1..Len(Pipe') -> 1..Len(Pipe)]
  BY <1>8
<1>11. \E g : Thinned(g)
  <2> HIDE DEF f
  <2>1. Thinned(f)
    BY <1>8, <1>9, <1>10 DEF Thinned
  <2> QED  BY <2>1
<1>12. ASSUME Pipe' # Pipe
       PROVE  lost' # {}
  <2>1. Rest # <<>>
    BY <1>5, <1>12, WireTypes, WholeSeq DEF Pipe
  <2>2. Len(Rest) # 0
    BY <2>1, PipeType, EmptySeq
  <2>3. Len(tx.bufs) \in (tx.pkts + 1)..Len(tx.bufs)
    BY <1>2, <1>7, <2>2
  <2> QED  BY <1>1, <2>3
<1>13. ASSUME NEW i \in 1..Len(Pipe), Pipe[i].pak_num \notin lost'
       PROVE  \E j \in 1..Len(Pipe') : Pipe'[j] = Pipe[i]
  <2>1. CASE i \in 1..Len(to)
    <3>1. i \in 1..Len(Pipe') /\ i \in 1..(Len(to) + Len(TX_RING_)) /\ i <= Len(to)
      BY <1>6, <1>7, <2>1
    <3>2. Pipe'[i] = to[i] /\ Pipe[i] = to[i]
      BY <1>6, <2>1, <3>1, PipeParts
    <3> QED  BY <3>1, <3>2
  <2>2. CASE \E j \in 1..Len(Rest) : i = Len(to) + j
    <3>1. PICK j \in 1..Len(Rest) : i = Len(to) + j
      BY <2>2
    <3>2. Pipe[i] = tx.bufs[tx.pkts + j]
      BY <3>1, PipeParts
    <3>3. tx.pkts + j \in (tx.pkts + 1)..Len(tx.bufs)
      <4> DEFINE n == Len(tx.bufs)
                 p == tx.pkts
                 m == Len(Rest)
      <4>1. n \in Nat /\ p \in Nat /\ m = n - p /\ j \in 1..m
        BY <1>2, <1>7
      <4> HIDE DEF n, p, m
      <4>2. p + j \in (p + 1)..n
        BY <4>1
      <4> QED  BY <4>2 DEF n, p
    <3> QED  BY <1>1, <1>13, <3>2, <3>3
  <2>3. CASE \E j \in 1..Len(TX_RING_) : i = Len(to) + Len(Rest) + j
    <3>1. PICK j \in 1..Len(TX_RING_) : i = Len(to) + Len(Rest) + j
      BY <2>3
    <3>2. /\ Len(to) + j \in 1..Len(Pipe') /\ Len(to) + j \in 1..(Len(to) + Len(TX_RING_))
          /\ ~ (Len(to) + j <= Len(to)) /\ (Len(to) + j) - Len(to) = j
      BY <1>6, <1>7
    <3>3. Pipe'[Len(to) + j] = TX_RING_[j]
      BY <1>6, <3>2
    <3>4. Pipe[i] = TX_RING_[j]
      BY <3>1, PipeParts
    <3> QED  BY <3>2, <3>3, <3>4
  <2> QED  BY <2>1, <2>2, <2>3, PipeParts
<1> QED  BY <1>1, <1>3, <1>11, <1>12, <1>13

\* A packet leaves the wire.
LEMMA CutPipe ==
    ASSUME Shape, NEW k \in 1..Len(to), to' = RemoveAt(to, k), UNCHANGED <<tx, TX_RING_>>
    PROVE  /\ k \in 1..Len(Pipe) /\ Pipe[k] = to[k] /\ Whole' = Whole
           /\ Len(Pipe') = Len(Pipe) - 1
           /\ \A i \in 1..Len(Pipe') : Pipe'[i] = Pipe[IF i < k THEN i ELSE i + 1]
           /\ \E f : Thinned(f) /\ \A i \in 1..Len(Pipe') : f[i] # k
           /\ \A i \in 1..Len(Pipe) : i # k => \E j \in 1..Len(Pipe') : Pipe'[j] = Pipe[i]
<1>1. /\ k \in 1..Len(Pipe) /\ Pipe[k] = to[k] /\ Len(to) \in Nat /\ Len(Pipe) \in Nat
      /\ Pipe \in Seq(Packet) /\ Rest \o TX_RING_ \in Seq(Packet) /\ to \in Seq(Packet)
      /\ Pipe = to \o (Rest \o TX_RING_)
  BY PipeType, PipeParts, WireTypes
<1>2. Rest' = Rest /\ Whole' = Whole
  BY DEF Rest, Whole
<1>3. RemoveAt(to, k) \in Seq(Packet) /\ Rest \in Seq(Packet) /\ TX_RING_ \in Seq(Packet)
  BY <1>1, Cut, PipeType, TxTypes
<1>4. Pipe' = (RemoveAt(to, k) \o Rest) \o TX_RING_
  BY <1>2 DEF Pipe
<1>5. Pipe' = RemoveAt(to, k) \o (Rest \o TX_RING_)
  BY <1>3, <1>4, ConcatAssociative
<1>6. Pipe' = RemoveAt(Pipe, k)
  BY <1>1, <1>5, CutFirst
<1>7. /\ Len(Pipe') = Len(Pipe) - 1
      /\ \A i \in 1..(Len(Pipe) - 1) : Pipe'[i] = Pipe[IF i < k THEN i ELSE i + 1]
  BY <1>1, <1>6, Cut
<1> DEFINE f == [i \in 1..Len(Pipe') |-> IF i < k THEN i ELSE i + 1]
<1>8. \A i \in 1..Len(Pipe') : f[i] \in 1..Len(Pipe) /\ f[i] # k /\ Pipe'[i] = Pipe[f[i]]
  BY <1>1, <1>7
<1>9. \A i, j \in 1..Len(Pipe') : i < j => f[i] < f[j]
  BY <1>1, <1>7
<1>10. f \in [1..Len(Pipe') -> 1..Len(Pipe)]
  BY <1>8
<1>11. \E g : Thinned(g) /\ \A i \in 1..Len(Pipe') : g[i] # k
  <2> HIDE DEF f
  <2>1. Thinned(f)
    BY <1>8, <1>9, <1>10 DEF Thinned
  <2> QED  BY <1>8, <2>1
<1>12. ASSUME NEW i \in 1..Len(Pipe), i # k
       PROVE  \E j \in 1..Len(Pipe') : Pipe'[j] = Pipe[i]
  <2>1. CASE i < k
    <3>1. i \in 1..Len(Pipe') /\ i \in 1..(Len(Pipe) - 1)
      BY <1>1, <1>7, <2>1
    <3> QED  BY <1>7, <2>1, <3>1
  <2>2. CASE i > k
    <3>1. i - 1 \in 1..Len(Pipe') /\ i - 1 \in 1..(Len(Pipe) - 1) /\ ~ (i - 1 < k) /\ (i - 1) + 1 = i
      BY <1>1, <1>7, <2>2
    <3>2. Pipe'[i - 1] = Pipe[(i - 1) + 1]
      BY <1>7, <3>1
    <3> QED  BY <3>1, <3>2
  <2>3. i < k \/ i > k
    BY <1>12
  <2> QED  BY <2>1, <2>2, <2>3
<1> QED  BY <1>1, <1>2, <1>7, <1>11, <1>12

\* The others leave the pipe as it is.
LEMMA SamePipe ==
    ASSUME UNCHANGED <<to, tx, TX_RING_>>
    PROVE  Pipe' = Pipe /\ Rest' = Rest /\ Whole' = Whole
BY DEF Pipe, Rest, Whole

-----------------------------------------------------------------------------
(* Each request is sent once                                               *)

NoSplit == "some" \notin NicTakes
Busy == {th \in Threads : call[th] # NoCall}
num(th) == call[th].packet.pak_num

\* No two of the requests at hand, or on their way, have the same number.
Unique ==
    /\ \A th \in Busy : num(th) < packet_number
    /\ \A th, u \in Busy : th # u => num(th) # num(u)
    /\ \A i \in 1..Len(Pipe) : Pipe[i].pak_num < packet_number
    /\ \A i, j \in 1..Len(Pipe) : i < j => Pipe[i].pak_num # Pipe[j].pak_num
    /\ \A th \in Numbered : \A i \in 1..Len(Pipe) : Pipe[i].pak_num # num(th)

\* What was not offered to the NIC was not sent, and what it took was sent once.
SentSound ==
    /\ \A n \in Numbers : sent[n] <= 1 /\ (n >= packet_number => sent[n] = 0)
    /\ \A th \in Numbered : sent[num(th)] = 0
    /\ \A i \in 1..Len(Rest) : sent[Rest[i].pak_num] = 0
    /\ \A i \in 1..Len(TX_RING_) : sent[TX_RING_[i].pak_num] = 0
    /\ \A i \in 1..tx.pkts : sent[tx.bufs[i].pak_num] = 1

Once == Shape /\ Whole /\ Unique /\ SentSound

LEMMA BusyTypes ==
    ASSUME Shape
    PROVE  /\ \A th \in Busy : /\ call[th].packet \in Packet /\ num(th) \in Numbers
                               /\ num(th) \in Nat
                               /\ call[th].at \in {"numbered", "waiting"}
                               /\ call[th].expect \in Kept
           /\ Numbered \subseteq Busy /\ Busy \subseteq Threads
           /\ packet_number \in Nat
<1>1. ASSUME NEW th \in Busy
      PROVE  call[th] \in [at : {"numbered", "waiting"}, packet : Packet, expect : Kept]
  BY CallTypes DEF Calls, Busy
<1>2. ASSUME NEW th \in Busy
      PROVE  /\ call[th].packet \in Packet /\ num(th) \in Numbers /\ num(th) \in Nat
             /\ call[th].at \in {"numbered", "waiting"} /\ call[th].expect \in Kept
  <2>1. call[th].packet \in Packet
    BY <1>1
  <2>2. num(th) \in Numbers
    BY <2>1 DEF num, Packet
  <2>3. num(th) \in Nat
    BY <2>2, TransportAssumption DEF Numbers
  <2> QED  BY <1>1, <2>1, <2>2, <2>3
<1>3. Numbered \subseteq Busy /\ Busy \subseteq Threads /\ packet_number \in Nat
  BY CallTypes, TransportAssumption DEF Busy, Numbered
<1> QED  BY <1>2, <1>3

\* A thread draws a number.
LEMMA BeginCalls ==
    ASSUME Shape, NEW th \in Threads, NEW k \in Keys, NEW op \in Ops, Begin(th, op, k)
    PROVE  /\ call[th] = NoCall /\ call' = [call EXCEPT ![th] = call'[th]]
           /\ Busy' = Busy \cup {th} /\ Numbered' = Numbered \cup {th} /\ th \notin Busy
           /\ \A u \in Busy : call'[u] = call[u]
           /\ call'[th].packet = [op |-> op, key |-> k, thread |-> th, pak_num |-> packet_number]
           /\ call'[th].at = "numbered" /\ (num(th))' = packet_number
           /\ packet_number' = packet_number + 1 /\ packet_number \in Numbers
           /\ UNCHANGED <<buf, TX_RING_, tx, to, from, store, rx, packet_received, latest, sent, lost>>
<1> DEFINE p == [op |-> op, key |-> k, thread |-> th, pak_num |-> packet_number]
           c == [at |-> "numbered", expect |-> Gone, packet |-> p]
<1>1. /\ call[th] = NoCall /\ packet_number < MaxPackets
      /\ packet_number' = packet_number + 1 /\ call' = [call EXCEPT ![th] = c]
      /\ UNCHANGED <<buf, TX_RING_, tx, to, from, store, rx, packet_received, latest, sent, lost>>
  BY DEF Begin, wireVars
<1>2. c # NoCall /\ c.at = "numbered" /\ c.packet = p
  BY DEF NoCall
<1>3. packet_number \in Numbers
  BY <1>1, CallTypes, TransportAssumption DEF Numbers
<1> HIDE DEF c, p
<1>4. call'[th] = c /\ \A u \in Threads : u # th => call'[u] = call[u]
  BY <1>1, CallTypes
<1>5. th \notin Busy /\ Busy' = Busy \cup {th} /\ Numbered' = Numbered \cup {th}
  BY <1>1, <1>2, <1>4 DEF Busy, Numbered
<1>6. \A u \in Busy : call'[u] = call[u]
  BY <1>4, <1>5 DEF Busy
<1>7. (num(th))' = packet_number
  BY <1>2, <1>4 DEF num, p
<1> QED  BY <1>1, <1>2, <1>3, <1>4, <1>5, <1>6, <1>7 DEF p

\* A request leaves the thread's hands, or its call returns.
LEMMA EnqueueCalls ==
    ASSUME Shape, NEW th \in Threads, Enqueue(th)
    PROVE  /\ th \in Numbered /\ Numbered' = Numbered \ {th} /\ Busy' \subseteq Busy
           /\ \A u \in Threads : u # th => call'[u] = call[u]
           /\ \A u \in Busy' : call'[u].packet = call[u].packet /\ (num(u))' = num(u)
           /\ \/ th \notin Busy' /\ call[th].packet.op \notin Answered
              \/ /\ th \in Busy' /\ call[th].packet.op \in Answered /\ call'[th].at = "waiting"
                 /\ call'[th].expect = After(call[th].packet, latest[call[th].packet.key])
           /\ latest' = [latest EXCEPT ![call[th].packet.key] =
                            After(call[th].packet, latest[call[th].packet.key])]
           /\ UNCHANGED <<buf, packet_number, tx, to, from, store, rx, packet_received, sent>>
<1> DEFINE p == call[th].packet
           after == After(p, latest[p.key])
           c == IF p.op \in Answered
                THEN [call[th] EXCEPT !.at = "waiting", !.expect = after] ELSE NoCall
<1>1. /\ call[th] # NoCall /\ call[th].at = "numbered"
      /\ latest' = [latest EXCEPT ![p.key] = after]
      /\ call' = [call EXCEPT ![th] = c]
      /\ UNCHANGED <<buf, packet_number, tx, free, to, from, store, rx, packet_received, sent>>
  BY DEF Enqueue, wireVars
<1>2. call[th] \in [at : {"numbered", "waiting"}, packet : Packet, expect : Kept]
  BY <1>1, CallTypes DEF Calls
<1>3. /\ p.op \notin Answered => c = NoCall
      /\ p.op \in Answered => c.at = "waiting" /\ c.expect = after /\ c.packet = p /\ c # NoCall
      /\ NoCall.at = "none"
  BY <1>2 DEF NoCall
<1> HIDE DEF p, after, c
<1>4. call'[th] = c /\ \A u \in Threads : u # th => call'[u] = call[u]
  BY <1>1, CallTypes
<1>5. th \in Numbered /\ Numbered' = Numbered \ {th} /\ Busy' \subseteq Busy
  BY <1>1, <1>3, <1>4 DEF Busy, Numbered
<1>6. th \in Busy' <=> p.op \in Answered
  BY <1>3, <1>4 DEF Busy
<1>7. \A u \in Busy' : call'[u].packet = call[u].packet
  BY <1>3, <1>4, <1>6 DEF Busy, p
<1>8. \A u \in Busy' : (num(u))' = num(u)
  BY <1>7 DEF num
<1> QED  BY <1>1, <1>3, <1>4, <1>5, <1>6, <1>7, <1>8 DEF p, after

LEMMA WaitCalls ==
    ASSUME Shape, NEW th \in Threads, dpdkWaitFor(th)
    PROVE  /\ th \in Busy /\ call[th].at = "waiting" /\ Numbered' = Numbered /\ Busy' = Busy \ {th}
           /\ \A u \in Busy' : call'[u] = call[u] /\ (num(u))' = num(u)
           /\ packet_received[id(num(th))]
           /\ packet_received' = [packet_received EXCEPT ![id(num(th))] = FALSE]
           /\ UNCHANGED <<buf, packet_number, TX_RING_, tx, to, from, store, rx, latest, sent, lost>>
<1>1. /\ call[th] # NoCall /\ call[th].at = "waiting" /\ call' = [call EXCEPT ![th] = NoCall]
      /\ packet_received[id(num(th))]
      /\ packet_received' = [packet_received EXCEPT ![id(num(th))] = FALSE]
      /\ UNCHANGED <<buf, packet_number, TX_RING_, tx, to, from, store, rx, latest, sent, lost>>
  BY DEF dpdkWaitFor, wireVars, num
<1>2. call'[th] = NoCall /\ \A u \in Threads : u # th => call'[u] = call[u]
  BY <1>1, CallTypes
<1>3. th \in Busy /\ Numbered' = Numbered /\ Busy' = Busy \ {th}
  BY <1>1, <1>2 DEF Busy, Numbered, NoCall
<1>4. \A u \in Busy' : call'[u] = call[u] /\ (num(u))' = num(u)
  BY <1>2 DEF Busy, num
<1> QED  BY <1>1, <1>3, <1>4

\* Packets leave the pipe, and nothing else changes.
LEMMA ThinUnique ==
    ASSUME Shape, Unique, UNCHANGED <<call, packet_number>>, NEW f, Thinned(f)
    PROVE  Unique'
<1>1. /\ Numbered' = Numbered /\ Busy' = Busy /\ packet_number' = packet_number
      /\ \A th : (num(th))' = num(th)
  BY DEF Numbered, Busy, num
<1>2. /\ \A i \in 1..Len(Pipe') : f[i] \in 1..Len(Pipe) /\ Pipe'[i] = Pipe[f[i]]
      /\ \A i, j \in 1..Len(Pipe') : i < j => f[i] < f[j]
  BY DEF Thinned
<1>3. \A i \in 1..Len(Pipe') : Pipe'[i].pak_num < packet_number
  BY <1>2 DEF Unique
<1>4. \A i, j \in 1..Len(Pipe') : i < j => Pipe'[i].pak_num # Pipe'[j].pak_num
  BY <1>2 DEF Unique
<1>5. \A th \in Numbered : \A i \in 1..Len(Pipe') : Pipe'[i].pak_num # num(th)
  BY <1>2 DEF Unique
<1>6. /\ \A th \in Busy : num(th) < packet_number
      /\ \A th, u \in Busy : th # u => num(th) # num(u)
  BY DEF Unique
<1> QED  BY <1>1, <1>3, <1>4, <1>5, <1>6 DEF Unique

LEMMA SameUnique ==
    ASSUME Unique, Pipe' = Pipe, UNCHANGED <<call, packet_number>>
    PROVE  Unique'
BY DEF Unique, Numbered, Busy, num

LEMMA BeginUnique ==
    ASSUME Shape, Unique, NEW th \in Threads, NEW k \in Keys, NEW op \in Ops, Begin(th, op, k)
    PROVE  Unique'
<1>1. /\ Busy' = Busy \cup {th} /\ Numbered' = Numbered \cup {th} /\ th \notin Busy
      /\ \A u \in Busy : call'[u] = call[u]
      /\ (num(th))' = packet_number /\ packet_number' = packet_number + 1
      /\ UNCHANGED <<to, tx, TX_RING_>>
  BY BeginCalls
<1>2. Pipe' = Pipe
  BY <1>1, SamePipe
<1>3. \A u \in Busy : (num(u))' = num(u) /\ num(u) < packet_number /\ num(u) \in Nat
  BY <1>1, BusyTypes DEF num, Unique
<1>4. packet_number \in Nat /\ Numbered \subseteq Busy
  BY BusyTypes
<1>5. \A i \in 1..Len(Pipe) : Pipe[i].pak_num < packet_number /\ Pipe[i].pak_num \in Nat
  BY PipeType, TransportAssumption DEF Unique, Packet, Numbers
<1>6. \A u \in Busy' : (num(u))' < packet_number'
  BY <1>1, <1>3, <1>4
<1>7. \A t, u \in Busy' : t # u => (num(t))' # (num(u))'
  <2>1. \A t, u \in Busy : t # u => num(t) # num(u)
    BY DEF Unique
  <2> QED  BY <1>1, <1>3, <1>4, <2>1
<1>8. \A i \in 1..Len(Pipe) : Pipe[i].pak_num < packet_number'
  BY <1>1, <1>4, <1>5
<1>9. \A u \in Numbered' : \A i \in 1..Len(Pipe) : Pipe[i].pak_num # (num(u))'
  <2>1. ASSUME NEW u \in Numbered, NEW i \in 1..Len(Pipe)
        PROVE  Pipe[i].pak_num # (num(u))'
    BY <1>3, <1>4 DEF Unique
  <2>2. ASSUME NEW i \in 1..Len(Pipe)
        PROVE  Pipe[i].pak_num # (num(th))'
    BY <1>1, <1>4, <1>5
  <2> QED  BY <1>1, <2>1, <2>2
<1>10. \A i, j \in 1..Len(Pipe) : i < j => Pipe[i].pak_num # Pipe[j].pak_num
  BY DEF Unique
<1> QED  BY <1>2, <1>6, <1>7, <1>8, <1>9, <1>10 DEF Unique

LEMMA AppendParts ==
    ASSUME Shape, NEW p \in Packet, Pipe' = Append(Pipe, p)
    PROVE  /\ Len(Pipe') = Len(Pipe) + 1 /\ Len(Pipe) \in Nat
           /\ \A i \in 1..Len(Pipe) : i \in 1..Len(Pipe') /\ Pipe'[i] = Pipe[i]
           /\ Len(Pipe') \in 1..Len(Pipe') /\ Pipe'[Len(Pipe')] = p
           /\ \A i \in 1..Len(Pipe') : i \in 1..Len(Pipe) \/ i = Len(Pipe')
<1>1. Pipe \in Seq(Packet) /\ Len(Pipe) \in Nat
  BY PipeType
<1>2. /\ Len(Pipe') = Len(Pipe) + 1
      /\ \A i \in 1..(Len(Pipe) + 1) : Pipe'[i] = IF i = Len(Pipe) + 1 THEN p ELSE Pipe[i]
  BY <1>1, AppendProperties
<1>3. \A i \in 1..Len(Pipe) : i \in 1..Len(Pipe') /\ Pipe'[i] = Pipe[i]
  BY <1>1, <1>2
<1>4. Len(Pipe') \in 1..Len(Pipe') /\ Pipe'[Len(Pipe')] = p
  BY <1>1, <1>2
<1>5. \A i \in 1..Len(Pipe') : i \in 1..Len(Pipe) \/ i = Len(Pipe')
  BY <1>1, <1>2
<1> QED  BY <1>1, <1>2, <1>3, <1>4, <1>5

LEMMA EnqueueUnique ==
    ASSUME Shape, Unique, NEW th \in Threads, Enqueue(th)
    PROVE  Unique'
<1>1. /\ th \in Numbered /\ Numbered' = Numbered \ {th} /\ Busy' \subseteq Busy
      /\ \A u \in Busy' : (num(u))' = num(u)
      /\ packet_number' = packet_number
  BY EnqueueCalls
<1>2. Numbered \subseteq Busy /\ Numbered' \subseteq Busy'
  BY <1>1, BusyTypes DEF Busy, Numbered
<1>3. \A u \in Numbered' : (num(u))' = num(u) /\ u \in Busy /\ u # th
  BY <1>1, <1>2
<1>4. \A u \in Busy' : (num(u))' < packet_number'
  BY <1>1 DEF Unique
<1>5. \A t, u \in Busy' : t # u => (num(t))' # (num(u))'
  BY <1>1 DEF Unique
<1>6. \A u \in Numbered' : \A i \in 1..Len(Pipe) : Pipe[i].pak_num # (num(u))'
  BY <1>1, <1>3 DEF Unique
<1>7. /\ \A i \in 1..Len(Pipe) : Pipe[i].pak_num < packet_number'
      /\ \A i, j \in 1..Len(Pipe) : i < j => Pipe[i].pak_num # Pipe[j].pak_num
  BY <1>1 DEF Unique
<1>8. CASE Pipe' = Pipe
  BY <1>4, <1>5, <1>6, <1>7, <1>8 DEF Unique
<1>9. CASE Pipe' = Append(Pipe, call[th].packet)
  <2> DEFINE p == call[th].packet
  <2>1. p \in Packet /\ p.pak_num = num(th) /\ th \in Busy
    BY <1>1, <1>2, BusyTypes DEF num
  <2>2. /\ p.pak_num < packet_number'
        /\ \A i \in 1..Len(Pipe) : Pipe[i].pak_num # p.pak_num
        /\ \A u \in Numbered' : p.pak_num # (num(u))'
    BY <1>1, <1>3, <2>1 DEF Unique
  <2>3. Pipe' = Append(Pipe, p)
    BY <1>9
  <2> HIDE DEF p
  <2>4. /\ \A i \in 1..Len(Pipe) : Pipe'[i] = Pipe[i]
        /\ Len(Pipe') = Len(Pipe) + 1 /\ Len(Pipe) \in Nat /\ Pipe'[Len(Pipe')] = p
        /\ \A i \in 1..Len(Pipe') : i \in 1..Len(Pipe) \/ i = Len(Pipe')
    BY <2>1, <2>3, AppendParts
  <2>5. \A i \in 1..Len(Pipe') : Pipe'[i].pak_num < packet_number'
    BY <1>7, <2>2, <2>4
  <2>6. ASSUME NEW i \in 1..Len(Pipe'), NEW j \in 1..Len(Pipe'), i < j
        PROVE  Pipe'[i].pak_num # Pipe'[j].pak_num
    <3>1. i \in 1..Len(Pipe)
      BY <2>4, <2>6
    <3> QED  BY <1>7, <2>2, <2>4, <2>6, <3>1
  <2>7. \A u \in Numbered' : \A i \in 1..Len(Pipe') : Pipe'[i].pak_num # (num(u))'
    BY <1>6, <2>2, <2>4
  <2> QED  BY <1>4, <1>5, <2>5, <2>6, <2>7 DEF Unique
<1> QED  BY <1>8, <1>9, EnqueuePipe

LEMMA WaitUnique ==
    ASSUME Shape, Unique, NEW th \in Threads, dpdkWaitFor(th)
    PROVE  Unique'
<1>1. /\ Numbered' = Numbered /\ Busy' = Busy \ {th} /\ \A u \in Busy' : (num(u))' = num(u)
      /\ UNCHANGED <<packet_number, TX_RING_, tx, to>>
  BY WaitCalls
<1>2. Pipe' = Pipe /\ Numbered' \subseteq Busy'
  BY <1>1, SamePipe DEF Numbered, Busy
<1>3. /\ \A u \in Busy' : (num(u))' < packet_number'
      /\ \A t, u \in Busy' : t # u => (num(t))' # (num(u))'
  BY <1>1 DEF Unique
<1>4. \A u \in Numbered' : \A i \in 1..Len(Pipe') : Pipe'[i].pak_num # (num(u))'
  BY <1>1, <1>2 DEF Unique
<1> QED  BY <1>1, <1>2, <1>3, <1>4 DEF Unique

\* The requests of a burst, and those in the ring, all have different numbers.
LEMMA PartNumbers ==
    ASSUME Shape, Unique
    PROVE  /\ \A i \in 1..Len(Rest) : Rest[i].pak_num \in Numbers
           /\ \A i \in 1..Len(TX_RING_) : TX_RING_[i].pak_num \in Numbers
           /\ \A i, j \in 1..Len(Rest) : i # j => Rest[i].pak_num # Rest[j].pak_num
           /\ \A i \in 1..Len(Rest) : \A j \in 1..Len(TX_RING_) :
                  Rest[i].pak_num # TX_RING_[j].pak_num
           /\ \A i \in 1..Len(Rest) : \A th \in Numbered : Rest[i].pak_num # num(th)
           /\ \A i \in 1..Len(Rest) : Rest[i].pak_num < packet_number
<1>1. /\ Len(to) \in Nat /\ Len(Rest) \in Nat /\ Len(TX_RING_) \in Nat
      /\ \A i \in 1..Len(Pipe) : Pipe[i] \in Packet
  BY PipeType
<1>2. \A i \in 1..Len(Rest) : Len(to) + i \in 1..Len(Pipe) /\ Pipe[Len(to) + i] = Rest[i]
  BY PipeParts
<1>3. \A i \in 1..Len(TX_RING_) : /\ Len(to) + Len(Rest) + i \in 1..Len(Pipe)
                                  /\ Pipe[Len(to) + Len(Rest) + i] = TX_RING_[i]
  BY PipeParts
<1>4. /\ \A i, j \in 1..Len(Pipe) : i < j => Pipe[i].pak_num # Pipe[j].pak_num
      /\ \A i \in 1..Len(Pipe) : Pipe[i].pak_num \in Numbers /\ Pipe[i].pak_num < packet_number
  BY <1>1 DEF Unique, Packet
<1>5. ASSUME NEW i \in 1..Len(Rest), NEW j \in 1..Len(Rest), i # j
      PROVE  Rest[i].pak_num # Rest[j].pak_num
  <2>1. PICK a \in 1..Len(Pipe) : a = Len(to) + i /\ Pipe[a] = Rest[i]
    BY <1>2
  <2>2. PICK b \in 1..Len(Pipe) : b = Len(to) + j /\ Pipe[b] = Rest[j]
    BY <1>2
  <2>3. a < b \/ b < a
    BY <1>1, <1>5, <2>1, <2>2
  <2>4. Pipe[a].pak_num # Pipe[b].pak_num
    BY <1>4, <2>3
  <2> QED  BY <2>1, <2>2, <2>4
<1>6. ASSUME NEW i \in 1..Len(Rest), NEW j \in 1..Len(TX_RING_)
      PROVE  Rest[i].pak_num # TX_RING_[j].pak_num
  <2>1. PICK a \in 1..Len(Pipe) : a = Len(to) + i /\ Pipe[a] = Rest[i]
    BY <1>2
  <2>2. PICK b \in 1..Len(Pipe) : b = Len(to) + Len(Rest) + j /\ Pipe[b] = TX_RING_[j]
    BY <1>3
  <2>3. a < b
    BY <1>1, <2>1, <2>2
  <2>4. Pipe[a].pak_num # Pipe[b].pak_num
    BY <1>4, <2>3
  <2> QED  BY <2>1, <2>2, <2>4
<1>7. \A i \in 1..Len(Rest) : \A th \in Numbered : Rest[i].pak_num # num(th)
  BY <1>2 DEF Unique
<1> QED  BY <1>2, <1>3, <1>4, <1>5, <1>6, <1>7

\* How many of the packets of a burst have a number.
OfNumber(s, n) == {i \in 1..Len(s) : s[i].pak_num = n}

LEMMA CountOne ==
    ASSUME NEW s, NEW n, \A i, j \in 1..Len(s) : i # j => s[i].pak_num # s[j].pak_num
    PROVE  /\ \A i \in 1..Len(s) : s[i].pak_num = n => Cardinality(OfNumber(s, n)) = 1
           /\ (\A i \in 1..Len(s) : s[i].pak_num # n) => Cardinality(OfNumber(s, n)) = 0
<1>1. ASSUME NEW i \in 1..Len(s), s[i].pak_num = n
      PROVE  Cardinality(OfNumber(s, n)) = 1
  <2>1. OfNumber(s, n) = {i}
    BY <1>1 DEF OfNumber
  <2> QED  BY <2>1, FS_Singleton
<1>2. ASSUME \A i \in 1..Len(s) : s[i].pak_num # n
      PROVE  Cardinality(OfNumber(s, n)) = 0
  <2>1. OfNumber(s, n) = {}
    BY <1>2 DEF OfNumber
  <2> QED  BY <2>1, FS_EmptySet
<1> QED  BY <1>1, <1>2

LEMMA BeginSent ==
    ASSUME Once, NEW th \in Threads, NEW k \in Keys, NEW op \in Ops, Begin(th, op, k)
    PROVE  SentSound'
<1>1. Shape /\ SentSound
  BY DEF Once
<1>2. /\ Busy' = Busy \cup {th} /\ Numbered' = Numbered \cup {th} /\ th \notin Busy
      /\ \A u \in Busy : call'[u] = call[u]
      /\ (num(th))' = packet_number /\ packet_number' = packet_number + 1
      /\ packet_number \in Numbers
      /\ UNCHANGED <<to, tx, TX_RING_, sent>>
  BY <1>1, BeginCalls
<1>3. Rest' = Rest /\ packet_number \in Nat /\ Numbered \subseteq Busy
  BY <1>1, <1>2, BusyTypes DEF Rest
<1>4. sent[packet_number] = 0
  BY <1>1, <1>2, <1>3 DEF SentSound
<1>5. \A u \in Numbered' : sent[(num(u))'] = 0
  BY <1>1, <1>2, <1>3, <1>4 DEF SentSound, num
<1>6. \A n \in Numbers : sent[n] <= 1 /\ (n >= packet_number' => sent[n] = 0)
  BY <1>1, <1>2, <1>3, TransportAssumption DEF SentSound, Numbers
<1> QED  BY <1>1, <1>2, <1>3, <1>5, <1>6 DEF SentSound

LEMMA EnqueueSent ==
    ASSUME Once, NEW th \in Threads, Enqueue(th)
    PROVE  SentSound'
<1>1. Shape /\ SentSound
  BY DEF Once
<1>2. /\ th \in Numbered /\ Numbered' = Numbered \ {th} /\ Busy' \subseteq Busy
      /\ \A u \in Busy' : (num(u))' = num(u)
      /\ UNCHANGED <<packet_number, tx, to, sent>>
  BY <1>1, EnqueueCalls
<1>3. Rest' = Rest /\ Numbered' \subseteq Busy' /\ th \in Busy
  BY <1>1, <1>2, BusyTypes DEF Rest, Numbered, Busy
<1>4. \A u \in Numbered' : sent[(num(u))'] = 0
  BY <1>1, <1>2, <1>3 DEF SentSound
<1> DEFINE p == call[th].packet
<1>5. \/ TX_RING_' = Append(TX_RING_, p)
      \/ TX_RING_' = TX_RING_
  BY DEF Enqueue
<1>6. sent[p.pak_num] = 0 /\ p \in Packet
  BY <1>1, <1>2, <1>3, BusyTypes DEF SentSound, num
<1> HIDE DEF p
<1>7. \A i \in 1..Len(TX_RING_') : sent[TX_RING_'[i].pak_num] = 0
  <2>1. CASE TX_RING_' = Append(TX_RING_, p)
    <3>1. /\ Len(TX_RING_') = Len(TX_RING_) + 1 /\ Len(TX_RING_) \in Nat
          /\ \A i \in 1..(Len(TX_RING_) + 1) :
                 TX_RING_'[i] = IF i = Len(TX_RING_) + 1 THEN p ELSE TX_RING_[i]
      BY <1>1, <1>6, <2>1, TxTypes, AppendProperties
    <3>2. \A i \in 1..(Len(TX_RING_) + 1) : i = Len(TX_RING_) + 1 \/ i \in 1..Len(TX_RING_)
      BY <3>1
    <3>3. \A i \in 1..Len(TX_RING_) : sent[TX_RING_[i].pak_num] = 0
      BY <1>1 DEF SentSound
    <3> QED  BY <1>6, <3>1, <3>2, <3>3
  <2>2. CASE TX_RING_' = TX_RING_
    BY <1>1, <2>2 DEF SentSound
  <2> QED  BY <1>5, <2>1, <2>2
<1> QED  BY <1>1, <1>2, <1>3, <1>4, <1>7 DEF SentSound

LEMMA FetchSent ==
    ASSUME Once, dpdk_lcore_tx
    PROVE  SentSound'
<1>1. Shape /\ SentSound /\ tx = NoBurst
  BY DEF Once, dpdk_lcore_tx
<1>2. PICK n :
        /\ n = IF Len(TX_RING_) < BURST_SIZE_TX THEN Len(TX_RING_) ELSE BURST_SIZE_TX
        /\ tx' = [bufs |-> SubSeq(TX_RING_, 1, n), pkts |-> 0, cnt |-> n,
                  retry |-> SEND_BURST_RETRY]
        /\ TX_RING_' = SubSeq(TX_RING_, n + 1, Len(TX_RING_))
  BY DEF dpdk_lcore_tx
<1>3. UNCHANGED <<call, packet_number, sent, to>> /\ tx'.pkts = 0
  BY <1>2 DEF dpdk_lcore_tx, callVars, wireVars
<1>4. /\ Len(TX_RING_) \in Nat /\ BURST_SIZE_TX \in Nat
      /\ \A i \in 1..Len(TX_RING_) : TX_RING_[i] \in Packet
  BY <1>1, TxTypes, ElementOfSeq, TransportAssumption
<1>5. n \in Nat /\ n <= Len(TX_RING_)
  BY <1>2, <1>4
<1>6. \A i \in 1..Len(TX_RING_) : sent[TX_RING_[i].pak_num] = 0
  BY <1>1 DEF SentSound
<1> DEFINE b == SubSeq(TX_RING_, 1, n)
           c == SubSeq(TX_RING_, n + 1, Len(TX_RING_))
<1>7. b \in Seq(Packet) /\ Len(b) = n /\ \A i \in 1..n : b[i] = TX_RING_[i]
  BY <1>4, <1>5, SubSeqProperties
<1>8. \A i \in 1..Len(Rest') : sent[Rest'[i].pak_num] = 0
  <2>1. tx'.bufs = b /\ Rest' = SubSeq(tx'.bufs, tx'.pkts + 1, Len(tx'.bufs))
    BY <1>2 DEF Rest
  <2> HIDE DEF b
  <2>2. Rest' = SubSeq(b, 1, Len(b))
    BY <1>3, <2>1
  <2>3. Rest' = b
    BY <1>7, <2>2, WholeSeq
  <2>4. \A i \in 1..n : i \in 1..Len(TX_RING_)
    BY <1>4, <1>5
  <2> QED  BY <1>6, <1>7, <2>3, <2>4
<1>9. \A i \in 1..Len(TX_RING_') : sent[TX_RING_'[i].pak_num] = 0
  <2>1. n + 1 \in Int /\ Len(TX_RING_) \in Int /\ \A i \in (n + 1)..Len(TX_RING_) : TX_RING_[i] \in Packet
    BY <1>4, <1>5
  <2>2. /\ Len(c) = IF n + 1 <= Len(TX_RING_) THEN Len(TX_RING_) - (n + 1) + 1 ELSE 0
        /\ \A i \in 1..(Len(TX_RING_) - (n + 1) + 1) : c[i] = TX_RING_[n + 1 + i - 1]
    BY <2>1, SubSeqProperties
  <2>3. c = TX_RING_'
    BY <1>2
  <2> HIDE DEF c
  <2>4. ASSUME NEW i \in 1..Len(c)
        PROVE  sent[c[i].pak_num] = 0
    <3>1. i \in 1..(Len(TX_RING_) - (n + 1) + 1) /\ n + 1 + i - 1 \in 1..Len(TX_RING_)
      BY <1>4, <1>5, <2>2
    <3> QED  BY <1>6, <2>2, <3>1
  <2> QED  BY <2>3, <2>4
<1>10. (\A th \in Numbered : sent[num(th)] = 0)'
  BY <1>1, <1>3 DEF SentSound, Numbered, num
<1>11. \A i \in 1..tx'.pkts : sent[tx'.bufs[i].pak_num] = 1
  BY <1>3
<1> QED  BY <1>1, <1>3, <1>8, <1>9, <1>10, <1>11 DEF SentSound

LEMMA SendSent ==
    ASSUME Once, NoSplit, send_burst_fast
    PROVE  SentSound'
<1>1. Shape /\ Whole /\ Unique /\ SentSound
  BY DEF Once
<1>2. UNCHANGED <<call, packet_number, TX_RING_>>
  BY DEF send_burst_fast, callVars
<1>3. Numbered' = Numbered /\ \A th : (num(th))' = num(th)
  BY <1>2 DEF Numbered, num
<1>4. CASE UNCHANGED <<to, sent>> /\ tx'.bufs = tx.bufs /\ tx'.pkts = tx.pkts
  <2>1. Rest' = Rest
    BY <1>4 DEF Rest
  <2> QED  BY <1>1, <1>2, <1>3, <1>4, <2>1 DEF SentSound
<1>5. CASE /\ tx.pkts = 0 /\ tx'.bufs = tx.bufs /\ tx'.pkts = Len(tx.bufs) /\ Rest = tx.bufs
           /\ sent' = [n \in Numbers |-> sent[n]
                         + Cardinality({i \in 1..Len(tx.bufs) : tx.bufs[i].pak_num = n})]
  <2> DEFINE count(n) == Cardinality(OfNumber(Rest, n))
  <2>1. sent' = [n \in Numbers |-> sent[n] + count(n)]
    BY <1>5 DEF OfNumber
  <2>2. \A i, j \in 1..Len(Rest) : i # j => Rest[i].pak_num # Rest[j].pak_num
    BY <1>1, PartNumbers
  <2>3. \A n : /\ (\E i \in 1..Len(Rest) : Rest[i].pak_num = n) => count(n) = 1
               /\ (\A i \in 1..Len(Rest) : Rest[i].pak_num # n) => count(n) = 0
    BY <2>2, CountOne
  <2> HIDE DEF count
  <2>4. \A n \in Numbers : sent'[n] = sent[n] + count(n) /\ sent[n] \in Nat
    BY <1>1, <2>1, WireTypes
  <2>5. \A i \in 1..Len(Rest) : /\ Rest[i].pak_num \in Numbers /\ sent[Rest[i].pak_num] = 0
                                 /\ Rest[i].pak_num < packet_number
    BY <1>1, PartNumbers DEF SentSound
  <2>6. \A n \in Numbers : (\A i \in 1..Len(Rest) : Rest[i].pak_num # n) => sent'[n] = sent[n]
    BY <2>3, <2>4
  <2>7. \A i \in 1..Len(Rest) : sent'[Rest[i].pak_num] = 1
    BY <2>3, <2>4, <2>5
  <2>8. \A n \in Numbers : sent'[n] <= 1 /\ (n >= packet_number => sent'[n] = 0)
    <3>1. ASSUME NEW n \in Numbers, \A i \in 1..Len(Rest) : Rest[i].pak_num # n
          PROVE  sent'[n] <= 1 /\ (n >= packet_number => sent'[n] = 0)
      BY <1>1, <2>6, <3>1 DEF SentSound
    <3>2. ASSUME NEW i \in 1..Len(Rest)
          PROVE  /\ sent'[Rest[i].pak_num] <= 1
                 /\ Rest[i].pak_num >= packet_number => sent'[Rest[i].pak_num] = 0
      <4>1. Rest[i].pak_num \in Nat /\ packet_number \in Nat
        BY <1>1, <2>5, BusyTypes, TransportAssumption DEF Numbers
      <4> QED  BY <2>5, <2>7, <4>1
    <3> QED  BY <3>1, <3>2
  <2>9. \A th \in Numbered : sent'[num(th)] = 0
    <3>1. \A th \in Numbered : /\ num(th) \in Numbers /\ sent[num(th)] = 0
                               /\ \A i \in 1..Len(Rest) : Rest[i].pak_num # num(th)
      BY <1>1, PartNumbers, BusyTypes DEF SentSound
    <3> QED  BY <2>6, <3>1
  <2>10. \A i \in 1..Len(TX_RING_) : sent'[TX_RING_[i].pak_num] = 0
    <3>1. \A j \in 1..Len(TX_RING_) :
              /\ TX_RING_[j].pak_num \in Numbers /\ sent[TX_RING_[j].pak_num] = 0
              /\ \A i \in 1..Len(Rest) : Rest[i].pak_num # TX_RING_[j].pak_num
      BY <1>1, PartNumbers DEF SentSound
    <3> QED  BY <2>6, <3>1
  <2>11. Rest' = <<>>
    <3>1. Rest' = SubSeq(tx.bufs, Len(tx.bufs) + 1, Len(tx.bufs)) /\ tx.bufs \in Seq(Packet)
      BY <1>1, <1>5, TxTypes DEF Rest
    <3> QED  BY <3>1, WholeSeq
  <2>12. \A i \in 1..Len(Rest') : sent'[Rest'[i].pak_num] = 0
    BY <2>11, EmptySeq
  <2>13. \A i \in 1..tx'.pkts : sent'[tx'.bufs[i].pak_num] = 1
    BY <1>5, <2>7
  <2> QED  BY <1>2, <1>3, <2>8, <2>9, <2>10, <2>12, <2>13 DEF SentSound
<1> QED  BY <1>1, <1>4, <1>5, SendPipe DEF NoSplit

\* The other steps send nothing, and put nothing into the bursts or the ring.
LEMMA QuietSent ==
    ASSUME Shape, SentSound, Rest' = Rest \/ Rest' = <<>>, tx' = tx \/ tx' = NoBurst,
           Numbered' \subseteq Numbered, \A th \in Numbered' : (num(th))' = num(th),
           UNCHANGED <<packet_number, TX_RING_, sent>>
    PROVE  SentSound'
<1>1. \A i \in 1..Len(Rest') : sent[Rest'[i].pak_num] = 0
  BY EmptySeq DEF SentSound
<1>2. \A i \in 1..tx'.pkts : sent[tx'.bufs[i].pak_num] = 1
  BY DEF SentSound, NoBurst
<1> QED  BY <1>1, <1>2 DEF SentSound

LEMMA OnceNext == Once /\ NoSplit /\ [Next]_vars => Once'
<1> SUFFICES ASSUME Once, NoSplit, [Next]_vars
             PROVE  Once'
  OBVIOUS
<1>1. Shape /\ Whole /\ Unique /\ SentSound /\ Shape'
  BY ShapeNext DEF Once
<1>2. ASSUME NEW th \in Threads, NEW k \in Keys, NEW op \in Ops, Begin(th, op, k)
      PROVE  Once'
  <2>1. UNCHANGED <<to, tx, TX_RING_>>
    BY <1>1, <1>2, BeginCalls
  <2> QED  BY <1>1, <1>2, <2>1, BeginUnique, BeginSent, SamePipe DEF Once
<1>3. ASSUME NEW th \in Threads, Enqueue(th)
      PROVE  Once'
  <2>1. UNCHANGED tx
    BY <1>1, <1>3, EnqueueCalls
  <2> QED  BY <1>1, <1>3, <2>1, EnqueueUnique, EnqueueSent DEF Once, Whole
<1>4. ASSUME NEW th \in Threads, dpdkWaitFor(th)
      PROVE  Once'
  <2>1. /\ Numbered' = Numbered /\ Busy' = Busy \ {th} /\ \A u \in Busy' : (num(u))' = num(u)
        /\ UNCHANGED <<packet_number, TX_RING_, tx, to, sent>>
    BY <1>1, <1>4, WaitCalls
  <2>2. Numbered' \subseteq Busy' /\ Rest' = Rest /\ Whole'
    BY <1>1, <2>1, SamePipe DEF Numbered, Busy
  <2>3. SentSound'
    BY <1>1, <2>1, <2>2, QuietSent
  <2> QED  BY <1>1, <1>4, <2>2, <2>3, WaitUnique DEF Once
<1>5. CASE dpdk_lcore_tx
  <2>1. UNCHANGED <<call, packet_number>>
    BY <1>5 DEF dpdk_lcore_tx, callVars
  <2> QED  BY <1>1, <1>5, <2>1, FetchPipe, FetchSent, SameUnique DEF Once
<1>6. CASE send_burst_fast
  <2>1. UNCHANGED <<call, packet_number>>
    BY <1>6 DEF send_burst_fast, callVars
  <2>2. Pipe' = Pipe /\ Whole'
    BY <1>1, <1>6, SendPipe DEF NoSplit
  <2> QED  BY <1>1, <1>6, <2>1, <2>2, SendSent, SameUnique DEF Once
<1>7. CASE send_burst_fast_End
  <2>1. UNCHANGED <<call, packet_number, TX_RING_, sent>> /\ tx' = NoBurst
    BY <1>7 DEF send_burst_fast_End, callVars
  <2>2. Whole' /\ \E f : Thinned(f)
    BY <1>1, <1>7, EndPipe
  <2>3. Unique'
    BY <1>1, <2>1, <2>2, ThinUnique
  <2>4. Rest' = <<>>
    BY <2>1, EmptySeq, SubSeqEmpty DEF Rest, NoBurst
  <2>5. SentSound'
    BY <1>1, <2>1, <2>4, QuietSent DEF Numbered, num
  <2> QED  BY <1>1, <2>2, <2>3, <2>5 DEF Once
<1>8. ASSUME NEW i \in 1..Len(to), to' = RemoveAt(to, i),
             UNCHANGED <<call, packet_number, tx, TX_RING_, sent>>
      PROVE  Once'
  <2>1. Whole' /\ \E f : Thinned(f)
    BY <1>1, <1>8, CutPipe
  <2>2. Unique'
    BY <1>1, <1>8, <2>1, ThinUnique
  <2>3. SentSound'
    BY <1>1, <1>8, QuietSent DEF Rest, Numbered, num
  <2> QED  BY <1>1, <2>1, <2>2, <2>3 DEF Once
<1>9. ASSUME UNCHANGED <<call, packet_number, tx, to, TX_RING_, sent>>
      PROVE  Once'
  <2>1. Whole' /\ Unique' /\ Rest' = Rest
    BY <1>1, <1>9, SamePipe, SameUnique
  <2>2. SentSound'
    BY <1>1, <1>9, <2>1, QuietSent DEF Numbered, num
  <2> QED  BY <1>1, <2>1, <2>2 DEF Once
<1>10. ASSUME NEW s \in Slaves, Serve(s) \/ LoseRequest(s)
       PROVE  Once'
  <2>1. PICK i \in 1..Len(to) : to' = RemoveAt(to, i)
    BY <1>1, <1>10, LenProperties, WireTypes DEF Serve, LoseRequest
  <2>2. UNCHANGED <<call, packet_number, tx, TX_RING_, sent>>
    BY <1>10 DEF Serve, LoseRequest, callVars
  <2> QED  BY <1>8, <2>1, <2>2
<1>11. CASE LoseReply \/ dpdk_recv_worker \/ dpdk_recv_worker_flag \/ UNCHANGED vars
  BY <1>9, <1>11 DEF LoseReply, dpdk_recv_worker, dpdk_recv_worker_flag, vars, callVars, wireVars
<1> QED  BY <1>2, <1>3, <1>4, <1>5, <1>6, <1>7, <1>10, <1>11, CallBegins DEF Next

LEMMA OnceInit == Init => Once
<1> SUFFICES ASSUME Init
             PROVE  Once
  OBVIOUS
<1>1. /\ Busy = {} /\ Numbered = {} /\ tx = NoBurst /\ TX_RING_ = <<>> /\ to = <<>>
      /\ sent = [n \in Numbers |-> 0]
  BY DEF Init, Busy, Numbered
<1>2. Rest = <<>>
  BY <1>1, EmptySeq, SubSeqEmpty DEF Rest, NoBurst
<1>3. Len(Pipe) = 0
  BY <1>1, <1>2, EmptySeq, ConcatEmptySeq DEF Pipe
<1>4. Whole /\ Unique
  BY <1>1, <1>3 DEF Whole, Unique, NoBurst
<1>5. SentSound
  BY <1>1, <1>2, EmptySeq DEF SentSound, NoBurst
<1> QED  BY <1>4, <1>5, ShapeInit DEF Once

LEMMA OnceAlways ==
    ASSUME "some" \notin NicTakes
    PROVE  Spec => []Once
<1>1. Once /\ [Next]_vars => Once'
  BY OnceNext DEF NoSplit
<1> QED  BY <1>1, OnceInit, PTL DEF Spec

\* When the NIC takes a burst or refuses it, each request is sent once at most,
\* and of a burst those not sent are the ones freed at its end.
THEOREM EachSentOnce ==
    ASSUME "some" \notin NicTakes
    PROVE  Spec => []SentOrFreedOnce
<1>1. Once => SentOrFreedOnce
  <2> SUFFICES ASSUME Once
               PROVE  SentOrFreedOnce
    OBVIOUS
  <2>1. Shape /\ Whole /\ SentSound
    BY DEF Once
  <2>2. tx.pkts \in {0, Len(tx.bufs)} /\ Len(tx.bufs) \in Nat
    BY <2>1, TxTypes DEF Whole
  <2>3. ASSUME NEW i \in 1..Len(tx.bufs)
        PROVE  i > tx.pkts <=> sent[tx.bufs[i].pak_num] = 0
    <3>1. CASE tx.pkts = 0
      <4>1. Len(Rest) = Len(tx.bufs) /\ Rest[i] = tx.bufs[0 + i]
        BY <2>1, <2>2, <3>1, PipeType, PipeParts
      <4> QED  BY <2>1, <2>2, <3>1, <4>1 DEF SentSound
    <3>2. CASE tx.pkts = Len(tx.bufs)
      BY <2>1, <2>2, <3>2 DEF SentSound
    <3> QED  BY <2>2, <3>1, <3>2
  <2> QED  BY <2>1, <2>3 DEF SentOrFreedOnce, SentSound
<1> QED  BY <1>1, OnceAlways, PTL

-----------------------------------------------------------------------------
(* Whose reply it is                                                       *)

Waiting == {th \in Busy : call[th].at = "waiting"}
Answers == {from[i] : i \in 1..Len(from)} \cup ({rx} \ {NoReply})
Flagged(th) == packet_received[id(num(th))]

\* Of the calls that get an answer, the numbers are less than a window apart.
Own ==
    /\ \A th \in Busy : call[th].packet.thread = th
    /\ \A th \in Waiting : call[th].packet.op \in Answered
    /\ \A th \in Busy : call[th].packet.op \in Answered =>
                            packet_number - num(th) <= TRANSPORT_WINDOW_SIZE

\* Whoever asks waits.
Asked ==
    \A i \in 1..Len(Pipe) : Pipe[i].op \in Answered =>
        Pipe[i].thread \in Waiting /\ call[Pipe[i].thread].packet = Pipe[i]

\* A reply is to the request that its thread waits for, and there is no other;
\* the one the rx thread is at has been copied.
Awaited ==
    /\ \A r \in Answers : /\ r.thread \in Waiting /\ num(r.thread) = r.pak_num
                          /\ ~ Flagged(r.thread)
                          /\ \A i \in 1..Len(Pipe) : Pipe[i].pak_num # r.pak_num
    /\ \A i, j \in 1..Len(from) : i < j => from[i].pak_num # from[j].pak_num
    /\ rx # NoReply => /\ buf[rx.thread] = [pak_num |-> rx.pak_num, value |-> rx.value]
                       /\ \A i \in 1..Len(from) : from[i].pak_num # rx.pak_num

\* A flag is set for a thread that waits, whose request was answered.
FlagSound ==
    /\ \A th \in Waiting : Flagged(th) =>
           /\ buf[th].pak_num = num(th)
           /\ \A i \in 1..Len(Pipe) : Pipe[i].pak_num # num(th)
    /\ \A k \in 0..(TRANSPORT_WINDOW_SIZE - 1) : packet_received[k] =>
           \E th \in Waiting : id(num(th)) = k

\* Nobody waits for nothing, unless something was lost.
Way ==
    \A th \in Waiting : num(th) \notin lost =>
        \/ \E i \in 1..Len(Pipe) : Pipe[i] = call[th].packet
        \/ \E r \in Answers : r.pak_num = num(th)
        \/ Flagged(th)

Match == Once /\ Own /\ Asked /\ Awaited /\ FlagSound /\ Way

LEMMA DivMod ==
    ASSUME NEW a \in Nat, NEW w \in Nat \ {0}
    PROVE  a = w * (a \div w) + (a % w) /\ a % w \in 0..(w - 1) /\ a \div w \in Int
OBVIOUS

LEMMA NextMultiple ==
    ASSUME NEW w \in Nat \ {0}, NEW p \in Int, NEW q \in Int, NEW r \in Int, p < q
    PROVE  w * p + r + w <= w * q + r
<1>1. p + 1 <= q
  OBVIOUS
<1>2. w * (q - (p + 1)) >= 0
  BY <1>1
<1>3. w * (q - (p + 1)) = w * q - w * p - w
  OBVIOUS
<1>4. w * q \in Int /\ w * p \in Int
  OBVIOUS
<1> QED  BY <1>2, <1>3, <1>4

\* Numbers in a window differ modulo its size.
LEMMA WindowApart ==
    ASSUME NEW w \in Nat \ {0}, NEW a \in Nat, NEW b \in Nat, NEW n \in Nat, a < n, b < n,
           n - a <= w, n - b <= w, a % w = b % w
    PROVE  a = b
<1> DEFINE p == a \div w
           q == b \div w
           r == a % w
<1>1. p \in Int /\ q \in Int /\ r \in Int /\ a = w * p + r /\ b = w * q + r
  BY DivMod
<1> HIDE DEF p, q, r
<1>2. p < q => a + w <= b
  BY <1>1, NextMultiple
<1>3. q < p => b + w <= a
  BY <1>1, NextMultiple
<1>4. p = q => a = b
  BY <1>1
<1> QED  BY <1>1, <1>2, <1>3, <1>4

LEMMA SameId ==
    ASSUME Shape, Unique, Own, NEW th \in Busy, NEW u \in Busy,
           call[th].packet.op \in Answered, call[u].packet.op \in Answered,
           id(num(th)) = id(num(u))
    PROVE  th = u
<1>1. /\ num(th) \in Nat /\ num(u) \in Nat /\ packet_number \in Nat
      /\ num(th) < packet_number /\ num(u) < packet_number
      /\ packet_number - num(th) <= TRANSPORT_WINDOW_SIZE
      /\ packet_number - num(u) <= TRANSPORT_WINDOW_SIZE
  BY BusyTypes DEF Unique, Own
<1>2. num(th) % TRANSPORT_WINDOW_SIZE = num(u) % TRANSPORT_WINDOW_SIZE
  BY DEF id
<1> DEFINE a == num(th)
           b == num(u)
           w == TRANSPORT_WINDOW_SIZE
<1>3. /\ a \in Nat /\ b \in Nat /\ packet_number \in Nat /\ w \in Nat \ {0}
      /\ a < packet_number /\ b < packet_number
      /\ packet_number - a <= w /\ packet_number - b <= w /\ a % w = b % w
  BY <1>1, <1>2, TransportAssumption
<1> HIDE DEF a, b, w
<1>4. a = b
  BY <1>3, WindowApart
<1> QED  BY <1>4 DEF a, b, Unique

LEMMA WaitTypes ==
    ASSUME Shape
    PROVE  /\ Waiting \subseteq Busy /\ Busy \subseteq Threads /\ Numbered \cap Waiting = {}
           /\ Busy = Numbered \cup Waiting
           /\ \A th \in Busy : /\ id(num(th)) \in 0..(TRANSPORT_WINDOW_SIZE - 1)
                               /\ Flagged(th) \in BOOLEAN
           /\ Answers \subseteq Reply
           /\ Len(from) \in Nat
<1>1. Waiting \subseteq Busy /\ Numbered \cap Waiting = {} /\ Busy = Numbered \cup Waiting
  BY BusyTypes DEF Waiting, Numbered, Busy
<1>2. \A th \in Busy : id(num(th)) \in 0..(TRANSPORT_WINDOW_SIZE - 1)
  <2>1. ASSUME NEW th \in Busy
        PROVE  id(num(th)) \in 0..(TRANSPORT_WINDOW_SIZE - 1)
    <3>1. num(th) \in Nat /\ TRANSPORT_WINDOW_SIZE \in Nat \ {0}
      BY BusyTypes, TransportAssumption
    <3>2. \A n \in Nat, w \in Nat \ {0} : n % w \in 0..(w - 1)
      BY DivMod
    <3> QED  BY <3>1, <3>2 DEF id
  <2> QED  BY <2>1
<1>3. \A th \in Busy : Flagged(th) \in BOOLEAN
  BY <1>2, CallTypes DEF Flagged
<1>4. Answers \subseteq Reply /\ Len(from) \in Nat
  BY WireTypes, ElementOfSeq, LenProperties DEF Answers
<1> QED  BY <1>1, <1>2, <1>3, <1>4, BusyTypes

\* The invariant without its first part.
Rests == Own /\ Asked /\ Awaited /\ FlagSound /\ Way

LEMMA BeginMatch ==
    ASSUME Match, BigEnough, NEW th \in Threads, NEW k \in Keys, NEW op \in Ops, Begin(th, op, k)
    PROVE  Rests'
<1>1. Shape /\ Unique /\ Rests
  BY DEF Match, Once, Rests
<1>2. /\ Busy' = Busy \cup {th} /\ Numbered' = Numbered \cup {th} /\ th \notin Busy
      /\ \A u \in Busy : call'[u] = call[u]
      /\ call'[th].packet = [op |-> op, key |-> k, thread |-> th, pak_num |-> packet_number]
      /\ call'[th].at = "numbered" /\ (num(th))' = packet_number
      /\ packet_number' = packet_number + 1
      /\ UNCHANGED <<buf, TX_RING_, tx, to, from, rx, packet_received, lost>>
  BY <1>1, BeginCalls
<1>3. /\ Waiting' = Waiting /\ Answers' = Answers /\ Pipe' = Pipe
      /\ \A u \in Busy : (num(u))' = num(u) /\ Flagged(u)' = Flagged(u)
  BY <1>2, SamePipe DEF Waiting, Answers, Flagged, num
<1>4. Waiting \subseteq Busy /\ packet_number \in Nat /\ \A u \in Busy : num(u) \in Nat
  BY <1>1, WaitTypes, BusyTypes
<1>5. \A u \in Busy' : call'[u].packet.op \in Answered =>
                          packet_number' - (num(u))' <= TRANSPORT_WINDOW_SIZE
  <2>1. ASSUME NEW u \in Busy, call'[u].packet.op \in Answered
        PROVE  packet_number' - (num(u))' <= TRANSPORT_WINDOW_SIZE
    <3>1. InWindow /\ call[u] # NoCall /\ u \in Threads
      BY DEF Begin, Busy
    <3>2. packet_number - num(u) < TRANSPORT_WINDOW_SIZE
      BY <1>2, <2>1, <3>1 DEF InWindow, num
    <3> QED  BY <1>2, <1>3, <1>4, <3>2, TransportAssumption
  <2>2. packet_number' - (num(th))' <= TRANSPORT_WINDOW_SIZE
    BY <1>2, <1>4, TransportAssumption
  <2> QED  BY <1>2, <2>1, <2>2
<1>6. Own'
  <2>1. \A u \in Busy' : call'[u].packet.thread = u
    BY <1>1, <1>2 DEF Rests, Own
  <2>2. \A u \in Waiting' : call'[u].packet.op \in Answered
    BY <1>1, <1>2, <1>3, <1>4 DEF Rests, Own
  <2> QED  BY <1>5, <2>1, <2>2 DEF Own
<1>7. Asked'
  BY <1>1, <1>2, <1>3, <1>4 DEF Rests, Asked
<1>8. Awaited'
  <2>1. \A r \in Answers : /\ r.thread \in Waiting' /\ (num(r.thread))' = r.pak_num
                           /\ ~ (Flagged(r.thread))'
                           /\ \A i \in 1..Len(Pipe') : Pipe'[i].pak_num # r.pak_num
    BY <1>1, <1>3, <1>4 DEF Rests, Awaited
  <2> QED  BY <1>1, <1>2, <1>3, <2>1 DEF Rests, Awaited
<1>9. FlagSound'
  <2>1. \A u \in Waiting' : (Flagged(u))' =>
           /\ buf'[u].pak_num = (num(u))'
           /\ \A i \in 1..Len(Pipe') : Pipe'[i].pak_num # (num(u))'
    BY <1>1, <1>2, <1>3, <1>4 DEF Rests, FlagSound
  <2>2. \A j \in 0..(TRANSPORT_WINDOW_SIZE - 1) : packet_received[j] =>
            \E u \in Waiting' : id((num(u))') = j
    BY <1>1, <1>3, <1>4 DEF Rests, FlagSound
  <2> QED  BY <1>2, <2>1, <2>2 DEF FlagSound, id
<1>10. Way'
  BY <1>1, <1>2, <1>3, <1>4 DEF Rests, Way
<1> QED  BY <1>6, <1>7, <1>8, <1>9, <1>10 DEF Rests

LEMMA EnqueueMatch ==
    ASSUME Match, NEW th \in Threads, Enqueue(th)
    PROVE  Rests'
<1>1. Shape /\ Unique /\ Rests
  BY DEF Match, Once, Rests
<1> DEFINE p == call[th].packet
<1>2. /\ th \in Numbered /\ Numbered' = Numbered \ {th} /\ Busy' \subseteq Busy
      /\ \A u \in Threads : u # th => call'[u] = call[u]
      /\ \A u \in Busy' : call'[u].packet = call[u].packet /\ (num(u))' = num(u)
      /\ \/ th \notin Busy' /\ p.op \notin Answered
         \/ th \in Busy' /\ p.op \in Answered /\ call'[th].at = "waiting"
      /\ UNCHANGED <<buf, packet_number, tx, to, from, rx, packet_received>>
  BY <1>1, EnqueueCalls
<1>3. /\ Waiting \subseteq Busy /\ Busy \subseteq Threads /\ th \in Busy /\ th \notin Waiting
      /\ Numbered \cap Waiting = {} /\ Answers \subseteq Reply
  BY <1>1, <1>2, WaitTypes
<1>4. p \in Packet /\ p.thread = th /\ p.pak_num = num(th)
  BY <1>1, <1>3, BusyTypes DEF Rests, Own, num
<1> HIDE DEF p
<1>5. \A u \in Waiting : /\ u # th /\ call'[u] = call[u] /\ u \in Busy' /\ u \in Waiting'
                         /\ (num(u))' = num(u) /\ num(u) # num(th)
                         /\ (Flagged(u))' = Flagged(u)
  <2>1. \A u \in Waiting : u # th /\ call'[u] = call[u]
    BY <1>2, <1>3
  <2>2. \A u \in Waiting : u \in Busy'
    BY <1>3, <2>1 DEF Busy
  <2>3. \A u \in Waiting : (num(u))' = num(u) /\ num(u) # num(th)
    BY <1>1, <1>2, <1>3, <2>1, <2>2 DEF Unique
  <2> QED  BY <1>2, <2>1, <2>2, <2>3 DEF Waiting, Flagged
<1>6. \A u \in Waiting' : u \in Waiting \/ (u = th /\ p.op \in Answered /\ th \in Busy')
  BY <1>2, <1>3 DEF Waiting
<1>7. Answers' = Answers
  BY <1>2 DEF Answers
<1>8. Own'
  <2>1. \A u \in Busy' : call'[u].packet.thread = u
    BY <1>1, <1>2 DEF Rests, Own
  <2>2. \A u \in Waiting' : call'[u].packet.op \in Answered
    BY <1>1, <1>2, <1>5, <1>6 DEF Rests, Own, p
  <2>3. \A u \in Busy' : call'[u].packet.op \in Answered =>
                            packet_number' - (num(u))' <= TRANSPORT_WINDOW_SIZE
    BY <1>1, <1>2 DEF Rests, Own
  <2> QED  BY <2>1, <2>2, <2>3 DEF Own
\* The flag of its number is not set.
<1>9. ASSUME th \in Busy', p.op \in Answered
      PROVE  ~ Flagged(th) /\ ~ (Flagged(th))'
  <2>1. id(num(th)) \in 0..(TRANSPORT_WINDOW_SIZE - 1)
    BY <1>1, <1>3, WaitTypes
  <2>2. ASSUME Flagged(th)
        PROVE  FALSE
    <3>1. PICK u \in Waiting : id(num(u)) = id(num(th))
      BY <1>1, <2>1, <2>2 DEF Rests, FlagSound, Flagged
    <3>2. call[u].packet.op \in Answered /\ call[th].packet.op \in Answered
      BY <1>1, <1>9 DEF Rests, Own, p
    <3>3. u = th
      BY <1>1, <1>3, <3>1, <3>2, SameId DEF Rests
    <3> QED  BY <1>3, <3>3
  <2>3. (num(th))' = num(th)
    BY <1>2, <1>9
  <2> QED  BY <1>2, <2>2, <2>3 DEF Flagged
<1>10. \/ Pipe' = Pipe /\ lost' = lost \cup {num(th)}
       \/ Pipe' = Append(Pipe, p) /\ lost' = lost
  BY <1>1, <1>4, EnqueuePipe DEF p
\* What is in the pipe now.
<1>11. \A i \in 1..Len(Pipe') : \/ i \in 1..Len(Pipe) /\ Pipe'[i] = Pipe[i]
                                \/ Pipe'[i] = p
  BY <1>1, <1>4, <1>10, AppendParts
<1>12. \A i \in 1..Len(Pipe) : i \in 1..Len(Pipe') /\ Pipe'[i] = Pipe[i]
  BY <1>1, <1>4, <1>10, AppendParts
<1>13. Asked'
  <2>1. ASSUME NEW i \in 1..Len(Pipe'), Pipe'[i].op \in Answered
        PROVE  Pipe'[i].thread \in Waiting' /\ call'[Pipe'[i].thread].packet = Pipe'[i]
    <3>1. CASE i \in 1..Len(Pipe) /\ Pipe'[i] = Pipe[i]
      BY <1>1, <1>5, <2>1, <3>1 DEF Rests, Asked
    <3>2. CASE Pipe'[i] = p
      <4>1. th \in Busy' /\ call'[th].at = "waiting" /\ call'[th].packet = p
        BY <1>2, <2>1, <3>2 DEF p
      <4> QED  BY <1>4, <3>2, <4>1 DEF Waiting
    <3> QED  BY <1>11, <3>1, <3>2
  <2> QED  BY <2>1 DEF Asked
<1>14. ASSUME NEW u \in Waiting, \A i \in 1..Len(Pipe) : Pipe[i].pak_num # num(u)
       PROVE  \A i \in 1..Len(Pipe') : Pipe'[i].pak_num # num(u)
  BY <1>4, <1>5, <1>11, <1>14
<1>15. Awaited'
  <2>1. ASSUME NEW r \in Answers
        PROVE  /\ r.thread \in Waiting' /\ (num(r.thread))' = r.pak_num
               /\ ~ (Flagged(r.thread))'
               /\ \A i \in 1..Len(Pipe') : Pipe'[i].pak_num # r.pak_num
    <3>1. /\ r.thread \in Waiting /\ num(r.thread) = r.pak_num /\ ~ Flagged(r.thread)
          /\ \A i \in 1..Len(Pipe) : Pipe[i].pak_num # num(r.thread)
      BY <1>1 DEF Rests, Awaited
    <3> QED  BY <1>5, <1>14, <3>1
  <2> QED  BY <1>1, <1>2, <1>7, <2>1 DEF Rests, Awaited
<1>16. FlagSound'
  <2>1. ASSUME NEW u \in Waiting', (Flagged(u))'
        PROVE  /\ buf'[u].pak_num = (num(u))'
               /\ \A i \in 1..Len(Pipe') : Pipe'[i].pak_num # (num(u))'
    <3>1. u \in Waiting
      BY <1>6, <1>9, <2>1
    <3>2. Flagged(u) /\ (num(u))' = num(u)
      BY <1>5, <2>1, <3>1
    <3>3. buf[u].pak_num = num(u) /\ \A i \in 1..Len(Pipe) : Pipe[i].pak_num # num(u)
      BY <1>1, <3>1, <3>2 DEF Rests, FlagSound
    <3> QED  BY <1>2, <1>14, <3>1, <3>2, <3>3
  <2>2. \A j \in 0..(TRANSPORT_WINDOW_SIZE - 1) : packet_received[j] =>
            \E u \in Waiting' : id((num(u))') = j
    BY <1>1, <1>5 DEF Rests, FlagSound
  <2> QED  BY <1>2, <2>1, <2>2 DEF FlagSound, id
<1>17. Way'
  <2>1. ASSUME NEW u \in Waiting, num(u) \notin lost'
        PROVE  \/ \E i \in 1..Len(Pipe') : Pipe'[i] = call'[u].packet
               \/ \E r \in Answers' : r.pak_num = (num(u))'
               \/ (Flagged(u))'
    <3>1. num(u) \notin lost
      BY <1>10, <2>1
    <3>2. CASE \E i \in 1..Len(Pipe) : Pipe[i] = call[u].packet
      BY <1>5, <1>12, <3>2
    <3>3. CASE \E r \in Answers : r.pak_num = num(u)
      BY <1>5, <1>7, <3>3
    <3>4. CASE Flagged(u)
      BY <1>5, <3>4
    <3> QED  BY <1>1, <3>1, <3>2, <3>3, <3>4 DEF Rests, Way
  <2>2. ASSUME th \in Busy', num(th) \notin lost'
        PROVE  \E i \in 1..Len(Pipe') : Pipe'[i] = call'[th].packet
    <3>1. Pipe' = Append(Pipe, p)
      BY <1>10, <2>2
    <3>2. call'[th].packet = p
      BY <1>2, <2>2 DEF p
    <3> QED  BY <1>1, <1>4, <3>1, <3>2, AppendParts
  <2>3. \A u \in Waiting' : (num(u))' = num(u)
    BY <1>2 DEF Waiting
  <2>4. ASSUME NEW u \in Waiting', (num(u))' \notin lost'
        PROVE  \/ \E i \in 1..Len(Pipe') : Pipe'[i] = call'[u].packet
               \/ \E r \in Answers' : r.pak_num = (num(u))'
               \/ (Flagged(u))'
    BY <1>6, <2>1, <2>2, <2>3, <2>4
  <2> QED  BY <2>4 DEF Way
<1> QED  BY <1>8, <1>13, <1>15, <1>16, <1>17 DEF Rests

LEMMA WaitMatch ==
    ASSUME Match, NEW th \in Threads, dpdkWaitFor(th)
    PROVE  Rests'
<1>1. Shape /\ Unique /\ Rests
  BY DEF Match, Once, Rests
<1>2. /\ th \in Busy /\ call[th].at = "waiting" /\ Busy' = Busy \ {th}
      /\ \A u \in Busy' : call'[u] = call[u] /\ (num(u))' = num(u)
      /\ packet_received[id(num(th))]
      /\ packet_received' = [packet_received EXCEPT ![id(num(th))] = FALSE]
      /\ UNCHANGED <<buf, packet_number, TX_RING_, tx, to, from, rx, lost>>
  BY <1>1, WaitCalls
<1>3. /\ Waiting' = Waiting \ {th} /\ th \in Waiting /\ Flagged(th)
      /\ Waiting \subseteq Busy
  BY <1>2 DEF Waiting, Flagged
<1>4. Pipe' = Pipe /\ Answers' = Answers
  BY <1>2, SamePipe DEF Answers
<1>5. \A u \in Waiting' : id(num(u)) # id(num(th))
  <2>1. \A u \in Waiting : call[u].packet.op \in Answered
    BY <1>1 DEF Rests, Own
  <2> QED  BY <1>1, <1>3, <2>1, SameId DEF Rests
<1>6. \A u \in Waiting' : (Flagged(u))' = Flagged(u)
  <2>1. \A u \in Waiting' : (num(u))' = num(u) /\ id(num(u)) \in 0..(TRANSPORT_WINDOW_SIZE - 1)
    BY <1>1, <1>2, <1>3, WaitTypes
  <2> QED  BY <1>1, <1>2, <1>5, <2>1, CallTypes DEF Flagged, id
<1>7. Own'
  BY <1>1, <1>2, <1>3 DEF Rests, Own
<1>8. Asked'
  <2>1. ASSUME NEW i \in 1..Len(Pipe), Pipe[i].op \in Answered
        PROVE  Pipe[i].thread \in Waiting' /\ call'[Pipe[i].thread].packet = Pipe[i]
    <3>1. Pipe[i].thread \in Waiting /\ call[Pipe[i].thread].packet = Pipe[i]
      BY <1>1, <2>1 DEF Rests, Asked
    <3>2. Pipe[i].pak_num # num(th)
      BY <1>1, <1>3 DEF Rests, FlagSound
    <3>3. Pipe[i].thread # th
      BY <3>1, <3>2 DEF num
    <3> QED  BY <1>2, <1>3, <3>1, <3>3
  <2> QED  BY <1>4, <2>1 DEF Asked
<1>9. Awaited'
  <2>1. ASSUME NEW r \in Answers
        PROVE  /\ r.thread \in Waiting' /\ (num(r.thread))' = r.pak_num
               /\ ~ (Flagged(r.thread))'
               /\ \A i \in 1..Len(Pipe') : Pipe'[i].pak_num # r.pak_num
    <3>1. /\ r.thread \in Waiting /\ num(r.thread) = r.pak_num /\ ~ Flagged(r.thread)
          /\ \A i \in 1..Len(Pipe) : Pipe[i].pak_num # r.pak_num
      BY <1>1 DEF Rests, Awaited
    <3>2. r.thread \in Waiting' /\ r.thread \in Busy'
      BY <1>2, <1>3, <3>1
    <3> QED  BY <1>2, <1>4, <1>6, <3>1, <3>2
  <2> QED  BY <1>1, <1>2, <1>4, <2>1 DEF Rests, Awaited
<1>10. FlagSound'
  <2>1. ASSUME NEW u \in Waiting', (Flagged(u))'
        PROVE  /\ buf'[u].pak_num = (num(u))'
               /\ \A i \in 1..Len(Pipe') : Pipe'[i].pak_num # (num(u))'
    BY <1>1, <1>2, <1>3, <1>4, <1>6, <2>1 DEF Rests, FlagSound
  <2>2. ASSUME NEW j \in 0..(TRANSPORT_WINDOW_SIZE - 1), packet_received'[j]
        PROVE  \E u \in Waiting' : id((num(u))') = j
    <3>1. packet_received[j] /\ j # id(num(th))
      BY <1>1, <1>2, <2>2, CallTypes
    <3>2. PICK u \in Waiting : id(num(u)) = j
      BY <1>1, <3>1 DEF Rests, FlagSound
    <3> QED  BY <1>2, <1>3, <3>1, <3>2
  <2> QED  BY <2>1, <2>2 DEF FlagSound, id
<1>11. Way'
  <2>1. ASSUME NEW u \in Waiting', (num(u))' \notin lost'
        PROVE  \/ \E i \in 1..Len(Pipe') : Pipe'[i] = call'[u].packet
               \/ \E r \in Answers' : r.pak_num = (num(u))'
               \/ (Flagged(u))'
    BY <1>1, <1>2, <1>3, <1>4, <1>6, <2>1 DEF Rests, Way
  <2> QED  BY <2>1 DEF Way
<1> QED  BY <1>7, <1>8, <1>9, <1>10, <1>11 DEF Rests

\* Packets leave the pipe unanswered: they are lost.
LEMMA ThinMatch ==
    ASSUME Match, UNCHANGED <<call, buf, packet_number, packet_received, from, rx>>,
           Pipe' = Pipe \/ \E f : Thinned(f), lost \subseteq lost',
           \A i \in 1..Len(Pipe) :
               Pipe[i].pak_num \notin lost' => \E j \in 1..Len(Pipe') : Pipe'[j] = Pipe[i]
    PROVE  Rests'
<1>1. Rests
  BY DEF Match, Rests
<1>2. /\ Busy' = Busy /\ Waiting' = Waiting /\ Answers' = Answers
      /\ \A u : (num(u))' = num(u) /\ (Flagged(u))' = Flagged(u)
  BY DEF Busy, Waiting, Answers, num, Flagged
<1>3. \A i \in 1..Len(Pipe') : \E j \in 1..Len(Pipe) : Pipe'[i] = Pipe[j]
  BY DEF Thinned
<1>4. Own'
  BY <1>1, <1>2 DEF Rests, Own
<1>5. Asked'
  BY <1>1, <1>2, <1>3 DEF Rests, Asked
<1>6. Awaited'
  <2>1. \A r \in Answers : /\ r.thread \in Waiting /\ num(r.thread) = r.pak_num
                           /\ ~ Flagged(r.thread)
                           /\ \A i \in 1..Len(Pipe') : Pipe'[i].pak_num # r.pak_num
    BY <1>1, <1>3 DEF Rests, Awaited
  <2> QED  BY <1>1, <1>2, <2>1 DEF Rests, Awaited
<1>7. FlagSound'
  <2>1. \A u \in Waiting : Flagged(u) =>
           /\ buf[u].pak_num = num(u)
           /\ \A i \in 1..Len(Pipe') : Pipe'[i].pak_num # num(u)
    BY <1>1, <1>3 DEF Rests, FlagSound
  <2> QED  BY <1>1, <1>2, <2>1 DEF Rests, FlagSound
<1>8. Way'
  <2>1. ASSUME NEW u \in Waiting, num(u) \notin lost'
        PROVE  \/ \E i \in 1..Len(Pipe') : Pipe'[i] = call[u].packet
               \/ \E r \in Answers : r.pak_num = num(u)
               \/ Flagged(u)
    <3>1. \/ \E i \in 1..Len(Pipe) : Pipe[i] = call[u].packet
          \/ \E r \in Answers : r.pak_num = num(u)
          \/ Flagged(u)
      BY <1>1, <2>1 DEF Rests, Way
    <3>2. ASSUME NEW i \in 1..Len(Pipe), Pipe[i] = call[u].packet
          PROVE  \E j \in 1..Len(Pipe') : Pipe'[j] = call[u].packet
      BY <2>1, <3>2 DEF num
    <3> QED  BY <3>1, <3>2
  <2> QED  BY <1>2, <2>1 DEF Way
<1> QED  BY <1>4, <1>5, <1>6, <1>7, <1>8 DEF Rests

\* What Serve takes from the wire, and what it answers.
Replied(k) == [thread |-> Pipe[k].thread, pak_num |-> Pipe[k].pak_num,
               value |-> After(Pipe[k], store[Pipe[k].key])]

LEMMA ServeParts ==
    ASSUME Shape, NEW s \in Slaves, Serve(s)
    PROVE  \E k \in 1..Len(to) :
             /\ Arrives(s, k) /\ k \in 1..Len(Pipe) /\ Pipe[k] = to[k] /\ Pipe[k] \in Packet
             /\ to' = RemoveAt(to, k)
             /\ store' = [store EXCEPT ![Pipe[k].key] = After(Pipe[k], store[Pipe[k].key])]
             /\ Replied(k) \in Reply /\ Replied(k).pak_num = Pipe[k].pak_num
             /\ Replied(k).thread = Pipe[k].thread
             /\ Replied(k).value = After(Pipe[k], store[Pipe[k].key])
             /\ \/ Pipe[k].op \in Answered /\ from' = Append(from, Replied(k))
                \/ Pipe[k].op \notin Answered /\ from' = from
             /\ UNCHANGED <<callVars, TX_RING_, tx, rx, packet_received, latest, sent, lost>>
<1>1. PICK k \in 1..Len(to) :
        /\ Arrives(s, k)
        /\ LET p == to[k]
               after == After(p, store[p.key])
           IN  /\ store' = [store EXCEPT ![p.key] = after]
               /\ from' = IF p.op \in Answered
                          THEN Append(from, [thread |-> p.thread, pak_num |-> p.pak_num,
                                             value |-> after])
                          ELSE from
        /\ to' = RemoveAt(to, k)
        /\ UNCHANGED <<callVars, TX_RING_, tx, rx, packet_received, latest, sent, lost>>
  BY LenProperties, WireTypes DEF Serve
<1>2. k \in 1..Len(Pipe) /\ Pipe[k] = to[k] /\ Pipe[k] \in Packet
  BY PipeParts, PipeType
<1>3. After(Pipe[k], store[Pipe[k].key]) \in Kept
  BY <1>2, WireTypes, AfterIsKept DEF Packet
<1>4. Replied(k) \in Reply
  BY <1>2, <1>3 DEF Replied, Reply, Packet
<1>5. /\ store' = [store EXCEPT ![Pipe[k].key] = After(Pipe[k], store[Pipe[k].key])]
      /\ \/ Pipe[k].op \in Answered /\ from' = Append(from, Replied(k))
         \/ Pipe[k].op \notin Answered /\ from' = from
  BY <1>1, <1>2 DEF Replied
<1>6. /\ Replied(k).pak_num = Pipe[k].pak_num /\ Replied(k).thread = Pipe[k].thread
      /\ Replied(k).value = After(Pipe[k], store[Pipe[k].key])
  BY DEF Replied
<1> QED  BY <1>1, <1>2, <1>4, <1>5, <1>6

LEMMA AppendReply ==
    ASSUME Shape, NEW r \in Reply, from' = Append(from, r), rx' = rx
    PROVE  /\ Answers' = Answers \cup {r}
           /\ Len(from') = Len(from) + 1 /\ Len(from) \in Nat
           /\ \A i \in 1..Len(from') : \/ i = Len(from) + 1 /\ from'[i] = r
                                       \/ i \in 1..Len(from) /\ from'[i] = from[i]
<1>1. /\ Len(from') = Len(from) + 1 /\ Len(from) \in Nat
      /\ \A i \in 1..(Len(from) + 1) : from'[i] = IF i = Len(from) + 1 THEN r ELSE from[i]
  BY WireTypes, AppendProperties, LenProperties
<1>2. \A i \in 1..Len(from') : \/ i = Len(from) + 1 /\ from'[i] = r
                               \/ i \in 1..Len(from) /\ from'[i] = from[i]
  BY <1>1
<1>3. /\ Len(from) + 1 \in 1..Len(from') /\ from'[Len(from) + 1] = r
      /\ \A i \in 1..Len(from) : i \in 1..Len(from') /\ from'[i] = from[i]
  BY <1>1
<1>4. {from'[i] : i \in 1..Len(from')} = {from[i] : i \in 1..Len(from)} \cup {r}
  BY <1>2, <1>3
<1> QED  BY <1>1, <1>2, <1>4 DEF Answers

LEMMA TakeReply ==
    ASSUME Shape, from # <<>>, from' = Tail(from)
    PROVE  /\ Head(from) \in Reply /\ 1 \in 1..Len(from) /\ Head(from) = from[1]
           /\ \A i \in 1..Len(from') : i + 1 \in 1..Len(from) /\ 1 < i + 1 /\ from'[i] = from[i + 1]
           /\ {from[i] : i \in 1..Len(from)} = {from'[i] : i \in 1..Len(from')} \cup {Head(from)}
           /\ Len(from') \in Nat
<1>1. /\ Head(from) \in Reply /\ Tail(from) \in Seq(Reply) /\ Len(Tail(from)) = Len(from) - 1
      /\ \A i \in 1..Len(Tail(from)) : Tail(from)[i] = from[i + 1]
      /\ Len(from) \in Nat /\ Len(from) # 0 /\ Head(from) = from[1]
  BY WireTypes, HeadTailProperties, LenProperties, EmptySeq
<1>2. \A i \in 1..Len(from') : i + 1 \in 1..Len(from) /\ 1 < i + 1 /\ from'[i] = from[i + 1]
  BY <1>1
<1>3. \A i \in 1..Len(from) : i = 1 \/ (i - 1 \in 1..Len(from') /\ from[i] = from'[i - 1])
  <2>1. ASSUME NEW i \in 1..Len(from), i # 1
        PROVE  i - 1 \in 1..Len(from') /\ from[i] = from'[i - 1]
    <3>1. i - 1 \in 1..Len(from') /\ (i - 1) + 1 = i
      BY <1>1, <2>1
    <3> QED  BY <1>2, <3>1
  <2> QED  BY <2>1
<1>4. 1 \in 1..Len(from)
  BY <1>1
<1>5. {from[i] : i \in 1..Len(from)} = {from'[i] : i \in 1..Len(from')} \cup {Head(from)}
  BY <1>1, <1>2, <1>3, <1>4
<1> QED  BY <1>1, <1>2, <1>4, <1>5

LEMMA ServeMatch ==
    ASSUME Match, NEW s \in Slaves, Serve(s)
    PROVE  Rests'
<1>1. Shape /\ Unique /\ Rests
  BY DEF Match, Once, Rests
<1>2. PICK k \in 1..Len(to) :
        /\ k \in 1..Len(Pipe) /\ Pipe[k] \in Packet /\ to' = RemoveAt(to, k)
        /\ Replied(k) \in Reply /\ Replied(k).pak_num = Pipe[k].pak_num
        /\ Replied(k).thread = Pipe[k].thread
        /\ \/ Pipe[k].op \in Answered /\ from' = Append(from, Replied(k))
           \/ Pipe[k].op \notin Answered /\ from' = from
        /\ UNCHANGED <<callVars, TX_RING_, tx, rx, packet_received, lost>>
  BY <1>1, ServeParts
<1>3. UNCHANGED <<call, buf, packet_number, packet_received, rx, lost>>
  BY <1>2 DEF callVars
<1> DEFINE p == Pipe[k]
           r == Replied(k)
<1>4. /\ \E f : Thinned(f) /\ \A i \in 1..Len(Pipe') : f[i] # k
      /\ \A i \in 1..Len(Pipe) : i # k => \E j \in 1..Len(Pipe') : Pipe'[j] = Pipe[i]
  BY <1>1, <1>2, CutPipe
<1>5. \A i \in 1..Len(Pipe') : \E j \in 1..Len(Pipe) : j # k /\ Pipe'[i] = Pipe[j]
  BY <1>4 DEF Thinned
<1>6. \A j \in 1..Len(Pipe) : j # k => Pipe[j].pak_num # p.pak_num
  <2>1. \A j \in 1..Len(Pipe) : j # k => j < k \/ k < j
    BY <1>2
  <2> QED  BY <1>1, <1>2, <2>1 DEF Unique
<1>7. /\ Busy' = Busy /\ Waiting' = Waiting
      /\ \A u : (num(u))' = num(u) /\ (Flagged(u))' = Flagged(u)
  BY <1>3 DEF Busy, Waiting, num, Flagged
<1>8. Answers' = IF p.op \in Answered THEN Answers \cup {r} ELSE Answers
  <2>1. CASE p.op \in Answered
    <3>1. from' = Append(from, r) /\ r \in Reply /\ rx' = rx
      BY <1>2, <2>1
    <3>2. Answers' = Answers \cup {r}
      BY <1>1, <3>1, AppendReply
    <3> QED  BY <2>1, <3>2
  <2>2. CASE p.op \notin Answered
    <3>1. from' = from /\ rx' = rx
      BY <1>2, <2>2
    <3> QED  BY <2>2, <3>1 DEF Answers
  <2> QED  BY <2>1, <2>2
<1>9. ASSUME p.op \in Answered
      PROVE  /\ r.thread \in Waiting /\ num(r.thread) = r.pak_num /\ ~ Flagged(r.thread)
             /\ \A i \in 1..Len(Pipe') : Pipe'[i].pak_num # r.pak_num
  <2>1. p.thread \in Waiting /\ num(p.thread) = p.pak_num
    BY <1>1, <1>2, <1>9 DEF Rests, Asked, num
  <2>2. ~ Flagged(p.thread)
    BY <1>1, <1>2, <2>1 DEF Rests, FlagSound
  <2> QED  BY <1>2, <1>5, <1>6, <2>1, <2>2
<1>10. Own'
  BY <1>1, <1>3, <1>7 DEF Rests, Own
<1>11. Asked'
  BY <1>1, <1>3, <1>5, <1>7 DEF Rests, Asked
<1>12. Awaited'
  <2>1. \A q \in Answers : /\ q.thread \in Waiting /\ num(q.thread) = q.pak_num
                           /\ ~ Flagged(q.thread)
                           /\ \A i \in 1..Len(Pipe') : Pipe'[i].pak_num # q.pak_num
    BY <1>1, <1>5 DEF Rests, Awaited
  <2>2. \A q \in Answers' : /\ q.thread \in Waiting /\ num(q.thread) = q.pak_num
                            /\ ~ Flagged(q.thread)
                            /\ \A i \in 1..Len(Pipe') : Pipe'[i].pak_num # q.pak_num
    BY <1>8, <1>9, <2>1
  <2>3. /\ \A i \in 1..Len(from) : from[i].pak_num # p.pak_num
        /\ rx # NoReply => p.pak_num # rx.pak_num
    BY <1>1, <1>2 DEF Rests, Awaited, Answers
  <2>4. /\ \A i, j \in 1..Len(from') : i < j => from'[i].pak_num # from'[j].pak_num
        /\ rx # NoReply => \A i \in 1..Len(from') : from'[i].pak_num # rx.pak_num
    <3>1. CASE from' = from
      BY <1>1, <3>1 DEF Rests, Awaited
    <3>2. CASE from' = Append(from, r)
      <4>1. /\ Len(from') = Len(from) + 1 /\ Len(from) \in Nat
            /\ \A i \in 1..Len(from') : \/ i = Len(from) + 1 /\ from'[i] = r
                                        \/ i \in 1..Len(from) /\ from'[i] = from[i]
        BY <1>1, <1>2, <1>3, <3>2, AppendReply
      <4>2. ASSUME NEW i \in 1..Len(from'), NEW j \in 1..Len(from'), i < j
            PROVE  from'[i].pak_num # from'[j].pak_num
        <5>1. i \in 1..Len(from) /\ from'[i] = from[i]
          BY <4>1, <4>2
        <5>2. \A m, n \in 1..Len(from) : m < n => from[m].pak_num # from[n].pak_num
          BY <1>1 DEF Rests, Awaited
        <5>3. CASE j = Len(from) + 1 /\ from'[j] = r
          BY <1>2, <2>3, <5>1, <5>3
        <5>4. CASE j \in 1..Len(from) /\ from'[j] = from[j]
          BY <4>2, <5>1, <5>2, <5>4
        <5> QED  BY <4>1, <5>3, <5>4
      <4>3. rx # NoReply => \A i \in 1..Len(from') : from'[i].pak_num # rx.pak_num
        BY <1>1, <1>2, <2>3, <4>1 DEF Rests, Awaited
      <4> QED  BY <4>2, <4>3
    <3> QED  BY <1>2, <3>1, <3>2
  <2> QED  BY <1>1, <1>3, <1>7, <2>2, <2>4 DEF Rests, Awaited
<1>13. FlagSound'
  <2>1. \A u \in Waiting : Flagged(u) =>
           /\ buf[u].pak_num = num(u)
           /\ \A i \in 1..Len(Pipe') : Pipe'[i].pak_num # num(u)
    BY <1>1, <1>5 DEF Rests, FlagSound
  <2> QED  BY <1>1, <1>3, <1>7, <2>1 DEF Rests, FlagSound
<1>14. Way'
  <2>1. ASSUME NEW u \in Waiting, num(u) \notin lost
        PROVE  \/ \E i \in 1..Len(Pipe') : Pipe'[i] = call[u].packet
               \/ \E q \in Answers' : q.pak_num = num(u)
               \/ Flagged(u)
    <3>1. \/ \E i \in 1..Len(Pipe) : Pipe[i] = call[u].packet
          \/ \E q \in Answers : q.pak_num = num(u)
          \/ Flagged(u)
      BY <1>1, <2>1 DEF Rests, Way
    <3>2. CASE \E i \in 1..Len(Pipe) : i # k /\ Pipe[i] = call[u].packet
      BY <1>4, <3>2
    <3>3. CASE p = call[u].packet
      <4>1. p.op \in Answered /\ r.pak_num = num(u)
        BY <1>1, <1>2, <3>3 DEF Rests, Own, num
      <4> QED  BY <1>8, <4>1
    <3>4. CASE \E q \in Answers : q.pak_num = num(u)
      BY <1>8, <3>4
    <3> QED  BY <3>1, <3>2, <3>3, <3>4
  <2> QED  BY <1>3, <1>7, <2>1 DEF Way
<1> QED  BY <1>10, <1>11, <1>12, <1>13, <1>14 DEF Rests

\* The wire loses a reply, the rx thread takes one, or sets its flag.
LEMMA LoseReplyMatch ==
    ASSUME Match, LoseReply
    PROVE  Rests'
<1>1. Shape /\ Unique /\ Rests
  BY DEF Match, Once, Rests
<1>2. /\ from # <<>> /\ lost' = lost \cup {Head(from).pak_num} /\ from' = Tail(from)
      /\ UNCHANGED <<call, buf, packet_number, TX_RING_, tx, to, rx, packet_received>>
  BY DEF LoseReply, callVars
<1>3. /\ 1 \in 1..Len(from) /\ Head(from) = from[1]
      /\ \A i \in 1..Len(from') : i + 1 \in 1..Len(from) /\ 1 < i + 1 /\ from'[i] = from[i + 1]
      /\ {from[i] : i \in 1..Len(from)} = {from'[i] : i \in 1..Len(from')} \cup {Head(from)}
  BY <1>1, <1>2, TakeReply
<1>4. Answers' \cup {Head(from)} = Answers \cup {Head(from)} /\ Answers' \subseteq Answers
  BY <1>2, <1>3 DEF Answers
<1>5. /\ Busy' = Busy /\ Waiting' = Waiting /\ Pipe' = Pipe
      /\ \A u : (num(u))' = num(u) /\ (Flagged(u))' = Flagged(u)
  BY <1>2, SamePipe DEF Busy, Waiting, num, Flagged
<1>6. Own' /\ Asked' /\ FlagSound'
  BY <1>1, <1>2, <1>5 DEF Rests, Own, Asked, FlagSound
<1>7. Awaited'
  <2>1. \A i, j \in 1..Len(from') : i < j => from'[i].pak_num # from'[j].pak_num
    BY <1>1, <1>3 DEF Rests, Awaited
  <2>2. rx # NoReply => \A i \in 1..Len(from') : from'[i].pak_num # rx.pak_num
    BY <1>1, <1>3 DEF Rests, Awaited
  <2>3. \A r \in Answers' : /\ r.thread \in Waiting /\ num(r.thread) = r.pak_num
                            /\ ~ Flagged(r.thread)
                            /\ \A i \in 1..Len(Pipe) : Pipe[i].pak_num # r.pak_num
    BY <1>1, <1>4 DEF Rests, Awaited
  <2> QED  BY <1>1, <1>2, <1>5, <2>1, <2>2, <2>3 DEF Rests, Awaited
<1>8. Way'
  BY <1>1, <1>2, <1>4, <1>5 DEF Rests, Way
<1> QED  BY <1>6, <1>7, <1>8 DEF Rests

LEMMA ReceiveMatch ==
    ASSUME Match, dpdk_recv_worker
    PROVE  Rests'
<1>1. Shape /\ Unique /\ Rests
  BY DEF Match, Once, Rests
<1>2. /\ rx = NoReply /\ from # <<>> /\ rx' = Head(from) /\ from' = Tail(from)
      /\ buf' = [buf EXCEPT ![rx'.thread] = [pak_num |-> rx'.pak_num, value |-> rx'.value]]
      /\ UNCHANGED <<call, packet_number, TX_RING_, tx, to, packet_received, lost>>
  BY DEF dpdk_recv_worker
<1>3. /\ Head(from) \in Reply /\ 1 \in 1..Len(from) /\ Head(from) = from[1]
      /\ \A i \in 1..Len(from') : i + 1 \in 1..Len(from) /\ 1 < i + 1 /\ from'[i] = from[i + 1]
      /\ {from[i] : i \in 1..Len(from)} = {from'[i] : i \in 1..Len(from')} \cup {Head(from)}
  BY <1>1, <1>2, TakeReply
<1>4. Head(from).pak_num \in Numbers /\ NoReply.pak_num \notin Numbers
  BY <1>3, TransportAssumption DEF Reply, NoReply, NoNumber, Numbers
<1>5. Answers' = Answers /\ Head(from) \in Answers
  <2>1. Answers = {from[i] : i \in 1..Len(from)}
    BY <1>2 DEF Answers
  <2>2. rx' # NoReply
    BY <1>2, <1>4
  <2>3. Answers' = {from'[i] : i \in 1..Len(from')} \cup {Head(from)}
    BY <1>2, <2>2 DEF Answers
  <2> QED  BY <1>3, <2>1, <2>3
<1>6. /\ Busy' = Busy /\ Waiting' = Waiting /\ Pipe' = Pipe
      /\ \A u : (num(u))' = num(u) /\ (Flagged(u))' = Flagged(u)
  BY <1>2, SamePipe DEF Busy, Waiting, num, Flagged
<1>7. ~ Flagged(rx'.thread) /\ rx'.thread \in Threads
  BY <1>1, <1>2, <1>3, <1>5 DEF Rests, Awaited, Reply
<1>8. /\ buf'[rx'.thread] = [pak_num |-> rx'.pak_num, value |-> rx'.value]
      /\ \A u \in Waiting : Flagged(u) => buf'[u] = buf[u]
  <2>1. Waiting \subseteq Threads
    BY <1>1, WaitTypes
  <2> QED  BY <1>1, <1>2, <1>7, <2>1, CallTypes
<1>9. Own' /\ Asked' /\ Way'
  BY <1>1, <1>2, <1>5, <1>6 DEF Rests, Own, Asked, Way
<1>10. FlagSound'
  BY <1>1, <1>2, <1>6, <1>8 DEF Rests, FlagSound
<1>11. Awaited'
  <2>1. \A i, j \in 1..Len(from') : i < j => from'[i].pak_num # from'[j].pak_num
    BY <1>1, <1>3 DEF Rests, Awaited
  <2>2. \A i \in 1..Len(from') : from'[i].pak_num # rx'.pak_num
    BY <1>1, <1>2, <1>3 DEF Rests, Awaited
  <2>3. \A r \in Answers : /\ r.thread \in Waiting /\ num(r.thread) = r.pak_num
                           /\ ~ Flagged(r.thread)
                           /\ \A i \in 1..Len(Pipe) : Pipe[i].pak_num # r.pak_num
    BY <1>1 DEF Rests, Awaited
  <2> QED  BY <1>5, <1>6, <1>8, <2>1, <2>2, <2>3 DEF Awaited
<1> QED  BY <1>9, <1>10, <1>11 DEF Rests

LEMMA FlagMatch ==
    ASSUME Match, dpdk_recv_worker_flag
    PROVE  Rests'
<1>1. Shape /\ Unique /\ Rests
  BY DEF Match, Once, Rests
<1>2. /\ rx # NoReply /\ rx' = NoReply
      /\ packet_received' = [packet_received EXCEPT ![id(rx.pak_num)] = TRUE]
      /\ UNCHANGED <<call, buf, packet_number, TX_RING_, tx, to, from, lost>>
  BY DEF dpdk_recv_worker_flag, callVars, wireVars
<1>0. PICK t : t = rx.thread
  OBVIOUS
<1>3. rx \in Answers
  BY <1>2 DEF Answers
<1>4. /\ t \in Waiting /\ num(t) = rx.pak_num
      /\ \A i \in 1..Len(Pipe) : Pipe[i].pak_num # num(t)
      /\ \A i \in 1..Len(from) : from[i].pak_num # num(t)
      /\ buf[t].pak_num = num(t)
  BY <1>0, <1>1, <1>2, <1>3 DEF Rests, Awaited
<1>5. /\ Busy' = Busy /\ Waiting' = Waiting /\ Pipe' = Pipe /\ Waiting \subseteq Busy
      /\ \A u : (num(u))' = num(u)
  BY <1>1, <1>2, SamePipe, WaitTypes DEF Busy, Waiting, num
<1>6. Answers = Answers' \cup {rx} /\ \A q \in Answers' : q.pak_num # num(t) /\ q \in Answers
  <2>1. Answers' = {from[i] : i \in 1..Len(from)}
    BY <1>2 DEF Answers
  <2> QED  BY <1>2, <1>4, <2>1 DEF Answers
<1>7. \A u \in Waiting : u # t => id(num(u)) # id(num(t))
  <2>1. \A u \in Waiting : call[u].packet.op \in Answered
    BY <1>1 DEF Rests, Own
  <2> QED  BY <1>1, <1>4, <1>5, <2>1, SameId DEF Rests
<1>8. /\ \A u \in Waiting : (Flagged(u))' => Flagged(u) \/ u = t
      /\ \A u \in Waiting : Flagged(u) => (Flagged(u))'
      /\ (Flagged(t))'
  <2>1. \A u \in Waiting : id(num(u)) \in 0..(TRANSPORT_WINDOW_SIZE - 1)
    BY <1>1, <1>5, WaitTypes
  <2>2. \A u \in Waiting : (Flagged(u))' = packet_received'[id(num(u))]
    BY <1>5 DEF Flagged, id
  <2>3. packet_received' = [packet_received EXCEPT ![id(num(t))] = TRUE]
    BY <1>2, <1>4
  <2>4. packet_received \in [0..(TRANSPORT_WINDOW_SIZE - 1) -> BOOLEAN]
    BY <1>1, CallTypes
  <2>5. packet_received'[id(num(t))] = TRUE
    BY <1>4, <2>1, <2>3, <2>4
  <2>6. \A u \in Waiting : u # t => packet_received'[id(num(u))] = packet_received[id(num(u))]
    BY <1>4, <1>7, <2>1, <2>3, <2>4
  <2>7. \A u \in Waiting : u # t => (Flagged(u))' = Flagged(u)
    BY <2>2, <2>6 DEF Flagged
  <2>8. (Flagged(t))'
    BY <1>4, <2>2, <2>5
  <2> QED  BY <2>7, <2>8
<1>9. Own' /\ Asked'
  BY <1>1, <1>2, <1>5 DEF Rests, Own, Asked
<1>10. FlagSound'
  <2>1. \A u \in Waiting : (Flagged(u))' =>
           /\ buf[u].pak_num = num(u)
           /\ \A i \in 1..Len(Pipe) : Pipe[i].pak_num # num(u)
    BY <1>1, <1>4, <1>8 DEF Rests, FlagSound
  <2>2. ASSUME NEW k \in 0..(TRANSPORT_WINDOW_SIZE - 1), packet_received'[k]
        PROVE  \E u \in Waiting : id(num(u)) = k
    <3>1. CASE k = id(num(t))
      BY <1>4, <3>1
    <3>2. CASE k # id(num(t))
      <4>1. packet_received[k]
        BY <1>1, <1>2, <1>4, <2>2, <3>2, CallTypes
      <4> QED  BY <1>1, <4>1 DEF Rests, FlagSound
    <3> QED  BY <3>1, <3>2
  <2> QED  BY <1>2, <1>5, <2>1, <2>2 DEF FlagSound, id
<1>11. Awaited'
  <2>1. ASSUME NEW q \in Answers'
        PROVE  /\ q.thread \in Waiting /\ num(q.thread) = q.pak_num
               /\ ~ (Flagged(q.thread))'
               /\ \A i \in 1..Len(Pipe) : Pipe[i].pak_num # q.pak_num
    <3>1. /\ q.thread \in Waiting /\ num(q.thread) = q.pak_num /\ ~ Flagged(q.thread)
          /\ \A i \in 1..Len(Pipe) : Pipe[i].pak_num # q.pak_num
      BY <1>1, <1>6 DEF Rests, Awaited
    <3>2. q.thread # t
      BY <1>6, <3>1
    <3> QED  BY <1>8, <3>1, <3>2
  <2>2. \A i, j \in 1..Len(from) : i < j => from[i].pak_num # from[j].pak_num
    BY <1>1 DEF Rests, Awaited
  <2> QED  BY <1>2, <1>5, <2>1, <2>2 DEF Awaited
<1>12. Way'
  <2>1. ASSUME NEW u \in Waiting, num(u) \notin lost
        PROVE  \/ \E i \in 1..Len(Pipe) : Pipe[i] = call[u].packet
               \/ \E q \in Answers' : q.pak_num = num(u)
               \/ (Flagged(u))'
    <3>1. \/ \E i \in 1..Len(Pipe) : Pipe[i] = call[u].packet
          \/ \E q \in Answers : q.pak_num = num(u)
          \/ Flagged(u)
      BY <1>1, <2>1 DEF Rests, Way
    <3>2. CASE \E q \in Answers : q.pak_num = num(u)
      <4>1. CASE num(u) = num(t)
        <5>1. u = t
          BY <1>4, <4>1, <1>7
        <5> QED  BY <1>8, <5>1
      <4>2. CASE num(u) # num(t)
        BY <1>4, <1>6, <3>2, <4>2
      <4> QED  BY <4>1, <4>2
    <3> QED  BY <1>8, <3>1, <3>2
  <2> QED  BY <1>2, <1>5, <2>1 DEF Way
<1> QED  BY <1>9, <1>10, <1>11, <1>12 DEF Rests

LEMMA MatchNext == Match /\ NoSplit /\ BigEnough /\ [Next]_vars => Match'
<1> SUFFICES ASSUME Match, NoSplit, BigEnough, [Next]_vars
             PROVE  Match'
  OBVIOUS
<1>1. Once /\ Shape /\ Whole /\ Once'
  BY OnceNext DEF Match, Once
<1>2. Rests' => Match'
  BY <1>1 DEF Match, Rests
<1>3. ASSUME UNCHANGED <<call, buf, packet_number, packet_received, from, rx>>,
             Pipe' = Pipe, lost' = lost
      PROVE  Rests'
  BY <1>3, ThinMatch
<1>4. ASSUME NEW th \in Threads, Enqueue(th) \/ dpdkWaitFor(th) \/ \E k \in Keys : Call(th, k)
      PROVE  Rests'
  BY <1>4, EnqueueMatch, WaitMatch, BeginMatch, CallBegins
<1>5. CASE dpdk_lcore_tx
  <2>1. UNCHANGED <<call, buf, packet_number, packet_received, from, rx, lost>>
    BY <1>5 DEF dpdk_lcore_tx, callVars, wireVars
  <2>2. Pipe' = Pipe
    BY <1>1, <1>5, FetchPipe
  <2> QED  BY <1>2, <1>3, <2>1, <2>2
<1>6. CASE send_burst_fast
  <2>1. UNCHANGED <<call, buf, packet_number, packet_received, from, rx, lost>>
    BY <1>6 DEF send_burst_fast, callVars
  <2>2. Pipe' = Pipe
    BY <1>1, <1>6, SendPipe DEF NoSplit
  <2> QED  BY <1>2, <1>3, <2>1, <2>2
<1>7. CASE send_burst_fast_End
  <2>1. UNCHANGED <<call, buf, packet_number, packet_received, from, rx>>
    BY <1>7 DEF send_burst_fast_End, callVars, wireVars
  <2>2. Rests'
    BY <1>1, <1>7, <2>1, EndPipe, ThinMatch
  <2> QED  BY <1>2, <2>2
<1>8. ASSUME NEW s \in Slaves, LoseRequest(s)
      PROVE  Rests'
  <2>1. PICK k \in 1..Len(to) : to' = RemoveAt(to, k) /\ lost' = lost \cup {to[k].pak_num}
    BY <1>1, <1>8, LenProperties, WireTypes DEF LoseRequest
  <2>2. UNCHANGED <<call, buf, packet_number, packet_received, from, rx, tx, TX_RING_>>
    BY <1>8 DEF LoseRequest, callVars
  <2>3. /\ Pipe[k] = to[k] /\ \E f : Thinned(f)
        /\ \A i \in 1..Len(Pipe) : i # k => \E j \in 1..Len(Pipe') : Pipe'[j] = Pipe[i]
    BY <1>1, <2>1, <2>2, CutPipe
  <2>4. \A i \in 1..Len(Pipe) :
            Pipe[i].pak_num \notin lost' => \E j \in 1..Len(Pipe') : Pipe'[j] = Pipe[i]
    BY <2>1, <2>3
  <2> QED  BY <2>1, <2>2, <2>3, <2>4, ThinMatch
<1>9. CASE UNCHANGED vars
  <2>1. UNCHANGED <<call, buf, packet_number, packet_received, from, rx, lost, to, tx, TX_RING_>>
    BY <1>9 DEF vars, callVars, wireVars
  <2>2. Pipe' = Pipe
    BY <2>1, SamePipe
  <2> QED  BY <1>2, <1>3, <2>1, <2>2
<1> QED
  BY <1>2, <1>4, <1>5, <1>6, <1>7, <1>8, <1>9, ServeMatch, LoseReplyMatch, ReceiveMatch, FlagMatch
  DEF Next

LEMMA MatchInit == Init => Match
<1> SUFFICES ASSUME Init
             PROVE  Match
  OBVIOUS
<1>1. /\ Busy = {} /\ Waiting = {} /\ tx = NoBurst /\ TX_RING_ = <<>> /\ to = <<>> /\ from = <<>>
      /\ rx = NoReply /\ packet_received = [i \in 0..(TRANSPORT_WINDOW_SIZE - 1) |-> FALSE]
  BY DEF Init, Busy, Waiting
<1>2. Len(Pipe) = 0 /\ Len(from) = 0
  <2>1. Rest = <<>>
    BY <1>1, EmptySeq, SubSeqEmpty DEF Rest, NoBurst
  <2> QED  BY <1>1, <2>1, EmptySeq, ConcatEmptySeq DEF Pipe
<1>3. Answers = {}
  BY <1>1, <1>2 DEF Answers
<1>4. Own /\ Asked /\ Awaited /\ FlagSound /\ Way
  BY <1>1, <1>2, <1>3 DEF Own, Asked, Awaited, FlagSound, Way
<1> QED  BY <1>4, OnceInit DEF Match

LEMMA MatchAlways ==
    ASSUME "some" \notin NicTakes, BigEnough
    PROVE  Spec => []Match
<1>1. Match /\ [Next]_vars => Match'
  BY MatchNext DEF NoSplit
<1> QED  BY <1>1, MatchInit, PTL DEF Spec

\* When the NIC takes a burst or refuses it, and the window is big enough, a
\* thread that finds the flag of its number set has the reply to its own request.
THEOREM RepliesAreOwn ==
    ASSUME "some" \notin NicTakes, BigEnough
    PROVE  Spec => []OwnReply
<1>1. Match => OwnReply
  BY DEF Match, FlagSound, Flagged, Waiting, Busy, num, OwnReply
<1> QED  BY <1>1, MatchAlways, PTL

\* And no thread waits in vain: its request, or the reply to it, is on its way,
\* or its flag is set, unless something of it was lost.
THEOREM NobodyWaitsInVain ==
    ASSUME "some" \notin NicTakes, BigEnough
    PROVE  Spec => []OnItsWay
<1> DEFINE Among(q, n) == \E i \in DOMAIN q : q[i].pak_num = n
<1>1. ASSUME Match
      PROVE  OnItsWay
  <2>1. Shape /\ Way
    BY <1>1 DEF Match, Once
  <2>2. /\ DOMAIN TX_RING_ = 1..Len(TX_RING_) /\ DOMAIN tx.bufs = 1..Len(tx.bufs)
        /\ DOMAIN to = 1..Len(to) /\ DOMAIN from = 1..Len(from)
    BY <2>1, TxTypes, WireTypes, LenProperties
  <2>3. ASSUME NEW th \in Waiting, num(th) \notin lost
        PROVE  \/ Among(TX_RING_, num(th)) \/ Among(tx.bufs, num(th)) \/ Among(to, num(th))
               \/ Among(from, num(th)) \/ rx.pak_num = num(th) \/ Flagged(th)
    <3>1. \/ \E i \in 1..Len(Pipe) : Pipe[i] = call[th].packet
          \/ \E r \in Answers : r.pak_num = num(th)
          \/ Flagged(th)
      BY <2>1, <2>3 DEF Way
    <3>2. ASSUME NEW i \in 1..Len(Pipe), Pipe[i] = call[th].packet
          PROVE  Among(TX_RING_, num(th)) \/ Among(tx.bufs, num(th)) \/ Among(to, num(th))
      <4>1. Pipe[i].pak_num = num(th)
        BY <3>2 DEF num
      <4>2. CASE i \in 1..Len(to)
        BY <2>1, <2>2, <4>1, <4>2, PipeParts
      <4>3. CASE \E j \in 1..Len(Rest) : i = Len(to) + j
        <5>1. PICK j \in 1..Len(Rest) : i = Len(to) + j
          BY <4>3
        <5>2. Pipe[i] = tx.bufs[tx.pkts + j]
          BY <2>1, <5>1, PipeParts
        <5>3. tx.pkts + j \in 1..Len(tx.bufs)
          <6> DEFINE n == Len(tx.bufs)
                     p == tx.pkts
                     m == Len(Rest)
          <6>1. n \in Nat /\ p \in Nat /\ m = n - p /\ j \in 1..m
            BY <2>1, TxTypes, PipeType
          <6> HIDE DEF n, p, m
          <6>2. p + j \in 1..n
            BY <6>1
          <6> QED  BY <6>2 DEF n, p
        <5> QED  BY <2>2, <4>1, <5>2, <5>3
      <4>4. CASE \E j \in 1..Len(TX_RING_) : i = Len(to) + Len(Rest) + j
        <5>1. PICK j \in 1..Len(TX_RING_) : i = Len(to) + Len(Rest) + j
          BY <4>4
        <5>2. Pipe[i] = TX_RING_[j]
          BY <2>1, <5>1, PipeParts
        <5> QED  BY <2>2, <4>1, <5>2
      <4> QED  BY <2>1, <4>2, <4>3, <4>4, PipeParts
    <3>3. ASSUME NEW r \in Answers, r.pak_num = num(th)
          PROVE  Among(from, num(th)) \/ rx.pak_num = num(th)
      BY <2>2, <3>3 DEF Answers
    <3> QED  BY <3>1, <3>2, <3>3
  <2> QED  BY <2>3 DEF OnItsWay, Waiting, Busy, num, Flagged
<1> QED  BY <1>1, MatchAlways, PTL

-----------------------------------------------------------------------------
(* What the replies tell                                                   *)

FirstIn(s, i) == \A j \in 1..(i - 1) : s[j].key # s[i].key
LastIn(s, i) == \A j \in (i + 1)..Len(s) : s[j].key # s[i].key
NextIn(s, i, j) == /\ i < j /\ s[i].key = s[j].key
                   /\ \A m \in (i + 1)..(j - 1) : s[m].key # s[i].key

\* v[i] is what is kept under its key after request i, when the requests s are
\* done in order: st is kept now, and lt when all are done.
Chain(s, v, st, lt) ==
    /\ \A i \in 1..Len(s) : FirstIn(s, i) => v[i] = After(s[i], st[s[i].key])
    /\ \A i, j \in 1..Len(s) : NextIn(s, i, j) => v[j] = After(s[j], v[i])
    /\ \A i \in 1..Len(s) : LastIn(s, i) => lt[s[i].key] = v[i]
    /\ \A k \in Keys : (\A i \in 1..Len(s) : s[i].key # k) => lt[k] = st[k]

\* One more request is enqueued.
LEMMA ChainGrows ==
    ASSUME NEW s \in Seq(Packet), NEW v, NEW st \in [Keys -> Kept], NEW lt \in [Keys -> Kept],
           NEW p \in Packet, NEW v2, NEW lt2, NEW after, Chain(s, v, st, lt),
           after = After(p, lt[p.key]), lt2 = [lt EXCEPT ![p.key] = after],
           \A i \in 1..Len(s) : v2[i] = v[i], v2[Len(s) + 1] = after
    PROVE  Chain(Append(s, p), v2, st, lt2)
<1> DEFINE t == Append(s, p)
           n == Len(s)
<1>1. /\ n \in Nat /\ Len(t) = n + 1 /\ t[n + 1] = p /\ \A i \in 1..n : t[i] = s[i]
      /\ p.key \in Keys /\ \A i \in 1..n : s[i] \in Packet /\ s[i].key \in Keys
  <2>1. /\ Len(t) = Len(s) + 1 /\ Len(s) \in Nat
        /\ \A i \in 1..(Len(s) + 1) : t[i] = IF i = Len(s) + 1 THEN p ELSE s[i]
    BY AppendProperties, LenProperties
  <2>2. \A i \in 1..Len(s) : s[i] \in Packet
    BY ElementOfSeq
  <2> QED  BY <2>1, <2>2 DEF Packet
<1>2. /\ lt2[p.key] = after /\ \A k \in Keys : k # p.key => lt2[k] = lt[k]
  BY <1>1
<1>3. /\ \A i \in 1..n : FirstIn(s, i) => v[i] = After(s[i], st[s[i].key])
      /\ \A i, j \in 1..n : NextIn(s, i, j) => v[j] = After(s[j], v[i])
      /\ \A i \in 1..n : LastIn(s, i) => lt[s[i].key] = v[i]
      /\ \A k \in Keys : (\A i \in 1..n : s[i].key # k) => lt[k] = st[k]
  BY DEF Chain
<1>4. (\A i \in 1..n : v2[i] = v[i]) /\ v2[n + 1] = after
  OBVIOUS
<1>5. LastIn(s, n + 1) \in BOOLEAN /\ \A i \in 1..n : LastIn(s, i) <=> \A j \in (i + 1)..n : s[j].key # s[i].key
  BY DEF LastIn
<1> HIDE DEF t, n
<1>6. \A i \in 1..Len(t) : i \in 1..n \/ i = n + 1
  BY <1>1
<1>7. ASSUME NEW i \in 1..Len(t), FirstIn(t, i)
      PROVE  v2[i] = After(t[i], st[t[i].key])
  <2>1. CASE i \in 1..n
    <3>1. FirstIn(s, i)
      <4>1. \A j \in 1..(i - 1) : j \in 1..n
        BY <1>1, <2>1
      <4> QED  BY <1>1, <1>7, <2>1, <4>1 DEF FirstIn
    <3> QED  BY <1>1, <1>3, <1>4, <2>1, <3>1
  <2>2. CASE i = n + 1
    <3>1. \A j \in 1..n : s[j].key # p.key
      <4>1. \A j \in 1..n : j \in 1..(i - 1)
        BY <1>1, <2>2
      <4> QED  BY <1>1, <1>7, <2>2, <4>1 DEF FirstIn
    <3>2. lt[p.key] = st[p.key]
      BY <1>1, <1>3, <3>1
    <3> QED  BY <1>1, <1>4, <2>2, <3>2
  <2> QED  BY <1>6, <2>1, <2>2
<1>8. ASSUME NEW i \in 1..Len(t), NEW j \in 1..Len(t), NextIn(t, i, j)
      PROVE  v2[j] = After(t[j], v2[i])
  <2>1. i < j /\ t[i].key = t[j].key /\ \A m \in (i + 1)..(j - 1) : t[m].key # t[i].key
    BY <1>8 DEF NextIn
  <2>2. i \in 1..n
    BY <1>1, <2>1
  <2>3. CASE j \in 1..n
    <3>1. NextIn(s, i, j)
      <4>1. \A m \in (i + 1)..(j - 1) : m \in 1..n
        BY <1>1, <2>2, <2>3
      <4> QED  BY <1>1, <2>1, <2>2, <2>3, <4>1 DEF NextIn
    <3> QED  BY <1>1, <1>3, <1>4, <2>2, <2>3, <3>1
  <2>4. CASE j = n + 1
    <3>1. LastIn(s, i)
      <4>1. \A m \in (i + 1)..n : m \in (i + 1)..(j - 1) /\ m \in 1..n
        BY <1>1, <2>2, <2>4
      <4> QED  BY <1>1, <1>5, <2>1, <2>2, <4>1
    <3>2. lt[p.key] = v[i]
      BY <1>1, <1>3, <2>1, <2>2, <2>4, <3>1
    <3> QED  BY <1>1, <1>4, <2>2, <2>4, <3>2
  <2> QED  BY <1>6, <2>3, <2>4
<1>9. ASSUME NEW i \in 1..Len(t), LastIn(t, i)
      PROVE  lt2[t[i].key] = v2[i]
  <2>1. CASE i \in 1..n
    <3>1. LastIn(s, i)
      <4>1. \A m \in (i + 1)..n : m \in (i + 1)..Len(t) /\ m \in 1..n
        BY <1>1, <2>1
      <4> QED  BY <1>1, <1>5, <1>9, <2>1, <4>1 DEF LastIn
    <3>2. s[i].key # p.key
      <4>1. n + 1 \in (i + 1)..Len(t)
        BY <1>1, <2>1
      <4> QED  BY <1>1, <1>9, <2>1, <4>1 DEF LastIn
    <3> QED  BY <1>1, <1>2, <1>3, <1>4, <2>1, <3>1, <3>2
  <2>2. CASE i = n + 1
    BY <1>1, <1>2, <1>4, <2>2
  <2> QED  BY <1>6, <2>1, <2>2
<1>10. ASSUME NEW k \in Keys, \A i \in 1..Len(t) : t[i].key # k
       PROVE  lt2[k] = st[k]
  <2>1. n + 1 \in 1..Len(t) /\ \A i \in 1..n : i \in 1..Len(t)
    BY <1>1
  <2>2. k # p.key /\ \A i \in 1..n : s[i].key # k
    BY <1>1, <1>10, <2>1
  <2> QED  BY <1>2, <1>3, <2>2
<1>11. Chain(t, v2, st, lt2)
  BY <1>7, <1>8, <1>9, <1>10 DEF Chain
<1> QED  BY <1>11 DEF t

\* Where the i-th of a sequence without its k-th was.
Skip(k, i) == IF i < k THEN i ELSE i + 1

\* t, v2 and st2 are what s, v and st become when the k-th request is done.
Done(s, v, st, k, t, v2, st2) ==
    /\ v[k] \in Kept /\ FirstIn(s, k) /\ Len(t) = Len(s) - 1
    /\ \A i \in 1..Len(t) : t[i] = s[Skip(k, i)] /\ v2[i] = v[Skip(k, i)]
    /\ st2 = [st EXCEPT ![s[k].key] = v[k]]

\* The first request of its key is done.
LEMMA ChainShrinks ==
    ASSUME NEW s \in Seq(Packet), NEW v, NEW st \in [Keys -> Kept], NEW lt \in [Keys -> Kept],
           NEW k \in 1..Len(s), NEW t, NEW v2, NEW st2, Chain(s, v, st, lt),
           Done(s, v, st, k, t, v2, st2)
    PROVE  Chain(t, v2, st2, lt)
<1> DEFINE g(i) == IF i < k THEN i ELSE i + 1
           n == Len(s)
           key == s[k].key
<1>0. /\ v[k] \in Kept /\ FirstIn(s, k) /\ Len(t) = Len(s) - 1
      /\ \A i \in 1..Len(t) : t[i] = s[g(i)] /\ v2[i] = v[g(i)]
      /\ st2 = [st EXCEPT ![s[k].key] = v[k]]
  BY DEF Done, Skip
<1>1. /\ n \in Nat /\ k \in 1..n /\ Len(t) = n - 1
      /\ \A i \in 1..n : s[i].key \in Keys
      /\ key = s[k].key /\ key \in Keys
  <2>1. \A i \in 1..Len(s) : s[i] \in Packet
    BY ElementOfSeq
  <2> QED  BY <1>0, <2>1, LenProperties DEF Packet
<1>2. st2[key] = v[k] /\ \A x \in Keys : x # key => st2[x] = st[x]
  BY <1>0, <1>1
<1>3. /\ \A i \in 1..n : FirstIn(s, i) => v[i] = After(s[i], st[s[i].key])
      /\ \A i, j \in 1..n : NextIn(s, i, j) => v[j] = After(s[j], v[i])
      /\ \A i \in 1..n : LastIn(s, i) => lt[s[i].key] = v[i]
      /\ \A x \in Keys : (\A i \in 1..n : s[i].key # x) => lt[x] = st[x]
      /\ \A i : LastIn(s, i) <=> \A j \in (i + 1)..n : s[j].key # s[i].key
  BY DEF Chain, LastIn
<1>4. \A i \in 1..Len(t) : t[i] = s[g(i)] /\ v2[i] = v[g(i)]
  BY <1>0
<1> HIDE DEF n, key
<1>5. \A i \in 1..Len(t) : g(i) \in 1..n /\ g(i) # k
  BY <1>1
<1>6. \A i, j \in 1..Len(t) : i < j => g(i) < g(j)
  BY <1>1
<1>7. \A m \in 1..n : m # k => \E i \in 1..Len(t) : g(i) = m
  <2>1. ASSUME NEW m \in 1..n, m < k
        PROVE  m \in 1..Len(t) /\ g(m) = m
    BY <1>1, <2>1
  <2>2. ASSUME NEW m \in 1..n, m > k
        PROVE  m - 1 \in 1..Len(t) /\ g(m - 1) = m
    BY <1>1, <2>2
  <2>3. \A m \in 1..n : m # k => m < k \/ m > k
    BY <1>1
  <2> QED  BY <2>1, <2>2, <2>3
<1>8. \A m \in 1..n : m < k => s[m].key # key
  <2>1. \A m \in 1..n : m < k => m \in 1..(k - 1)
    BY <1>1
  <2> QED  BY <1>0, <1>1, <2>1 DEF FirstIn
<1>9. \A i, j \in 1..Len(t) : g(i) < g(j) => i < j
  BY <1>1
<1> HIDE DEF g
<1>10. ASSUME NEW i \in 1..Len(t), FirstIn(t, i)
       PROVE  v2[i] = After(t[i], st2[t[i].key])
  <2>1. \A j \in 1..Len(t) : j < i => s[g(j)].key # s[g(i)].key
    <3>1. \A j \in 1..Len(t) : j < i => j \in 1..(i - 1)
      BY <1>1
    <3> QED  BY <1>4, <1>10, <3>1 DEF FirstIn
  <2>2. \A m \in 1..n : m < g(i) /\ m # k => s[m].key # s[g(i)].key
    BY <1>7, <1>9, <2>1
  <2>3. CASE s[g(i)].key # key
    <3>1. \A m \in 1..n : m < g(i) => s[m].key # s[g(i)].key
      BY <1>1, <2>2, <2>3
    <3>2. \A m \in 1..(g(i) - 1) : m \in 1..n /\ m < g(i)
      BY <1>1, <1>5
    <3>3. FirstIn(s, g(i))
      BY <3>1, <3>2 DEF FirstIn
    <3>4. g(i) \in 1..n /\ t[i] = s[g(i)] /\ v2[i] = v[g(i)]
      BY <1>4, <1>5
    <3>5. v[g(i)] = After(s[g(i)], st[s[g(i)].key])
      BY <1>3, <3>3, <3>4
    <3>6. st2[s[g(i)].key] = st[s[g(i)].key]
      BY <1>1, <1>2, <2>3, <3>4
    <3> QED  BY <3>4, <3>5, <3>6
  <2>4. CASE s[g(i)].key = key
    <3>1. k < g(i)
      BY <1>1, <1>5, <1>8, <2>4
    <3>2. \A m \in (k + 1)..(g(i) - 1) : m \in 1..n /\ m < g(i) /\ m # k
      BY <1>1, <1>5
    <3>3. NextIn(s, k, g(i))
      BY <1>1, <2>2, <2>4, <3>1, <3>2 DEF NextIn
    <3>4. v[g(i)] = After(s[g(i)], v[k])
      BY <1>1, <1>3, <1>5, <3>3
    <3> QED  BY <1>2, <1>4, <2>4, <3>4
  <2> QED  BY <2>3, <2>4
<1>11. ASSUME NEW i \in 1..Len(t), NEW j \in 1..Len(t), NextIn(t, i, j)
       PROVE  v2[j] = After(t[j], v2[i])
  <2>0. PICK a \in 1..n, b \in 1..n : a = g(i) /\ b = g(j)
    BY <1>5
  <2>1. i < j /\ t[i].key = t[j].key /\ \A m \in (i + 1)..(j - 1) : t[m].key # t[i].key
    BY <1>11 DEF NextIn
  <2>2. a < b /\ s[a].key = s[b].key
    BY <1>4, <1>6, <2>0, <2>1
  <2>3. \A m \in (a + 1)..(b - 1) : m \in 1..n /\ a < m /\ m < b
    BY <1>1
  <2>4. ASSUME NEW m \in (a + 1)..(b - 1), m # k
        PROVE  s[m].key # s[a].key
    <3>1. PICK x \in 1..Len(t) : g(x) = m
      BY <1>7, <2>3, <2>4
    <3>2. i < x /\ x < j
      BY <1>9, <2>0, <2>3, <3>1
    <3>3. x \in (i + 1)..(j - 1)
      BY <1>1, <3>2
    <3> QED  BY <1>4, <2>0, <2>1, <3>1, <3>3
  <2>5. \A m \in (a + 1)..(b - 1) : m = k => s[m].key # s[a].key
    BY <1>1, <1>8, <2>3
  <2>6. NextIn(s, a, b)
    BY <2>2, <2>4, <2>5 DEF NextIn
  <2>7. v[b] = After(s[b], v[a])
    BY <1>3, <2>6
  <2> QED  BY <1>4, <2>0, <2>7
<1>12. ASSUME NEW i \in 1..Len(t), LastIn(t, i)
       PROVE  lt[t[i].key] = v2[i]
  <2>0. PICK a \in 1..n : a = g(i)
    BY <1>5
  <2>1. \A m \in (a + 1)..n : m \in 1..n /\ a < m
    BY <1>1
  <2>2. ASSUME NEW m \in (a + 1)..n
        PROVE  s[m].key # s[a].key
    <3>1. CASE m = k
      BY <1>1, <1>8, <2>1, <3>1
    <3>2. CASE m # k
      <4>1. PICK x \in 1..Len(t) : g(x) = m
        BY <1>7, <2>1, <3>2
      <4>2. i < x
        BY <1>9, <2>0, <2>1, <4>1
      <4>3. x \in (i + 1)..Len(t)
        BY <1>1, <4>2
      <4> QED  BY <1>4, <1>12, <2>0, <4>1, <4>3 DEF LastIn
    <3> QED  BY <3>1, <3>2
  <2>3. LastIn(s, a)
    <3>1. \A m \in (a + 1)..n : s[m].key # s[a].key
      BY <2>2
    <3> QED  BY <3>1, Zenon DEF LastIn, n
  <2>4. lt[s[a].key] = v[a]
    <3>1. \A m \in 1..n : LastIn(s, m) => lt[s[m].key] = v[m]
      BY <1>3
    <3> QED  BY <2>3, <3>1, Zenon
  <2> QED  BY <1>4, <2>0, <2>4
<1>13. ASSUME NEW x \in Keys, \A i \in 1..Len(t) : t[i].key # x
       PROVE  lt[x] = st2[x]
  <2>1. \A m \in 1..n : m # k => s[m].key # x
    <3>1. ASSUME NEW m \in 1..n, m # k
          PROVE  s[m].key # x
      <4>1. PICK i \in 1..Len(t) : g(i) = m
        BY <1>7, <3>1
      <4>2. t[i] = s[m]
        BY <1>4, <4>1
      <4> QED  BY <1>13, <4>2
    <3> QED  BY <3>1
  <2>2. CASE x = key
    <3>1. \A m \in (k + 1)..n : m \in 1..n /\ m # k
      BY <1>1
    <3>2. LastIn(s, k)
      BY <1>1, <1>3, <2>1, <2>2, <3>1
    <3> QED  BY <1>1, <1>2, <1>3, <2>2, <3>2
  <2>3. CASE x # key
    <3>1. \A m \in 1..n : s[m].key # x
      BY <1>1, <2>1, <2>3
    <3> QED  BY <1>2, <1>3, <2>3, <3>1
  <2> QED  BY <2>2, <2>3
<1> QED  BY <1>10, <1>11, <1>12, <1>13 DEF Chain

\* What a request of the pipe leaves under its key: what its thread expects to
\* be told of, or what the request writes there.
Res(p) == IF p.op \in Answered THEN call[p.thread].expect ELSE After(p, Gone)
Results == [i \in 1..Len(Pipe) |-> Res(Pipe[i])]

\* What was told is what was expected.
Told ==
    /\ \A r \in Answers : r.value = call[r.thread].expect
    /\ \A th \in Waiting : Flagged(th) => buf[th].value = call[th].expect

Values == lost = {} => Chain(Pipe, Results, store, latest) /\ Told

\* Requests without an answer do not depend on what was kept.
LEMMA AfterBlind ==
    ASSUME NEW p \in Packet, p.op \notin Answered, NEW x, NEW y
    PROVE  After(p, x) = After(p, y)
<1>1. p.op \in {"WRITE", "WRITE_HASH"} \/ p.op \in {"DEALLOC", "DEALLOC_HASH"}
  BY DEF Packet, Ops, Answered
<1>2. CASE p.op \in {"WRITE", "WRITE_HASH"}
  BY <1>2 DEF After
<1>3. CASE p.op \in {"DEALLOC", "DEALLOC_HASH"}
  BY <1>3 DEF After
<1> QED  BY <1>1, <1>2, <1>3

LEMMA ResIsKept ==
    ASSUME Shape, Asked, NEW i \in 1..Len(Pipe)
    PROVE  Res(Pipe[i]) \in Kept
<1>1. Pipe[i] \in Packet /\ Gone \in Kept
  BY PipeType DEF Kept
<1>2. CASE Pipe[i].op \in Answered
  BY <1>2, BusyTypes DEF Asked, Waiting, Res
<1>3. CASE Pipe[i].op \notin Answered
  BY <1>1, <1>3, AfterIsKept DEF Res
<1> QED  BY <1>2, <1>3

\* Steps that change nothing of what is in the pipe, nor what was told.
LEMMA SameValues ==
    ASSUME Match, Values, lost' = {} => lost = {} /\ Pipe' = Pipe, UNCHANGED <<store, latest, buf>>,
           \A i \in 1..Len(Pipe) : Pipe[i].op \in Answered =>
               call'[Pipe[i].thread].expect = call[Pipe[i].thread].expect,
           \A r \in Answers' : r \in Answers /\ call'[r.thread].expect = call[r.thread].expect,
           \A th \in Waiting' : (Flagged(th))' =>
               th \in Waiting /\ Flagged(th) /\ call'[th].expect = call[th].expect
    PROVE  Values'
<1> SUFFICES ASSUME lost' = {}
             PROVE  (Chain(Pipe, Results, store, latest) /\ Told)'
  BY DEF Values
<1>1. Chain(Pipe, Results, store, latest) /\ Told /\ Pipe' = Pipe
  BY DEF Values
<1>2. \A i \in 1..Len(Pipe) : (Res(Pipe[i]))' = Res(Pipe[i])
  BY <1>1 DEF Res
<1>3. Results' = Results
  BY <1>1, <1>2 DEF Results
<1>4. Told'
  <2>1. \A r \in Answers' : r.value = call'[r.thread].expect
    BY <1>1 DEF Told
  <2>2. \A th \in Waiting' : (Flagged(th))' => buf'[th].value = call'[th].expect
    BY <1>1 DEF Told
  <2> QED  BY <2>1, <2>2 DEF Told
<1> QED  BY <1>1, <1>3, <1>4 DEF Chain, FirstIn, LastIn, NextIn

LEMMA EnqueueValues ==
    ASSUME Match, Values, NEW th \in Threads, Enqueue(th)
    PROVE  Values'
<1> SUFFICES ASSUME lost' = {}
             PROVE  (Chain(Pipe, Results, store, latest) /\ Told)'
  BY DEF Values
<1>1. Shape /\ Unique /\ Own /\ Asked /\ Awaited /\ FlagSound
  BY DEF Match, Once
<1> DEFINE after == After(call[th].packet, latest[call[th].packet.key])
<1>2. /\ th \in Numbered
      /\ \A u \in Threads : u # th => call'[u] = call[u]
      /\ \A u \in Busy' : call'[u].packet = call[u].packet /\ (num(u))' = num(u)
      /\ \/ th \notin Busy' /\ call[th].packet.op \notin Answered
         \/ /\ th \in Busy' /\ call[th].packet.op \in Answered /\ call'[th].at = "waiting"
            /\ call'[th].expect = after
      /\ latest' = [latest EXCEPT ![call[th].packet.key] = after]
      /\ UNCHANGED <<buf, from, store, rx, packet_received>>
  BY <1>1, EnqueueCalls
<1>3. PICK p \in Packet : p = call[th].packet /\ p.thread = th
  BY <1>1, <1>2, BusyTypes DEF Own
<1>4. Pipe' = Append(Pipe, p) /\ lost = {}
  BY <1>1, <1>3, EnqueuePipe
<1>5. /\ Pipe \in Seq(Packet) /\ Len(Pipe) \in Nat
      /\ Len(Pipe') = Len(Pipe) + 1 /\ Pipe'[Len(Pipe) + 1] = p
      /\ \A i \in 1..Len(Pipe) : i \in 1..Len(Pipe') /\ Pipe'[i] = Pipe[i]
      /\ Len(Pipe) + 1 \in 1..Len(Pipe')
  BY <1>1, <1>4, AppendParts, PipeType
<1>6. \A u \in Waiting : u # th /\ call'[u] = call[u]
  BY <1>1, <1>2, WaitTypes
<1>7. Chain(Pipe, Results, store, latest) /\ Told
  BY <1>4 DEF Values
<1> DEFINE Left(q) == IF q.op \in Answered THEN call'[q.thread].expect ELSE After(q, Gone)
<1>8. \A i \in 1..Len(Pipe) : Left(Pipe[i]) = Res(Pipe[i])
  <2>1. \A i \in 1..Len(Pipe) : Pipe[i].op \in Answered =>
            call'[Pipe[i].thread].expect = call[Pipe[i].thread].expect
    BY <1>1, <1>6 DEF Asked
  <2> QED  BY <2>1 DEF Res
<1>9. Left(p) = after
  <2>1. CASE p.op \in Answered
    BY <1>2, <1>3, <2>1
  <2>2. CASE p.op \notin Answered
    <3>1. After(p, Gone) = after
      BY <1>3, <2>2, AfterBlind
    <3> QED  BY <2>2, <3>1
  <2> QED  BY <2>1, <2>2
<1>10. /\ \A i \in 1..Len(Pipe) : Results'[i] = Results[i]
       /\ Results'[Len(Pipe) + 1] = after
  <2>1. Results' = [i \in 1..Len(Pipe') |-> Left(Pipe'[i])]
    BY DEF Results, Res
  <2> HIDE DEF Left
  <2>2. \A i \in 1..Len(Pipe) : Results'[i] = Left(Pipe[i])
    BY <1>5, <2>1
  <2>3. \A i \in 1..Len(Pipe) : Results[i] = Res(Pipe[i])
    BY DEF Results
  <2>4. Results'[Len(Pipe) + 1] = Left(p)
    BY <1>5, <2>1
  <2> QED  BY <1>8, <1>9, <2>2, <2>3, <2>4
<1>11. Chain(Pipe', Results', store', latest')
  <2> DEFINE s == Pipe
             v == Results
             v2 == Results'
             lt2 == latest'
  <2>1. /\ s \in Seq(Packet) /\ store \in [Keys -> Kept] /\ latest \in [Keys -> Kept]
        /\ Chain(s, v, store, latest) /\ after = After(p, latest[p.key])
        /\ lt2 = [latest EXCEPT ![p.key] = after]
        /\ (\A i \in 1..Len(s) : v2[i] = v[i]) /\ v2[Len(s) + 1] = after
    BY <1>1, <1>2, <1>3, <1>5, <1>7, <1>10, CallTypes, WireTypes
  <2> HIDE DEF s, v, v2, lt2, after
  <2>2. Chain(Append(s, p), v2, store, lt2)
    BY <2>1, ChainGrows
  <2> QED  BY <1>2, <1>4, <2>2 DEF s, v, v2, lt2
<1>12. Told'
  <2>1. Answers' = Answers
    BY <1>2 DEF Answers
  <2>2. \A r \in Answers : r.value = call'[r.thread].expect
    BY <1>1, <1>6, <1>7 DEF Told, Awaited
  <2>3. ASSUME NEW u \in Waiting', (Flagged(u))'
        PROVE  buf'[u].value = call'[u].expect
    <3>1. (num(u))' = num(u) /\ u \in Busy' /\ u \in Threads
      BY <1>2 DEF Waiting, Busy
    <3>2. Flagged(u)
      BY <1>2, <2>3, <3>1 DEF Flagged
    <3>3. CASE u = th
      <4>1. Rests'
        BY EnqueueMatch
      <4>2. (\A i \in 1..Len(Pipe) : Pipe[i].pak_num # num(u))'
        BY <2>3, <4>1 DEF Rests, FlagSound
      <4>3. \A i \in 1..Len(Pipe') : Pipe'[i].pak_num # num(u)
        BY <3>1, <4>2
      <4>4. p.pak_num = num(u)
        BY <1>3, <3>3 DEF num
      <4> QED  BY <1>5, <4>3, <4>4
    <3>4. CASE u # th
      <4>1. u \in Waiting
        BY <1>2, <2>3, <3>1, <3>4 DEF Waiting, Busy
      <4> QED  BY <1>2, <1>6, <1>7, <3>2, <4>1 DEF Told
    <3> QED  BY <3>3, <3>4
  <2> QED  BY <2>1, <2>2, <2>3 DEF Told
<1> QED  BY <1>11, <1>12

LEMMA ServeValues ==
    ASSUME Match, Values, NEW s \in Slaves, Serve(s)
    PROVE  Values'
<1> SUFFICES ASSUME lost' = {}
             PROVE  (Chain(Pipe, Results, store, latest) /\ Told)'
  BY DEF Values
<1>1. Shape /\ Asked /\ Awaited /\ FlagSound
  BY DEF Match, Once
<1>2. PICK k \in 1..Len(to) :
        /\ Arrives(s, k) /\ k \in 1..Len(Pipe) /\ Pipe[k] = to[k] /\ Pipe[k] \in Packet
        /\ to' = RemoveAt(to, k)
        /\ store' = [store EXCEPT ![Pipe[k].key] = After(Pipe[k], store[Pipe[k].key])]
        /\ Replied(k) \in Reply /\ Replied(k).thread = Pipe[k].thread
        /\ Replied(k).value = After(Pipe[k], store[Pipe[k].key])
        /\ \/ Pipe[k].op \in Answered /\ from' = Append(from, Replied(k))
           \/ Pipe[k].op \notin Answered /\ from' = from
        /\ UNCHANGED <<callVars, TX_RING_, tx, rx, packet_received, latest, lost>>
  BY <1>1, ServeParts
<1>3. UNCHANGED <<call, buf, rx, packet_received, latest>> /\ lost = {}
  BY <1>2 DEF callVars
<1>4. Chain(Pipe, Results, store, latest) /\ Told
  BY <1>3 DEF Values
\* It is the first of its key: the key is its slave's, and so are those before it.
<1>5. FirstIn(Pipe, k)
  <2>1. \A j \in 1..(k - 1) : j \in 1..Len(to)
    BY <1>1, PipeType
  <2>2. \A j \in 1..(k - 1) : Home[to[j].key] # Home[to[k].key]
    BY <1>2 DEF Arrives
  <2>3. \A j \in 1..(k - 1) : Pipe[j] = to[j]
    BY <1>1, <2>1, PipeParts
  <2> QED  BY <1>2, <2>2, <2>3 DEF FirstIn
<1>6. Results[k] = Res(Pipe[k]) /\ Res(Pipe[k]) = After(Pipe[k], store[Pipe[k].key])
      /\ Results[k] \in Kept
  <2>1. Results[k] = Res(Pipe[k])
    BY <1>2 DEF Results
  <2>2. Results[k] = After(Pipe[k], store[Pipe[k].key])
    BY <1>2, <1>4, <1>5 DEF Chain
  <2> QED  BY <1>1, <1>2, <2>1, <2>2, ResIsKept
<1>7. /\ Len(Pipe') = Len(Pipe) - 1
      /\ \A i \in 1..Len(Pipe') : Pipe'[i] = Pipe[IF i < k THEN i ELSE i + 1]
  BY <1>1, <1>2, CutPipe
<1>8. /\ Len(Pipe) \in Nat
      /\ \A i \in 1..Len(Pipe') : (IF i < k THEN i ELSE i + 1) \in 1..Len(Pipe)
  BY <1>1, <1>2, <1>7, PipeType
<1>9. \A i \in 1..Len(Pipe') : Results'[i] = Results[IF i < k THEN i ELSE i + 1]
  <2>1. Results' = [i \in 1..Len(Pipe') |-> Res(Pipe'[i])]
    BY <1>3 DEF Results, Res
  <2>2. ASSUME NEW i \in 1..Len(Pipe')
        PROVE  Results'[i] = Results[IF i < k THEN i ELSE i + 1]
    <3>1. PICK j \in 1..Len(Pipe) : j = IF i < k THEN i ELSE i + 1
      BY <1>8
    <3>2. Results'[i] = Res(Pipe[j])
      BY <1>7, <2>1, <3>1
    <3> QED  BY <3>1, <3>2 DEF Results
  <2> QED  BY <2>2
<1>10. Chain(Pipe', Results', store', latest')
  <2> DEFINE u == Pipe
             v == Results
             t == Pipe'
             v2 == Results'
             st2 == store'
  <2>1. /\ u \in Seq(Packet) /\ store \in [Keys -> Kept] /\ latest \in [Keys -> Kept]
        /\ k \in 1..Len(u) /\ Chain(u, v, store, latest)
    BY <1>1, <1>2, <1>4, PipeType, CallTypes, WireTypes
  <2>2. Done(u, v, store, k, t, v2, st2)
    BY <1>2, <1>5, <1>6, <1>7, <1>9 DEF Done, Skip
  <2> HIDE DEF u, v, t, v2, st2
  <2>3. Chain(t, v2, st2, latest)
    BY <2>1, <2>2, ChainShrinks
  <2> QED  BY <1>3, <2>3 DEF u, v, t, v2, st2
<1>11. Told'
  <2>1. \A r \in Answers' : r \in Answers \/ (Pipe[k].op \in Answered /\ r = Replied(k))
    <3>1. CASE Pipe[k].op \in Answered /\ from' = Append(from, Replied(k))
      BY <1>1, <1>2, <1>3, <3>1, AppendReply
    <3>2. CASE from' = from
      BY <1>3, <3>2 DEF Answers
    <3> QED  BY <1>2, <3>1, <3>2
  <2>2. Pipe[k].op \in Answered => Replied(k).value = call[Replied(k).thread].expect
    BY <1>2, <1>6 DEF Res
  <2>3. \A r \in Answers' : r.value = call[r.thread].expect
    BY <1>4, <2>1, <2>2 DEF Told
  <2>4. \A th \in Waiting : Flagged(th) => buf[th].value = call[th].expect
    BY <1>4 DEF Told
  <2>5. Waiting' = Waiting /\ \A th : (Flagged(th))' = Flagged(th)
    BY <1>3 DEF Waiting, Busy, Flagged, num
  <2> QED  BY <1>3, <2>3, <2>4, <2>5 DEF Told
<1> QED  BY <1>10, <1>11

LEMMA ReceiveValues ==
    ASSUME Match, Values, dpdk_recv_worker
    PROVE  Values'
<1> SUFFICES ASSUME lost' = {}
             PROVE  (Chain(Pipe, Results, store, latest) /\ Told)'
  BY DEF Values
<1>1. Shape /\ Awaited
  BY DEF Match, Once
<1>2. /\ rx = NoReply /\ from # <<>> /\ rx' = Head(from) /\ from' = Tail(from)
      /\ buf' = [buf EXCEPT ![rx'.thread] = [pak_num |-> rx'.pak_num, value |-> rx'.value]]
      /\ UNCHANGED <<call, TX_RING_, tx, to, packet_received, store, latest>> /\ lost = {}
  BY DEF dpdk_recv_worker
<1>3. Chain(Pipe, Results, store, latest) /\ Told
  BY <1>2 DEF Values
<1>4. Pipe' = Pipe /\ Results' = Results
  BY <1>2, SamePipe DEF Results, Res
<1>5. /\ Head(from) \in Reply /\ 1 \in 1..Len(from) /\ Head(from) = from[1]
      /\ {from[i] : i \in 1..Len(from)} = {from'[i] : i \in 1..Len(from')} \cup {Head(from)}
  BY <1>1, <1>2, TakeReply
<1>6. Answers' \subseteq Answers /\ Head(from) \in Answers
  BY <1>2, <1>5 DEF Answers
<1>7. ~ Flagged(rx'.thread) /\ rx'.thread \in Threads
  BY <1>1, <1>2, <1>5, <1>6 DEF Awaited, Reply
<1>8. Waiting' = Waiting /\ \A th : (Flagged(th))' = Flagged(th)
  BY <1>2 DEF Waiting, Busy, Flagged, num
<1>9. \A th \in Waiting : Flagged(th) => buf'[th] = buf[th]
  BY <1>1, <1>2, <1>7, WaitTypes, CallTypes
<1>10. Told'
  BY <1>2, <1>3, <1>6, <1>8, <1>9 DEF Told
<1> QED  BY <1>2, <1>3, <1>4, <1>10

LEMMA FlagValues ==
    ASSUME Match, Values, dpdk_recv_worker_flag
    PROVE  Values'
<1> SUFFICES ASSUME lost' = {}
             PROVE  (Chain(Pipe, Results, store, latest) /\ Told)'
  BY DEF Values
<1>1. Shape /\ Unique /\ Own /\ Awaited
  BY DEF Match, Once
<1>2. /\ rx # NoReply /\ rx' = NoReply
      /\ packet_received' = [packet_received EXCEPT ![id(rx.pak_num)] = TRUE]
      /\ UNCHANGED <<call, buf, packet_number, TX_RING_, tx, to, from, store, latest>> /\ lost = {}
  BY DEF dpdk_recv_worker_flag, callVars, wireVars
<1>3. Chain(Pipe, Results, store, latest) /\ Told
  BY <1>2 DEF Values
<1>4. Pipe' = Pipe /\ Results' = Results
  BY <1>2, SamePipe DEF Results, Res
<1>5. rx \in Answers /\ Answers' \subseteq Answers
  BY <1>2 DEF Answers
<1>6. PICK t : t = rx.thread
  OBVIOUS
<1>7. t \in Waiting /\ num(t) = rx.pak_num /\ buf[t].value = call[t].expect
  BY <1>1, <1>2, <1>3, <1>5, <1>6 DEF Awaited, Told
<1>8. Waiting' = Waiting /\ Waiting \subseteq Busy /\ \A u : (num(u))' = num(u)
  BY <1>1, <1>2, WaitTypes DEF Waiting, Busy, num
<1>9. ASSUME NEW u \in Waiting, (Flagged(u))', u # t
      PROVE  Flagged(u)
  <2>1. id(num(u)) # id(num(t))
    BY <1>1, <1>7, <1>8, <1>9, SameId DEF Own
  <2>2. id(num(u)) \in 0..(TRANSPORT_WINDOW_SIZE - 1)
    BY <1>1, <1>8, WaitTypes
  <2>3. packet_received'[id(num(u))]
    BY <1>8, <1>9 DEF Flagged, id
  <2>4. packet_received[id(num(u))]
    BY <1>1, <1>2, <1>7, <2>1, <2>2, <2>3, CallTypes
  <2> QED  BY <2>4 DEF Flagged
<1>10. Told'
  <2>1. \A u \in Waiting : (Flagged(u))' => buf[u].value = call[u].expect
    BY <1>3, <1>7, <1>9 DEF Told
  <2> QED  BY <1>2, <1>3, <1>5, <1>8, <2>1 DEF Told
<1> QED  BY <1>2, <1>3, <1>4, <1>10

LEMMA WaitValues ==
    ASSUME Match, Values, NEW th \in Threads, dpdkWaitFor(th)
    PROVE  Values'
<1>1. Shape /\ Unique /\ Own /\ Asked /\ Awaited /\ FlagSound
  BY DEF Match, Once
<1>2. /\ th \in Busy /\ call[th].at = "waiting" /\ Busy' = Busy \ {th}
      /\ \A u \in Busy' : call'[u] = call[u] /\ (num(u))' = num(u)
      /\ packet_received[id(num(th))]
      /\ packet_received' = [packet_received EXCEPT ![id(num(th))] = FALSE]
      /\ UNCHANGED <<buf, TX_RING_, tx, to, from, rx, store, latest, lost>>
  BY <1>1, WaitCalls
<1>3. Pipe' = Pipe /\ Answers' = Answers
  BY <1>2, SamePipe DEF Answers
<1>4. /\ Waiting' = Waiting \ {th} /\ th \in Waiting /\ Flagged(th) /\ Waiting \subseteq Busy
  BY <1>2 DEF Waiting, Flagged
<1>5. \A u \in Waiting : u # th => u \in Busy' /\ call'[u] = call[u]
  BY <1>2, <1>4
<1>6. \A i \in 1..Len(Pipe) : Pipe[i].op \in Answered =>
          call'[Pipe[i].thread].expect = call[Pipe[i].thread].expect
  <2>1. \A i \in 1..Len(Pipe) : Pipe[i].pak_num # num(th)
    BY <1>1, <1>4 DEF FlagSound
  <2> QED  BY <1>1, <1>5, <2>1 DEF Asked, num
<1>7. \A r \in Answers' : r \in Answers /\ call'[r.thread].expect = call[r.thread].expect
  BY <1>1, <1>3, <1>4, <1>5 DEF Awaited
<1>8. ASSUME NEW u \in Waiting', (Flagged(u))'
      PROVE  u \in Waiting /\ Flagged(u) /\ call'[u].expect = call[u].expect
  <2>1. u \in Waiting /\ u # th /\ (num(u))' = num(u)
    BY <1>2, <1>4, <1>8
  <2>2. id(num(u)) \in 0..(TRANSPORT_WINDOW_SIZE - 1) /\ packet_received'[id(num(u))]
    BY <1>1, <1>4, <1>8, <2>1, WaitTypes DEF Flagged, id
  <2>3. Flagged(u)
    BY <1>1, <1>2, <2>2, CallTypes DEF Flagged
  <2> QED  BY <1>5, <2>1, <2>3
<1> QED  BY <1>2, <1>3, <1>6, <1>7, <1>8, SameValues

LEMMA BeginValues ==
    ASSUME Match, Values, NEW th \in Threads, NEW k \in Keys, NEW op \in Ops, Begin(th, op, k)
    PROVE  Values'
<1>1. Shape /\ Asked /\ Awaited
  BY DEF Match, Once
<1>2. /\ Busy' = Busy \cup {th} /\ th \notin Busy /\ \A u \in Busy : call'[u] = call[u]
      /\ call'[th].at = "numbered"
      /\ UNCHANGED <<buf, TX_RING_, tx, to, from, rx, packet_received, store, latest, lost>>
  BY <1>1, BeginCalls
<1>3. Waiting' = Waiting /\ Answers' = Answers /\ Pipe' = Pipe /\ Waiting \subseteq Busy
      /\ \A u \in Busy : (Flagged(u))' = Flagged(u)
  BY <1>2, SamePipe DEF Waiting, Answers, Flagged, num
<1>4. \A i \in 1..Len(Pipe) : Pipe[i].op \in Answered =>
          call'[Pipe[i].thread].expect = call[Pipe[i].thread].expect
  BY <1>1, <1>2, <1>3 DEF Asked
<1>5. \A r \in Answers' : r \in Answers /\ call'[r.thread].expect = call[r.thread].expect
  BY <1>1, <1>2, <1>3 DEF Awaited
<1>6. \A u \in Waiting' : (Flagged(u))' =>
          u \in Waiting /\ Flagged(u) /\ call'[u].expect = call[u].expect
  BY <1>2, <1>3
<1> QED  BY <1>2, <1>3, <1>4, <1>5, <1>6, SameValues

LEMMA ValuesNext == Match /\ Values /\ NoSplit /\ [Next]_vars => Values'
<1> SUFFICES ASSUME Match, Values, NoSplit, [Next]_vars
             PROVE  Values'
  OBVIOUS
<1>1. Shape /\ Whole /\ Unique
  BY DEF Match, Once
<1>2. ASSUME UNCHANGED <<call, buf, packet_received, from, rx, store, latest>>,
             lost' = {} => lost = {} /\ Pipe' = Pipe
      PROVE  Values'
  <2>1. /\ Answers' = Answers /\ Waiting' = Waiting
        /\ \A u : (Flagged(u))' = Flagged(u)
    BY <1>2 DEF Answers, Waiting, Busy, Flagged, num
  <2> QED  BY <1>2, <2>1, SameValues
<1>3. ASSUME NEW th \in Threads, Enqueue(th) \/ dpdkWaitFor(th) \/ \E k \in Keys : Call(th, k)
      PROVE  Values'
  BY <1>3, EnqueueValues, WaitValues, BeginValues, CallBegins
<1>4. CASE dpdk_lcore_tx
  <2>1. UNCHANGED <<call, buf, packet_received, from, rx, store, latest, lost>>
    BY <1>4 DEF dpdk_lcore_tx, callVars, wireVars
  <2>2. Pipe' = Pipe
    BY <1>1, <1>4, FetchPipe
  <2> QED  BY <1>2, <2>1, <2>2
<1>5. CASE send_burst_fast
  <2>1. UNCHANGED <<call, buf, packet_received, from, rx, store, latest, lost>>
    BY <1>5 DEF send_burst_fast, callVars
  <2>2. Pipe' = Pipe
    BY <1>1, <1>5, SendPipe DEF NoSplit
  <2> QED  BY <1>2, <2>1, <2>2
<1>6. CASE send_burst_fast_End
  <2>1. UNCHANGED <<call, buf, packet_received, from, rx, store, latest>>
    BY <1>6 DEF send_burst_fast_End, callVars, wireVars
  <2>2. lost' = {} => lost = {} /\ Pipe' = Pipe
    BY <1>1, <1>6, EndPipe
  <2> QED  BY <1>2, <2>1, <2>2
<1>7. ASSUME NEW s \in Slaves, LoseRequest(s)
      PROVE  Values'
  <2>1. lost' # {}
    BY <1>7 DEF LoseRequest
  <2> QED  BY <2>1 DEF Values
<1>8. CASE LoseReply
  <2>1. lost' # {}
    BY <1>8 DEF LoseReply
  <2> QED  BY <2>1 DEF Values
<1>9. CASE UNCHANGED vars
  <2>1. UNCHANGED <<call, buf, packet_received, from, rx, store, latest, lost, to, tx, TX_RING_>>
    BY <1>9 DEF vars, callVars, wireVars
  <2>2. Pipe' = Pipe
    BY <2>1, SamePipe
  <2> QED  BY <1>2, <2>1, <2>2
<1> QED
  BY <1>3, <1>4, <1>5, <1>6, <1>7, <1>8, <1>9, ServeValues, ReceiveValues, FlagValues DEF Next

LEMMA ValuesInit == Init => Values
<1> SUFFICES ASSUME Init
             PROVE  Values
  OBVIOUS
<1>1. /\ Waiting = {} /\ tx = NoBurst /\ TX_RING_ = <<>> /\ to = <<>> /\ from = <<>>
      /\ rx = NoReply /\ latest = store
  BY DEF Init, Busy, Waiting
<1>2. Len(Pipe) = 0 /\ Len(from) = 0
  <2>1. Rest = <<>>
    BY <1>1, EmptySeq, SubSeqEmpty DEF Rest, NoBurst
  <2> QED  BY <1>1, <2>1, EmptySeq, ConcatEmptySeq DEF Pipe
<1>3. Answers = {}
  BY <1>1, <1>2 DEF Answers
<1>4. Chain(Pipe, Results, store, latest)
  BY <1>1, <1>2 DEF Chain
<1> QED  BY <1>1, <1>3, <1>4 DEF Values, Told

\* A thread that finds the flag of its number set reads, as long as nothing was
\* lost, what the last request enqueued for its key before its own has left
\* there, although writes are not waited for.
THEOREM RepliesAreCurrent ==
    ASSUME "some" \notin NicTakes, BigEnough
    PROVE  Spec => []ReadsWhatWasWritten
<1>1. Match /\ Values => ReadsWhatWasWritten
  BY DEF Values, Told, Flagged, Waiting, Busy, num, ReadsWhatWasWritten
<1>2. Match /\ Values /\ [Next]_vars => Values'
  BY ValuesNext DEF NoSplit
<1> QED  BY <1>1, <1>2, ValuesInit, MatchAlways, PTL DEF Spec

==============================================================================
