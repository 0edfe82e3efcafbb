------------------------ MODULE TimerThreadTheorems ------------------------
(***************************************************************************)
(* Proofs about TimerThread, for any number of threads and timers, any     *)
(* delays, and the Faults that each theorem names.                         *)
(***************************************************************************)
EXTENDS TimerThread, SequenceTheorems, TLAPS

-----------------------------------------------------------------------------
(* The invariants                                                          *)

\* The handler that the worker is in, if any, is that of a timer that is due;
\* only a timer that somebody asked to clear is no longer marked as running.
HandlerOK ==
    IF worker.at = "calling"
    THEN /\ worker.id \in 1..(nextId - 1)
         /\ next[worker.id] <= 0
         /\ running[worker.id] \/ worker.id \in asked
    ELSE worker.id = no_timer

\* A thread clears a timer that it asked for.
CallsOK ==
    \A th \in Threads :
        /\ call[th].at \in {"waiting", "woken"} => call[th].id \in asked
        /\ call[th].at = "notify_clear" => call[th].id \in asked \cup {no_timer}

\* The timers of a queue; none is there twice.
Members(q) == {q[i] : i \in 1..Len(q)}
OnceEach(q) == \A i, j \in 1..Len(q) : q[i] = q[j] => i = j

Queued == Members(queue)

\* What is queued has been created.
QueueOK == Queued \subseteq 1..(nextId - 1)

TypeInv == TypeOK /\ HandlerOK /\ CallsOK /\ QueueOK

\* The queue and the handler share the active timers out; if two timers can have
\* one instant, one may be in neither.
QueuedOnce == OnceEach(queue)
Shared ==
    /\ Queued \subseteq active
    /\ "coarse" \in Faults \/ active \subseteq Queued \cup {worker.id}
    /\ worker.id \notin Queued
    /\ active \subseteq 1..(nextId - 1)
    /\ worker.at = "calling" /\ running[worker.id] => worker.id \in active

QueueInv == TypeInv /\ QueuedOnce /\ Shared

\* A timer that is gone is not active, and not in its handler.
Gone(id) == id < nextId /\ id \notin active /\ worker.id # id

\* A timer runs in its handler only, and until somebody asks to clear it.
RunningOK ==
    /\ \A id \in Ids : running[id] => worker.id = id /\ id \in active
    /\ worker.at = "calling" /\ worker.id \notin asked => running[worker.id]
    /\ asked \subseteq 1..(nextId - 1)
    /\ current_clearing_timer \in asked \cup {no_timer}

\* Who waits for a handler, waits for one that the worker is in.
WaitingOK ==
    \A th \in Threads :
        call[th].at = "waiting" => worker.id = call[th].id /\ ~running[call[th].id]

\* The timers that are cleared, or whose clearing has only to be told, are gone.
GoneOK ==
    /\ \A id \in cleared : Gone(id)
    /\ \A th \in Threads :
          call[th].at \in {"woken", "notify_clear"} =>
              call[th].id = no_timer \/ Gone(call[th].id)

QuietInv == QueueInv /\ RunningOK /\ WaitingOK /\ GoneOK

\* The queue is in the order of the instants.
Sorted(q) == \A i, j \in 1..Len(q) : i < j => next[q[i]] <= next[q[j]]

\* A timer that somebody has asked to clear is neither queued nor running.
FiringOK ==
    /\ worker.at = "calling" => worker.id \in active
    /\ \A id \in asked : ~running[id] /\ id \notin Queued

PromiseInv == QuietInv /\ Sorted(queue) /\ FiringOK

-----------------------------------------------------------------------------
(* The queue                                                               *)

\* A timer put in its place in a queue.
LEMMA Inserted ==
    ASSUME NEW S, NEW q \in Seq(S), NEW k \in 1..(Len(q) + 1), NEW e \in S
    PROVE  /\ InsertAt(q, k, e) \in Seq(S)
           /\ Len(InsertAt(q, k, e)) = Len(q) + 1
           /\ \A i \in 1..(Len(q) + 1) :
                 InsertAt(q, k, e)[i] = IF i < k THEN q[i]
                                        ELSE IF i = k THEN e ELSE q[i - 1]
<1> DEFINE a == SubSeq(q, 1, k - 1)
           b == a \o <<e>>
           c == SubSeq(q, k, Len(q))
<1>1. Len(q) \in Nat /\ k \in Nat /\ k >= 1 /\ k <= Len(q) + 1
  OBVIOUS
<1>2. /\ a \in Seq(S) /\ Len(a) = k - 1
      /\ \A i \in 1..(k - 1) : a[i] = q[i]
  <2>1. 1 <= k - 1 => k - 1 \in 1..Len(q)
    BY <1>1
  <2> QED  BY <1>1, <2>1, SubSeqProperties
<1>3. /\ c \in Seq(S) /\ Len(c) = Len(q) - k + 1
      /\ \A i \in 1..(Len(q) - k + 1) : c[i] = q[k + i - 1]
  BY <1>1, SubSeqProperties
<1> HIDE DEF a, c
<1>4. /\ b \in Seq(S) /\ Len(b) = k
      /\ \A i \in 1..(k - 1) : b[i] = q[i]
      /\ b[k] = e
  <2>1. /\ <<e>> \in Seq(S) /\ Len(<<e>>) = 1 /\ <<e>>[1] = e
    OBVIOUS
  <2>2. /\ b \in Seq(S) /\ Len(b) = Len(a) + 1
        /\ \A i \in 1..(Len(a) + 1) : b[i] = IF i <= Len(a) THEN a[i] ELSE <<e>>[i - Len(a)]
    BY <1>2, <2>1, ConcatProperties
  <2> QED  BY <1>1, <1>2, <2>1, <2>2
<1> HIDE DEF b
<1>5. /\ b \o c \in Seq(S) /\ Len(b \o c) = Len(b) + Len(c)
      /\ \A i \in 1..(Len(b) + Len(c)) :
            (b \o c)[i] = IF i <= Len(b) THEN b[i] ELSE c[i - Len(b)]
  BY <1>3, <1>4, ConcatProperties
<1>6. Len(b) + Len(c) = Len(q) + 1
  BY <1>1, <1>3, <1>4
<1>7. InsertAt(q, k, e) = b \o c
  BY DEF InsertAt, a, b, c
<1>8. ASSUME NEW i \in 1..(Len(q) + 1)
      PROVE  (b \o c)[i] = IF i < k THEN q[i] ELSE IF i = k THEN e ELSE q[i - 1]
  <2>1. (b \o c)[i] = IF i <= k THEN b[i] ELSE c[i - k]
    BY <1>4, <1>5, <1>6
  <2>2. CASE i <= k
    BY <1>1, <1>4, <2>1, <2>2
  <2>3. CASE i > k
    <3>1. i - k \in 1..(Len(q) - k + 1) /\ k + (i - k) - 1 = i - 1
      BY <1>1, <2>3
    <3>2. c[i - k] = q[k + (i - k) - 1]
      BY <1>3, <3>1
    <3> QED  BY <1>1, <2>1, <2>3, <3>1, <3>2
  <2>4. i <= k \/ i > k
    BY <1>1
  <2> QED  BY <2>2, <2>3, <2>4, Zenon
<1> QED  BY <1>5, <1>6, <1>7, <1>8

\* Where emplace() puts a timer.
LEMMA EmplacedAt ==
    ASSUME queue \in Seq(Ids), NEW id \in Ids, NEW d, emplace(id, d)
    PROVE  \E k \in 1..(Len(queue) + 1) :
              /\ \A j \in 1..Len(queue) : IF j < k THEN next[queue[j]] <= d
                                                   ELSE next[queue[j]] >= d
              /\ queue' \in Seq(Ids)
              /\ Len(queue') = Len(queue) + 1
              /\ \A i \in 1..(Len(queue) + 1) :
                    queue'[i] = IF i < k THEN queue[i]
                                ELSE IF i = k THEN id ELSE queue[i - 1]
<1>1. PICK k \in 1..(Len(queue) + 1) :
         /\ \A j \in 1..Len(queue) : IF j < k THEN next[queue[j]] <= d
                                              ELSE next[queue[j]] >= d
         /\ queue' = InsertAt(queue, k, id)
  BY DEF emplace
<1> DEFINE r == InsertAt(queue, k, id)
<1>2. /\ r \in Seq(Ids)
      /\ Len(r) = Len(queue) + 1
      /\ \A i \in 1..(Len(queue) + 1) :
            r[i] = IF i < k THEN queue[i]
                   ELSE IF i = k THEN id ELSE queue[i - 1]
  BY Inserted
<1>3. queue' = r
  BY <1>1
<1> HIDE DEF r
<1> QED  BY <1>1, <1>2, <1>3, Zenon

\* emplace() adds one timer to the queue.
LEMMA Emplaced ==
    ASSUME queue \in Seq(Ids), NEW id \in Ids, NEW d, emplace(id, d)
    PROVE  /\ queue' \in Seq(Ids) /\ queue' # <<>>
           /\ Members(queue') = Queued \cup {id}
           /\ OnceEach(queue) /\ id \notin Queued => OnceEach(queue')
<1>2. PICK k \in 1..(Len(queue) + 1) :
         /\ queue' \in Seq(Ids)
         /\ Len(queue') = Len(queue) + 1
         /\ \A i \in 1..(Len(queue) + 1) :
               queue'[i] = IF i < k THEN queue[i]
                           ELSE IF i = k THEN id ELSE queue[i - 1]
  BY EmplacedAt
<1>3. Len(queue) \in Nat /\ k \in Nat
  OBVIOUS
<1>4. queue' # <<>>
  BY <1>2, <1>3
<1>5. Members(queue') \subseteq Queued \cup {id}
  BY <1>2, <1>3 DEF Members, Queued
<1>6. id \in Members(queue')
  BY <1>2, <1>3 DEF Members
<1>7. ASSUME NEW i \in 1..Len(queue)
      PROVE  queue[i] \in Members(queue')
  <2>1. CASE i < k
    <3>1. queue'[i] = queue[i] /\ i \in 1..Len(queue')
      BY <1>2, <1>3, <2>1
    <3> QED  BY <3>1 DEF Members
  <2>2. CASE i >= k
    <3>1. queue'[i + 1] = queue[i] /\ i + 1 \in 1..Len(queue')
      BY <1>2, <1>3, <2>2
    <3> QED  BY <3>1 DEF Members
  <2> QED  BY <1>3, <2>1, <2>2
<1>8. ASSUME OnceEach(queue), id \notin Queued
      PROVE  OnceEach(queue')
  <2>1. \A i \in 1..Len(queue) : queue[i] # id
    BY <1>8 DEF Queued, Members
  <2>2. \A i, j \in 1..Len(queue) : queue[i] = queue[j] => i = j
    BY <1>8 DEF OnceEach
  <2>3. ASSUME NEW i \in 1..Len(queue'), NEW j \in 1..Len(queue'),
               queue'[i] = queue'[j]
        PROVE  i = j
    <3> DEFINE m == IF i < k THEN i ELSE i - 1
               n == IF j < k THEN j ELSE j - 1
    <3>1. /\ i # k => m \in 1..Len(queue) /\ queue'[i] = queue[m]
          /\ j # k => n \in 1..Len(queue) /\ queue'[j] = queue[n]
          /\ i = k => queue'[i] = id
          /\ j = k => queue'[j] = id
      BY <1>2, <1>3
    <3>2. CASE i = k \/ j = k
      BY <2>1, <2>3, <3>1, <3>2
    <3>3. CASE i # k /\ j # k
      <4>1. m = n
        BY <2>2, <2>3, <3>1, <3>3
      <4> QED  BY <1>2, <1>3, <3>3, <4>1
    <3> QED  BY <3>2, <3>3
  <2> QED  BY <2>3 DEF OnceEach
<1> QED  BY <1>2, <1>4, <1>5, <1>6, <1>7, <1>8 DEF Queued, Members

\* What is left of a queue when it is cut from f up to e.
Cut(q, f, e) == SubSeq(q, 1, f - 1) \o SubSeq(q, e, Len(q))

LEMMA CutIsSeq ==
    ASSUME NEW S, NEW q \in Seq(S),
           NEW f \in 1..(Len(q) + 1), NEW e \in 1..(Len(q) + 1), f <= e
    PROVE  /\ Cut(q, f, e) \in Seq(S)
           /\ Len(Cut(q, f, e)) = Len(q) - (e - f)
           /\ \A i \in 1..Len(Cut(q, f, e)) :
                 Cut(q, f, e)[i] = IF i < f THEN q[i] ELSE q[i + (e - f)]
<1> DEFINE r == Cut(q, f, e)
           a == SubSeq(q, 1, f - 1)
           c == SubSeq(q, e, Len(q))
<1>1. /\ Len(q) \in Nat /\ f \in Nat /\ e \in Nat
      /\ f >= 1 /\ f <= e /\ e <= Len(q) + 1
  OBVIOUS
<1>2. /\ a \in Seq(S) /\ Len(a) = f - 1
      /\ \A i \in 1..(f - 1) : a[i] = q[i]
  <2>1. 1 <= f - 1 => f - 1 \in 1..Len(q)
    BY <1>1
  <2> QED  BY <1>1, <2>1, SubSeqProperties
<1>3. /\ c \in Seq(S) /\ Len(c) = Len(q) - e + 1
      /\ \A i \in 1..(Len(q) - e + 1) : c[i] = q[e + i - 1]
  BY <1>1, SubSeqProperties
<1> HIDE DEF a, c, r
<1>4. r = a \o c
  BY DEF a, c, r, Cut
<1>5. /\ r \in Seq(S) /\ Len(r) = Len(a) + Len(c)
      /\ \A i \in 1..(Len(a) + Len(c)) :
            r[i] = IF i <= Len(a) THEN a[i] ELSE c[i - Len(a)]
  <2>1. a \o c \in Seq(S) /\ Len(a \o c) = Len(a) + Len(c)
    BY <1>2, <1>3, ConcatProperties
  <2>2. \A i \in 1..(Len(a) + Len(c)) :
           (a \o c)[i] = IF i <= Len(a) THEN a[i] ELSE c[i - Len(a)]
    BY <1>2, <1>3, ConcatProperties
  <2> QED  BY <1>4, <2>1, <2>2, Zenon
<1>6. Len(r) = Len(q) - (e - f)
  BY <1>1, <1>2, <1>3, <1>5
<1>7. ASSUME NEW i \in 1..Len(r)
      PROVE  r[i] = IF i < f THEN q[i] ELSE q[i + (e - f)]
  <2>1. r[i] = IF i <= f - 1 THEN a[i] ELSE c[i - (f - 1)]
    BY <1>2, <1>5
  <2>2. CASE i < f
    <3>1. i \in 1..(f - 1)
      BY <1>1, <1>6, <2>2
    <3> QED  BY <1>1, <1>2, <2>1, <2>2, <3>1
  <2>3. CASE i >= f
    <3>1. i - (f - 1) \in 1..(Len(q) - e + 1) /\ e + (i - (f - 1)) - 1 = i + (e - f)
      BY <1>1, <1>6, <2>3
    <3>2. c[i - (f - 1)] = q[e + (i - (f - 1)) - 1]
      BY <1>3, <3>1
    <3> QED  BY <1>1, <2>1, <2>3, <3>1, <3>2
  <2>4. i < f \/ i >= f
    BY <1>1, <1>6
  <2> QED  BY <2>2, <2>3, <2>4, Zenon
<1> QED  BY <1>5, <1>6, <1>7 DEF r

\* erase() takes the ids it is to erase from the queue, and no other.
LEMMA Erased ==
    ASSUME queue \in Seq(Ids), NEW T, without(T)
    PROVE  /\ queue' \in Seq(Ids)
           /\ Members(queue') = Queued \ T
           /\ OnceEach(queue) => OnceEach(queue')
<1>1. PICK f \in 1..(Len(queue) + 1), e \in 1..(Len(queue) + 1) :
         /\ f <= e
         /\ \A k \in 1..Len(queue) : queue[k] \in T <=> f <= k /\ k < e
         /\ queue' = Cut(queue, f, e)
  BY DEF without, Cut
<1> DEFINE r == Cut(queue, f, e)
<1>0. /\ r \in Seq(Ids)
      /\ Len(r) = Len(queue) - (e - f)
      /\ \A i \in 1..Len(r) : r[i] = IF i < f THEN queue[i] ELSE queue[i + (e - f)]
  <2>1. f <= e
    BY <1>1
  <2> QED  BY <2>1, CutIsSeq
<1>7. queue' = r
  BY <1>1
<1> HIDE DEF r
<1>2. /\ queue' \in Seq(Ids)
      /\ Len(queue') = Len(queue) - (e - f)
      /\ \A i \in 1..Len(queue') :
            queue'[i] = IF i < f THEN queue[i] ELSE queue[i + (e - f)]
  BY <1>0, <1>7
<1>3. /\ Len(queue) \in Nat /\ f \in Nat /\ e \in Nat /\ Len(queue') \in Nat
      /\ f >= 1 /\ f <= e /\ e <= Len(queue) + 1
  BY <1>1, <1>2
<1>4. ASSUME NEW x \in Members(queue')
      PROVE  x \in Queued \ T
  <2>1. PICK i \in 1..Len(queue') : x = queue'[i]
    BY DEF Members
  <2>2. CASE i < f
    <3>1. i \in 1..Len(queue) /\ x = queue[i] /\ ~(f <= i /\ i < e)
      BY <1>2, <1>3, <2>1, <2>2
    <3> QED  BY <1>1, <3>1 DEF Queued, Members
  <2>3. CASE ~(i < f)
    <3> DEFINE k == i + (e - f)
    <3>1. k \in 1..Len(queue) /\ x = queue[k] /\ ~(f <= k /\ k < e)
      BY <1>1, <1>2, <1>3, <2>1, <2>3
    <3> QED  BY <1>1, <3>1 DEF Queued, Members
  <2> QED  BY <2>2, <2>3
<1>5. ASSUME NEW x \in Queued \ T
      PROVE  x \in Members(queue')
  <2>1. PICK k \in 1..Len(queue) : x = queue[k]
    BY DEF Queued, Members
  <2>2. ~(f <= k /\ k < e)
    BY <1>1, <1>5, <2>1
  <2>3. CASE k < f
    <3>1. k \in 1..Len(queue') /\ queue'[k] = x
      BY <1>1, <1>2, <1>3, <2>1, <2>3
    <3> QED  BY <3>1 DEF Members
  <2>4. CASE k >= e
    <3> DEFINE i == k - (e - f)
    <3>1. i \in 1..Len(queue') /\ ~(i < f) /\ i + (e - f) = k
      BY <1>1, <1>2, <1>3, <2>4
    <3>2. queue'[i] = x
      BY <1>2, <2>1, <3>1
    <3> QED  BY <3>1, <3>2 DEF Members
  <2> QED  BY <1>3, <2>2, <2>3, <2>4
<1>6. ASSUME OnceEach(queue)
      PROVE  OnceEach(queue')
  <2>1. \A i, j \in 1..Len(queue) : queue[i] = queue[j] => i = j
    BY <1>6 DEF OnceEach
  <2>2. ASSUME NEW i \in 1..Len(queue'), NEW j \in 1..Len(queue'),
               queue'[i] = queue'[j]
        PROVE  i = j
    <3> DEFINE m == IF i < f THEN i ELSE i + (e - f)
               n == IF j < f THEN j ELSE j + (e - f)
    <3>1. m \in 1..Len(queue) /\ n \in 1..Len(queue)
      BY <1>1, <1>2, <1>3
    <3>2. queue[m] = queue[n]
      BY <1>2, <2>2
    <3>3. m = n
      BY <2>1, <3>1, <3>2
    <3> QED  BY <1>1, <1>3, <3>3
  <2> QED  BY <2>2 DEF OnceEach
<1> QED  BY <1>2, <1>4, <1>5, <1>6

\* The worker takes the first of the queue.
LEMMA Popped ==
    ASSUME NEW S, NEW q \in Seq(S), q # <<>>
    PROVE  /\ Tail(q) \in Seq(S) /\ Head(q) \in S
           /\ Members(q) = Members(Tail(q)) \cup {Head(q)}
           /\ OnceEach(q) => OnceEach(Tail(q)) /\ Head(q) \notin Members(Tail(q))
<1>1. /\ Tail(q) \in Seq(S) /\ Len(Tail(q)) = Len(q) - 1 /\ Len(q) \in Nat \ {0}
      /\ \A i \in 1..(Len(q) - 1) : Tail(q)[i] = q[i + 1]
      /\ Head(q) = q[1] /\ q[1] \in S
  OBVIOUS
<1>2. Members(Tail(q)) \cup {Head(q)} \subseteq Members(q)
  BY <1>1 DEF Members
<1>3. ASSUME NEW i \in 1..Len(q)
      PROVE  q[i] \in Members(Tail(q)) \cup {Head(q)}
  <2>1. CASE i = 1
    BY <1>1, <2>1
  <2>2. CASE i # 1
    <3>1. i - 1 \in 1..Len(Tail(q)) /\ Tail(q)[i - 1] = q[i]
      BY <1>1, <2>2
    <3> QED  BY <3>1 DEF Members
  <2> QED  BY <2>1, <2>2
<1>4. ASSUME OnceEach(q)
      PROVE  OnceEach(Tail(q)) /\ Head(q) \notin Members(Tail(q))
  BY <1>1, <1>4 DEF OnceEach, Members
<1> QED  BY <1>1, <1>2, <1>3, <1>4 DEF Members

-----------------------------------------------------------------------------
(* The shape of the state                                                  *)

LEMMA Bounds ==
    /\ 0 \in 0..MaxDelay /\ 0 \in 0..(MaxDelay + Late) /\ 0 \in Ticks
    /\ no_timer \notin Ids /\ Ids \subseteq Nat
    /\ 0..MaxDelay \subseteq Ticks /\ Ticks \subseteq Int
BY TimerAssumption DEF Ticks, Ids, no_timer

LEMMA AtQueueType ==
    ASSUME NEW at \in {"none", "looking", "idle", "asleep", "calling", "ended"}
    PROVE  /\ AtQueue(at) \in Workers
           /\ AtQueue(at).at = at /\ AtQueue(at).id = no_timer
BY Bounds DEF AtQueue, Workers

LEMMA InType ==
    ASSUME NEW at \in {"none", "notify_add", "notify_clear", "notify_end", "waiting",
                       "woken", "join", "assert"},
           NEW id \in Ids \cup {no_timer}
    PROVE  In(at, id) \in Calls /\ In(at, id).at = at /\ In(at, id).id = id
BY DEF In, Calls

LEMMA IdleType == Idle \in Calls /\ Idle.at = "none"
BY InType DEF Idle

\* Init
LEMMA InitType == Init => TypeInv
<1> SUFFICES ASSUME Init PROVE TypeInv
  OBVIOUS
<1>1. /\ queue = <<>> /\ queue \in Seq(Ids) /\ Len(queue) = 0
  BY DEF Init
<1>2. worker \in Workers /\ worker.at = "none" /\ worker.id = no_timer
  BY AtQueueType DEF Init
<1>3. call \in [Threads -> Calls] /\ \A th \in Threads : call[th].at = "none"
  BY IdleType DEF Init
<1>4. /\ next \in [Ids -> Ticks] /\ period \in [Ids -> 0..MaxDelay]
      /\ nextId \in 1..(MaxId + 1)
  BY Bounds, TimerAssumption DEF Init
<1>5. TypeOK
  BY <1>1, <1>2, <1>3, <1>4 DEF TypeOK, Init
<1>6. QueueOK
  BY <1>1 DEF QueueOK, Queued, Members
<1> QED  BY <1>2, <1>3, <1>5, <1>6 DEF TypeInv, HandlerOK, CallsOK

\* The worker looks at the queue.
LEMMA LookType ==
    ASSUME TypeInv, Look
    PROVE  TypeInv'
<1> USE DEF TypeInv
<1>1. CASE worker' \in {AtQueue("ended"), AtQueue("idle")} /\ UNCHANGED <<queue, running>>
  <2>1. worker' \in Workers /\ worker'.at # "calling" /\ worker'.id = no_timer
    BY <1>1, AtQueueType
  <2>2. TypeOK'
    BY <1>1, <2>1 DEF Look, TypeOK, clearing
  <2>3. CallsOK' /\ QueueOK'
    BY <1>1 DEF Look, CallsOK, QueueOK, Queued, clearing
  <2> QED  BY <2>1, <2>2, <2>3 DEF HandlerOK
<1>2. CASE /\ queue # <<>> /\ next[Head(queue)] > 0
           /\ worker' = [at |-> "asleep", id |-> no_timer, alarm |-> next[Head(queue)]]
           /\ UNCHANGED <<queue, running>>
  <2>1. next[Head(queue)] \in 0..(MaxDelay + Late)
    <3>1. Head(queue) \in Ids
      BY <1>2, Popped DEF TypeOK
    <3>2. next[Head(queue)] \in Ticks
      BY <3>1 DEF TypeOK
    <3> QED  BY <1>2, <3>2, TimerAssumption DEF Ticks
  <2>2. worker' \in Workers /\ worker'.at # "calling" /\ worker'.id = no_timer
    BY <1>2, <2>1 DEF Workers
  <2>3. TypeOK'
    BY <1>2, <2>2 DEF Look, TypeOK, clearing
  <2>4. CallsOK' /\ QueueOK'
    BY <1>2 DEF Look, CallsOK, QueueOK, Queued, clearing
  <2> QED  BY <2>2, <2>3, <2>4 DEF HandlerOK
<1>3. CASE /\ queue # <<>> /\ ~(next[Head(queue)] > 0)
           /\ queue' = Tail(queue)
           /\ running' = [running EXCEPT ![Head(queue)] = TRUE]
           /\ worker' = [at |-> "calling", id |-> Head(queue), alarm |-> 0]
  <2>1. /\ queue' \in Seq(Ids) /\ Head(queue) \in Ids
        /\ Members(queue') \subseteq Queued /\ Head(queue) \in Queued
    BY <1>3, Popped DEF TypeOK, Queued
  <2>2. worker' \in Workers /\ worker'.at = "calling" /\ worker'.id = Head(queue)
    BY <1>3, <2>1, Bounds DEF Workers
  <2>3. running' \in [Ids -> BOOLEAN] /\ running'[Head(queue)]
    BY <1>3, <2>1 DEF TypeOK
  <2>4. TypeOK'
    BY <2>1, <2>2, <2>3 DEF Look, TypeOK, clearing
  <2>5. QueueOK'
    BY <2>1 DEF Look, QueueOK, Queued
  <2>6. HandlerOK'
    <3>1. next[Head(queue)] \in Int /\ Head(queue) \in 1..(nextId - 1)
      BY <2>1, Bounds DEF TypeOK, QueueOK
    <3> QED  BY <1>3, <2>2, <2>3, <3>1 DEF Look, HandlerOK
  <2>7. CallsOK'
    BY DEF Look, CallsOK, clearing
  <2> QED  BY <2>4, <2>5, <2>6, <2>7
<1> QED  BY <1>1, <1>2, <1>3 DEF Look

\* The worker wakes up in time.
LEMMA AlarmType ==
    ASSUME TypeInv, Alarm
    PROVE  TypeInv'
<1>1. worker' \in Workers /\ worker'.at # "calling" /\ worker'.id = no_timer
  BY AtQueueType DEF Alarm
<1>2. TypeOK'
  BY <1>1 DEF Alarm, TypeInv, TypeOK, timers, clearing
<1>3. CallsOK' /\ QueueOK'
  BY DEF Alarm, TypeInv, CallsOK, QueueOK, Queued, timers, clearing
<1> QED  BY <1>1, <1>2, <1>3 DEF TypeInv, HandlerOK

\* The threads that wait for a handler are notified, and no other.
LEMMA WokenFromType ==
    ASSUME TypeInv, NEW id \in Ids
    PROVE  /\ WokenFrom(id) \in [Threads -> Calls]
           /\ \A th \in Threads :
                 \/ WokenFrom(id)[th] = call[th] /\ call[th] # In("waiting", id)
                 \/ call[th] = In("waiting", id) /\ WokenFrom(id)[th] = In("woken", id)
BY InType DEF WokenFrom, TypeInv, TypeOK

\* The handler returns.
LEMMA ReturnedType ==
    ASSUME TypeInv, Returned
    PROVE  TypeInv'
<1> DEFINE id == worker.id
<1>1. /\ id \in 1..(nextId - 1) /\ id \in Ids /\ next[id] <= 0
      /\ running[id] \/ id \in asked
  BY TimerAssumption DEF TypeInv, HandlerOK, TypeOK, Returned, Ids
<1>2. /\ worker' \in Workers /\ worker'.at # "calling" /\ worker'.id = no_timer
  BY AtQueueType DEF Returned
<1>3. /\ queue' \in Seq(Ids) /\ next' \in [Ids -> Ticks] /\ active' \subseteq Ids
      /\ Members(queue') \subseteq Queued \cup {id}
  <2>1. CASE running[id] /\ period[id] > 0
    <3>1. /\ next' = [next EXCEPT ![id] = @ + period[id]]
          /\ emplace(id, next[id] + period[id])
          /\ UNCHANGED active
      BY <2>1 DEF Returned
    <3>2. next[id] + period[id] \in Ticks
      <4>1. next[id] \in Ticks /\ period[id] \in 0..MaxDelay
        BY <1>1 DEF TypeInv, TypeOK
      <4> QED  BY <1>1, <4>1, TimerAssumption DEF Ticks
    <3>3. next' \in [Ids -> Ticks]
      BY <1>1, <3>1, <3>2 DEF TypeInv, TypeOK
    <3>4. queue \in Seq(Ids)
      BY DEF TypeInv, TypeOK
    <3>5. queue' \in Seq(Ids) /\ Members(queue') = Queued \cup {id}
      BY <1>1, <3>1, <3>4, Emplaced
    <3> QED  BY <3>1, <3>3, <3>5 DEF TypeInv, TypeOK
  <2>2. CASE ~(running[id] /\ period[id] > 0)
    BY <2>2 DEF Returned, TypeInv, TypeOK, Queued
  <2> QED  BY <2>1, <2>2
<1>4. /\ call' \in [Threads -> Calls]
      /\ \A th \in Threads :
            \/ call'[th] = call[th]
            \/ call[th] = In("waiting", id) /\ call'[th] = In("woken", id)
  BY <1>1, WokenFromType DEF Returned, TypeInv, TypeOK
<1>5. cleared' \subseteq asked'
  BY <1>1 DEF Returned, TypeInv, TypeOK
<1>6. running' \in [Ids -> BOOLEAN]
  BY DEF Returned, TypeInv, TypeOK
<1>7. TypeOK'
  BY <1>2, <1>3, <1>4, <1>5, <1>6 DEF Returned, TypeInv, TypeOK
<1>8. QueueOK'
  BY <1>1, <1>3 DEF Returned, TypeInv, QueueOK, Queued
<1>9. CallsOK'
  <2> SUFFICES ASSUME NEW th \in Threads
               PROVE  /\ call'[th].at \in {"waiting", "woken"} => call'[th].id \in asked'
                      /\ call'[th].at = "notify_clear" => call'[th].id \in asked' \cup {no_timer}
    BY DEF CallsOK
  <2>1. CASE call'[th] = call[th]
    BY <2>1 DEF Returned, TypeInv, CallsOK
  <2>2. CASE call[th] = In("waiting", id) /\ call'[th] = In("woken", id)
    <3>1. /\ call[th].at = "waiting" /\ call[th].id = id
          /\ call'[th].at = "woken" /\ call'[th].id = id
      BY <1>1, <2>2, InType
    <3> QED  BY <3>1 DEF Returned, TypeInv, CallsOK
  <2> QED  BY <1>4, <2>1, <2>2
<1> QED  BY <1>2, <1>7, <1>8, <1>9 DEF TypeInv, HandlerOK

\* Time passes.
LEMMA TickType ==
    ASSUME TypeInv, Tick
    PROVE  TypeInv'
<1> USE DEF TypeInv
<1>1. next' \in [Ids -> Ticks] /\ \A id \in Ids : next'[id] <= next[id]
  <2> SUFFICES ASSUME NEW id \in Ids
               PROVE  next'[id] \in Ticks /\ next'[id] <= next[id]
    BY DEF Tick
  <2>1. next[id] \in Ticks
    BY DEF TypeOK
  <2>2. CASE id \in active
    <3>1. next[id] > 0 - Late /\ next'[id] = next[id] - 1
      BY <2>2 DEF Tick
    <3> QED  BY <2>1, <3>1, TimerAssumption DEF Ticks
  <2>3. CASE id \notin active
    <3>1. next'[id] = next[id]
      BY <2>3 DEF Tick
    <3> QED  BY <2>1, <3>1, TimerAssumption DEF Ticks
  <2> QED  BY <2>2, <2>3
<1>2. worker' \in Workers /\ worker'.at = worker.at /\ worker'.id = worker.id
  <2>1. worker.alarm \in 0..(MaxDelay + Late) /\ worker \in Workers
    BY DEF TypeOK, Workers
  <2>2. (IF worker.alarm = 0 THEN 0 ELSE worker.alarm - 1) \in 0..(MaxDelay + Late)
    BY <2>1, TimerAssumption
  <2> QED  BY <2>1, <2>2 DEF Tick, Workers
<1>3. TypeOK'
  BY <1>1, <1>2 DEF Tick, TypeOK, clearing
<1>4. CallsOK' /\ QueueOK'
  BY DEF Tick, CallsOK, QueueOK, Queued, clearing
<1>5. HandlerOK'
  <2>1. CASE worker.at = "calling"
    <3>1. /\ worker.id \in Ids /\ next[worker.id] <= 0 /\ next[worker.id] \in Int
          /\ next'[worker.id] \in Int
      <4>1. worker.id \in Ids
        BY <2>1, TimerAssumption DEF HandlerOK, TypeOK, Ids
      <4> QED  BY <1>1, <2>1, <4>1, Bounds DEF HandlerOK, TypeOK
    <3>2. next'[worker.id] <= 0
      BY <1>1, <3>1
    <3> QED  BY <1>2, <2>1, <3>2 DEF Tick, HandlerOK, clearing
  <2>2. CASE worker.at # "calling"
    BY <1>2, <2>2 DEF HandlerOK
  <2> QED  BY <2>1, <2>2
<1> QED  BY <1>3, <1>4, <1>5

\* A timer is added.
LEMMA AddType ==
    ASSUME TypeInv, NEW th \in Threads, addTimer(th)
    PROVE  TypeInv'
<1> USE DEF TypeInv
<1>1. /\ nextId \in Ids /\ nextId' = nextId + 1 /\ nextId' \in 1..(MaxId + 1)
      /\ 1..(nextId' - 1) = 1..(nextId - 1) \cup {nextId}
      /\ nextId \notin 1..(nextId - 1)
  BY TimerAssumption DEF addTimer, TypeOK, Ids
<1>2. PICK d \in 0..MaxDelay, p \in 0..MaxDelay :
        /\ next' = [next EXCEPT ![nextId] = d]
        /\ period' = [period EXCEPT ![nextId] = p]
        /\ emplace(nextId, d)
  BY DEF addTimer
<1>3. queue' \in Seq(Ids) /\ Members(queue') = Queued \cup {nextId}
  BY <1>1, <1>2, Emplaced DEF TypeOK
<1>4. /\ worker' \in Workers
      /\ worker' = worker \/ (worker'.at = "looking" /\ worker'.id = no_timer)
  <2>1. worker' = worker \/ worker' = AtQueue("looking")
    BY DEF addTimer
  <2> QED  BY <2>1, AtQueueType DEF TypeOK
<1>5. /\ call' \in [Threads -> Calls]
      /\ \A t \in Threads : call'[t] = call[t] \/ call'[t] = In("notify_add", nextId)
  BY <1>1, InType DEF addTimer, TypeOK
<1>6. next' \in [Ids -> Ticks] /\ period' \in [Ids -> 0..MaxDelay]
  BY <1>2, Bounds DEF TypeOK
<1>7. running' \in [Ids -> BOOLEAN] /\ active' \subseteq Ids
  BY <1>1 DEF addTimer, TypeOK
<1>8. TypeOK'
  BY <1>1, <1>3, <1>4, <1>5, <1>6, <1>7 DEF addTimer, TypeOK, clearing
<1>9. QueueOK'
  BY <1>1, <1>3 DEF QueueOK, Queued
<1>10. CallsOK'
  <2> SUFFICES ASSUME NEW t \in Threads
               PROVE  /\ call'[t].at \in {"waiting", "woken"} => call'[t].id \in asked'
                      /\ call'[t].at = "notify_clear" => call'[t].id \in asked' \cup {no_timer}
    BY DEF CallsOK
  <2>1. CASE call'[t] = call[t]
    BY <2>1 DEF addTimer, CallsOK, clearing
  <2>2. CASE call'[t] = In("notify_add", nextId)
    BY <1>1, <2>2, InType
  <2> QED  BY <1>5, <2>1, <2>2
<1>11. HandlerOK'
  <2>1. CASE worker' = worker /\ worker.at = "calling"
    <3>1. worker.id \in 1..(nextId - 1) /\ worker.id # nextId /\ worker.id \in Ids
      BY <1>1, <2>1, TimerAssumption DEF HandlerOK, TypeOK, Ids
    <3>2. next'[worker.id] = next[worker.id] /\ running'[worker.id] = running[worker.id]
      BY <1>2, <3>1 DEF addTimer, TypeOK
    <3> QED  BY <1>1, <2>1, <3>1, <3>2 DEF HandlerOK, addTimer, clearing
  <2>2. CASE worker' = worker /\ worker.at # "calling"
    BY <2>2 DEF HandlerOK
  <2>3. CASE worker'.at = "looking" /\ worker'.id = no_timer
    BY <2>3 DEF HandlerOK
  <2> QED  BY <1>4, <2>1, <2>2, <2>3
<1> QED  BY <1>8, <1>9, <1>10, <1>11

\* The ids that erase() erases.
EqualTo(id) == {x \in Ids : x = id \/ ("coarse" \in Faults /\ next[x] = next[id])}

\* A timer is cleared.
LEMMA ClearTimerType ==
    ASSUME TypeInv, NEW th \in Threads, NEW id \in Ids, clearTimer(th, id)
    PROVE  TypeInv'
<1> USE DEF TypeInv
<1>1. queue' \in Seq(Ids) /\ Members(queue') \subseteq Queued
  <2>1. CASE erase(id)
    <3>1. queue \in Seq(Ids) /\ without(EqualTo(id))
      BY <2>1 DEF TypeOK, erase, EqualTo
    <3> QED  BY <3>1, Erased
  <2>2. CASE UNCHANGED queue
    BY <2>2 DEF TypeOK, Queued
  <2> QED  BY <2>1, <2>2 DEF clearTimer
<1>2. /\ running' \in [Ids -> BOOLEAN] /\ active' \subseteq active
      /\ \A i \in Ids \ {id} : running'[i] = running[i]
  BY DEF clearTimer, TypeOK
<1>3. /\ call' \in [Threads -> Calls]
      /\ \A t \in Threads :
            call'[t] \in {call[t], In("waiting", id), In("notify_clear", id)}
  <2>1. In("waiting", id) \in Calls /\ In("notify_clear", id) \in Calls
    BY InType
  <2>2. \/ call' = call
        \/ \E c \in {In("waiting", id), In("notify_clear", id)} :
              call' = [call EXCEPT ![th] = c]
    BY DEF clearTimer
  <2> QED  BY <2>1, <2>2 DEF TypeOK
<1>4. asked' = asked \cup {id} /\ cleared' \in {cleared, cleared \cup {id}}
  BY DEF clearTimer
<1>5. TypeOK'
  BY <1>1, <1>2, <1>3, <1>4 DEF clearTimer, TypeOK
<1>6. QueueOK'
  BY <1>1 DEF clearTimer, QueueOK, Queued
<1>7. CallsOK'
  <2> SUFFICES ASSUME NEW t \in Threads
               PROVE  /\ call'[t].at \in {"waiting", "woken"} => call'[t].id \in asked'
                      /\ call'[t].at = "notify_clear" => call'[t].id \in asked' \cup {no_timer}
    BY DEF CallsOK
  <2>1. CASE call'[t] = call[t]
    BY <1>4, <2>1 DEF CallsOK
  <2>2. CASE call'[t] \in {In("waiting", id), In("notify_clear", id)}
    <3>1. call'[t].id = id
      BY <2>2, InType
    <3> QED  BY <1>4, <3>1
  <2> QED  BY <1>3, <2>1, <2>2
<1>8. HandlerOK'
  <2>1. CASE worker.at = "calling"
    <3>1. worker.id \in Ids
      BY <2>1, TimerAssumption DEF HandlerOK, TypeOK, Ids
    <3>2. running'[worker.id] \/ worker.id \in asked'
      BY <1>2, <1>4, <2>1, <3>1 DEF HandlerOK
    <3> QED  BY <2>1, <3>1, <3>2 DEF clearTimer, HandlerOK
  <2>2. CASE worker.at # "calling"
    BY <2>2 DEF clearTimer, HandlerOK
  <2> QED  BY <2>1, <2>2
<1> QED  BY <1>5, <1>6, <1>7, <1>8

\* All timers are cleared.
LEMMA ClearType ==
    ASSUME TypeInv, NEW th \in Threads, clear(th)
    PROVE  TypeInv'
<1> USE DEF TypeInv
<1>1. /\ queue' = <<>> /\ queue' \in Seq(Ids) /\ Members(queue') = {}
  <2>1. queue' = <<>>
    BY DEF clear
  <2> QED  BY <2>1 DEF Members
<1>2. active' \subseteq Ids
  BY TimerAssumption DEF clear, TypeOK, HandlerOK, Ids
<1>3. /\ call' \in [Threads -> Calls]
      /\ \A t \in Threads :
            call'[t] \in {call[t], In("notify_clear", no_timer), In("assert", no_timer)}
  BY InType DEF clear, TypeOK
<1>4. /\ asked \subseteq asked' /\ asked' \subseteq Ids /\ cleared' \subseteq asked'
  BY DEF clear, TypeOK
<1>5. TypeOK'
  BY <1>1, <1>2, <1>3, <1>4 DEF clear, TypeOK
<1>6. QueueOK'
  BY <1>1 DEF QueueOK, Queued
<1>7. CallsOK'
  <2> SUFFICES ASSUME NEW t \in Threads
               PROVE  /\ call'[t].at \in {"waiting", "woken"} => call'[t].id \in asked'
                      /\ call'[t].at = "notify_clear" => call'[t].id \in asked' \cup {no_timer}
    BY DEF CallsOK
  <2>1. CASE call'[t] = call[t]
    BY <1>4, <2>1 DEF CallsOK
  <2>2. CASE call'[t] \in {In("notify_clear", no_timer), In("assert", no_timer)}
    BY <2>2, InType
  <2> QED  BY <1>3, <2>1, <2>2
<1>8. HandlerOK'
  BY <1>4 DEF clear, HandlerOK
<1> QED  BY <1>5, <1>6, <1>7, <1>8

\* A thread notifies the worker, or goes on after it was notified.
LEMMA NotifyType ==
    ASSUME TypeInv, NEW th \in Threads, Notify(th) \/ Woken(th)
    PROVE  TypeInv'
<1> USE DEF TypeInv
<1>1. /\ worker' \in Workers
      /\ worker' = worker \/ (worker'.at = "looking" /\ worker'.id = no_timer)
  BY AtQueueType DEF Notify, Woken, TypeOK
<1>2. /\ call' \in [Threads -> Calls]
      /\ \A t \in Threads : call'[t] \in {call[t], In("join", no_timer), In("assert", no_timer), Idle}
  <2>1. {In("join", no_timer), In("assert", no_timer), Idle} \subseteq Calls
    BY InType, IdleType
  <2>2. \E c \in {In("join", no_timer), In("assert", no_timer), Idle} : call' = [call EXCEPT ![th] = c]
    BY DEF Notify, Woken, FindsMore
  <2> QED  BY <2>1, <2>2 DEF TypeOK
<1>3. cleared' \subseteq asked
  BY DEF Notify, Woken, CallsOK, TypeOK
<1>4. TypeOK'
  BY <1>1, <1>2, <1>3 DEF Notify, Woken, TypeOK, timers
<1>5. QueueOK'
  BY DEF Notify, Woken, timers, QueueOK, Queued
<1>6. CallsOK'
  <2> SUFFICES ASSUME NEW t \in Threads
               PROVE  /\ call'[t].at \in {"waiting", "woken"} => call'[t].id \in asked'
                      /\ call'[t].at = "notify_clear" => call'[t].id \in asked' \cup {no_timer}
    BY DEF CallsOK
  <2>1. CASE call'[t] = call[t]
    BY <2>1 DEF CallsOK, Notify, Woken
  <2>2. CASE call'[t] \in {In("join", no_timer), In("assert", no_timer), Idle}
    BY <2>2, InType, IdleType
  <2> QED  BY <1>2, <2>1, <2>2
<1>7. HandlerOK'
  BY <1>1 DEF HandlerOK, Notify, Woken, timers
<1> QED  BY <1>4, <1>5, <1>6, <1>7

\* The destructor tells the worker to end, and waits for that.
LEMMA DestroyType ==
    ASSUME TypeInv, NEW th \in Threads, Destroy(th) \/ Join(th)
    PROVE  TypeInv'
<1> USE DEF TypeInv
<1>1. /\ call' \in [Threads -> Calls]
      /\ \A t \in Threads : call'[t] \in {call[t], In("notify_end", no_timer), Idle}
  <2>1. In("notify_end", no_timer) \in Calls /\ Idle \in Calls
    BY InType, IdleType
  <2>2. \E c \in {In("notify_end", no_timer), Idle} : call' = [call EXCEPT ![th] = c]
    BY DEF Destroy, Join
  <2> QED  BY <2>1, <2>2 DEF TypeOK
<1>2. UNCHANGED <<timers, worker, clearing>> /\ done' \in BOOLEAN
  BY DEF Destroy, Join, TypeOK
<1>3. TypeOK'
  BY <1>1, <1>2 DEF TypeOK, timers, clearing
<1>4. QueueOK' /\ HandlerOK'
  BY <1>2 DEF timers, clearing, QueueOK, Queued, HandlerOK
<1>5. CallsOK'
  <2> SUFFICES ASSUME NEW t \in Threads
               PROVE  /\ call'[t].at \in {"waiting", "woken"} => call'[t].id \in asked'
                      /\ call'[t].at = "notify_clear" => call'[t].id \in asked' \cup {no_timer}
    BY DEF CallsOK
  <2>1. CASE call'[t] = call[t]
    BY <1>2, <2>1 DEF CallsOK, clearing
  <2>2. CASE call'[t] \in {In("notify_end", no_timer), Idle}
    BY <2>2, InType, IdleType
  <2> QED  BY <1>1, <2>1, <2>2
<1> QED  BY <1>3, <1>4, <1>5

LEMMA TypeStep == TypeInv /\ [Next]_vars => TypeInv'
<1> SUFFICES ASSUME TypeInv, [Next]_vars
             PROVE  TypeInv'
  OBVIOUS
<1>1. CASE UNCHANGED vars
  BY <1>1 DEF vars, timers, clearing, TypeInv, TypeOK, HandlerOK, CallsOK, QueueOK, Queued
<1>2. CASE Look \/ Alarm \/ Returned \/ Tick
  BY <1>2, LookType, AlarmType, ReturnedType, TickType
<1>3. ASSUME NEW th \in Threads, Caller(th) \/ Notify(th) \/ Woken(th) \/ Join(th)
      PROVE  TypeInv'
  BY <1>3, AddType, ClearTimerType, ClearType, NotifyType, DestroyType DEF Caller
<1> QED  BY <1>1, <1>2, <1>3 DEF Next

\* The state keeps its shape, whatever the faults: the instant of a timer whose
\* handler is slow, or which is set again, stays within its bounds, and who is
\* told that a timer is cleared had asked for that.
THEOREM TypeCorrect == Spec => []TypeOK
<1>1. Init => TypeInv
  BY InitType
<1>2. TypeInv /\ [Next]_vars => TypeInv'
  BY TypeStep
<1>3. TypeInv => TypeOK
  BY DEF TypeInv
<1> QED  BY <1>1, <1>2, <1>3, PTL DEF Spec

-----------------------------------------------------------------------------
(* No timer is forgotten                                                   *)

\* What a handler is that of, and what is queued, is a timer.
LEMMA Timers ==
    ASSUME TypeInv
    PROVE  /\ Queued \subseteq Ids /\ no_timer \notin Queued
           /\ worker.at = "calling" => worker.id \in Ids /\ worker.id # no_timer
           /\ worker.at # "calling" => worker.id = no_timer
<1>1. 1..(nextId - 1) \subseteq Ids
  BY TimerAssumption DEF TypeInv, TypeOK, Ids
<1> QED  BY <1>1, Bounds DEF TypeInv, QueueOK, HandlerOK

\* A step that leaves the queue and the handler alone.
LEMMA QueueFrame ==
    ASSUME QueueInv, UNCHANGED <<queue, active, running, nextId>>,
           worker'.id = worker.id, worker'.at = "calling" => worker.at = "calling"
    PROVE  QueuedOnce' /\ Shared'
BY DEF QueueInv, QueuedOnce, Shared, Queued

LEMMA LookQueue ==
    ASSUME QueueInv, Look
    PROVE  QueuedOnce' /\ Shared'
<1> USE DEF QueueInv
<1>1. worker.id = no_timer
  BY Timers DEF Look
<1>2. CASE worker' \in {AtQueue("ended"), AtQueue("idle")} /\ UNCHANGED <<queue, running>>
  <2>1. worker'.at # "calling" /\ worker'.id = no_timer
    BY <1>2, AtQueueType
  <2> QED  BY <1>1, <1>2, <2>1, QueueFrame DEF Look
<1>3. CASE /\ worker' = [at |-> "asleep", id |-> no_timer, alarm |-> next[Head(queue)]]
           /\ UNCHANGED <<queue, running>>
  BY <1>1, <1>3, QueueFrame DEF Look
<1>4. CASE /\ queue # <<>>
           /\ queue' = Tail(queue)
           /\ running' = [running EXCEPT ![Head(queue)] = TRUE]
           /\ worker' = [at |-> "calling", id |-> Head(queue), alarm |-> 0]
  <2>1. /\ Queued = Members(queue') \cup {Head(queue)}
        /\ OnceEach(queue') /\ Head(queue) \notin Members(queue')
    BY <1>4, Popped DEF TypeInv, TypeOK, QueuedOnce, Queued
  <2>2. worker'.id = Head(queue)
    BY <1>4
  <2>3. no_timer \notin active
    BY Bounds DEF TypeInv, TypeOK
  <2> QED  BY <1>1, <2>1, <2>2, <2>3 DEF Look, QueuedOnce, Shared, Queued
<1> QED  BY <1>2, <1>3, <1>4 DEF Look

LEMMA ReturnedQueue ==
    ASSUME QueueInv, Returned
    PROVE  QueuedOnce' /\ Shared'
<1> USE DEF QueueInv
<1> DEFINE id == worker.id
<1>1. worker.at = "calling" /\ id \in Ids /\ id \notin Queued
  BY Timers DEF Returned, Shared
<1>2. worker'.at # "calling" /\ worker'.id = no_timer /\ nextId' = nextId
  BY AtQueueType DEF Returned
<1>3. no_timer \notin Ids
  BY Bounds
<1>4. CASE running[id] /\ period[id] > 0
  <2>1. emplace(id, next[id] + period[id]) /\ UNCHANGED active
    BY <1>4 DEF Returned
  <2>2. queue \in Seq(Ids) /\ OnceEach(queue)
    BY DEF TypeInv, TypeOK, QueuedOnce
  <2>3. Members(queue') = Queued \cup {id} /\ OnceEach(queue')
    BY <1>1, <2>1, <2>2, Emplaced
  <2>4. id \in active
    BY <1>1, <1>4 DEF Shared
  <2>5. no_timer \notin Members(queue')
    BY <1>1, <1>3, <2>3, Timers
  <2> QED  BY <1>2, <2>1, <2>3, <2>4, <2>5 DEF Shared, QueuedOnce, Queued
<1>5. CASE ~(running[id] /\ period[id] > 0)
  <2>1. active' = active \ {id} /\ queue' = queue
    BY <1>5 DEF Returned
  <2> QED  BY <1>1, <1>2, <2>1, Timers DEF Shared, QueuedOnce, Queued
<1> QED  BY <1>4, <1>5

LEMMA AddQueue ==
    ASSUME QueueInv, NEW th \in Threads, addTimer(th)
    PROVE  QueuedOnce' /\ Shared'
<1> USE DEF QueueInv
<1>1. /\ nextId \in Ids /\ nextId' = nextId + 1
      /\ 1..(nextId' - 1) = 1..(nextId - 1) \cup {nextId}
      /\ nextId \notin 1..(nextId - 1)
  BY TimerAssumption DEF addTimer, TypeInv, TypeOK, Ids
<1>2. PICK d \in 0..MaxDelay : emplace(nextId, d)
  BY DEF addTimer
<1>3. nextId \notin Queued /\ nextId # worker.id
  BY <1>1, Bounds DEF TypeInv, QueueOK, HandlerOK
<1>4. Members(queue') = Queued \cup {nextId} /\ OnceEach(queue')
  <2>1. queue \in Seq(Ids) /\ OnceEach(queue)
    BY DEF TypeInv, TypeOK, QueuedOnce
  <2> QED  BY <1>1, <1>2, <1>3, <2>1, Emplaced
<1>5. worker'.id = worker.id /\ (worker'.at = "calling" => worker.at = "calling")
  <2>1. CASE worker.at = "none"
    <3>1. worker' = AtQueue("looking")
      BY <2>1 DEF addTimer
    <3> QED  BY <2>1, <3>1, AtQueueType, Timers
  <2>2. CASE worker.at # "none"
    BY <2>2 DEF addTimer
  <2> QED  BY <2>1, <2>2
<1>6. worker.at = "calling" => running'[worker.id] = running[worker.id]
  BY <1>3, Timers DEF addTimer, TypeInv, TypeOK
<1>7. active' = active \cup {nextId}
  BY DEF addTimer
<1> QED  BY <1>1, <1>3, <1>4, <1>5, <1>6, <1>7 DEF Shared, QueuedOnce, Queued

LEMMA ClearTimerQueue ==
    ASSUME QueueInv, NEW th \in Threads, NEW id \in Ids, clearTimer(th, id)
    PROVE  QueuedOnce' /\ Shared'
<1> USE DEF QueueInv
<1>1. UNCHANGED <<worker, nextId>>
  BY DEF clearTimer
<1>2. CASE erase(id) /\ active' = active \ {id} /\ ~running[id] /\ UNCHANGED running
  <2>1. /\ without(EqualTo(id)) /\ id \in EqualTo(id)
        /\ "coarse" \notin Faults => EqualTo(id) = {id}
    BY <1>2 DEF erase, EqualTo
  <2>2. queue \in Seq(Ids) /\ OnceEach(queue)
    BY DEF TypeInv, TypeOK, QueuedOnce
  <2>3. Members(queue') = Queued \ EqualTo(id) /\ OnceEach(queue')
    BY <2>1, <2>2, Erased
  <2> QED  BY <1>1, <1>2, <2>1, <2>3 DEF Shared, QueuedOnce, Queued
<1>3. CASE UNCHANGED <<queue, active>>
  <2>1. worker.at = "calling" /\ running'[worker.id] => running[worker.id]
    <3>1. running' = running \/ running' = [running EXCEPT ![id] = FALSE]
      BY DEF clearTimer
    <3> QED  BY <3>1, Timers DEF TypeInv, TypeOK
  <2> QED  BY <1>1, <1>3, <2>1 DEF Shared, QueuedOnce, Queued
<1> QED  BY <1>2, <1>3 DEF clearTimer

LEMMA ClearQueue ==
    ASSUME QueueInv, NEW th \in Threads, clear(th)
    PROVE  QueuedOnce' /\ Shared'
<1> USE DEF QueueInv
<1>1. queue' = <<>> /\ Members(queue') = {} /\ OnceEach(queue')
  <2>1. queue' = <<>>
    BY DEF clear
  <2> QED  BY <2>1 DEF Members, OnceEach
<1>2. UNCHANGED <<nextId, running, worker>>
  BY DEF clear
<1>3. worker.at = "calling" => active' = {worker.id} /\ worker.id \in 1..(nextId - 1)
  BY DEF clear, TypeInv, HandlerOK
<1>4. worker.at # "calling" => active' = {}
  BY DEF clear
<1> QED  BY <1>1, <1>2, <1>3, <1>4 DEF Shared, QueuedOnce, Queued

LEMMA QueueStep == QueueInv /\ [Next]_vars => QueueInv'
<1> SUFFICES ASSUME QueueInv, [Next]_vars
             PROVE  QueuedOnce' /\ Shared'
  BY TypeStep DEF QueueInv
<1>1. CASE UNCHANGED vars
  BY <1>1, QueueFrame DEF vars, timers
<1>2. CASE Look \/ Returned
  BY <1>2, LookQueue, ReturnedQueue
<1>3. CASE Alarm \/ Tick
  <2>1. UNCHANGED <<queue, active, running, nextId>>
    BY <1>3 DEF Alarm, Tick, timers
  <2>2. worker'.id = worker.id /\ (worker'.at = "calling" => worker.at = "calling")
    <3>1. CASE Alarm
      BY <3>1, AtQueueType, Timers DEF Alarm, QueueInv
    <3>2. CASE Tick
      BY <3>2 DEF Tick, QueueInv, TypeInv, TypeOK, Workers
    <3> QED  BY <1>3, <3>1, <3>2
  <2> QED  BY <2>1, <2>2, QueueFrame
<1>4. ASSUME NEW th \in Threads, Notify(th) \/ Woken(th) \/ Join(th) \/ Destroy(th)
      PROVE  QueuedOnce' /\ Shared'
  <2>1. UNCHANGED <<queue, active, running, nextId>>
    BY <1>4 DEF Notify, Woken, Join, Destroy, timers
  <2>2. worker'.id = worker.id /\ (worker'.at = "calling" => worker.at = "calling")
    <3>1. \/ worker' = worker
          \/ worker.at \in {"idle", "asleep"} /\ worker' = AtQueue("looking")
      BY <1>4 DEF Notify, Woken, Join, Destroy
    <3> QED  BY <3>1, AtQueueType, Timers DEF QueueInv
  <2> QED  BY <2>1, <2>2, QueueFrame
<1>5. ASSUME NEW th \in Threads, Caller(th)
      PROVE  QueuedOnce' /\ Shared'
  BY <1>4, <1>5, AddQueue, ClearTimerQueue, ClearQueue DEF Caller
<1> QED  BY <1>1, <1>2, <1>3, <1>4, <1>5 DEF Next

LEMMA QueueInit == Init => QueueInv
<1> SUFFICES ASSUME Init PROVE QueueInv
  OBVIOUS
<1>1. queue = <<>> /\ active = {} /\ worker.at = "none"
  BY AtQueueType DEF Init
<1>2. Members(queue) = {} /\ OnceEach(queue)
  BY <1>1 DEF Members, OnceEach
<1> QED  BY <1>1, <1>2, InitType DEF QueueInv, QueuedOnce, Shared, Queued

\* Unless two timers can have one instant, each timer that was created and not
\* cleared is either queued, once, or in its handler, whatever the order in
\* which any number of threads add and clear timers, those that are running
\* included, and handlers clear their own (paxos_timer.cpp:47-78, 134-146, 205-236).
THEOREM NoTimerForgotten ==
    ASSUME "coarse" \notin Faults
    PROVE  Spec => []NoneForgotten
<1>1. Init => QueueInv
  BY QueueInit
<1>2. QueueInv /\ [Next]_vars => QueueInv'
  BY QueueStep
<1>3. QueueInv => NoneForgotten
  <2> SUFFICES ASSUME QueueInv PROVE NoneForgotten
    OBVIOUS
  <2>1. DOMAIN queue = 1..Len(queue)
    BY DEF QueueInv, TypeInv, TypeOK
  <2>2. ToSet(queue) = Queued
    BY <2>1 DEF ToSet, Queued, Members
  <2>3. IsInjective(queue)
    BY <2>1 DEF IsInjective, QueueInv, QueuedOnce, OnceEach
  <2>4. \A id \in active : worker.id = id \/ \E i \in DOMAIN queue : queue[i] = id
    BY <2>1 DEF QueueInv, Shared, Queued, Members
  <2> QED  BY <2>2, <2>3, <2>4 DEF NoneForgotten, QueueInv, Shared
<1> QED  BY <1>1, <1>2, <1>3, PTL DEF Spec

-----------------------------------------------------------------------------
(* A timer that was cleared stays quiet                                    *)

\* What the theorem assumes: condition variables do not wake up by themselves,
\* the constructor has set current_clearing_timer, and nobody clears a timer
\* twice.
Disciplined == {"spurious", "uninitialised", "cleared_twice"} \cap Faults = {}

\* A step that leaves the timers, the handler and what threads wait for alone.
LEMMA QuietFrame ==
    ASSUME QuietInv,
           UNCHANGED <<queue, active, running, nextId, asked, cleared, current_clearing_timer>>,
           worker'.id = worker.id, worker'.at = "calling" => worker.at = "calling",
           \A th \in Threads :
               call'[th] = call[th] \/ call'[th].at \notin {"waiting", "woken", "notify_clear"}
    PROVE  RunningOK' /\ WaitingOK' /\ GoneOK'
<1>1. RunningOK'
  BY DEF QuietInv, RunningOK
<1>2. \A id : Gone(id)' <=> Gone(id)
  BY DEF Gone
<1>3. WaitingOK' /\ GoneOK'
  BY <1>2 DEF QuietInv, WaitingOK, GoneOK
<1> QED  BY <1>1, <1>3

LEMMA LookQuiet ==
    ASSUME QuietInv, Look
    PROVE  RunningOK' /\ WaitingOK' /\ GoneOK'
<1> USE DEF QuietInv, QueueInv
<1>1. worker.id = no_timer
  BY Timers DEF Look
<1>2. CASE worker' \in {AtQueue("ended"), AtQueue("idle")} /\ UNCHANGED <<queue, running>>
  <2>1. worker'.at # "calling" /\ worker'.id = no_timer
    BY <1>2, AtQueueType
  <2> QED  BY <1>1, <1>2, <2>1, QuietFrame DEF Look, clearing
<1>3. CASE /\ worker' = [at |-> "asleep", id |-> no_timer, alarm |-> next[Head(queue)]]
           /\ UNCHANGED <<queue, running>>
  BY <1>1, <1>3, QuietFrame DEF Look, clearing
<1>4. CASE /\ queue # <<>>
           /\ queue' = Tail(queue)
           /\ running' = [running EXCEPT ![Head(queue)] = TRUE]
           /\ worker' = [at |-> "calling", id |-> Head(queue), alarm |-> 0]
  <2> DEFINE id == Head(queue)
  <2>1. /\ Queued = Members(queue') \cup {id} /\ id \in Ids
    BY <1>4, Popped DEF TypeInv, TypeOK, Queued
  <2>2. worker'.id = id /\ id \in active /\ UNCHANGED <<active, nextId, clearing, call>>
    BY <1>4, <2>1 DEF Look, Shared
  <2> HIDE DEF id
  <2>3. running' = [running EXCEPT ![id] = TRUE] /\ \A i \in Ids : ~running[i]
    BY <1>1, <1>4, Bounds DEF id, RunningOK
  <2>4. RunningOK'
    BY <2>1, <2>2, <2>3 DEF RunningOK, clearing, TypeInv, TypeOK
  <2>5. WaitingOK'
    <3>1. \A th \in Threads : call[th].at = "waiting" => call[th].id \in Ids
      BY DEF TypeInv, TypeOK, CallsOK
    <3> QED  BY <1>1, <2>2, <3>1, Bounds DEF WaitingOK
  <2>6. \A i : Gone(i) => Gone(i)'
    BY <2>2 DEF Gone
  <2> QED  BY <2>2, <2>4, <2>5, <2>6 DEF GoneOK, clearing
<1> QED  BY <1>2, <1>3, <1>4 DEF Look

LEMMA ReturnedQuiet ==
    ASSUME QuietInv, Returned
    PROVE  RunningOK' /\ WaitingOK' /\ GoneOK'
<1> USE DEF QuietInv, QueueInv
<1>0. PICK id \in Ids : id = worker.id
  BY Timers DEF Returned
<1>1. worker.at = "calling" /\ id # no_timer /\ id < nextId
  <2>1. id < nextId
    BY <1>0 DEF Returned, TypeInv, HandlerOK, TypeOK
  <2> QED  BY <1>0, <2>1, Timers DEF Returned
<1>2. /\ worker'.at # "calling" /\ worker'.id = no_timer
      /\ UNCHANGED <<nextId, asked, current_clearing_timer>>
      /\ running' = [running EXCEPT ![id] = FALSE]
  BY <1>0, AtQueueType DEF Returned
<1>3. \A i \in Ids : ~running'[i]
  BY <1>0, <1>1, <1>2 DEF RunningOK, TypeInv, TypeOK
<1>4. active' = active \/ active' = active \ {id}
  BY <1>0 DEF Returned
<1>6. RunningOK'
  BY <1>2, <1>3 DEF RunningOK
<1>7. \A i \in Ids : Gone(i) => Gone(i)'
  BY <1>2, <1>4, Bounds DEF Gone
<1>8. ~running[id] => Gone(id)'
  BY <1>0, <1>1, <1>2 DEF Gone, Returned, TypeInv, TypeOK
<1>9. \A th \in Threads :
         \/ call'[th] = call[th] /\ call'[th].at # "waiting"
         \/ /\ call'[th].at = "woken" /\ call'[th].id = id
            /\ ~running[id]
  <2> TAKE th \in Threads
  <2>1. CASE running[id]
    <3>1. call[th].at # "waiting"
      BY <1>0, <2>1 DEF WaitingOK
    <3> QED  BY <1>0, <2>1, <3>1 DEF Returned
  <2>2. CASE ~running[id]
    <3>1. call'[th] = WokenFrom(id)[th]
      BY <1>0, <2>2 DEF Returned
    <3>2. CASE call[th] = In("waiting", id)
      <4>1. call'[th] = In("woken", id)
        BY <3>1, <3>2 DEF WokenFrom
      <4> QED  BY <1>1, <2>2, <4>1, InType
    <3>3. CASE call[th] # In("waiting", id)
      <4>1. call'[th] = call[th]
        BY <3>1, <3>3 DEF WokenFrom
      <4>2. call[th] \in Calls
        BY DEF TypeInv, TypeOK
      <4>3. call[th].at = "waiting" => call[th] = In("waiting", call[th].id)
        BY <4>2 DEF Calls, In
      <4>4. call[th].at # "waiting"
        BY <1>0, <3>3, <4>3 DEF WaitingOK
      <4> QED  BY <4>1, <4>4
    <3> QED  BY <3>2, <3>3
  <2> QED  BY <2>1, <2>2
<1>10. WaitingOK'
  BY <1>9 DEF WaitingOK
<1>11. GoneOK'
  <2>1. \A i \in cleared' : Gone(i)'
    <3>1. cleared \subseteq Ids
      BY DEF TypeInv, TypeOK
    <3>2. cleared' = cleared \/ (~running[id] /\ cleared' = cleared \cup {id})
      BY <1>0 DEF Returned
    <3> QED  BY <1>7, <1>8, <3>1, <3>2 DEF GoneOK
  <2>2. ASSUME NEW th \in Threads, call'[th].at \in {"woken", "notify_clear"}
        PROVE  (call[th].id = no_timer \/ Gone(call[th].id))'
    <3>1. CASE call'[th] = call[th]
      <4>1. PICK i : i = call[th].id
        OBVIOUS
      <4>2. i = no_timer \/ (i \in Ids /\ Gone(i))
        BY <2>2, <3>1, <4>1 DEF GoneOK, TypeInv, TypeOK, Calls
      <4> QED  BY <1>7, <3>1, <4>1, <4>2 DEF Gone
    <3>2. CASE call'[th].id = id /\ ~running[id]
      BY <1>8, <3>2 DEF Gone
    <3> QED  BY <1>9, <3>1, <3>2
  <2> QED  BY <2>1, <2>2 DEF GoneOK
<1> QED  BY <1>6, <1>10, <1>11

LEMMA AddQuiet ==
    ASSUME QuietInv, NEW th \in Threads, addTimer(th)
    PROVE  RunningOK' /\ WaitingOK' /\ GoneOK'
<1> USE DEF QuietInv, QueueInv
<1>1. /\ nextId \in Ids /\ nextId' = nextId + 1 /\ nextId \in Nat
      /\ 1..(nextId' - 1) = 1..(nextId - 1) \cup {nextId}
      /\ nextId \notin 1..(nextId - 1)
  BY TimerAssumption DEF addTimer, TypeInv, TypeOK, Ids
<1>3. nextId # worker.id
  BY <1>1, Bounds DEF TypeInv, HandlerOK
<1>5. worker'.id = worker.id /\ (worker'.at = "calling" => worker.at = "calling")
  <2>1. CASE worker.at = "none"
    <3>1. worker' = AtQueue("looking")
      BY <2>1 DEF addTimer
    <3> QED  BY <2>1, <3>1, AtQueueType, Timers
  <2>2. CASE worker.at # "none"
    BY <2>2 DEF addTimer
  <2> QED  BY <2>1, <2>2
<1>6. /\ active' = active \cup {nextId} /\ running' = [running EXCEPT ![nextId] = FALSE]
      /\ UNCHANGED <<asked, cleared, current_clearing_timer>>
  BY DEF addTimer, clearing
<1>7. \A i \in Ids : running'[i] <=> running[i] /\ i # nextId
  BY <1>6 DEF TypeInv, TypeOK
<1>8. RunningOK'
  <2>1. worker.at = "calling" => worker.id \in Ids
    BY Timers
  <2> QED  BY <1>1, <1>3, <1>5, <1>6, <1>7, <2>1 DEF RunningOK
<1>9. \A t \in Threads : call'[t] = call[t] \/ call'[t].at = "notify_add"
  BY <1>1, InType DEF addTimer, TypeInv, TypeOK
<1>10. WaitingOK'
  <2>1. \A t \in Threads : call[t].at = "waiting" => call[t].id \in Ids
    BY DEF TypeInv, TypeOK, CallsOK
  <2> QED  BY <1>5, <1>7, <1>9, <2>1 DEF WaitingOK
<1>11. \A i \in Ids : Gone(i) => Gone(i)'
  BY <1>1, <1>5, <1>6, Bounds DEF Gone
<1>12. GoneOK'
  <2>1. cleared \subseteq Ids /\ \A t \in Threads : call[t].id \in Ids \cup {no_timer}
    BY DEF TypeInv, TypeOK, Calls
  <2> QED  BY <1>6, <1>9, <1>11, <2>1 DEF GoneOK
<1> QED  BY <1>8, <1>10, <1>12

LEMMA ClearTimerQuiet ==
    ASSUME Disciplined, QuietInv, NEW th \in Threads, NEW id \in Ids, clearTimer(th, id)
    PROVE  RunningOK' /\ WaitingOK' /\ GoneOK'
<1> USE DEF QuietInv, QueueInv
<1>1. /\ id < nextId /\ id \notin asked /\ id # no_timer /\ id \in 1..(nextId - 1)
      /\ current_clearing_timer # id
      /\ asked' = asked \cup {id} /\ current_clearing_timer' = id
      /\ UNCHANGED <<nextId, worker>>
  <2>1. id < nextId /\ id \notin asked /\ id # no_timer /\ id \in Nat \ {0}
    BY Bounds DEF clearTimer, Disciplined, no_timer
  <2>2. current_clearing_timer # id
    BY <2>1 DEF RunningOK
  <2>3. id \in 1..(nextId - 1)
    BY <2>1 DEF TypeInv, TypeOK
  <2> QED  BY <2>1, <2>2, <2>3 DEF clearTimer
<1>2. worker.id = id => running[id]
  BY <1>1, Timers DEF RunningOK
<1>3. running[id] => worker.id = id /\ id \in active
  BY DEF RunningOK
<1>4. \A i \in Ids \ {id} : running'[i] = running[i]
  BY DEF clearTimer, TypeInv, TypeOK
<1>5. running'[id] => running[id]
  <2>1. running' = running \/ running' = [running EXCEPT ![id] = FALSE]
    BY DEF clearTimer
  <2> QED  BY <2>1 DEF TypeInv, TypeOK
<1>6. active' \subseteq active /\ (active' = active \/ (active' = active \ {id} /\ ~running[id]))
  BY DEF clearTimer
<1>7. RunningOK'
  <2>1. \A i \in Ids : running'[i] => worker'.id = i /\ i \in active'
    BY <1>1, <1>3, <1>4, <1>5, <1>6 DEF RunningOK
  <2>2. worker'.at = "calling" /\ worker'.id \notin asked' => running'[worker'.id]
    BY <1>1, <1>4, Timers DEF RunningOK
  <2> QED  BY <1>1, <2>1, <2>2 DEF RunningOK
<1>8. \A i : Gone(i) => Gone(i)'
  BY <1>1, <1>6 DEF Gone
<1>9. \A t \in Threads :
         \/ call'[t] = call[t]
         \/ call'[t] = In("waiting", id) /\ running[id] /\ ~running'[id]
         \/ call'[t] = In("notify_clear", id) /\ Gone(id)'
  <2>1. CASE call' = call
    BY <2>1
  <2>2. CASE /\ running[id] /\ running' = [running EXCEPT ![id] = FALSE]
             /\ call' = [call EXCEPT ![th] = In("waiting", id)]
    BY <2>2 DEF TypeInv, TypeOK
  <2>3. CASE /\ ~running[id] /\ active' = active \ {id}
             /\ call' = [call EXCEPT ![th] = In("notify_clear", id)]
    <3>1. Gone(id)'
      BY <1>1, <1>2, <2>3 DEF Gone
    <3> QED  BY <2>3, <3>1 DEF TypeInv, TypeOK
  <2> QED  BY <2>1, <2>2, <2>3 DEF clearTimer
<1>10. WaitingOK'
  <2> SUFFICES ASSUME NEW t \in Threads, call'[t].at = "waiting"
               PROVE  worker'.id = call'[t].id /\ ~running'[call'[t].id]
    BY DEF WaitingOK
  <2>1. CASE call'[t] = call[t]
    <3>1. worker.id = call[t].id /\ ~running[call[t].id]
      BY <2>1 DEF WaitingOK
    <3>2. call[t].id \in Ids /\ call[t].id # id
      BY <1>2, <2>1, <3>1 DEF TypeInv, CallsOK, TypeOK
    <3> QED  BY <1>1, <1>4, <2>1, <3>1, <3>2
  <2>2. CASE call'[t] = In("waiting", id) /\ running[id] /\ ~running'[id]
    BY <1>1, <1>3, <2>2, InType
  <2>3. CASE call'[t] = In("notify_clear", id)
    BY <2>3, InType
  <2> QED  BY <1>9, <2>1, <2>2, <2>3
<1>11. GoneOK'
  <2>1. \A i \in cleared' : Gone(i)'
    <3>1. cleared' = cleared \/ (cleared' = cleared \cup {id} /\ id \notin active)
      <4>1. CASE id \notin active
        BY <4>1 DEF clearTimer
      <4>2. CASE id \in active /\ running[id] /\ th = Worker
        BY <1>3, <4>2 DEF clearTimer
      <4>3. CASE id \in active /\ ~(running[id] /\ th = Worker)
        BY <1>1, <4>3 DEF clearTimer
      <4> QED  BY <4>1, <4>2, <4>3
    <3>2. id \notin active => Gone(id)'
      BY <1>1, <1>2, <1>3, <1>6 DEF Gone
    <3> QED  BY <1>8, <3>1, <3>2 DEF GoneOK
  <2>2. ASSUME NEW t \in Threads, call'[t].at \in {"woken", "notify_clear"}
        PROVE  (call[t].id = no_timer \/ Gone(call[t].id))'
    <3>1. CASE call'[t] = call[t]
      <4>1. call[t].id = no_timer \/ Gone(call[t].id)
        BY <2>2, <3>1 DEF GoneOK
      <4> QED  BY <1>1, <1>6, <3>1, <4>1 DEF Gone
    <3>2. CASE call'[t] = In("waiting", id)
      BY <2>2, <3>2, InType
    <3>3. CASE call'[t] = In("notify_clear", id) /\ Gone(id)'
      <4>1. call'[t].id = id
        BY <3>3, InType
      <4> QED  BY <3>3, <4>1 DEF Gone
    <3> QED  BY <1>9, <3>1, <3>2, <3>3
  <2> QED  BY <2>1, <2>2 DEF GoneOK
<1> QED  BY <1>7, <1>10, <1>11

LEMMA ClearQuiet ==
    ASSUME QuietInv, NEW th \in Threads, clear(th)
    PROVE  RunningOK' /\ WaitingOK' /\ GoneOK'
<1> USE DEF QuietInv, QueueInv
<1>1. /\ UNCHANGED <<nextId, running, worker, current_clearing_timer>>
      /\ asked \subseteq asked' /\ asked' \subseteq asked \cup active
      /\ active' \subseteq {worker.id}
  BY DEF clear
<1>2. worker.at # "calling" => \A i \in Ids : ~running[i]
  BY Timers, Bounds DEF RunningOK
<1>3. worker.at = "calling" => active' = {worker.id} /\ asked' = asked
  BY DEF clear
<1>4. RunningOK'
  BY <1>1, <1>2, <1>3 DEF RunningOK, Shared
<1>5. \A t \in Threads :
         call'[t] = call[t] \/ call'[t] \in {In("notify_clear", no_timer), In("assert", no_timer)}
  BY DEF clear, TypeInv, TypeOK
<1>6. WaitingOK'
  <2> SUFFICES ASSUME NEW t \in Threads, call'[t].at = "waiting"
               PROVE  worker'.id = call'[t].id /\ ~running'[call'[t].id]
    BY DEF WaitingOK
  <2>1. call'[t] = call[t]
    BY <1>5, InType
  <2> QED  BY <1>1, <2>1 DEF WaitingOK
<1>7. \A i : Gone(i) => Gone(i)'
  BY <1>1 DEF Gone
<1>8. \A i \in cleared' : Gone(i)'
  <2>1. cleared' = cleared \/ (worker.at # "calling" /\ cleared' = cleared \cup active)
    BY DEF clear
  <2>2. ASSUME worker.at # "calling", NEW i \in active
        PROVE  Gone(i)'
    <3>1. i < nextId /\ i \in Ids /\ worker.id = no_timer /\ active' = {}
      BY <2>2, Timers DEF Shared, TypeInv, TypeOK, clear
    <3> QED  BY <1>1, <3>1, Bounds DEF Gone
  <2> QED  BY <1>7, <2>1, <2>2 DEF GoneOK
<1>9. ASSUME NEW t \in Threads, call'[t].at \in {"woken", "notify_clear"}
      PROVE  (call[t].id = no_timer \/ Gone(call[t].id))'
  <2>1. CASE call'[t] = call[t]
    <3>1. call[t].id = no_timer \/ Gone(call[t].id)
      BY <1>9, <2>1 DEF GoneOK
    <3> QED  BY <1>1, <2>1, <3>1 DEF Gone
  <2>2. CASE call'[t] \in {In("notify_clear", no_timer), In("assert", no_timer)}
    BY <2>2, InType
  <2> QED  BY <1>5, <2>1, <2>2
<1> QED  BY <1>4, <1>6, <1>8, <1>9 DEF GoneOK

LEMMA NotifyQuiet ==
    ASSUME Disciplined, QuietInv, NEW th \in Threads, Notify(th) \/ Woken(th)
    PROVE  RunningOK' /\ WaitingOK' /\ GoneOK'
<1> USE DEF QuietInv, QueueInv
<1>1. /\ UNCHANGED <<nextId, active, queue, running, current_clearing_timer, asked>>
      /\ \/ worker' = worker
         \/ worker.at \in {"idle", "asleep"} /\ worker' = AtQueue("looking")
  BY DEF Notify, Woken, timers
<1>2. worker'.id = worker.id /\ (worker'.at = "calling" => worker.at = "calling")
  BY <1>1, AtQueueType, Timers
<1>3. \A i : Gone(i)' <=> Gone(i)
  BY <1>1, <1>2 DEF Gone
<1>4. RunningOK'
  BY <1>1, <1>2 DEF RunningOK
<1>5. \A t \in Threads : \/ call'[t] = call[t]
                          \/ call'[t] \in {In("join", no_timer), In("assert", no_timer), Idle}
  BY DEF Notify, Woken, FindsMore, TypeInv, TypeOK
<1>6. WaitingOK'
  <2> SUFFICES ASSUME NEW t \in Threads, call'[t].at = "waiting"
               PROVE  worker'.id = call'[t].id /\ ~running'[call'[t].id]
    BY DEF WaitingOK
  <2>1. call'[t] = call[t]
    BY <1>5, InType, IdleType
  <2> QED  BY <1>1, <1>2, <2>1 DEF WaitingOK
<1>7. \A i \in cleared' : i \in cleared \/ Gone(i)
  <2>1. CASE Notify(th)
    <3>1. cleared' = cleared \/ (call[th].at = "notify_clear" /\
                                 cleared' = cleared \cup ({call[th].id} \ {no_timer}))
      BY <2>1 DEF Notify
    <3> QED  BY <3>1 DEF GoneOK
  <2>2. CASE Woken(th)
    <3>1. call[th].at = "woken" /\ cleared' = cleared \cup {call[th].id}
      BY <2>2 DEF Woken, Disciplined
    <3>2. call[th].id # no_timer
      BY <3>1, Bounds DEF TypeInv, CallsOK, TypeOK
    <3> QED  BY <3>1, <3>2 DEF GoneOK
  <2> QED  BY <2>1, <2>2
<1>8. ASSUME NEW t \in Threads, call'[t].at \in {"woken", "notify_clear"}
      PROVE  (call[t].id = no_timer \/ Gone(call[t].id))'
  <2>1. call'[t] = call[t]
    BY <1>5, <1>8, InType, IdleType
  <2>2. call[t].id = no_timer \/ Gone(call[t].id)
    BY <1>8, <2>1 DEF GoneOK
  <2> QED  BY <1>1, <1>2, <2>1, <2>2 DEF Gone
<1>9. GoneOK'
  BY <1>3, <1>7, <1>8 DEF GoneOK
<1> QED  BY <1>4, <1>6, <1>9

LEMMA QuietStep ==
    ASSUME Disciplined
    PROVE  QuietInv /\ [Next]_vars => QuietInv'
<1> SUFFICES ASSUME QuietInv, [Next]_vars
             PROVE  RunningOK' /\ WaitingOK' /\ GoneOK'
  BY QueueStep DEF QuietInv
<1>1. CASE UNCHANGED vars
  BY <1>1, QuietFrame DEF vars, timers, clearing
<1>2. CASE Look \/ Returned
  BY <1>2, LookQuiet, ReturnedQuiet
<1>3. CASE Alarm \/ Tick
  <2>1. UNCHANGED <<queue, active, running, nextId, call, asked, cleared, current_clearing_timer>>
    BY <1>3 DEF Alarm, Tick, timers, clearing
  <2>2. worker'.id = worker.id /\ (worker'.at = "calling" => worker.at = "calling")
    <3>1. CASE Alarm
      BY <3>1, AtQueueType, Timers DEF Alarm, QuietInv, QueueInv
    <3>2. CASE Tick
      BY <3>2 DEF Tick, QuietInv, QueueInv, TypeInv, TypeOK, Workers
    <3> QED  BY <1>3, <3>1, <3>2
  <2> QED  BY <2>1, <2>2, QuietFrame
<1>4. ASSUME NEW th \in Threads, Join(th) \/ Destroy(th)
      PROVE  RunningOK' /\ WaitingOK' /\ GoneOK'
  <2>1. UNCHANGED <<timers, worker, clearing>>
    BY <1>4 DEF Join, Destroy
  <2>2. \A t \in Threads : call'[t] \in {call[t], In("notify_end", no_timer), Idle}
    BY <1>4 DEF Join, Destroy, QuietInv, QueueInv, TypeInv, TypeOK
  <2>3. \A t \in Threads :
           call'[t] = call[t] \/ call'[t].at \notin {"waiting", "woken", "notify_clear"}
    BY <2>2, InType, IdleType
  <2> QED  BY <2>1, <2>3, QuietFrame DEF timers, clearing
<1>5. ASSUME NEW th \in Threads, Caller(th) \/ Notify(th) \/ Woken(th)
      PROVE  RunningOK' /\ WaitingOK' /\ GoneOK'
  BY <1>4, <1>5, AddQuiet, ClearTimerQuiet, ClearQuiet, NotifyQuiet DEF Caller
<1> QED  BY <1>1, <1>2, <1>3, <1>4, <1>5 DEF Next

LEMMA QuietInit ==
    ASSUME Disciplined
    PROVE  Init => QuietInv
<1> SUFFICES ASSUME Init PROVE QuietInv
  OBVIOUS
<1>1. worker.at = "none" /\ worker.id = no_timer
  BY AtQueueType DEF Init
<1>2. \A th \in Threads : call[th].at = "none"
  BY IdleType DEF Init
<1>3. RunningOK
  BY <1>1 DEF RunningOK, Init, Disciplined
<1>4. WaitingOK /\ GoneOK
  BY <1>2 DEF WaitingOK, GoneOK, Init
<1> QED  BY <1>3, <1>4, QueueInit DEF QuietInv

\* clearTimer() keeps the promise of paxos_timer.h, for any number of threads
\* that clear any number of timers, also from within handlers: once it has
\* returned to another thread the handler is not running, and never will be
\* (paxos_timer.cpp:47-78, 165-176, 200-242).
THEOREM ClearingIsFinal ==
    ASSUME Disciplined
    PROVE  Spec => []ClearedStaysQuiet
<1>1. Init => QuietInv
  BY QuietInit
<1>2. QuietInv /\ [Next]_vars => QuietInv'
  BY QuietStep
<1>3. QuietInv => ClearedStaysQuiet
  BY DEF QuietInv, GoneOK, Gone, ClearedStaysQuiet
<1> QED  BY <1>1, <1>2, <1>3, PTL DEF Spec

-----------------------------------------------------------------------------
(* Timers fire in order                                                    *)

\* A timer is put where its instant belongs.
LEMMA EmplacedInOrder ==
    ASSUME queue \in Seq(Ids), Sorted(queue),
           NEW id \in Ids, NEW d \in Int, emplace(id, d), id \notin Queued,
           next \in [Ids -> Int], next' = [next EXCEPT ![id] = d]
    PROVE  Sorted(queue)'
<1>1. PICK k \in 1..(Len(queue) + 1) :
         /\ \A j \in 1..Len(queue) : IF j < k THEN next[queue[j]] <= d
                                              ELSE next[queue[j]] >= d
         /\ queue' \in Seq(Ids)
         /\ Len(queue') = Len(queue) + 1
         /\ \A i \in 1..(Len(queue) + 1) :
               queue'[i] = IF i < k THEN queue[i]
                           ELSE IF i = k THEN id ELSE queue[i - 1]
  BY EmplacedAt, Zenon
<1>2. PICK r : r = queue'
  OBVIOUS
<1>3. /\ Len(r) = Len(queue) + 1
      /\ \A i \in 1..(Len(queue) + 1) :
            r[i] = IF i < k THEN queue[i] ELSE IF i = k THEN id ELSE queue[i - 1]
  BY <1>1, <1>2
<1>4. Len(queue) \in Nat /\ k \in Nat
  OBVIOUS
<1> DEFINE at(i) == next[queue[i]]
<1>5. \A i \in 1..Len(queue) : next'[queue[i]] = at(i) /\ at(i) \in Int
  BY DEF Queued, Members
<1>6. next'[id] = d
  OBVIOUS
<1>7. /\ \A i \in 1..Len(queue) : (i < k => at(i) <= d) /\ (i >= k => d <= at(i))
      /\ \A i, j \in 1..Len(queue) : i < j => at(i) <= at(j)
  <2>1. \A i \in 1..Len(queue) : IF i < k THEN at(i) <= d ELSE at(i) >= d
    BY <1>1
  <2>2. \A i, j \in 1..Len(queue) : i < j => at(i) <= at(j)
    BY DEF Sorted
  <2> HIDE DEF at
  <2> QED  BY <1>4, <1>5, <2>1, <2>2
<1> HIDE DEF at
<1>8. ASSUME NEW i \in 1..(Len(queue) + 1), NEW j \in 1..(Len(queue) + 1), i < j
      PROVE  next'[r[i]] <= next'[r[j]]
  <2>1. CASE j < k
    <3>1. i \in 1..Len(queue) /\ j \in 1..Len(queue) /\ r[i] = queue[i] /\ r[j] = queue[j]
      BY <1>3, <1>4, <1>8, <2>1
    <3> QED  BY <1>5, <1>7, <1>8, <3>1
  <2>2. CASE j = k
    <3>1. i \in 1..Len(queue) /\ i < k /\ r[i] = queue[i] /\ r[j] = id
      BY <1>3, <1>4, <1>8, <2>2
    <3> QED  BY <1>5, <1>6, <1>7, <3>1
  <2>3. CASE j > k /\ i < k
    <3>1. /\ i \in 1..Len(queue) /\ j - 1 \in 1..Len(queue) /\ i < j - 1
          /\ r[i] = queue[i] /\ r[j] = queue[j - 1]
      BY <1>3, <1>4, <1>8, <2>3
    <3> QED  BY <1>5, <1>7, <3>1
  <2>4. CASE j > k /\ i = k
    <3>1. j - 1 \in 1..Len(queue) /\ j - 1 >= k /\ r[i] = id /\ r[j] = queue[j - 1]
      BY <1>3, <1>4, <1>8, <2>4
    <3> QED  BY <1>5, <1>6, <1>7, <3>1
  <2>5. CASE j > k /\ i > k
    <3>1. /\ i - 1 \in 1..Len(queue) /\ j - 1 \in 1..Len(queue) /\ i - 1 < j - 1
          /\ r[i] = queue[i - 1] /\ r[j] = queue[j - 1]
      BY <1>3, <1>4, <1>8, <2>5
    <3> QED  BY <1>5, <1>7, <3>1
  <2>6. j < k \/ j = k \/ j > k
    BY <1>4
  <2>7. i < k \/ i = k \/ i > k
    BY <1>4
  <2> QED  BY <2>1, <2>2, <2>3, <2>4, <2>5, <2>6, <2>7, Zenon
<1> QED  BY <1>1, <1>2, <1>8 DEF Sorted

\* A queue stays in order when a stretch of it is erased.
LEMMA ErasedInOrder ==
    ASSUME queue \in Seq(Ids), Sorted(queue), NEW T, without(T), UNCHANGED next
    PROVE  Sorted(queue)'
<1>1. PICK f \in 1..(Len(queue) + 1), e \in 1..(Len(queue) + 1) :
         f <= e /\ queue' = Cut(queue, f, e)
  BY DEF without, Cut
<1>2. f <= e
  BY <1>1
<1>3. /\ Len(Cut(queue, f, e)) = Len(queue) - (e - f)
      /\ \A i \in 1..Len(Cut(queue, f, e)) :
            Cut(queue, f, e)[i] = IF i < f THEN queue[i] ELSE queue[i + (e - f)]
  BY <1>2, CutIsSeq
<1>4. /\ Len(queue) \in Nat /\ f \in Nat /\ e \in Nat /\ Len(queue') = Len(queue) - (e - f)
      /\ \A i \in 1..Len(queue') :
            queue'[i] = IF i < f THEN queue[i] ELSE queue[i + (e - f)]
  BY <1>1, <1>3
<1>5. ASSUME NEW i \in 1..Len(queue'), NEW j \in 1..Len(queue'), i < j
      PROVE  next[queue'[i]] <= next[queue'[j]]
  <2> DEFINE m == IF i < f THEN i ELSE i + (e - f)
             n == IF j < f THEN j ELSE j + (e - f)
  <2>1. m \in 1..Len(queue) /\ n \in 1..Len(queue) /\ m < n
    BY <1>2, <1>4, <1>5
  <2>2. queue'[i] = queue[m] /\ queue'[j] = queue[n]
    BY <1>4
  <2> HIDE DEF m, n
  <2> QED  BY <2>1, <2>2 DEF Sorted
<1> QED  BY <1>5 DEF Sorted

\* The worker takes the earliest.
LEMMA HeadIsEarliest ==
    ASSUME queue \in Seq(Ids), queue # <<>>, Sorted(queue), next \in [Ids -> Int]
    PROVE  /\ \A x \in Queued : next[Head(queue)] <= next[x]
           /\ Sorted(Tail(queue))
<1>1. /\ Len(Tail(queue)) = Len(queue) - 1 /\ Len(queue) \in Nat \ {0}
      /\ \A i \in 1..(Len(queue) - 1) : Tail(queue)[i] = queue[i + 1]
      /\ Head(queue) = queue[1] /\ \A i \in 1..Len(queue) : next[queue[i]] \in Int
  OBVIOUS
<1>2. ASSUME NEW i \in 1..Len(queue)
      PROVE  next[Head(queue)] <= next[queue[i]]
  BY <1>1 DEF Sorted
<1>3. ASSUME NEW i \in 1..Len(Tail(queue)), NEW j \in 1..Len(Tail(queue)), i < j
      PROVE  next[Tail(queue)[i]] <= next[Tail(queue)[j]]
  <2>1. /\ i + 1 \in 1..Len(queue) /\ j + 1 \in 1..Len(queue) /\ i + 1 < j + 1
        /\ Tail(queue)[i] = queue[i + 1] /\ Tail(queue)[j] = queue[j + 1]
    BY <1>1, <1>3
  <2> QED  BY <2>1 DEF Sorted
<1> QED  BY <1>2, <1>3 DEF Sorted, Queued, Members

\* A step that leaves the timers and the requests alone.
LEMMA FiringFrame ==
    ASSUME PromiseInv, UNCHANGED <<queue, active, running, next, asked>>,
           worker'.id = worker.id, worker'.at = "calling" => worker.at = "calling"
    PROVE  Sorted(queue)' /\ FiringOK'
BY DEF PromiseInv, Sorted, FiringOK, Queued

\* The worker takes the head of the queue, so that the rest stays in order.
LEMMA LookFiring ==
    ASSUME PromiseInv, Look
    PROVE  Sorted(queue)' /\ FiringOK'
<1> USE DEF PromiseInv, QuietInv, QueueInv
<1>1. worker.id = no_timer /\ UNCHANGED <<active, next, asked>>
  BY Timers DEF Look, clearing
<1>2. CASE worker' \in {AtQueue("ended"), AtQueue("idle")} /\ UNCHANGED <<queue, running>>
  <2>1. worker'.at # "calling" /\ worker'.id = no_timer
    BY <1>2, AtQueueType
  <2> QED  BY <1>1, <1>2, <2>1, FiringFrame
<1>3. CASE /\ worker' = [at |-> "asleep", id |-> no_timer, alarm |-> next[Head(queue)]]
           /\ UNCHANGED <<queue, running>>
  BY <1>1, <1>3, FiringFrame
<1>4. CASE /\ queue # <<>>
           /\ queue' = Tail(queue)
           /\ running' = [running EXCEPT ![Head(queue)] = TRUE]
           /\ worker' = [at |-> "calling", id |-> Head(queue), alarm |-> 0]
  <2>1. Queued = Members(queue') \cup {Head(queue)}
    BY <1>4, Popped DEF TypeInv, TypeOK, Queued
  <2>2. Sorted(queue)'
    <3>1. queue \in Seq(Ids) /\ next \in [Ids -> Int]
      BY Bounds DEF TypeInv, TypeOK
    <3>2. Sorted(Tail(queue))
      BY <1>4, <3>1, HeadIsEarliest
    <3> QED  BY <1>1, <1>4, <3>2 DEF Sorted
  <2>3. worker'.id = Head(queue)
    BY <1>4
  <2>4. \A id \in asked : id \in Ids /\ id # Head(queue) /\ ~running'[id]
    BY <1>4, <2>1 DEF FiringOK, TypeInv, TypeOK
  <2>5. FiringOK'
    BY <1>1, <2>1, <2>3, <2>4 DEF FiringOK, Queued, Shared
  <2> QED  BY <2>2, <2>5
<1> QED  BY <1>2, <1>3, <1>4 DEF Look

LEMMA ReturnedFiring ==
    ASSUME PromiseInv, Returned
    PROVE  Sorted(queue)' /\ FiringOK'
<1> USE DEF PromiseInv, QuietInv, QueueInv
<1>1. PICK id \in Ids : id = worker.id /\ id \notin Queued
  BY Timers DEF Returned, Shared
<1>2. /\ worker'.at # "calling" /\ asked' = asked
      /\ running' = [running EXCEPT ![id] = FALSE]
  BY <1>1, AtQueueType DEF Returned
<1>3. queue \in Seq(Ids) /\ next \in [Ids -> Int]
  BY Bounds DEF TypeInv, TypeOK
<1>4. \A i \in asked : ~running'[i]
  BY <1>2 DEF FiringOK, TypeInv, TypeOK
<1>5. CASE running[id] /\ period[id] > 0
  <2> DEFINE d == next[id] + period[id]
  <2>1. emplace(id, d) /\ next' = [next EXCEPT ![id] = d]
    BY <1>1, <1>5 DEF Returned
  <2>2. d \in Int
    BY <1>3 DEF TypeInv, TypeOK
  <2> HIDE DEF d
  <2>3. Sorted(queue)'
    BY <1>1, <1>3, <2>1, <2>2, EmplacedInOrder
  <2>4. Members(queue') = Queued \cup {id}
    BY <1>3, <2>1, Emplaced
  <2>5. FiringOK'
    BY <1>2, <1>4, <1>5, <2>4 DEF FiringOK, Queued
  <2> QED  BY <2>3, <2>5
<1>6. CASE ~(running[id] /\ period[id] > 0)
  <2>1. UNCHANGED <<queue, next>>
    BY <1>1, <1>6 DEF Returned
  <2> QED  BY <1>2, <1>4, <2>1 DEF Sorted, FiringOK, Queued
<1> QED  BY <1>5, <1>6

LEMMA TickFiring ==
    ASSUME PromiseInv, Tick
    PROVE  Sorted(queue)' /\ FiringOK'
<1> USE DEF PromiseInv, QuietInv, QueueInv
<1>1. \A i \in 1..Len(queue) :
         next[queue[i]] \in Int /\ next'[queue[i]] = next[queue[i]] - 1
  <2>1. \A i \in 1..Len(queue) : queue[i] \in Ids /\ queue[i] \in active
    BY DEF TypeInv, TypeOK, Shared, Queued, Members
  <2> QED  BY <2>1, Bounds DEF Tick, TypeInv, TypeOK
<1>2. queue' = queue
  BY DEF Tick
<1>3. Sorted(queue)'
  BY <1>1, <1>2 DEF Sorted
<1>4. worker'.at = worker.at /\ worker'.id = worker.id
  BY DEF Tick, TypeInv, TypeOK, Workers
<1>5. FiringOK'
  BY <1>4 DEF Tick, clearing, FiringOK, Queued
<1> QED  BY <1>3, <1>5

LEMMA AddFiring ==
    ASSUME PromiseInv, NEW th \in Threads, addTimer(th)
    PROVE  Sorted(queue)' /\ FiringOK'
<1> USE DEF PromiseInv, QuietInv, QueueInv
<1>1. nextId \in Ids /\ nextId \notin 1..(nextId - 1)
  BY TimerAssumption DEF addTimer, TypeInv, TypeOK, Ids
<1>2. PICK d \in 0..MaxDelay :
        next' = [next EXCEPT ![nextId] = d] /\ emplace(nextId, d)
  BY DEF addTimer
<1>3. nextId \notin Queued /\ nextId \notin asked
  BY <1>1 DEF TypeInv, QueueOK, RunningOK
<1>4. queue \in Seq(Ids) /\ next \in [Ids -> Int] /\ d \in Int
  BY Bounds DEF TypeInv, TypeOK
<1>5. Sorted(queue)'
  BY <1>1, <1>2, <1>3, <1>4, EmplacedInOrder
<1>6. Members(queue') = Queued \cup {nextId}
  BY <1>1, <1>2, <1>4, Emplaced
<1>7. /\ asked' = asked /\ active \subseteq active'
      /\ running' = [running EXCEPT ![nextId] = FALSE]
      /\ worker' = worker \/ worker' = AtQueue("looking")
  BY DEF addTimer, clearing
<1>8. FiringOK'
  <2>1. worker'.at = "calling" => worker' = worker
    BY <1>7, AtQueueType
  <2> QED  BY <1>3, <1>6, <1>7, <2>1 DEF FiringOK, Queued, TypeInv, TypeOK
<1> QED  BY <1>5, <1>8

LEMMA ClearTimerFiring ==
    ASSUME Disciplined, PromiseInv, NEW th \in Threads, NEW id \in Ids, clearTimer(th, id)
    PROVE  Sorted(queue)' /\ FiringOK'
<1> USE DEF PromiseInv, QuietInv, QueueInv
<1>1. /\ id \notin asked /\ asked' = asked \cup {id} /\ UNCHANGED <<next, worker>>
      /\ current_clearing_timer # id
  <2>1. id \notin asked /\ id # no_timer
    BY Bounds DEF clearTimer, Disciplined, no_timer
  <2> QED  BY <2>1 DEF clearTimer, RunningOK
<1>2. worker.at = "calling" /\ worker.id = id => running[id]
  BY <1>1 DEF RunningOK
<1>3. queue \in Seq(Ids)
  BY DEF TypeInv, TypeOK
<1>4. CASE erase(id) /\ active' = active \ {id} /\ ~running[id] /\ UNCHANGED running
  <2>1. without(EqualTo(id)) /\ id \in EqualTo(id)
    BY <1>4 DEF erase, EqualTo
  <2>2. Sorted(queue)' /\ Members(queue') = Queued \ EqualTo(id)
    BY <1>1, <1>3, <2>1, ErasedInOrder, Erased
  <2>3. FiringOK'
    BY <1>1, <1>2, <1>4, <2>1, <2>2 DEF FiringOK, Queued
  <2> QED  BY <2>2, <2>3
<1>5. CASE /\ UNCHANGED <<queue, active>>
           /\ \/ id \notin active /\ running' = running
              \/ running[id] /\ running' = [running EXCEPT ![id] = FALSE]
  <2>1. Sorted(queue)'
    BY <1>1, <1>5 DEF Sorted
  <2>2. ~running'[id] /\ \A i \in Ids \ {id} : running'[i] = running[i]
    BY <1>5 DEF RunningOK, TypeInv, TypeOK
  <2>3. id \notin Queued
    <3>1. id \in Queued => id \in active
      BY DEF Shared
    <3>2. running[id] => id = worker.id
      BY DEF RunningOK
    <3> QED  BY <1>5, <3>1, <3>2 DEF Shared
  <2>4. FiringOK'
    BY <1>1, <1>5, <2>2, <2>3 DEF FiringOK, Queued, TypeInv, TypeOK
  <2> QED  BY <2>1, <2>4
<1>6. CASE /\ UNCHANGED <<queue, active>>
           /\ id \in active /\ running[id] /\ running' = [running EXCEPT ![id] = FALSE]
  BY <1>5, <1>6
<1>7. CASE id \notin active
  BY <1>5, <1>7 DEF clearTimer
<1>8. CASE id \in active
  BY <1>1, <1>4, <1>6, <1>8 DEF clearTimer
<1> QED  BY <1>7, <1>8

LEMMA ClearFiring ==
    ASSUME PromiseInv, NEW th \in Threads, clear(th)
    PROVE  Sorted(queue)' /\ FiringOK'
<1> USE DEF PromiseInv, QuietInv, QueueInv
<1>1. Members(queue') = {} /\ Sorted(queue)'
  <2>1. queue' = <<>>
    BY DEF clear
  <2> QED  BY <2>1 DEF Members, Sorted
<1>2. worker.at # "calling" => \A i \in Ids : ~running[i]
  BY Timers, Bounds DEF RunningOK
<1>3. /\ UNCHANGED <<running, worker>>
      /\ worker.at = "calling" => active' = {worker.id} /\ asked' = asked
      /\ asked' \subseteq Ids
  BY DEF clear, TypeInv, TypeOK
<1> QED  BY <1>1, <1>2, <1>3 DEF FiringOK, Queued

LEMMA PromiseStep ==
    ASSUME Disciplined
    PROVE  PromiseInv /\ [Next]_vars => PromiseInv'
<1> SUFFICES ASSUME PromiseInv, [Next]_vars
             PROVE  Sorted(queue)' /\ FiringOK'
  BY QuietStep DEF PromiseInv
<1>1. CASE UNCHANGED vars
  BY <1>1, FiringFrame DEF vars, timers, clearing
<1>2. CASE Look \/ Returned \/ Tick
  BY <1>2, LookFiring, ReturnedFiring, TickFiring
<1>3. CASE Alarm
  BY <1>3, FiringFrame, AtQueueType, Timers
     DEF Alarm, timers, clearing, PromiseInv, QuietInv, QueueInv
<1>4. ASSUME NEW th \in Threads, Notify(th) \/ Woken(th) \/ Join(th) \/ Destroy(th)
      PROVE  Sorted(queue)' /\ FiringOK'
  <2>1. UNCHANGED <<queue, active, running, next, asked>>
    BY <1>4 DEF Notify, Woken, Join, Destroy, timers, clearing
  <2>2. \/ worker' = worker
        \/ worker.at \in {"idle", "asleep"} /\ worker' = AtQueue("looking")
    BY <1>4 DEF Notify, Woken, Join, Destroy
  <2>3. worker'.id = worker.id /\ (worker'.at = "calling" => worker.at = "calling")
    BY <2>2, AtQueueType, Timers DEF PromiseInv, QuietInv, QueueInv
  <2> QED  BY <2>1, <2>3, FiringFrame
<1>5. ASSUME NEW th \in Threads, Caller(th)
      PROVE  Sorted(queue)' /\ FiringOK'
  BY <1>4, <1>5, AddFiring, ClearTimerFiring, ClearFiring DEF Caller
<1> QED  BY <1>1, <1>2, <1>3, <1>4, <1>5 DEF Next

LEMMA PromiseInit ==
    ASSUME Disciplined
    PROVE  Init => PromiseInv
<1> SUFFICES ASSUME Init PROVE PromiseInv
  OBVIOUS
<1>1. queue = <<>> /\ asked = {} /\ worker.at = "none"
  BY AtQueueType DEF Init
<1> QED  BY <1>1, QuietInit DEF PromiseInv, Sorted, FiringOK

-----------------------------------------------------------------------------
(* The thread keeps the promise of Timers                                  *)

Firing(id) == worker.at = "calling" /\ worker.id = id

\* What the state of a timer stands for.
Stands(id) ==
    /\ States[id] = "firing" <=> Firing(id)
    /\ States[id] = "set" <=> id \in active /\ ~Firing(id)
    /\ States[id] = "over" <=> id \notin active /\ ~Firing(id) /\ id < nextId
    /\ States[id] = "unset" <=> id \notin active /\ ~Firing(id) /\ ~(id < nextId)
    /\ Dues[id] = IF id \in active \/ Firing(id) THEN next[id] ELSE 0

LEMMA StatesStand ==
    /\ \A id \in Ids : Stands(id) /\ Stands(id)'
    /\ States = [id \in Ids |-> States[id]] /\ States' = [id \in Ids |-> States'[id]]
    /\ Dues = [id \in Ids |-> Dues[id]] /\ Dues' = [id \in Ids |-> Dues'[id]]
<1>1. ASSUME NEW id \in Ids
      PROVE  Stands(id)
  BY DEF Stands, Firing, States, Dues, StateOf, DueOf
<1>2. ASSUME NEW id \in Ids
      PROVE  Stands(id)'
  BY DEF Stands, Firing, States, Dues, StateOf, DueOf
<1>3. /\ States = [id \in Ids |-> States[id]] /\ States' = [id \in Ids |-> States'[id]]
      /\ Dues = [id \in Ids |-> Dues[id]] /\ Dues' = [id \in Ids |-> Dues'[id]]
  BY DEF States, Dues
<1> QED  BY <1>1, <1>2, <1>3

\* What is asked and answered only grows, and an answer is true.
LEMMA Answered ==
    ASSUME PromiseInv, PromiseInv', asked \subseteq asked', cleared \subseteq cleared'
    PROVE  Promise!Requests
<1>1. cleared' \subseteq asked' /\ asked' \subseteq Ids
  BY DEF PromiseInv, QuietInv, QueueInv, TypeInv, TypeOK
<1>2. ASSUME NEW i \in cleared'
      PROVE  States'[i] = "over"
  <2>1. i < nextId' /\ i \notin active' /\ worker'.id # i
    BY <1>2 DEF PromiseInv, QuietInv, GoneOK, Gone
  <2>2. Stands(i)'
    BY <1>1, StatesStand
  <2> QED  BY <2>1, <2>2 DEF Stands, Firing
<1> QED  BY <1>1, <1>2 DEF Promise!Requests

\* A step that no timer notices.
LEMMA Unnoticed ==
    ASSUME UNCHANGED <<active, nextId, next, period>>, worker'.id = worker.id,
           worker'.at = "calling" <=> worker.at = "calling",
           Promise!Requests
    PROVE  Promise!Next
<1>1. \A id \in Ids : StateOf(id)' = StateOf(id) /\ DueOf(id)' = DueOf(id)
  BY DEF StateOf, DueOf
<1>2. States' = States /\ Dues' = Dues
  BY <1>1 DEF States, Dues
<1>3. States = [i \in Ids |-> States[i]] /\ Dues = [i \in Ids |-> Dues[i]]
  BY StatesStand
<1>4. Promise!Clear({})
  BY <1>2, <1>3 DEF Promise!Clear, Promise!Over
<1> QED  BY <1>4 DEF Promise!Next

\* Timers that are cleared.
LEMMA Clearing ==
    ASSUME NEW S \in SUBSET Ids, S \subseteq active, S \subseteq asked',
           \A id \in S : ~Firing(id) /\ id < nextId,
           active' = active \ S, UNCHANGED <<nextId, next, period, worker>>,
           Promise!Requests
    PROVE  Promise!Next
<1>1. ASSUME NEW id \in Ids
      PROVE  /\ States'[id] = IF id \in S THEN "over" ELSE States[id]
             /\ Dues'[id] = IF id \in S THEN 0 ELSE Dues[id]
  <2>1. Firing(id)' <=> Firing(id)
    BY DEF Firing
  <2> QED  BY <2>1 DEF States, Dues, StateOf, DueOf, Firing
<1>2. S \subseteq Promise!Are("set")
  BY StatesStand DEF Promise!Are, Stands
<1>3. Promise!Over(S)
  BY <1>1, StatesStand DEF Promise!Over
<1>4. Promise!Clear(S)
  BY <1>2, <1>3 DEF Promise!Clear
<1> QED  BY <1>4 DEF Promise!Next

LEMMA LookKept ==
    ASSUME PromiseInv, PromiseInv', "coarse" \notin Faults, Look
    PROVE  Promise!Next
<1> USE DEF PromiseInv, QuietInv, QueueInv
<1>1. Promise!Requests
  BY Answered DEF Look, clearing
<1>2. /\ worker.at # "calling" /\ worker.id = no_timer
      /\ UNCHANGED <<active, nextId, next, period>>
  BY Timers DEF Look
<1>3. CASE worker' \in {AtQueue("ended"), AtQueue("idle")}
  <2>1. worker'.at # "calling" /\ worker'.id = no_timer
    BY <1>3, AtQueueType
  <2> QED  BY <1>1, <1>2, <2>1, Unnoticed
<1>4. CASE worker' = [at |-> "asleep", id |-> no_timer, alarm |-> next[Head(queue)]]
  <2>1. worker'.at # "calling" /\ worker'.id = no_timer
    BY <1>4
  <2> QED  BY <1>1, <1>2, <2>1, Unnoticed
<1>5. CASE /\ queue # <<>> /\ ~(next[Head(queue)] > 0)
           /\ worker' = [at |-> "calling", id |-> Head(queue), alarm |-> 0]
  <2>0. queue \in Seq(Ids) /\ next \in [Ids -> Int]
    BY Bounds DEF TypeInv, TypeOK
  <2>1. PICK h \in Ids : h = Head(queue)
    BY <1>5, <2>0, Popped
  <2>2. h \in Queued /\ h \in active /\ h \notin asked /\ next[h] <= 0
    <3>1. h \in Queued
      BY <1>5, <2>0, <2>1, Popped DEF Queued
    <3> QED  BY <1>5, <2>0, <2>1, <3>1 DEF Shared, FiringOK
  <2>3. \A id \in active : next[h] <= next[id]
    <3>1. active \subseteq Queued
      BY <1>2, Bounds DEF Shared, TypeInv, TypeOK
    <3> QED  BY <1>5, <2>0, <2>1, <3>1, HeadIsEarliest
  <2>4. \A id \in Ids : ~Firing(id) /\ (Firing(id)' <=> id = h)
    BY <1>2, <1>5, <2>1 DEF Firing
  <2>5. \A id \in Ids : States'[id] = IF id = h THEN "firing" ELSE States[id]
    BY <1>2, <2>4 DEF States, StateOf, Firing
  <2>6. \A id \in Ids : Dues'[id] = Dues[id]
    BY <1>2, <2>2, <2>4, StatesStand DEF Stands
  <2>7. States' = [States EXCEPT ![h] = "firing"] /\ Dues' = Dues
    BY <2>5, <2>6, StatesStand
  <2>8. States[h] = "set" /\ Dues[h] <= 0
    BY <2>2, <2>4, StatesStand DEF Stands
  <2>9. Promise!Are("firing") = {}
    BY <2>4, StatesStand DEF Promise!Are, Stands
  <2>10. \A j \in Promise!Are("set") : Dues[h] <= Dues[j]
    BY <2>2, <2>3, <2>4, StatesStand DEF Promise!Are, Stands
  <2>11. Promise!Fire(h)
    BY <1>2, <2>2, <2>7, <2>8, <2>9, <2>10 DEF Promise!Fire
  <2> QED  BY <1>1, <2>11 DEF Promise!Next
<1> QED  BY <1>3, <1>4, <1>5 DEF Look

LEMMA ReturnedKept ==
    ASSUME PromiseInv, PromiseInv', Returned
    PROVE  Promise!Next
<1> USE DEF PromiseInv, QuietInv, QueueInv
<1>1. Promise!Requests
  <2>1. asked \subseteq asked' /\ cleared \subseteq cleared'
    BY DEF Returned
  <2> QED  BY <2>1, Answered
<1>2. PICK id \in Ids : id = worker.id
  BY Timers DEF Returned
<1>3. /\ id \in active /\ id < nextId /\ Firing(id) /\ \A i \in Ids : Firing(i) <=> i = id
      /\ running[id] <=> id \notin asked
  <2>1. id \in active /\ id < nextId
    BY <1>2 DEF Returned, FiringOK, Shared, TypeInv, TypeOK
  <2>2. running[id] <=> id \notin asked
    BY <1>2 DEF Returned, FiringOK, RunningOK
  <2> QED  BY <1>2, <2>1, <2>2 DEF Firing, Returned
<1>4. /\ \A i \in Ids : ~Firing(i)'
      /\ UNCHANGED <<nextId, period>>
  BY AtQueueType DEF Firing, Returned
<1>5. next \in [Ids -> Int] /\ period \in [Ids -> 0..MaxDelay]
  BY Bounds DEF TypeInv, TypeOK
<1>6. CASE running[id] /\ period[id] > 0
  <2>1. next' = [next EXCEPT ![id] = @ + period[id]] /\ active' = active
    BY <1>2, <1>6 DEF Returned
  <2>2. \A i \in Ids : States'[i] = IF i = id THEN "set" ELSE States[i]
    BY <1>3, <1>4, <2>1 DEF States, StateOf, Firing
  <2>3. \A i \in Ids : Dues'[i] = IF i = id THEN Dues[id] + period[id] ELSE Dues[i]
    BY <1>3, <1>4, <1>5, <2>1, StatesStand DEF Stands
  <2>4. Promise!Again(id)
    BY <1>3, <1>4, <1>6, <2>2, <2>3, StatesStand DEF Promise!Again, Stands
  <2> QED  BY <1>1, <2>4 DEF Promise!Next
<1>7. CASE ~(running[id] /\ period[id] > 0)
  <2>1. next' = next /\ active' = active \ {id}
    BY <1>2, <1>7 DEF Returned
  <2>2. \A i \in Ids : States'[i] = IF i = id THEN "over" ELSE States[i]
    BY <1>3, <1>4, <2>1 DEF States, StateOf, Firing
  <2>3. \A i \in Ids : Dues'[i] = IF i = id THEN 0 ELSE Dues[i]
    BY <1>3, <1>4, <2>1, StatesStand DEF Stands
  <2>4. Promise!Over({id})
    BY <1>4, <2>2, <2>3, StatesStand DEF Promise!Over
  <2>5. States[id] = "firing" /\ (period[id] = 0 \/ id \in asked)
    BY <1>3, <1>5, <1>7, TimerAssumption, StatesStand DEF Stands
  <2>6. Promise!End(id)
    BY <2>4, <2>5 DEF Promise!End
  <2> QED  BY <1>1, <2>6 DEF Promise!Next
<1> QED  BY <1>6, <1>7

LEMMA TickKept ==
    ASSUME PromiseInv, PromiseInv', Tick
    PROVE  Promise!Next
<1> USE DEF PromiseInv, QuietInv, QueueInv
<1>1. Promise!Requests
  BY Answered DEF Tick, clearing
<1>2. /\ worker'.at = worker.at /\ worker'.id = worker.id
      /\ UNCHANGED <<active, nextId, period>>
      /\ \A id \in Ids : next'[id] = IF id \in active THEN next[id] - 1 ELSE next[id]
  BY DEF Tick, TypeInv, TypeOK, Workers
<1>3. \A id \in Ids : Firing(id) => id \in active
  BY DEF FiringOK, Firing
<1>4. \A id \in Ids : States'[id] = States[id]
  BY <1>2 DEF States, StateOf
<1>5. \A id \in Ids :
         Dues'[id] = IF States[id] \in {"set", "firing"} THEN Dues[id] - 1 ELSE Dues[id]
  BY <1>2, <1>3, <1>4, StatesStand DEF Stands, Firing
<1>6. Promise!Tick
  BY <1>2, <1>4, <1>5, StatesStand DEF Promise!Tick
<1> QED  BY <1>1, <1>6 DEF Promise!Next

LEMMA AddKept ==
    ASSUME PromiseInv, PromiseInv', NEW th \in Threads, addTimer(th)
    PROVE  Promise!Next
<1> USE DEF PromiseInv, QuietInv, QueueInv
<1>1. Promise!Requests
  BY Answered DEF addTimer, clearing
<1>2. PICK n \in Ids : n = nextId
  BY TimerAssumption DEF addTimer, TypeInv, TypeOK, Ids
<1>3. PICK d \in 0..MaxDelay, p \in 0..MaxDelay :
         next' = [next EXCEPT ![n] = d] /\ period' = [period EXCEPT ![n] = p]
  BY <1>2 DEF addTimer
<1>4. /\ active' = active \cup {n} /\ n \notin active /\ nextId' = nextId + 1
      /\ n # worker.id /\ n \in Nat
  BY <1>2, Bounds DEF addTimer, TypeInv, HandlerOK, Shared
<1>5. worker'.id = worker.id /\ (worker'.at = "calling" <=> worker.at = "calling")
  <2>1. CASE worker.at = "none"
    <3>1. worker' = AtQueue("looking")
      BY <2>1 DEF addTimer
    <3> QED  BY <2>1, <3>1, AtQueueType, Timers
  <2>2. CASE worker.at # "none"
    BY <2>2 DEF addTimer
  <2> QED  BY <2>1, <2>2
<1>6. \A id \in Ids : id \in Nat /\ (id # n => (id < nextId' <=> id < nextId))
  BY <1>2, <1>4, Bounds
<1>7. \A id \in Ids : States'[id] = IF id = n THEN "set" ELSE States[id]
  BY <1>4, <1>5, <1>6 DEF States, StateOf
<1>8. \A id \in Ids : next'[id] = IF id = n THEN d ELSE next[id]
  BY <1>3 DEF TypeInv, TypeOK
<1>9. \A id \in Ids : Dues'[id] = IF id = n THEN d ELSE Dues[id]
  BY <1>4, <1>5, <1>8, StatesStand DEF Stands, Firing
<1>10. States[n] = "unset"
  BY <1>2, <1>4, StatesStand DEF Stands, Firing
<1>11. Promise!Set(n, d, p)
  BY <1>3, <1>7, <1>9, <1>10, StatesStand DEF Promise!Set
<1> QED  BY <1>1, <1>11 DEF Promise!Next

LEMMA ClearTimerKept ==
    ASSUME Disciplined, PromiseInv, PromiseInv',
           NEW th \in Threads, NEW id \in Ids, clearTimer(th, id)
    PROVE  Promise!Next
<1> USE DEF PromiseInv, QuietInv, QueueInv
<1>1. /\ asked \subseteq asked' /\ id \in asked' /\ cleared \subseteq cleared'
      /\ UNCHANGED <<nextId, next, period, worker>> /\ id < nextId /\ id \notin asked
  BY DEF clearTimer, Disciplined
<1>2. Promise!Requests
  BY <1>1, Answered
<1>3. CASE active' = active
  BY <1>1, <1>2, <1>3, Unnoticed
<1>4. CASE active' = active \ {id} /\ ~running[id]
  <2>1. ~Firing(id)
    BY <1>1, <1>4 DEF Firing, RunningOK
  <2>2. CASE id \in active
    <3>1. {id} \in SUBSET Ids /\ {id} \subseteq active /\ {id} \subseteq asked'
      BY <1>1, <2>2
    <3>2. \A i \in {id} : ~Firing(i) /\ i < nextId
      BY <1>1, <2>1
    <3> QED  BY ONLY PromiseInv, PromiseInv', <1>1, <1>2, <1>4, <3>1, <3>2, Clearing
                 DEF PromiseInv, QuietInv, QueueInv
  <2>3. CASE id \notin active
    BY <1>3, <1>4, <2>3
  <2> QED  BY <2>2, <2>3
<1> QED  BY <1>3, <1>4 DEF clearTimer

LEMMA ClearKept ==
    ASSUME PromiseInv, PromiseInv', "clear_busy" \notin Faults,
           NEW th \in Threads, clear(th)
    PROVE  Promise!Next
<1> USE DEF PromiseInv, QuietInv, QueueInv
<1>1. /\ worker.at # "calling" /\ active' = {}
      /\ asked' = asked \cup active /\ cleared' = cleared \cup active
      /\ UNCHANGED <<nextId, next, period, worker>>
  BY DEF clear
<1>2. Promise!Requests
  BY <1>1, Answered
<1>3. active \in SUBSET Ids /\ \A id \in active : ~Firing(id) /\ id < nextId
  BY <1>1 DEF TypeInv, TypeOK, Shared, Firing
<1>4. active' = active \ active /\ active \subseteq asked'
  BY <1>1
<1> QED  BY <1>1, <1>2, <1>3, <1>4, Clearing

LEMMA StepKept ==
    ASSUME Faults = {}
    PROVE  PromiseInv /\ PromiseInv' /\ [Next]_vars => [Promise!Next]_(Promise!vars)
<1> SUFFICES ASSUME PromiseInv, PromiseInv', [Next]_vars
             PROVE  [Promise!Next]_(Promise!vars)
  OBVIOUS
<1> USE DEF PromiseInv, QuietInv, QueueInv
<1>0. Disciplined
  BY DEF Disciplined
<1>1. CASE UNCHANGED vars
  <2>1. UNCHANGED <<active, nextId, next, period, asked, cleared, worker>>
    BY <1>1 DEF vars, timers, clearing
  <2>2. States' = States /\ Dues' = Dues
    BY <2>1 DEF States, Dues, StateOf, DueOf
  <2> QED  BY <2>1, <2>2 DEF Promise!vars
<1>2. CASE Look \/ Returned \/ Tick
  BY <1>2, LookKept, ReturnedKept, TickKept
<1>3. CASE Alarm
  <2>1. Promise!Requests
    BY <1>3, Answered DEF Alarm, clearing
  <2>2. worker'.id = worker.id /\ (worker'.at = "calling" <=> worker.at = "calling")
    BY <1>3, AtQueueType, Timers DEF Alarm
  <2>3. UNCHANGED <<active, nextId, next, period>>
    BY <1>3 DEF Alarm, timers
  <2> QED  BY <2>1, <2>2, <2>3, Unnoticed
<1>4. ASSUME NEW th \in Threads, Notify(th) \/ Woken(th) \/ Join(th) \/ Destroy(th)
      PROVE  Promise!Next
  <2>1. UNCHANGED <<active, nextId, next, period>>
    BY <1>4 DEF Notify, Woken, Join, Destroy, timers
  <2>2. \/ worker' = worker
        \/ worker.at \in {"idle", "asleep"} /\ worker' = AtQueue("looking")
    BY <1>4 DEF Notify, Woken, Join, Destroy
  <2>3. worker'.id = worker.id /\ (worker'.at = "calling" <=> worker.at = "calling")
    BY <2>2, AtQueueType, Timers
  <2>4. asked \subseteq asked' /\ cleared \subseteq cleared'
    BY <1>4 DEF Notify, Woken, Join, Destroy, clearing
  <2> QED  BY <2>1, <2>3, <2>4, Answered, Unnoticed
<1>5. ASSUME NEW th \in Threads, Caller(th)
      PROVE  Promise!Next
  BY <1>0, <1>4, <1>5, AddKept, ClearTimerKept, ClearKept DEF Caller
<1> QED  BY <1>1, <1>2, <1>3, <1>4, <1>5 DEF Next

\* The thread implements Timers, for any number of threads and timers and any
\* delays: timers fire once due, in the order of their instants and one at a
\* time, a periodic one until somebody asks to clear it, and no request is
\* answered before its timer is over.
THEOREM TimersImplemented ==
    ASSUME Faults = {}
    PROVE  Spec => IsTimers
<1>1. Init => PromiseInv
  BY PromiseInit DEF Disciplined
<1>2. PromiseInv /\ [Next]_vars => PromiseInv'
  BY PromiseStep DEF Disciplined
<1>3. Init => Promise!Init
  <2> SUFFICES ASSUME Init PROVE Promise!Init
    OBVIOUS
  <2>1. worker.at = "none" /\ active = {} /\ nextId = 1
    BY AtQueueType DEF Init
  <2>2. \A id \in Ids : StateOf(id) = "unset" /\ DueOf(id) = 0
    BY <2>1 DEF StateOf, DueOf, Ids
  <2>3. States = [id \in Ids |-> "unset"] /\ Dues = [id \in Ids |-> 0]
    BY <2>2 DEF States, Dues
  <2> QED  BY <2>3 DEF Promise!Init, Init
<1>4. PromiseInv /\ PromiseInv' /\ [Next]_vars => [Promise!Next]_(Promise!vars)
  BY StepKept
<1> QED  BY <1>1, <1>2, <1>3, <1>4, PTL DEF Spec, IsTimers, Promise!Spec

=============================================================================
