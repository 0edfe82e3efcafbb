----------------------------- MODULE TimerThread -----------------------------
(***************************************************************************)
(* One worker thread that runs the callbacks of any number of timers       *)
(* (paxos/paxos_timer.cpp); the heartbeat and Paxos are its callers.  What *)
(* is done under the mutex is one step; the mutex is given up where the    *)
(* worker calls a handler, where a thread waits on a condition variable,   *)
(* and before a notify_all().                                              *)
(*                                                                         *)
(* Instants are ticks from now on.  Two timers of one tick still have      *)
(* distinct instants (the clock counts nanoseconds), in an order of their  *)
(* own, unless Faults has "coarse".                                        *)
(***************************************************************************)
EXTENDS Integers, Sequences, SequencesExt

CONSTANTS
    Callers,    \* the threads that call the interface, besides the worker
    Worker,     \* the worker
    MaxId,      \* bound: timers created
    MaxDelay,   \* bound: the delays and periods asked for
    Late,       \* bound: ticks the worker falls behind, or a handler takes
    Faults      \* what a run allows on top (see the operators that use it)

ASSUME TimerAssumption ==
    /\ MaxId \in Nat /\ MaxDelay \in Nat \ {0} /\ Late \in Nat
    /\ Worker \notin Callers
    /\ Faults \subseteq {"coarse", "spurious", "uninitialised",
                         "cleared_twice", "clear_busy"}

VARIABLES
    nextId, active, queue,  \* as in the code; queue: ids, in order of next
    next, period, running,  \* the members of the timer of an id
    worker,                 \* what the worker is at, see Workers
    done,
    current_clearing_timer,
    call,                   \* thread -> the call it is in, see Calls
    asked,                  \* the ids clearTimer() was called for
    cleared                 \* those for which it has returned to a caller

timers == <<nextId, active, queue, next, period, running>>
clearing == <<current_clearing_timer, asked, cleared>>
vars == <<timers, worker, done, call, clearing>>

no_timer == 0
Ids == 1..MaxId
Threads == Callers \cup {Worker}
Ticks == (0 - Late)..(MaxDelay + Late)

\* The worker: not started; about to look at the queue; asleep until there is
\* work; asleep until an instant; in the handler of a timer; returned.
Workers == [at : {"none", "looking", "idle", "asleep", "calling", "ended"},
            id : Ids \cup {no_timer}, alarm : 0..(MaxDelay + Late)]
AtQueue(at) == [at |-> at, id |-> no_timer, alarm |-> 0]

\* A thread: in no call; about to notify the worker; waiting for the handler of
\* a timer to end; notified of it; waiting for the worker to end; aborted.
Calls == [at : {"none", "notify_add", "notify_clear", "notify_end", "waiting",
                "woken", "join", "assert"}, id : Ids \cup {no_timer}]
In(at, id) == [at |-> at, id |-> id]
Idle == In("none", no_timer)
Entering(th) == \* th may call: the worker does so from a handler
    /\ call[th] = Idle
    /\ IF th = Worker THEN worker.at = "calling" ELSE ~done
Notifies(th) == call[th].at \in {"notify_add", "notify_clear", "notify_end"}

\* The shape of the state.
TypeOK ==
    /\ nextId \in 1..(MaxId + 1) /\ active \subseteq Ids
    /\ queue \in Seq(Ids)
    /\ next \in [Ids -> Ticks] /\ period \in [Ids -> 0..MaxDelay]
    /\ running \in [Ids -> BOOLEAN]
    /\ worker \in Workers /\ done \in BOOLEAN
    /\ current_clearing_timer \in Ids \cup {no_timer}
    /\ call \in [Threads -> Calls]
    /\ asked \subseteq Ids /\ cleared \subseteq asked

\* The constructor does not set current_clearing_timer.
Init ==
    /\ nextId = 1 /\ active = {} /\ queue = <<>>
    /\ next = [i \in Ids |-> 0] /\ period = [i \in Ids |-> 0]
    /\ running = [i \in Ids |-> FALSE]
    /\ worker = AtQueue("none") /\ done = FALSE
    /\ current_clearing_timer \in
          {no_timer} \cup (IF "uninitialised" \in Faults THEN Ids ELSE {})
    /\ call = [th \in Threads |-> Idle]
    /\ asked = {} /\ cleared = {}

-----------------------------------------------------------------------------
(* The queue, a multiset ordered by next.                                  *)

emplace_Back(id, d) ==  \* mutant: the queue is not ordered
    queue' = Append(queue, id)

\* queue' is the queue with id, due in d ticks, in its place.
emplace(id, d) ==
    \E k \in 1..(Len(queue) + 1) :
        /\ \A j \in 1..Len(queue) : IF j < k THEN next[queue[j]] <= d
                                             ELSE next[queue[j]] >= d
        /\ queue' = InsertAt(queue, k, id)

\* queue' is the queue without the ids in S, which are next to each other.
without(S) ==
    \E first \in 1..(Len(queue) + 1), end \in 1..(Len(queue) + 1) :
        /\ first <= end
        /\ \A k \in 1..Len(queue) : queue[k] \in S <=> first <= k /\ k < end
        /\ queue' = SubSeq(queue, 1, first - 1) \o SubSeq(queue, end, Len(queue))

erase_ByTime(id) ==      \* mutant: two timers of one tick compare equal
    without({x \in Ids : next[x] = next[id]})

\* erase(timer) erases what compares equal to the timer, by next alone.
erase(id) ==
    without({x \in Ids : x = id \/ ("coarse" \in Faults /\ next[x] = next[id])})

-----------------------------------------------------------------------------
(* The worker.                                                             *)

\* The top of the loop, as far as the first wait or the call of a handler.
Look ==
    /\ worker.at = "looking"
    /\ IF done THEN worker' = AtQueue("ended") /\ UNCHANGED <<queue, running>>
       ELSE IF queue = <<>> THEN worker' = AtQueue("idle") /\ UNCHANGED <<queue, running>>
       ELSE IF next[Head(queue)] > 0
            THEN /\ worker' = [at |-> "asleep", id |-> no_timer,
                               alarm |-> next[Head(queue)]]
                 /\ UNCHANGED <<queue, running>>
            ELSE /\ queue' = Tail(queue)
                 /\ running' = [running EXCEPT ![Head(queue)] = TRUE]
                 /\ worker' = [at |-> "calling", id |-> Head(queue), alarm |-> 0]
    /\ UNCHANGED <<nextId, active, next, period, done, call, clearing>>

\* wait_until() ends at the instant it was given.
Alarm ==
    /\ worker.at = "asleep" /\ worker.alarm = 0
    /\ worker' = AtQueue("looking")
    /\ UNCHANGED <<timers, done, call, clearing>>

\* notify_all() on the waitCond of id.
WokenFrom(id) ==
    [th \in Threads |-> IF call[th] = In("waiting", id) THEN In("woken", id) ELSE call[th]]

Returned_Requeued ==    \* mutant: the worker does not look whether it was cleared
    /\ worker.at = "calling" /\ call[Worker] = Idle
    /\ LET id == worker.id
       IN  /\ running' = [running EXCEPT ![id] = FALSE]
           /\ IF period[id] > 0
              THEN /\ next' = [next EXCEPT ![id] = @ + period[id]]
                   /\ emplace(id, next[id] + period[id])
                   /\ UNCHANGED active
              ELSE active' = active \ {id} /\ UNCHANGED <<next, queue>>
           /\ call' = IF running[id] THEN call ELSE WokenFrom(id)
           /\ cleared' = IF running[id] THEN cleared ELSE cleared \cup {id}
    /\ worker' = AtQueue("looking")
    /\ UNCHANGED <<nextId, period, done, current_clearing_timer, asked>>

Returned_Silent ==      \* mutant: waitCond is not notified
    /\ worker.at = "calling" /\ call[Worker] = Idle
    /\ LET id == worker.id
       IN  /\ running' = [running EXCEPT ![id] = FALSE]
           /\ IF running[id] /\ period[id] > 0
              THEN /\ next' = [next EXCEPT ![id] = @ + period[id]]
                   /\ emplace(id, next[id] + period[id])
                   /\ UNCHANGED active
              ELSE active' = active \ {id} /\ UNCHANGED <<next, queue>>
           /\ cleared' = IF running[id] THEN cleared ELSE cleared \cup {id}
    /\ worker' = AtQueue("looking")
    /\ UNCHANGED <<nextId, period, done, call, current_clearing_timer, asked>>

\* The handler has returned.  A timer that was cleared meanwhile is erased and
\* the threads that wait for it are notified; a periodic one is queued again.
Returned ==
    /\ worker.at = "calling" /\ call[Worker] = Idle
    /\ LET id == worker.id
       IN  /\ running' = [running EXCEPT ![id] = FALSE]
           /\ IF running[id] /\ period[id] > 0
              THEN /\ next' = [next EXCEPT ![id] = @ + period[id]]
                   /\ emplace(id, next[id] + period[id])
                   /\ UNCHANGED active
              ELSE active' = active \ {id} /\ UNCHANGED <<next, queue>>
           /\ call' = IF running[id] THEN call ELSE WokenFrom(id)
           /\ cleared' = IF running[id] THEN cleared ELSE cleared \cup {id}
    /\ worker' = AtQueue("looking")
    /\ UNCHANGED <<nextId, period, done, current_clearing_timer, asked>>

-----------------------------------------------------------------------------
(* The interface.                                                          *)

addTimer_Silent(th) ==   \* mutant: the worker is not notified
    /\ Entering(th) /\ nextId <= MaxId
    /\ \E d \in 0..MaxDelay, p \in 0..MaxDelay :
        /\ next' = [next EXCEPT ![nextId] = d]
        /\ period' = [period EXCEPT ![nextId] = p]
        /\ emplace(nextId, d)
    /\ running' = [running EXCEPT ![nextId] = FALSE]
    /\ active' = active \cup {nextId}
    /\ nextId' = nextId + 1
    /\ worker' = IF worker.at = "none" THEN AtQueue("looking") ELSE worker
    /\ UNCHANGED <<done, call, clearing>>

\* setTimeout() has period 0, setInterval() a delay of one period.  The worker
\* is started with the first timer, and notified if the new one is the first.
addTimer(th) ==
    /\ Entering(th) /\ nextId <= MaxId
    /\ \E d \in 0..MaxDelay, p \in 0..MaxDelay :
        /\ next' = [next EXCEPT ![nextId] = d]
        /\ period' = [period EXCEPT ![nextId] = p]
        /\ emplace(nextId, d)
    /\ running' = [running EXCEPT ![nextId] = FALSE]
    /\ active' = active \cup {nextId}
    /\ nextId' = nextId + 1
    /\ worker' = IF worker.at = "none" THEN AtQueue("looking") ELSE worker
    /\ call' = IF queue'[1] = nextId
               THEN [call EXCEPT ![th] = In("notify_add", nextId)] ELSE call
    /\ UNCHANGED <<done, clearing>>

\* clearTimer() of an id that addTimer() has returned: once for each id, unless
\* Faults has "cleared_twice".
clearTimer(th, id) ==
    /\ Entering(th) /\ id < nextId
    /\ id \notin asked \/ "cleared_twice" \in Faults
    /\ \A t \in Threads : call[t] # In("notify_add", id)
    /\ asked' = asked \cup {id}
    /\ current_clearing_timer' = id
    /\ IF current_clearing_timer = id \/ id \notin active
          \/ (running[id] /\ th = Worker)
       THEN \* nothing to wait for, or it is the handler that calls
            /\ cleared' = IF th = Worker /\ id = worker.id THEN cleared
                          ELSE cleared \cup {id}
            /\ running' = IF current_clearing_timer = id \/ id \notin active
                          THEN running ELSE [running EXCEPT ![id] = FALSE]
            /\ UNCHANGED <<queue, active, call>>
       ELSE /\ UNCHANGED cleared
            /\ IF running[id]
               THEN /\ running' = [running EXCEPT ![id] = FALSE]
                    /\ call' = [call EXCEPT ![th] = In("waiting", id)]
                    /\ UNCHANGED <<queue, active>>
               ELSE /\ erase(id)
                    /\ active' = active \ {id}
                    /\ call' = [call EXCEPT ![th] = In("notify_clear", id)]
                    /\ UNCHANGED running
    /\ UNCHANGED <<nextId, next, period, worker, done>>

\* clear(), as far as the erasing of the last timer of the queue, which gives the
\* mutex up.  The loop has another round if there is still an active timer, and
\* finds assert(lock.owns_lock()) false: at once where a callback is in progress
\* (of such calls only this end is here, and only with "clear_busy"), or, see
\* Notify, if somebody has added one.
clear(th) ==
    /\ Entering(th) /\ active # {}
    /\ IF worker.at # "calling"
       THEN /\ active' = {} /\ queue' = <<>>
            /\ call' = [call EXCEPT ![th] = In("notify_clear", no_timer)]
            /\ asked' = asked \cup active /\ cleared' = cleared \cup active
       ELSE /\ "clear_busy" \in Faults /\ queue # <<>>
            /\ active' = {worker.id} /\ queue' = <<>>
            /\ call' = [call EXCEPT ![th] = In("assert", no_timer)]
            /\ UNCHANGED <<asked, cleared>>
    /\ UNCHANGED <<nextId, next, period, running, worker, done, current_clearing_timer>>

\* clear() tests active.empty() again, without the mutex.
FindsMore(th) == call[th] = In("notify_clear", no_timer) /\ active # {}

\* wakeUp.notify_all(), and the return of the call.
Notify(th) ==
    /\ Notifies(th)
    /\ worker' = IF worker.at \in {"idle", "asleep"} THEN AtQueue("looking") ELSE worker
    /\ call' = [call EXCEPT ![th] = IF @.at = "notify_end" THEN In("join", no_timer)
                                    ELSE IF FindsMore(th) THEN In("assert", no_timer)
                                    ELSE Idle]
    /\ cleared' = IF call[th].at = "notify_clear"
                  THEN cleared \cup ({call[th].id} \ {no_timer}) ELSE cleared
    /\ UNCHANGED <<timers, done, current_clearing_timer, asked>>

\* The return from waitCond->wait(), which has no predicate.
Woken(th) ==
    /\ call[th].at \in {"woken"} \cup (IF "spurious" \in Faults THEN {"waiting"} ELSE {})
    /\ call' = [call EXCEPT ![th] = Idle]
    /\ cleared' = cleared \cup {call[th].id}
    /\ UNCHANGED <<timers, worker, done, current_clearing_timer, asked>>

\* The destructor, of a thread that knows that no other is in a call.
Destroy(th) ==
    /\ th \in Callers /\ Entering(th) /\ worker.at # "none"
    /\ \A t \in Callers : call[t] = Idle
    /\ done' = TRUE
    /\ call' = [call EXCEPT ![th] = In("notify_end", no_timer)]
    /\ UNCHANGED <<timers, worker, clearing>>

Join(th) ==
    /\ call[th].at = "join" /\ worker.at = "ended"
    /\ call' = [call EXCEPT ![th] = Idle]
    /\ UNCHANGED <<timers, worker, done, clearing>>

-----------------------------------------------------------------------------
\* Time passes, unless the worker falls too far behind.
Tick ==
    /\ \A id \in active : next[id] > 0 - Late
    /\ active # {}
    /\ next' = [id \in Ids |-> IF id \in active THEN next[id] - 1 ELSE next[id]]
    /\ worker' = [worker EXCEPT !.alarm = IF @ = 0 THEN 0 ELSE @ - 1]
    /\ UNCHANGED <<nextId, active, queue, period, running, done, call, clearing>>

Caller(th) ==
    \/ addTimer(th) \/ clear(th) \/ Destroy(th)
    \/ \E id \in Ids : clearTimer(th, id)

Next ==
    \/ Look \/ Alarm \/ Returned \/ Tick
    \/ \E th \in Threads : Caller(th) \/ Notify(th) \/ Woken(th) \/ Join(th)

Spec == Init /\ [][Next]_vars

\* Time goes on, handlers return, and a thread that can go on does.
FairSpec ==
    /\ Spec
    /\ WF_vars(Look) /\ WF_vars(Alarm) /\ WF_vars(Returned) /\ WF_vars(Tick)
    /\ \A th \in Threads : WF_vars(Notify(th)) /\ WF_vars(Woken(th)) /\ WF_vars(Join(th))

-----------------------------------------------------------------------------
(* Properties                                                              *)

\* What paxos_timer.h promises of clearTimer(): "the handler for that callback
\* is not running before clearTimer returns" to another thread.  It does not
\* run later either.
ClearedStaysQuiet == worker.at = "calling" => worker.id \notin cleared

\* A timer that is not in its handler is queued, once: clearing one timer does
\* not make another one forgotten.
NoneForgotten ==
    /\ \A id \in active :
          worker.id = id \/ \E i \in DOMAIN queue : queue[i] = id
    /\ IsInjective(queue)
    /\ ToSet(queue) \subseteq active

\* Timers fire in the order of their instants, one at a time, periodic ones until
\* somebody asks to clear them, and none once it was cleared.
StateOf(id) ==
    IF worker.at = "calling" /\ worker.id = id THEN "firing"
    ELSE IF id \in active THEN "set" ELSE IF id < nextId THEN "over" ELSE "unset"
DueOf(id) == IF StateOf(id) \in {"set", "firing"} THEN next[id] ELSE 0
States == [id \in Ids |-> StateOf(id)]
Dues == [id \in Ids |-> DueOf(id)]
Promise == INSTANCE Timers WITH Delays <- 0..MaxDelay, quiet <- cleared,
                                state <- States, due <- Dues
IsTimers == Promise!Spec

\* assert(lock.owns_lock()) of destroy_impl().  Where it fails the process ends;
\* here the other threads go on, of whom the liveness properties then ask nothing.
AssertHolds == \A th \in Threads : call[th].at # "assert"

\* A timer fires or is cleared (paxos_timer.cpp:150-155).
EveryTimerFires ==
    \A id \in Ids :
        id \in active /\ ~done
            ~> (done \/ id \notin active \/ worker.id = id \/ ~AssertHolds)

\* A thread that waits for a handler, or for the worker to end, goes on
\* (paxos_timer.cpp:73, 93-107, 225).
EveryCallReturns ==
    \A th \in Threads :
        call[th].at \in {"waiting", "notify_end"} ~> (call[th] = Idle \/ ~AssertHolds)

=============================================================================
