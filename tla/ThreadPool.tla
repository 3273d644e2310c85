----------------------------- MODULE ThreadPool -----------------------------
(***************************************************************************)
(* fwoop::ThreadPool (basis/fwoop_threadpool.h): a fixed set of detached   *)
(* worker threads over one deque of jobs, one mutex and one condition      *)
(* variable that carries three signals (a job arrived, the pool stops, a   *)
(* worker finished), and a start-up handshake on a second pair.            *)
(*                                                                         *)
(* Grain.  A step is a maximal piece of code whose middle no other thread  *)
(* can observe.  Work done under d_poolMutex is cut where code that does   *)
(* not take that mutex can come in between: the store of d_isStopping in   *)
(* close(), the unlocked reads of the loop condition, and the counters.    *)
(* d_startMutex is never held across one of these cuts, so it has no       *)
(* variable.                                                               *)
(*                                                                         *)
(* A job is named by its position in the deque (1, 2, ...).  The deque is  *)
(* the pair of positions its begin and end iterators have reached, because *)
(* pop_front on an empty deque moves begin past end: from there size() is  *)
(* not zero and the next push_back lands in a position never read again.   *)
(***************************************************************************)
EXTENDS Naturals, FiniteSets

CONSTANTS
    Workers,        \* the detached threads of d_pool
    Submitters,     \* the threads that call enqueue()
    Owner,          \* the thread that calls close() and then wait()
    NoThread,       \* nobody holds d_poolMutex
    MaxJobs,        \* bound: positions of the deque that are ever filled
    MaxPhantoms,    \* bound: undefined pops that survive
    MaxWakes        \* bound: how often a thread wakes up unnotified

ASSUME PoolAssumption ==
    /\ IsFiniteSet(Workers)
    /\ Workers # {}
    /\ Owner \notin Workers
    /\ Submitters \cap Workers = {}
    /\ NoThread \notin Workers \cup Submitters \cup {Owner}
    /\ MaxJobs \in Nat
    /\ MaxPhantoms \in Nat
    /\ MaxWakes \in Nat

Threads == Workers \cup Submitters \cup {Owner}
PoolSize == Cardinality(Workers)
NoJob == 0

VARIABLES
    pc,             \* the next step of every thread
    mutex,          \* the holder of d_poolMutex
    waiters,        \* the threads blocked on d_poolCond, not yet notified
    head, tail,     \* begin and end of d_jobQueue
    isStopping,     \* d_isStopping
    numActive,      \* d_numActive
    numFinished,    \* d_numFinished
    job,            \* the job a worker has moved into its local variable j
    done,           \* history: the jobs whose call operator has returned
    wakes,          \* history: how many times a thread woke up unnotified
    phantoms,       \* history: how many times an empty deque was popped
    stopTail,       \* history: what the deque had accepted when the pool stopped
    crashed         \* an undefined pop has ended the process

queueVars == <<head, tail, job, done, phantoms>>
stopVars  == <<isStopping, stopTail>>
countVars == <<numActive, numFinished, wakes>>
vars == <<pc, mutex, waiters, queueVars, stopVars, countVars, crashed>>

WorkerSteps == {"start", "notifyStart", "loop", "lock", "sleep", "waiting",
                "pop", "run", "finish", "notifyAll", "exit"}
EnqueueSteps == {"enqPush", "enqNotify"}
OwnerSteps == {"closeCheck", "startSleep", "startBlocked", "setStopping",
               "notifyStopping", "waitCheck", "waitLock", "waitSleep",
               "waitBlocked", "returned"}

Goto(t, step) == pc' = [pc EXCEPT ![t] = step]
Acquire(t) == mutex = NoThread /\ mutex' = t
Release == mutex' = NoThread
NotifyOne == \/ waiters = {} /\ UNCHANGED waiters
             \/ \E t \in waiters : waiters' = waiters \ {t}
NotifyAll == waiters' = {}

\* d_jobQueue.size() == 0, read under the mutex
Empty == head = tail

-----------------------------------------------------------------------------
(***************************************************************************)
(* Faulty variants: what a slip in the code would make of a step.  No      *)
(* specification uses them; each breaks one of the properties below.       *)
(***************************************************************************)
\* lock.release() without lock.unlock()
WorkerPop_KeepsLock(w) ==
    /\ pc[w] = "pop"
    /\ head < tail
    /\ head' = head + 1
    /\ job' = [job EXCEPT ![w] = head + 1]
    /\ Goto(w, "run")
    /\ UNCHANGED <<mutex, waiters, tail, done, phantoms, stopVars, countVars, crashed>>

\* d_numFinished--
WorkerFinish_Down(w) ==
    /\ pc[w] = "finish"
    /\ numFinished' = numFinished - 1
    /\ Goto(w, "notifyAll")
    /\ UNCHANGED <<mutex, waiters, queueVars, stopVars, numActive, wakes, crashed>>

\* enqueue() that does not look at d_isStopping
EnqueueAccept_Always(t) ==
    /\ pc[t] = "idle"
    /\ tail < MaxJobs
    /\ Acquire(t)
    /\ Goto(t, "enqPush")
    /\ UNCHANGED <<waiters, queueVars, stopVars, countVars, crashed>>

\* enqueue() without notify_one()
EnqueueNotify_Silent(t) ==
    /\ pc[t] = "enqNotify"
    /\ Goto(t, "idle")
    /\ UNCHANGED <<mutex, waiters, queueVars, stopVars, countVars, crashed>>

\* d_startCond is not notified
WorkerNotifyStart_Silent(w) ==
    /\ pc[w] = "notifyStart"
    /\ Goto(w, "loop")
    /\ UNCHANGED <<mutex, waiters, queueVars, stopVars, countVars, crashed>>

\* while (d_numFinished < totalJobs - 1)
WaitCheck_OffByOne ==
    /\ pc[Owner] = "waitCheck"
    /\ Goto(Owner, IF numFinished + 1 < PoolSize THEN "waitLock" ELSE "returned")
    /\ UNCHANGED <<mutex, waiters, queueVars, stopVars, countVars, crashed>>

-----------------------------------------------------------------------------
(***************************************************************************)
(* ThreadPool(size): the counters are zero and every thread is created.    *)
(***************************************************************************)
Init ==
    /\ pc = [t \in Threads |-> IF t \in Workers THEN "start" ELSE "idle"]
    /\ mutex = NoThread
    /\ waiters = {}
    /\ head = 0 /\ tail = 0
    /\ isStopping = FALSE /\ stopTail = 0
    /\ numActive = 0 /\ numFinished = 0
    /\ job = [w \in Workers |-> NoJob]
    /\ done = {}
    /\ phantoms = 0 /\ wakes = 0
    /\ crashed = FALSE

(***************************************************************************)
(* workJob(): the body of a worker thread.                                 *)
(***************************************************************************)
WorkerStart(w) ==
    /\ pc[w] = "start"
    /\ numActive' = numActive + 1
    /\ Goto(w, "notifyStart")
    /\ UNCHANGED <<mutex, waiters, queueVars, stopVars, numFinished, wakes, crashed>>

\* d_startCond.notify_one(): only close() ever waits on that condition.
WorkerNotifyStart(w) ==
    /\ pc[w] = "notifyStart"
    /\ pc' = [pc EXCEPT ![w] = "loop",
                        ![Owner] = IF @ = "startBlocked" THEN "closeCheck" ELSE @]
    /\ UNCHANGED <<mutex, waiters, queueVars, stopVars, countVars, crashed>>

\* The loop condition reads the deque without the mutex: while another worker
\* is removing an element, size() may come out zero or not.
PopRaces(w) == \E v \in Workers \ {w} : pc[v] = "pop"
LooksEmpty(w) == Empty \/ PopRaces(w)
LooksFilled(w) == ~Empty \/ PopRaces(w)

WorkerEnterLoop(w) ==
    /\ pc[w] = "loop"
    /\ ~isStopping \/ LooksFilled(w)
    /\ Goto(w, "lock")
    /\ UNCHANGED <<mutex, waiters, queueVars, stopVars, countVars, crashed>>

WorkerLeaveLoop(w) ==
    /\ pc[w] = "loop"
    /\ isStopping /\ LooksEmpty(w)
    /\ Goto(w, "finish")
    /\ UNCHANGED <<mutex, waiters, queueVars, stopVars, countVars, crashed>>

\* Lock, and look at the deque under the lock: break out, or go to sleep, or
\* remove a job.
WorkerLock(w) ==
    /\ pc[w] = "lock"
    /\ \/ /\ isStopping /\ Empty
          /\ mutex = NoThread
          /\ Goto(w, "finish")
          /\ UNCHANGED mutex
       \/ /\ ~isStopping /\ Empty
          /\ Acquire(w)
          /\ Goto(w, "sleep")
       \/ /\ ~Empty
          /\ Acquire(w)
          /\ Goto(w, "pop")
    /\ UNCHANGED <<waiters, queueVars, stopVars, countVars, crashed>>

\* d_poolCond.wait(lock): unlock and block, in one step.
WorkerSleep(w) ==
    /\ pc[w] = "sleep"
    /\ waiters' = waiters \cup {w}
    /\ Release
    /\ Goto(w, "waiting")
    /\ UNCHANGED <<queueVars, stopVars, countVars, crashed>>

\* The wait returns with the mutex held.  It has no predicate: the worker goes
\* on to remove a job unless the pool stops and the deque is empty.
WorkerWake(w) ==
    /\ pc[w] = "waiting"
    /\ w \notin waiters
    /\ IF isStopping /\ Empty
       THEN mutex = NoThread /\ UNCHANGED mutex /\ Goto(w, "finish")
       ELSE Acquire(w) /\ Goto(w, "pop")
    /\ UNCHANGED <<waiters, queueVars, stopVars, countVars, crashed>>

PopJob(w) ==
    /\ head < tail
    /\ head' = head + 1
    /\ job' = [job EXCEPT ![w] = head + 1]
    /\ UNCHANGED <<phantoms, crashed>>

\* front() and pop_front() where there is no element: the process dies, or the
\* worker gets whatever that memory holds and the deque's begin passes its end.
PopNothing(w) ==
    /\ head >= tail
    /\ \/ /\ crashed' = TRUE
          /\ UNCHANGED <<head, job, phantoms>>
       \/ /\ phantoms < MaxPhantoms
          /\ phantoms' = phantoms + 1
          /\ head' = head + 1
          /\ job' = [job EXCEPT ![w] = NoJob]
          /\ UNCHANGED crashed

WorkerPop(w) ==
    /\ pc[w] = "pop"
    /\ PopJob(w) \/ PopNothing(w)
    /\ Release
    /\ Goto(w, "run")
    /\ UNCHANGED <<waiters, tail, done, stopVars, countVars>>

\* j(): the job returns.  What a phantom does is its crash in PopNothing, or
\* nothing the pool can see.
WorkerRun(w) ==
    /\ pc[w] = "run"
    /\ done' = done \cup ({job[w]} \ {NoJob})
    /\ job' = [job EXCEPT ![w] = NoJob]
    /\ Goto(w, "loop")
    /\ UNCHANGED <<mutex, waiters, head, tail, phantoms, stopVars, countVars, crashed>>

WorkerFinish(w) ==
    /\ pc[w] = "finish"
    /\ numFinished' = numFinished + 1
    /\ Goto(w, "notifyAll")
    /\ UNCHANGED <<mutex, waiters, queueVars, stopVars, numActive, wakes, crashed>>

WorkerNotifyAll(w) ==
    /\ pc[w] = "notifyAll"
    /\ NotifyAll
    /\ Goto(w, "exit")
    /\ UNCHANGED <<mutex, queueVars, stopVars, countVars, crashed>>

-----------------------------------------------------------------------------
(***************************************************************************)
(* enqueue(): called by any thread of Submitters that has nothing else to  *)
(* do.  The bound MaxJobs limits the accepted jobs.                        *)
(***************************************************************************)
EnqueueAccept(t) ==
    /\ pc[t] = "idle"
    /\ tail < MaxJobs
    /\ Acquire(t)
    /\ ~isStopping
    /\ Goto(t, "enqPush")
    /\ UNCHANGED <<waiters, queueVars, stopVars, countVars, crashed>>

\* The early return leaves d_poolMutex locked.
EnqueueReject(t) ==
    /\ pc[t] = "idle"
    /\ Acquire(t)
    /\ isStopping
    /\ UNCHANGED <<pc, waiters, queueVars, stopVars, countVars, crashed>>

EnqueuePush(t) ==
    /\ pc[t] = "enqPush"
    /\ tail' = tail + 1
    /\ Release
    /\ Goto(t, "enqNotify")
    /\ UNCHANGED <<waiters, head, job, done, phantoms, stopVars, countVars, crashed>>

EnqueueNotify(t) ==
    /\ pc[t] = "enqNotify"
    /\ NotifyOne
    /\ Goto(t, "idle")
    /\ UNCHANGED <<mutex, queueVars, stopVars, countVars, crashed>>

-----------------------------------------------------------------------------
(***************************************************************************)
(* close() and wait(), called once each and in this order by Owner.        *)
(***************************************************************************)
CloseCall ==
    /\ pc[Owner] = "idle"
    /\ Goto(Owner, "closeCheck")
    /\ UNCHANGED <<mutex, waiters, queueVars, stopVars, countVars, crashed>>

CloseCheck ==
    /\ pc[Owner] = "closeCheck"
    /\ Goto(Owner, IF numActive < PoolSize THEN "startSleep" ELSE "setStopping")
    /\ UNCHANGED <<mutex, waiters, queueVars, stopVars, countVars, crashed>>

\* d_startCond.wait(lock), without looking at d_numActive again.
CloseSleep ==
    /\ pc[Owner] = "startSleep"
    /\ Goto(Owner, "startBlocked")
    /\ UNCHANGED <<mutex, waiters, queueVars, stopVars, countVars, crashed>>

CloseSetStopping ==
    /\ pc[Owner] = "setStopping"
    /\ isStopping' = TRUE
    /\ stopTail' = tail
    /\ Goto(Owner, "notifyStopping")
    /\ UNCHANGED <<mutex, waiters, queueVars, countVars, crashed>>

CloseNotify ==
    /\ pc[Owner] = "notifyStopping"
    /\ NotifyAll
    /\ Goto(Owner, "waitCheck")
    /\ UNCHANGED <<mutex, queueVars, stopVars, countVars, crashed>>

WaitCheck ==
    /\ pc[Owner] = "waitCheck"
    /\ Goto(Owner, IF numFinished < PoolSize THEN "waitLock" ELSE "returned")
    /\ UNCHANGED <<mutex, waiters, queueVars, stopVars, countVars, crashed>>

\* Lock and evaluate the predicate, on entry and after each wake-up: leave the
\* wait, or go on to block on a count that may meanwhile have changed.
WaitPredicate ==
    /\ pc[Owner] = "waitLock" \/ (pc[Owner] = "waitBlocked" /\ Owner \notin waiters)
    /\ IF numFinished = PoolSize
       THEN mutex = NoThread /\ UNCHANGED mutex /\ Goto(Owner, "waitCheck")
       ELSE Acquire(Owner) /\ Goto(Owner, "waitSleep")
    /\ UNCHANGED <<waiters, queueVars, stopVars, countVars, crashed>>

WaitSleep ==
    /\ pc[Owner] = "waitSleep"
    /\ waiters' = waiters \cup {Owner}
    /\ Release
    /\ Goto(Owner, "waitBlocked")
    /\ UNCHANGED <<queueVars, stopVars, countVars, crashed>>

-----------------------------------------------------------------------------
(***************************************************************************)
(* A condition variable may wake a thread nobody notified.                 *)
(***************************************************************************)
WakeUnnotified == wakes < MaxWakes /\ wakes' = wakes + 1

SpuriousWake ==
    /\ WakeUnnotified
    /\ \E t \in waiters : waiters' = waiters \ {t}
    /\ UNCHANGED <<pc, mutex, queueVars, stopVars, numActive, numFinished, crashed>>

SpuriousStartWake ==
    /\ WakeUnnotified
    /\ pc[Owner] = "startBlocked"
    /\ Goto(Owner, "closeCheck")
    /\ UNCHANGED <<mutex, waiters, queueVars, stopVars, numActive, numFinished, crashed>>

Work(w) ==
    \/ WorkerStart(w) \/ WorkerNotifyStart(w)
    \/ WorkerEnterLoop(w) \/ WorkerLeaveLoop(w)
    \/ WorkerLock(w) \/ WorkerSleep(w) \/ WorkerWake(w)
    \/ WorkerPop(w) \/ WorkerRun(w)
    \/ WorkerFinish(w) \/ WorkerNotifyAll(w)

\* Steps of a call that has begun; whether to call at all is the caller's choice.
FinishEnqueue(t) == EnqueuePush(t) \/ EnqueueNotify(t)
FinishClose == CloseCheck \/ CloseSleep \/ CloseSetStopping \/ CloseNotify
FinishWait == WaitCheck \/ WaitPredicate \/ WaitSleep

Next ==
    /\ ~crashed
    /\ \/ \E w \in Workers : Work(w)
       \/ \E t \in Submitters : EnqueueAccept(t) \/ EnqueueReject(t) \/ FinishEnqueue(t)
       \/ CloseCall \/ FinishClose \/ FinishWait
       \/ SpuriousWake \/ SpuriousStartWake

Spec == Init /\ [][Next]_vars

(***************************************************************************)
(* The operating system runs every thread that can run: each worker, and   *)
(* each call that has begun.  Nobody has to call, and nothing has to wake  *)
(* up spuriously.                                                          *)
(***************************************************************************)
Fairness ==
    /\ \A w \in Workers : WF_vars(~crashed /\ Work(w))
    /\ \A t \in Submitters : WF_vars(~crashed /\ FinishEnqueue(t))
    /\ WF_vars(~crashed /\ (FinishClose \/ FinishWait))

FairSpec == Spec /\ Fairness

-----------------------------------------------------------------------------
(***************************************************************************)
(* Properties.                                                             *)
(***************************************************************************)
TypeOK ==
    /\ pc \in [Threads -> {"idle"} \cup WorkerSteps \cup EnqueueSteps \cup OwnerSteps]
    /\ \A w \in Workers : pc[w] \in WorkerSteps
    /\ \A t \in Threads \ {Owner} : pc[t] \notin OwnerSteps
    /\ \A t \in Threads \ Workers : pc[t] \notin WorkerSteps
    /\ mutex \in Threads \cup {NoThread}
    /\ waiters \subseteq Workers \cup {Owner}
    /\ head \in Nat /\ tail \in Nat /\ stopTail \in Nat
    /\ numActive \in Nat /\ numFinished \in Nat /\ phantoms \in Nat /\ wakes \in Nat
    /\ isStopping \in BOOLEAN /\ crashed \in BOOLEAN
    /\ job \in [Workers -> Nat]
    /\ done \subseteq Nat

\* The mutex excludes: a thread inside a critical section holds it, a worker
\* never keeps it past its section, and a call that has returned still holds
\* it only if a stopping pool refused that call.
LockDiscipline ==
    /\ \A t \in Threads : pc[t] \in {"sleep", "pop", "enqPush", "waitSleep"} => mutex = t
    /\ \A w \in Workers : mutex = w => pc[w] \in {"sleep", "pop"}
    /\ \A t \in Threads \ Workers :
          mutex = t => pc[t] \in {"enqPush", "waitSleep"} \/ isStopping

\* close() does not let the pool stop before every thread has started.
AllStartedBeforeStop == isStopping => \A w \in Workers : pc[w] # "start"

\* No job is handed to two workers, and none is run again.
JobsRunAtMostOnce ==
    \A w \in Workers : job[w] # NoJob =>
        job[w] \notin done /\ \A v \in Workers \ {w} : job[v] # job[w]

\* Unless an empty deque was popped, every accepted job is in the deque, in a
\* worker's hands, or done: none disappears on the way.
NoJobLost ==
    phantoms = 0 => \A j \in 1..tail :
        j > head \/ j \in done \/ \E w \in Workers : job[w] = j

\* wait() returns only when every worker has left its loop for good; all that
\* is left of one is its last notify_all().
WaitReturnsAfterLastWorker ==
    pc[Owner] = "returned" => \A w \in Workers : pc[w] \in {"notifyAll", "exit"}

\* Whatever races with the shutdown, when wait() has returned each job that was
\* in the deque when close() set d_isStopping has run.
EarlyJobsDrained ==
    pc[Owner] = "returned" /\ phantoms = 0 => 1..stopTail \subseteq done

\* An accepted job runs: no wake-up of a worker that it needs is ever lost.
\* Excepted are a job whose enqueue() close() overtook, and a pool that has
\* refused a call, whose caller keeps the mutex.
AcceptedJobRuns ==
    \A j \in 1..MaxJobs :
        (tail >= j) ~> \/ j \in done
                       \/ phantoms > 0 \/ crashed
                       \/ isStopping /\ stopTail < j
                       \/ \E t \in Submitters : mutex = t /\ pc[t] = "idle"

\* Once every thread has started, close() returns: it either has still to read
\* the count, or is blocked while a thread has yet to notify it.  Excepted is a
\* close() that read the count before the last thread raised it and blocked
\* after that thread notified: that one sleeps for good.
CloseReturns ==
    (/\ numActive = PoolSize
     /\ \/ pc[Owner] = "closeCheck"
        \/ pc[Owner] = "startBlocked" /\ \E w \in Workers : pc[w] = "notifyStart")
        ~> (isStopping \/ crashed)

\* What the tests of the pool expect: once wait() has returned, each job that
\* enqueue() accepted has run.
EveryAcceptedJobRan == pc[Owner] = "returned" => 1..tail \subseteq done

\* What the tests of the pool expect: the wait() after close() returns.
WaitReturns ==
    (pc[Owner] = "waitCheck") ~> (pc[Owner] = "returned" \/ phantoms > 0 \/ crashed)

(***************************************************************************)
(* The pool implements an executor until it pops an empty deque.           *)
(***************************************************************************)
Promise == INSTANCE Executor WITH
    Slots <- Workers,
    accepted <- tail,
    started <- head,
    running <- job,
    stopped <- isStopping,
    owed <- stopTail,
    terminated <- pc[Owner] = "returned",
    failed <- phantoms > 0 \/ crashed

\* Every step of the pool is a step its promise allows.
ImplementsExecutor == Promise!Spec

=============================================================================
