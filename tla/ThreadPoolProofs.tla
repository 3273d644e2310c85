-------------------------- MODULE ThreadPoolProofs --------------------------
(***************************************************************************)
(* The safety properties of ThreadPool, proved for any finite set of       *)
(* workers, any submitters and any bounds.                                 *)
(*                                                                         *)
(* The properties are not inductive by themselves.  What they rest on is   *)
(* that the two atomic counters count workers (CountsOK), that d_isStopping*)
(* records how far the owner has come (OwnerOK), where each job is (JobsOK)*)
(* and that a job owed at the stop keeps some worker alive (DrainOK).      *)
(* That no wake-up is lost before the stop counts the workers that are on  *)
(* their way to the deque (Coming).                                        *)
(***************************************************************************)
EXTENDS ThreadPool, FiniteSetTheorems, TLAPS

Started == {w \in Workers : pc[w] # "start"}
Gone == {w \in Workers : pc[w] \in {"notifyAll", "exit"}}

CountsOK ==
    /\ numActive = Cardinality(Started)
    /\ numFinished = Cardinality(Gone)

AfterStop == {"notifyStopping", "waitCheck", "waitLock", "waitSleep", "waitBlocked", "returned"}

Leaving == {"finish", "notifyAll", "exit"}

OwnerOK ==
    /\ isStopping <=> pc[Owner] \in AfterStop
    /\ pc[Owner] \in {"setStopping"} \cup AfterStop => Started = Workers
    /\ pc[Owner] = "returned" => Gone = Workers
    /\ ~isStopping => \A w \in Workers : pc[w] \notin Leaving

JobsOK ==
    /\ done \subseteq 1..head
    /\ \A w \in Workers : job[w] # NoJob => pc[w] = "run" /\ job[w] \in 1..head
    /\ JobsRunAtMostOnce

QueueOK ==
    phantoms = 0 =>
        /\ head <= tail
        /\ \A j \in 1..head : j \in done \/ \E w \in Workers : job[w] = j

\* As long as a job owed at the stop is in the deque, some worker will look at
\* the deque again: a worker that misreads size() does so while another holds
\* the mutex, and that one is not leaving.
DrainOK ==
    isStopping =>
        /\ stopTail <= tail
        /\ phantoms = 0 /\ head < stopTail =>
              \E w \in Workers : pc[w] \notin Leaving

\* At most the one enqueue() that was past its test of d_isStopping pushes a
\* job after the stop.
LateOK ==
    isStopping /\ tail # stopTail => \A t \in Submitters : pc[t] # "enqPush"

IInv ==
    TypeOK /\ LockDiscipline /\ CountsOK /\ OwnerOK /\ JobsOK /\ QueueOK /\ DrainOK /\ LateOK
-----------------------------------------------------------------------------
(***************************************************************************)
(* Facts about the constants.                                              *)
(***************************************************************************)
LEMMA ThreadFacts ==
    /\ Workers \subseteq Threads /\ Submitters \subseteq Threads /\ Owner \in Threads
    /\ Owner \notin Workers
    /\ \A t \in Submitters : t \notin Workers
    /\ NoThread \notin Threads
BY PoolAssumption DEF Threads

\* A set of workers counts to PoolSize only if it is all of them.
LEMMA FullCount ==
    ASSUME NEW S \in SUBSET Workers, ~(Cardinality(S) < PoolSize)
    PROVE  S = Workers
<1>1. IsFiniteSet(Workers)
  BY PoolAssumption
<1>2. /\ IsFiniteSet(S)
      /\ Cardinality(S) <= Cardinality(Workers)
      /\ Cardinality(S) = Cardinality(Workers) => S = Workers
  BY <1>1, FS_Subset
<1>3. Cardinality(S) \in Nat /\ Cardinality(Workers) \in Nat
  BY <1>1, <1>2, FS_CardinalityType
<1> QED
  BY <1>2, <1>3 DEF PoolSize

\* The counters count: one more worker is one more.
LEMMA OneMore ==
    ASSUME NEW S \in SUBSET Workers, NEW w, w \notin S
    PROVE  Cardinality(S \cup {w}) = Cardinality(S) + 1
<1>1. IsFiniteSet(S)
  BY PoolAssumption, FS_Subset
<1> QED
  BY <1>1, FS_AddElement

LEMMA TypeInv ==
    ASSUME TypeOK, [Next]_vars
    PROVE  TypeOK'
<1> USE ThreadFacts DEF TypeOK, WorkerSteps, EnqueueSteps, OwnerSteps, Goto,
      Acquire, Release, NotifyOne, NotifyAll, queueVars, stopVars, countVars
<1>1. ASSUME NEW w \in Workers, WorkerStart(w) PROVE TypeOK'
  BY <1>1 DEF WorkerStart
<1>2. ASSUME NEW w \in Workers, WorkerNotifyStart(w) PROVE TypeOK'
  BY <1>2 DEF WorkerNotifyStart
<1>3. ASSUME NEW w \in Workers, WorkerEnterLoop(w) PROVE TypeOK'
  BY <1>3 DEF WorkerEnterLoop
<1>4. ASSUME NEW w \in Workers, WorkerLeaveLoop(w) PROVE TypeOK'
  BY <1>4 DEF WorkerLeaveLoop
<1>5. ASSUME NEW w \in Workers, WorkerLock(w) PROVE TypeOK'
  BY <1>5 DEF WorkerLock
<1>6. ASSUME NEW w \in Workers, WorkerSleep(w) PROVE TypeOK'
  BY <1>6 DEF WorkerSleep
<1>7. ASSUME NEW w \in Workers, WorkerWake(w) PROVE TypeOK'
  BY <1>7 DEF WorkerWake
<1>8. ASSUME NEW w \in Workers, WorkerPop(w) PROVE TypeOK'
  <2>1. CASE PopJob(w)
    BY <1>8, <2>1 DEF WorkerPop, PopJob
  <2>2. CASE PopNothing(w)
    <3>1. head' \in Nat /\ phantoms' \in Nat
      BY <2>2 DEF PopNothing
    <3>2. crashed' \in BOOLEAN
      BY <2>2, Zenon DEF PopNothing
    <3>3. job' \in [Workers -> Nat]
      BY <2>2 DEF PopNothing, NoJob
    <3> QED BY <1>8, <3>1, <3>2, <3>3 DEF WorkerPop
  <2> QED BY <1>8, <2>1, <2>2 DEF WorkerPop
<1>9. ASSUME NEW w \in Workers, WorkerRun(w) PROVE TypeOK'
  <2>1. job[w] \in Nat
    OBVIOUS
  <2>2. done' \subseteq Nat
    BY <1>9, <2>1 DEF WorkerRun
  <2>3. job' \in [Workers -> Nat]
    BY <1>9 DEF WorkerRun, NoJob
  <2> QED BY <1>9, <2>2, <2>3 DEF WorkerRun
<1>10. ASSUME NEW w \in Workers, WorkerFinish(w) PROVE TypeOK'
  BY <1>10 DEF WorkerFinish
<1>11. ASSUME NEW w \in Workers, WorkerNotifyAll(w) PROVE TypeOK'
  BY <1>11 DEF WorkerNotifyAll
<1>12. ASSUME NEW t \in Submitters, EnqueueAccept(t) PROVE TypeOK'
  BY <1>12 DEF EnqueueAccept
<1>13. ASSUME NEW t \in Submitters, EnqueueReject(t) PROVE TypeOK'
  BY <1>13 DEF EnqueueReject
<1>14. ASSUME NEW t \in Submitters, EnqueuePush(t) PROVE TypeOK'
  BY <1>14 DEF EnqueuePush
<1>15. ASSUME NEW t \in Submitters, EnqueueNotify(t) PROVE TypeOK'
  BY <1>15 DEF EnqueueNotify
<1>16. ASSUME CloseCall PROVE TypeOK'
  BY <1>16 DEF CloseCall
<1>17. ASSUME CloseCheck PROVE TypeOK'
  BY <1>17 DEF CloseCheck
<1>18. ASSUME CloseSleep PROVE TypeOK'
  BY <1>18 DEF CloseSleep
<1>19. ASSUME CloseSetStopping PROVE TypeOK'
  BY <1>19 DEF CloseSetStopping
<1>20. ASSUME CloseNotify PROVE TypeOK'
  BY <1>20 DEF CloseNotify
<1>21. ASSUME WaitCheck PROVE TypeOK'
  BY <1>21 DEF WaitCheck
<1>22. ASSUME WaitPredicate PROVE TypeOK'
  BY <1>22 DEF WaitPredicate
<1>23. ASSUME WaitSleep PROVE TypeOK'
  BY <1>23 DEF WaitSleep
<1>24. ASSUME SpuriousWake PROVE TypeOK'
  BY <1>24 DEF SpuriousWake, WakeUnnotified
<1>25. ASSUME SpuriousStartWake PROVE TypeOK'
  BY <1>25 DEF SpuriousStartWake, WakeUnnotified
<1>26. ASSUME UNCHANGED vars PROVE TypeOK'
  BY <1>26 DEF vars
<1> QED BY <1>1, <1>2, <1>3, <1>4, <1>5, <1>6, <1>7, <1>8, <1>9, <1>10, <1>11,
      <1>12, <1>13, <1>14, <1>15, <1>16, <1>17, <1>18, <1>19, <1>20, <1>21,
      <1>22, <1>23, <1>24, <1>25, <1>26
      DEF Next, Work, FinishEnqueue, FinishClose, FinishWait

LEMMA LockInv ==
    ASSUME TypeOK, OwnerOK, LockDiscipline, [Next]_vars
    PROVE  LockDiscipline'
<1> USE ThreadFacts DEF TypeOK, WorkerSteps, EnqueueSteps, OwnerSteps,
      LockDiscipline, Goto, Acquire, Release, NotifyOne, NotifyAll, queueVars,
      stopVars, countVars
<1>1. ASSUME NEW w \in Workers, WorkerStart(w) PROVE LockDiscipline'
  BY <1>1 DEF WorkerStart
<1>2. ASSUME NEW w \in Workers, WorkerNotifyStart(w) PROVE LockDiscipline'
  BY <1>2 DEF WorkerNotifyStart
<1>3. ASSUME NEW w \in Workers, WorkerEnterLoop(w) PROVE LockDiscipline'
  BY <1>3 DEF WorkerEnterLoop
<1>4. ASSUME NEW w \in Workers, WorkerLeaveLoop(w) PROVE LockDiscipline'
  BY <1>4 DEF WorkerLeaveLoop
<1>5. ASSUME NEW w \in Workers, WorkerLock(w) PROVE LockDiscipline'
  BY <1>5 DEF WorkerLock
<1>6. ASSUME NEW w \in Workers, WorkerSleep(w) PROVE LockDiscipline'
  BY <1>6 DEF WorkerSleep
<1>7. ASSUME NEW w \in Workers, WorkerWake(w) PROVE LockDiscipline'
  BY <1>7 DEF WorkerWake
<1>8. ASSUME NEW w \in Workers, WorkerPop(w) PROVE LockDiscipline'
  BY <1>8 DEF WorkerPop, PopJob, PopNothing
<1>9. ASSUME NEW w \in Workers, WorkerRun(w) PROVE LockDiscipline'
  BY <1>9 DEF WorkerRun
<1>10. ASSUME NEW w \in Workers, WorkerFinish(w) PROVE LockDiscipline'
  BY <1>10 DEF WorkerFinish
<1>11. ASSUME NEW w \in Workers, WorkerNotifyAll(w) PROVE LockDiscipline'
  BY <1>11 DEF WorkerNotifyAll
<1>12. ASSUME NEW t \in Submitters, EnqueueAccept(t) PROVE LockDiscipline'
  BY <1>12 DEF EnqueueAccept
<1>13. ASSUME NEW t \in Submitters, EnqueueReject(t) PROVE LockDiscipline'
  BY <1>13 DEF EnqueueReject
<1>14. ASSUME NEW t \in Submitters, EnqueuePush(t) PROVE LockDiscipline'
  BY <1>14 DEF EnqueuePush
<1>15. ASSUME NEW t \in Submitters, EnqueueNotify(t) PROVE LockDiscipline'
  BY <1>15 DEF EnqueueNotify
<1>16. ASSUME CloseCall PROVE LockDiscipline'
  BY <1>16 DEF CloseCall, OwnerOK, AfterStop
<1>17. ASSUME CloseCheck PROVE LockDiscipline'
  BY <1>17 DEF CloseCheck
<1>18. ASSUME CloseSleep PROVE LockDiscipline'
  BY <1>18 DEF CloseSleep
<1>19. ASSUME CloseSetStopping PROVE LockDiscipline'
  BY <1>19 DEF CloseSetStopping
<1>20. ASSUME CloseNotify PROVE LockDiscipline'
  BY <1>20 DEF CloseNotify
<1>21. ASSUME WaitCheck PROVE LockDiscipline'
  BY <1>21 DEF WaitCheck
<1>22. ASSUME WaitPredicate PROVE LockDiscipline'
  BY <1>22 DEF WaitPredicate
<1>23. ASSUME WaitSleep PROVE LockDiscipline'
  BY <1>23 DEF WaitSleep
<1>24. ASSUME SpuriousWake PROVE LockDiscipline'
  BY <1>24 DEF SpuriousWake
<1>25. ASSUME SpuriousStartWake PROVE LockDiscipline'
  BY <1>25 DEF SpuriousStartWake
<1>26. ASSUME UNCHANGED vars PROVE LockDiscipline'
  BY <1>26 DEF vars
<1> QED BY <1>1, <1>2, <1>3, <1>4, <1>5, <1>6, <1>7, <1>8, <1>9, <1>10, <1>11,
      <1>12, <1>13, <1>14, <1>15, <1>16, <1>17, <1>18, <1>19, <1>20, <1>21,
      <1>22, <1>23, <1>24, <1>25, <1>26
      DEF Next, Work, FinishEnqueue, FinishClose, FinishWait

LEMMA CountsInv ==
    ASSUME TypeOK, CountsOK, [Next]_vars
    PROVE  CountsOK'
<1> USE ThreadFacts DEF TypeOK, WorkerSteps, EnqueueSteps, OwnerSteps,
      CountsOK, Started, Gone, Goto, Acquire, Release, NotifyOne, NotifyAll,
      queueVars, stopVars, countVars
<1>1. ASSUME NEW w \in Workers, WorkerStart(w) PROVE CountsOK'
  <2>1. Started' = Started \cup {w} /\ w \notin Started
    BY <1>1 DEF WorkerStart
  <2>2. Gone' = Gone /\ numFinished' = numFinished /\ numActive' = numActive + 1
    BY <1>1 DEF WorkerStart
  <2>3. Started \in SUBSET Workers
    OBVIOUS
  <2> HIDE DEF Started, Gone
  <2> QED BY <2>1, <2>2, <2>3, OneMore
<1>2. ASSUME NEW w \in Workers, WorkerNotifyStart(w) PROVE CountsOK'
  <2>1. Started' = Started /\ Gone' = Gone
    BY <1>2 DEF WorkerNotifyStart
  <2> HIDE DEF Started, Gone
  <2> QED BY <1>2, <2>1 DEF WorkerNotifyStart
<1>3. ASSUME NEW w \in Workers, WorkerEnterLoop(w) PROVE CountsOK'
  BY <1>3 DEF WorkerEnterLoop
<1>4. ASSUME NEW w \in Workers, WorkerLeaveLoop(w) PROVE CountsOK'
  BY <1>4 DEF WorkerLeaveLoop
<1>5. ASSUME NEW w \in Workers, WorkerLock(w) PROVE CountsOK'
  BY <1>5 DEF WorkerLock
<1>6. ASSUME NEW w \in Workers, WorkerSleep(w) PROVE CountsOK'
  BY <1>6 DEF WorkerSleep
<1>7. ASSUME NEW w \in Workers, WorkerWake(w) PROVE CountsOK'
  BY SMTT(20), <1>7 DEF WorkerWake
<1>8. ASSUME NEW w \in Workers, WorkerPop(w) PROVE CountsOK'
  BY <1>8 DEF WorkerPop, PopJob, PopNothing
<1>9. ASSUME NEW w \in Workers, WorkerRun(w) PROVE CountsOK'
  BY <1>9 DEF WorkerRun
<1>10. ASSUME NEW w \in Workers, WorkerFinish(w) PROVE CountsOK'
  <2>1. Gone' = Gone \cup {w} /\ w \notin Gone
    BY <1>10 DEF WorkerFinish
  <2>2. Started' = Started /\ numActive' = numActive /\ numFinished' = numFinished + 1
    BY <1>10 DEF WorkerFinish
  <2>3. Gone \in SUBSET Workers
    OBVIOUS
  <2> HIDE DEF Started, Gone
  <2> QED BY <2>1, <2>2, <2>3, OneMore
<1>11. ASSUME NEW w \in Workers, WorkerNotifyAll(w) PROVE CountsOK'
  BY <1>11 DEF WorkerNotifyAll
<1>12. ASSUME NEW t \in Submitters, EnqueueAccept(t) PROVE CountsOK'
  BY <1>12 DEF EnqueueAccept
<1>13. ASSUME NEW t \in Submitters, EnqueueReject(t) PROVE CountsOK'
  BY <1>13 DEF EnqueueReject
<1>14. ASSUME NEW t \in Submitters, EnqueuePush(t) PROVE CountsOK'
  BY <1>14 DEF EnqueuePush
<1>15. ASSUME NEW t \in Submitters, EnqueueNotify(t) PROVE CountsOK'
  BY <1>15 DEF EnqueueNotify
<1>16. ASSUME CloseCall PROVE CountsOK'
  BY <1>16 DEF CloseCall
<1>17. ASSUME CloseCheck PROVE CountsOK'
  BY <1>17 DEF CloseCheck
<1>18. ASSUME CloseSleep PROVE CountsOK'
  BY <1>18 DEF CloseSleep
<1>19. ASSUME CloseSetStopping PROVE CountsOK'
  BY <1>19 DEF CloseSetStopping
<1>20. ASSUME CloseNotify PROVE CountsOK'
  BY <1>20 DEF CloseNotify
<1>21. ASSUME WaitCheck PROVE CountsOK'
  BY <1>21 DEF WaitCheck
<1>22. ASSUME WaitPredicate PROVE CountsOK'
  BY SMTT(20), <1>22 DEF WaitPredicate
<1>23. ASSUME WaitSleep PROVE CountsOK'
  BY <1>23 DEF WaitSleep
<1>24. ASSUME SpuriousWake PROVE CountsOK'
  BY <1>24 DEF SpuriousWake
<1>25. ASSUME SpuriousStartWake PROVE CountsOK'
  BY <1>25 DEF SpuriousStartWake
<1>26. ASSUME UNCHANGED vars PROVE CountsOK'
  BY <1>26 DEF vars
<1> QED BY <1>1, <1>2, <1>3, <1>4, <1>5, <1>6, <1>7, <1>8, <1>9, <1>10, <1>11,
      <1>12, <1>13, <1>14, <1>15, <1>16, <1>17, <1>18, <1>19, <1>20, <1>21,
      <1>22, <1>23, <1>24, <1>25, <1>26
      DEF Next, Work, FinishEnqueue, FinishClose, FinishWait

LEMMA OwnerInv ==
    ASSUME TypeOK, CountsOK, OwnerOK, [Next]_vars
    PROVE  OwnerOK'
<1> USE ThreadFacts DEF TypeOK, WorkerSteps, EnqueueSteps, OwnerSteps,
      OwnerOK, AfterStop, Leaving, Started, Gone, Goto, Acquire, Release,
      NotifyOne, NotifyAll, queueVars, stopVars, countVars
<1>1. ASSUME NEW w \in Workers, WorkerStart(w) PROVE OwnerOK'
  BY <1>1 DEF WorkerStart
<1>2. ASSUME NEW w \in Workers, WorkerNotifyStart(w) PROVE OwnerOK'
  BY <1>2 DEF WorkerNotifyStart
<1>3. ASSUME NEW w \in Workers, WorkerEnterLoop(w) PROVE OwnerOK'
  BY <1>3 DEF WorkerEnterLoop
<1>4. ASSUME NEW w \in Workers, WorkerLeaveLoop(w) PROVE OwnerOK'
  BY <1>4 DEF WorkerLeaveLoop
<1>5. ASSUME NEW w \in Workers, WorkerLock(w) PROVE OwnerOK'
  BY <1>5 DEF WorkerLock
<1>6. ASSUME NEW w \in Workers, WorkerSleep(w) PROVE OwnerOK'
  BY <1>6 DEF WorkerSleep
<1>7. ASSUME NEW w \in Workers, WorkerWake(w) PROVE OwnerOK'
  BY <1>7 DEF WorkerWake
<1>8. ASSUME NEW w \in Workers, WorkerPop(w) PROVE OwnerOK'
  BY <1>8 DEF WorkerPop, PopJob, PopNothing
<1>9. ASSUME NEW w \in Workers, WorkerRun(w) PROVE OwnerOK'
  BY <1>9 DEF WorkerRun
<1>10. ASSUME NEW w \in Workers, WorkerFinish(w) PROVE OwnerOK'
  BY <1>10 DEF WorkerFinish
<1>11. ASSUME NEW w \in Workers, WorkerNotifyAll(w) PROVE OwnerOK'
  BY <1>11 DEF WorkerNotifyAll
<1>12. ASSUME NEW t \in Submitters, EnqueueAccept(t) PROVE OwnerOK'
  BY <1>12 DEF EnqueueAccept
<1>13. ASSUME NEW t \in Submitters, EnqueueReject(t) PROVE OwnerOK'
  BY <1>13 DEF EnqueueReject
<1>14. ASSUME NEW t \in Submitters, EnqueuePush(t) PROVE OwnerOK'
  BY <1>14 DEF EnqueuePush
<1>15. ASSUME NEW t \in Submitters, EnqueueNotify(t) PROVE OwnerOK'
  BY <1>15 DEF EnqueueNotify
<1>16. ASSUME CloseCall PROVE OwnerOK'
  BY <1>16 DEF CloseCall
<1>17. ASSUME CloseCheck PROVE OwnerOK'
  <2>1. ASSUME ~(numActive < PoolSize) PROVE Started = Workers
    <3>1. Started \in SUBSET Workers /\ numActive = Cardinality(Started)
      BY DEF CountsOK
    <3> HIDE DEF Started
    <3> QED BY <2>1, <3>1, FullCount
  <2> QED BY <1>17, <2>1 DEF CloseCheck
<1>18. ASSUME CloseSleep PROVE OwnerOK'
  BY <1>18 DEF CloseSleep
<1>19. ASSUME CloseSetStopping PROVE OwnerOK'
  BY <1>19 DEF CloseSetStopping
<1>20. ASSUME CloseNotify PROVE OwnerOK'
  BY <1>20 DEF CloseNotify
<1>21. ASSUME WaitCheck PROVE OwnerOK'
  <2>1. ASSUME ~(numFinished < PoolSize) PROVE Gone = Workers
    <3>1. Gone \in SUBSET Workers /\ numFinished = Cardinality(Gone)
      BY DEF CountsOK
    <3> HIDE DEF Gone
    <3> QED BY <2>1, <3>1, FullCount
  <2> QED BY <1>21, <2>1 DEF WaitCheck
<1>22. ASSUME WaitPredicate PROVE OwnerOK'
  BY <1>22 DEF WaitPredicate
<1>23. ASSUME WaitSleep PROVE OwnerOK'
  BY <1>23 DEF WaitSleep
<1>24. ASSUME SpuriousWake PROVE OwnerOK'
  BY <1>24 DEF SpuriousWake
<1>25. ASSUME SpuriousStartWake PROVE OwnerOK'
  BY <1>25 DEF SpuriousStartWake
<1>26. ASSUME UNCHANGED vars PROVE OwnerOK'
  BY <1>26 DEF vars
<1> QED BY <1>1, <1>2, <1>3, <1>4, <1>5, <1>6, <1>7, <1>8, <1>9, <1>10, <1>11,
      <1>12, <1>13, <1>14, <1>15, <1>16, <1>17, <1>18, <1>19, <1>20, <1>21,
      <1>22, <1>23, <1>24, <1>25, <1>26
      DEF Next, Work, FinishEnqueue, FinishClose, FinishWait

LEMMA JobsInv ==
    ASSUME TypeOK, JobsOK, [Next]_vars
    PROVE  JobsOK'
<1> USE ThreadFacts DEF TypeOK, WorkerSteps, EnqueueSteps, OwnerSteps, JobsOK,
      JobsRunAtMostOnce, NoJob, Goto, Acquire, Release, NotifyOne, NotifyAll,
      queueVars, stopVars, countVars
<1>1. ASSUME NEW w \in Workers, WorkerStart(w) PROVE JobsOK'
  BY <1>1 DEF WorkerStart
<1>2. ASSUME NEW w \in Workers, WorkerNotifyStart(w) PROVE JobsOK'
  BY <1>2 DEF WorkerNotifyStart
<1>3. ASSUME NEW w \in Workers, WorkerEnterLoop(w) PROVE JobsOK'
  BY <1>3 DEF WorkerEnterLoop
<1>4. ASSUME NEW w \in Workers, WorkerLeaveLoop(w) PROVE JobsOK'
  BY <1>4 DEF WorkerLeaveLoop
<1>5. ASSUME NEW w \in Workers, WorkerLock(w) PROVE JobsOK'
  BY <1>5 DEF WorkerLock
<1>6. ASSUME NEW w \in Workers, WorkerSleep(w) PROVE JobsOK'
  BY <1>6 DEF WorkerSleep
<1>7. ASSUME NEW w \in Workers, WorkerWake(w) PROVE JobsOK'
  BY <1>7 DEF WorkerWake
<1>8. ASSUME NEW w \in Workers, WorkerPop(w) PROVE JobsOK'
  BY <1>8 DEF WorkerPop, PopJob, PopNothing
<1>9. ASSUME NEW w \in Workers, WorkerRun(w) PROVE JobsOK'
  <2>1. done' \subseteq 1..head'
    <3>1. job[w] # NoJob => job[w] \in 1..head
      OBVIOUS
    <3>2. done' \subseteq done \cup {job[w]} /\ (job[w] = NoJob => done' = done) /\ head' = head
      BY <1>9 DEF WorkerRun
    <3> QED BY <3>1, <3>2
  <2>2. job' = [job EXCEPT ![w] = NoJob] /\ job'[w] = NoJob
    BY <1>9 DEF WorkerRun
  <2>3. ASSUME NEW v \in Workers, job'[v] # NoJob
        PROVE  /\ v # w /\ job'[v] = job[v] /\ job[v] # job[w]
               /\ pc'[v] = "run" /\ job'[v] \in 1..head'
    BY <1>9, <2>2, <2>3 DEF WorkerRun
  <2>4. \A v \in Workers : job'[v] # NoJob => job'[v] \notin done'
    BY <1>9, <2>3 DEF WorkerRun
  <2>5. \A v \in Workers : job'[v] # NoJob => \A u \in Workers \ {v} : job'[u] # job'[v]
    BY <2>2, <2>3
  <2> QED BY <2>1, <2>3, <2>4, <2>5
<1>10. ASSUME NEW w \in Workers, WorkerFinish(w) PROVE JobsOK'
  BY <1>10 DEF WorkerFinish
<1>11. ASSUME NEW w \in Workers, WorkerNotifyAll(w) PROVE JobsOK'
  BY <1>11 DEF WorkerNotifyAll
<1>12. ASSUME NEW t \in Submitters, EnqueueAccept(t) PROVE JobsOK'
  BY <1>12 DEF EnqueueAccept
<1>13. ASSUME NEW t \in Submitters, EnqueueReject(t) PROVE JobsOK'
  BY <1>13 DEF EnqueueReject
<1>14. ASSUME NEW t \in Submitters, EnqueuePush(t) PROVE JobsOK'
  BY <1>14 DEF EnqueuePush
<1>15. ASSUME NEW t \in Submitters, EnqueueNotify(t) PROVE JobsOK'
  BY <1>15 DEF EnqueueNotify
<1>16. ASSUME CloseCall PROVE JobsOK'
  BY <1>16 DEF CloseCall
<1>17. ASSUME CloseCheck PROVE JobsOK'
  BY <1>17 DEF CloseCheck
<1>18. ASSUME CloseSleep PROVE JobsOK'
  BY <1>18 DEF CloseSleep
<1>19. ASSUME CloseSetStopping PROVE JobsOK'
  BY <1>19 DEF CloseSetStopping
<1>20. ASSUME CloseNotify PROVE JobsOK'
  BY <1>20 DEF CloseNotify
<1>21. ASSUME WaitCheck PROVE JobsOK'
  BY <1>21 DEF WaitCheck
<1>22. ASSUME WaitPredicate PROVE JobsOK'
  BY <1>22 DEF WaitPredicate
<1>23. ASSUME WaitSleep PROVE JobsOK'
  BY <1>23 DEF WaitSleep
<1>24. ASSUME SpuriousWake PROVE JobsOK'
  BY <1>24 DEF SpuriousWake
<1>25. ASSUME SpuriousStartWake PROVE JobsOK'
  BY <1>25 DEF SpuriousStartWake
<1>26. ASSUME UNCHANGED vars PROVE JobsOK'
  BY <1>26 DEF vars
<1> QED BY <1>1, <1>2, <1>3, <1>4, <1>5, <1>6, <1>7, <1>8, <1>9, <1>10, <1>11,
      <1>12, <1>13, <1>14, <1>15, <1>16, <1>17, <1>18, <1>19, <1>20, <1>21,
      <1>22, <1>23, <1>24, <1>25, <1>26
      DEF Next, Work, FinishEnqueue, FinishClose, FinishWait

LEMMA QueueInv ==
    ASSUME TypeOK, JobsOK, QueueOK, [Next]_vars
    PROVE  QueueOK'
<1> USE ThreadFacts DEF TypeOK, WorkerSteps, EnqueueSteps, OwnerSteps, JobsOK,
      QueueOK, NoJob, Goto, Acquire, Release, NotifyOne, NotifyAll, queueVars,
      stopVars, countVars
<1>1. ASSUME NEW w \in Workers, WorkerStart(w) PROVE QueueOK'
  BY <1>1 DEF WorkerStart
<1>2. ASSUME NEW w \in Workers, WorkerNotifyStart(w) PROVE QueueOK'
  BY <1>2 DEF WorkerNotifyStart
<1>3. ASSUME NEW w \in Workers, WorkerEnterLoop(w) PROVE QueueOK'
  BY <1>3 DEF WorkerEnterLoop
<1>4. ASSUME NEW w \in Workers, WorkerLeaveLoop(w) PROVE QueueOK'
  BY <1>4 DEF WorkerLeaveLoop
<1>5. ASSUME NEW w \in Workers, WorkerLock(w) PROVE QueueOK'
  BY <1>5 DEF WorkerLock
<1>6. ASSUME NEW w \in Workers, WorkerSleep(w) PROVE QueueOK'
  BY <1>6 DEF WorkerSleep
<1>7. ASSUME NEW w \in Workers, WorkerWake(w) PROVE QueueOK'
  BY <1>7 DEF WorkerWake
<1>8. ASSUME NEW w \in Workers, WorkerPop(w) PROVE QueueOK'
  BY <1>8 DEF WorkerPop, PopJob, PopNothing
<1>9. ASSUME NEW w \in Workers, WorkerRun(w) PROVE QueueOK'
  BY <1>9 DEF WorkerRun
<1>10. ASSUME NEW w \in Workers, WorkerFinish(w) PROVE QueueOK'
  BY <1>10 DEF WorkerFinish
<1>11. ASSUME NEW w \in Workers, WorkerNotifyAll(w) PROVE QueueOK'
  BY <1>11 DEF WorkerNotifyAll
<1>12. ASSUME NEW t \in Submitters, EnqueueAccept(t) PROVE QueueOK'
  BY <1>12 DEF EnqueueAccept
<1>13. ASSUME NEW t \in Submitters, EnqueueReject(t) PROVE QueueOK'
  BY <1>13 DEF EnqueueReject
<1>14. ASSUME NEW t \in Submitters, EnqueuePush(t) PROVE QueueOK'
  BY <1>14 DEF EnqueuePush
<1>15. ASSUME NEW t \in Submitters, EnqueueNotify(t) PROVE QueueOK'
  BY <1>15 DEF EnqueueNotify
<1>16. ASSUME CloseCall PROVE QueueOK'
  BY <1>16 DEF CloseCall
<1>17. ASSUME CloseCheck PROVE QueueOK'
  BY <1>17 DEF CloseCheck
<1>18. ASSUME CloseSleep PROVE QueueOK'
  BY <1>18 DEF CloseSleep
<1>19. ASSUME CloseSetStopping PROVE QueueOK'
  BY <1>19 DEF CloseSetStopping
<1>20. ASSUME CloseNotify PROVE QueueOK'
  BY <1>20 DEF CloseNotify
<1>21. ASSUME WaitCheck PROVE QueueOK'
  BY <1>21 DEF WaitCheck
<1>22. ASSUME WaitPredicate PROVE QueueOK'
  BY <1>22 DEF WaitPredicate
<1>23. ASSUME WaitSleep PROVE QueueOK'
  BY <1>23 DEF WaitSleep
<1>24. ASSUME SpuriousWake PROVE QueueOK'
  BY <1>24 DEF SpuriousWake
<1>25. ASSUME SpuriousStartWake PROVE QueueOK'
  BY <1>25 DEF SpuriousStartWake
<1>26. ASSUME UNCHANGED vars PROVE QueueOK'
  BY <1>26 DEF vars
<1> QED BY <1>1, <1>2, <1>3, <1>4, <1>5, <1>6, <1>7, <1>8, <1>9, <1>10, <1>11,
      <1>12, <1>13, <1>14, <1>15, <1>16, <1>17, <1>18, <1>19, <1>20, <1>21,
      <1>22, <1>23, <1>24, <1>25, <1>26
      DEF Next, Work, FinishEnqueue, FinishClose, FinishWait

LEMMA DrainInv ==
    ASSUME TypeOK, OwnerOK, QueueOK, DrainOK, [Next]_vars
    PROVE  DrainOK'
<1> USE ThreadFacts DEF TypeOK, WorkerSteps, EnqueueSteps, OwnerSteps,
      DrainOK, Leaving, Empty, Goto, Acquire, Release, NotifyOne, NotifyAll,
      queueVars, stopVars, countVars
<1>1. ASSUME NEW w \in Workers, WorkerStart(w) PROVE DrainOK'
  BY <1>1 DEF WorkerStart
<1>2. ASSUME NEW w \in Workers, WorkerNotifyStart(w) PROVE DrainOK'
  BY <1>2 DEF WorkerNotifyStart
<1>3. ASSUME NEW w \in Workers, WorkerEnterLoop(w) PROVE DrainOK'
  BY <1>3 DEF WorkerEnterLoop
<1>4. ASSUME NEW w \in Workers, WorkerLeaveLoop(w) PROVE DrainOK'
  <2>1. CASE Empty
    BY <1>4, <2>1 DEF WorkerLeaveLoop
  <2>2. CASE PopRaces(w)
    <3>1. PICK v \in Workers \ {w} : pc[v] = "pop"
      BY <2>2 DEF PopRaces
    <3>2. v \in Workers /\ pc'[v] \notin Leaving
      BY <1>4, <3>1 DEF WorkerLeaveLoop
    <3> QED BY <1>4, <3>2 DEF WorkerLeaveLoop
  <2> QED BY <1>4, <2>1, <2>2 DEF WorkerLeaveLoop, LooksEmpty
<1>5. ASSUME NEW w \in Workers, WorkerLock(w) PROVE DrainOK'
  BY <1>5 DEF WorkerLock
<1>6. ASSUME NEW w \in Workers, WorkerSleep(w) PROVE DrainOK'
  BY <1>6 DEF WorkerSleep
<1>7. ASSUME NEW w \in Workers, WorkerWake(w) PROVE DrainOK'
  BY <1>7 DEF WorkerWake
<1>8. ASSUME NEW w \in Workers, WorkerPop(w) PROVE DrainOK'
  BY <1>8 DEF WorkerPop, PopJob, PopNothing
<1>9. ASSUME NEW w \in Workers, WorkerRun(w) PROVE DrainOK'
  BY <1>9 DEF WorkerRun
<1>10. ASSUME NEW w \in Workers, WorkerFinish(w) PROVE DrainOK'
  BY <1>10 DEF WorkerFinish
<1>11. ASSUME NEW w \in Workers, WorkerNotifyAll(w) PROVE DrainOK'
  BY <1>11 DEF WorkerNotifyAll
<1>12. ASSUME NEW t \in Submitters, EnqueueAccept(t) PROVE DrainOK'
  BY <1>12 DEF EnqueueAccept
<1>13. ASSUME NEW t \in Submitters, EnqueueReject(t) PROVE DrainOK'
  BY <1>13 DEF EnqueueReject
<1>14. ASSUME NEW t \in Submitters, EnqueuePush(t) PROVE DrainOK'
  BY <1>14 DEF EnqueuePush
<1>15. ASSUME NEW t \in Submitters, EnqueueNotify(t) PROVE DrainOK'
  BY <1>15 DEF EnqueueNotify
<1>16. ASSUME CloseCall PROVE DrainOK'
  BY <1>16 DEF CloseCall
<1>17. ASSUME CloseCheck PROVE DrainOK'
  BY <1>17 DEF CloseCheck
<1>18. ASSUME CloseSleep PROVE DrainOK'
  BY <1>18 DEF CloseSleep
<1>19. ASSUME CloseSetStopping PROVE DrainOK'
  <2>1. PICK w \in Workers : TRUE
    BY PoolAssumption
  <2>2. pc'[w] \notin Leaving
    BY <1>19 DEF CloseSetStopping, OwnerOK, AfterStop
  <2> QED BY <1>19, <2>1, <2>2 DEF CloseSetStopping, QueueOK
<1>20. ASSUME CloseNotify PROVE DrainOK'
  BY <1>20 DEF CloseNotify
<1>21. ASSUME WaitCheck PROVE DrainOK'
  BY <1>21 DEF WaitCheck
<1>22. ASSUME WaitPredicate PROVE DrainOK'
  BY <1>22 DEF WaitPredicate
<1>23. ASSUME WaitSleep PROVE DrainOK'
  BY <1>23 DEF WaitSleep
<1>24. ASSUME SpuriousWake PROVE DrainOK'
  BY <1>24 DEF SpuriousWake
<1>25. ASSUME SpuriousStartWake PROVE DrainOK'
  BY <1>25 DEF SpuriousStartWake
<1>26. ASSUME UNCHANGED vars PROVE DrainOK'
  BY <1>26 DEF vars
<1> QED BY <1>1, <1>2, <1>3, <1>4, <1>5, <1>6, <1>7, <1>8, <1>9, <1>10, <1>11,
      <1>12, <1>13, <1>14, <1>15, <1>16, <1>17, <1>18, <1>19, <1>20, <1>21,
      <1>22, <1>23, <1>24, <1>25, <1>26
      DEF Next, Work, FinishEnqueue, FinishClose, FinishWait

LEMMA LateInv ==
    ASSUME TypeOK, LockDiscipline, LateOK, [Next]_vars
    PROVE  LateOK'
<1> USE ThreadFacts DEF TypeOK, WorkerSteps, EnqueueSteps, OwnerSteps,
      LockDiscipline, LateOK, Goto, Acquire, Release, NotifyOne, NotifyAll,
      queueVars, stopVars, countVars
<1>1. ASSUME NEW w \in Workers, WorkerStart(w) PROVE LateOK'
  BY <1>1 DEF WorkerStart
<1>2. ASSUME NEW w \in Workers, WorkerNotifyStart(w) PROVE LateOK'
  BY <1>2 DEF WorkerNotifyStart
<1>3. ASSUME NEW w \in Workers, WorkerEnterLoop(w) PROVE LateOK'
  BY <1>3 DEF WorkerEnterLoop
<1>4. ASSUME NEW w \in Workers, WorkerLeaveLoop(w) PROVE LateOK'
  BY <1>4 DEF WorkerLeaveLoop
<1>5. ASSUME NEW w \in Workers, WorkerLock(w) PROVE LateOK'
  BY <1>5 DEF WorkerLock
<1>6. ASSUME NEW w \in Workers, WorkerSleep(w) PROVE LateOK'
  BY <1>6 DEF WorkerSleep
<1>7. ASSUME NEW w \in Workers, WorkerWake(w) PROVE LateOK'
  BY <1>7 DEF WorkerWake
<1>8. ASSUME NEW w \in Workers, WorkerPop(w) PROVE LateOK'
  BY <1>8 DEF WorkerPop, PopJob, PopNothing
<1>9. ASSUME NEW w \in Workers, WorkerRun(w) PROVE LateOK'
  BY <1>9 DEF WorkerRun
<1>10. ASSUME NEW w \in Workers, WorkerFinish(w) PROVE LateOK'
  BY <1>10 DEF WorkerFinish
<1>11. ASSUME NEW w \in Workers, WorkerNotifyAll(w) PROVE LateOK'
  BY <1>11 DEF WorkerNotifyAll
<1>12. ASSUME NEW t \in Submitters, EnqueueAccept(t) PROVE LateOK'
  BY <1>12 DEF EnqueueAccept
<1>13. ASSUME NEW t \in Submitters, EnqueueReject(t) PROVE LateOK'
  BY <1>13 DEF EnqueueReject
<1>14. ASSUME NEW t \in Submitters, EnqueuePush(t) PROVE LateOK'
  BY <1>14 DEF EnqueuePush
<1>15. ASSUME NEW t \in Submitters, EnqueueNotify(t) PROVE LateOK'
  BY <1>15 DEF EnqueueNotify
<1>16. ASSUME CloseCall PROVE LateOK'
  BY <1>16 DEF CloseCall
<1>17. ASSUME CloseCheck PROVE LateOK'
  BY <1>17 DEF CloseCheck
<1>18. ASSUME CloseSleep PROVE LateOK'
  BY <1>18 DEF CloseSleep
<1>19. ASSUME CloseSetStopping PROVE LateOK'
  BY <1>19 DEF CloseSetStopping
<1>20. ASSUME CloseNotify PROVE LateOK'
  BY <1>20 DEF CloseNotify
<1>21. ASSUME WaitCheck PROVE LateOK'
  BY <1>21 DEF WaitCheck
<1>22. ASSUME WaitPredicate PROVE LateOK'
  BY <1>22 DEF WaitPredicate
<1>23. ASSUME WaitSleep PROVE LateOK'
  BY <1>23 DEF WaitSleep
<1>24. ASSUME SpuriousWake PROVE LateOK'
  BY <1>24 DEF SpuriousWake
<1>25. ASSUME SpuriousStartWake PROVE LateOK'
  BY <1>25 DEF SpuriousStartWake
<1>26. ASSUME UNCHANGED vars PROVE LateOK'
  BY <1>26 DEF vars
<1> QED BY <1>1, <1>2, <1>3, <1>4, <1>5, <1>6, <1>7, <1>8, <1>9, <1>10, <1>11,
      <1>12, <1>13, <1>14, <1>15, <1>16, <1>17, <1>18, <1>19, <1>20, <1>21,
      <1>22, <1>23, <1>24, <1>25, <1>26
      DEF Next, Work, FinishEnqueue, FinishClose, FinishWait

LEMMA InitInv == Init => IInv
<1> SUFFICES ASSUME Init PROVE IInv
  OBVIOUS
<1> USE ThreadFacts, PoolAssumption DEF Init
<1>1. TypeOK
  BY DEF TypeOK, WorkerSteps, EnqueueSteps, OwnerSteps, NoJob
<1>2. LockDiscipline
  BY DEF LockDiscipline
<1>3. CountsOK
  <2>1. Started = {} /\ Gone = {}
    BY DEF Started, Gone
  <2> QED BY <2>1, FS_EmptySet DEF CountsOK
<1>4. OwnerOK
  BY DEF OwnerOK, AfterStop, Leaving
<1>5. JobsOK
  BY DEF JobsOK, JobsRunAtMostOnce
<1>6. QueueOK /\ DrainOK /\ LateOK
  BY DEF QueueOK, DrainOK, LateOK
<1> QED BY <1>1, <1>2, <1>3, <1>4, <1>5, <1>6 DEF IInv

\* The conjunction is inductive, so it holds of every behaviour of the pool.
THEOREM Invariance == Spec => []IInv
<1>1. IInv /\ [Next]_vars => IInv'
  BY TypeInv, LockInv, CountsInv, OwnerInv, JobsInv, QueueInv, DrainInv, LateInv DEF IInv
<1> QED BY <1>1, InitInv, PTL DEF Spec

\* Every variable keeps its type, for any number of workers and jobs.
THEOREM TypeCorrect == Spec => []TypeOK
<1>1. IInv => TypeOK
  BY DEF IInv
<1> QED BY <1>1, Invariance, PTL

\* d_poolMutex excludes, and only a refused enqueue() can leave it locked.
THEOREM LockCorrect == Spec => []LockDiscipline
<1>1. IInv => LockDiscipline
  BY DEF IInv
<1> QED BY <1>1, Invariance, PTL

\* The start-up handshake of close() does what its comment says.
THEOREM StartBeforeStop == Spec => []AllStartedBeforeStop
<1>1. IInv => AllStartedBeforeStop
  BY DEF IInv, OwnerOK, AfterStop, Started, AllStartedBeforeStop
<1> QED BY <1>1, Invariance, PTL

\* No job is run by two workers or twice, even after an undefined pop.
THEOREM AtMostOnce == Spec => []JobsRunAtMostOnce
<1>1. IInv => JobsRunAtMostOnce
  BY DEF IInv, JobsOK
<1> QED BY <1>1, Invariance, PTL

\* Without an undefined pop every accepted job can be accounted for.
THEOREM NoLoss == Spec => []NoJobLost
<1>1. IInv => NoJobLost
  BY DEF IInv, TypeOK, QueueOK, NoJobLost
<1> QED BY <1>1, Invariance, PTL

\* wait() returns after the loop of the last worker.
THEOREM WaitIsLast == Spec => []WaitReturnsAfterLastWorker
<1>1. IInv => WaitReturnsAfterLastWorker
  BY DEF IInv, OwnerOK, Gone, WaitReturnsAfterLastWorker
<1> QED BY <1>1, Invariance, PTL

\* What the deque held when the pool stopped has run when wait() returns.
THEOREM DrainBeforeReturn == Spec => []EarlyJobsDrained
<1>1. IInv => EarlyJobsDrained
  <2> SUFFICES ASSUME IInv, pc[Owner] = "returned", phantoms = 0,
                      NEW j \in 1..stopTail
               PROVE  j \in done
    BY DEF EarlyJobsDrained
  <2>1. \A w \in Workers : pc[w] \in {"notifyAll", "exit"}
    BY DEF IInv, OwnerOK, Gone
  <2>2. isStopping
    BY DEF IInv, OwnerOK, AfterStop
  <2>3. ~(head < stopTail)
    BY <2>1, <2>2 DEF IInv, DrainOK, Leaving
  <2>4. j \in 1..head
    BY <2>3 DEF IInv, TypeOK
  <2>5. j # NoJob
    BY <2>4 DEF NoJob
  <2>6. \A w \in Workers : job[w] # j
    BY <2>1, <2>5 DEF IInv, JobsOK
  <2> QED BY <2>4, <2>6 DEF IInv, QueueOK
<1> QED BY <1>1, Invariance, PTL

-----------------------------------------------------------------------------
(***************************************************************************)
(* Wake-ups.                                                               *)
(***************************************************************************)
\* The workers that will look at the deque before they sleep or run a job.
Coming ==
    {w \in Workers : \/ pc[w] \in {"start", "notifyStart", "loop", "lock", "pop"}
                     \/ pc[w] = "waiting" /\ w \notin waiters}

\* The calls of enqueue() that have pushed their job and are about to notify.
Notifying == {t \in Submitters : pc[t] = "enqNotify"}

\* Until the pool stops no worker sleeps that a job needs: while one does, each job in
\* the deque has a worker that comes for it, or a notification under way.
NoWakeupLost ==
    ~isStopping /\ waiters # {} => tail <= head + Cardinality(Coming) + Cardinality(Notifying)

\* A worker goes to sleep over an empty deque, which the mutex keeps empty until it does.
SleepOK ==
    /\ \A t \in waiters : pc[t] \in {"waiting", "waitBlocked"}
    /\ \A w \in Workers : pc[w] = "sleep" => head = tail

WakeOK == IsFiniteSet(Notifying) /\ NoWakeupLost

LEMMA ComingIs ==
    /\ IsFiniteSet(Coming) /\ Cardinality(Coming) \in Nat
    /\ IsFiniteSet(Notifying) => Cardinality(Notifying) \in Nat
<1>1. IsFiniteSet(Coming)
  BY PoolAssumption, FS_Subset DEF Coming
<1> QED
  BY <1>1, FS_CardinalityType

\* Who comes no more, and who has notified, is one less.
LEMMA OneLess ==
    ASSUME NEW S, IsFiniteSet(S), NEW x \in S
    PROVE  IsFiniteSet(S \ {x}) /\ Cardinality(S) = Cardinality(S \ {x}) + 1
<1>1. IsFiniteSet(S \ {x}) /\ Cardinality(S \ {x}) = Cardinality(S) - 1
  BY FS_RemoveElement
<1>2. Cardinality(S) \in Nat
  BY FS_CardinalityType
<1> QED
  BY <1>1, <1>2

LEMMA SleepInv ==
    ASSUME TypeOK, LockDiscipline, SleepOK, [Next]_vars
    PROVE  SleepOK'
<1> USE ThreadFacts DEF TypeOK, WorkerSteps, EnqueueSteps, OwnerSteps, LockDiscipline,
      SleepOK, Goto, Acquire, Release, NotifyOne, NotifyAll, queueVars, stopVars, countVars
<1>1. ASSUME NEW w \in Workers, WorkerStart(w) PROVE SleepOK'
  BY <1>1 DEF WorkerStart
<1>2. ASSUME NEW w \in Workers, WorkerNotifyStart(w) PROVE SleepOK'
  BY <1>2 DEF WorkerNotifyStart
<1>3. ASSUME NEW w \in Workers, WorkerEnterLoop(w) PROVE SleepOK'
  BY <1>3 DEF WorkerEnterLoop
<1>4. ASSUME NEW w \in Workers, WorkerLeaveLoop(w) PROVE SleepOK'
  BY <1>4 DEF WorkerLeaveLoop
<1>5. ASSUME NEW w \in Workers, WorkerLock(w) PROVE SleepOK'
  BY <1>5 DEF WorkerLock, Empty
<1>6. ASSUME NEW w \in Workers, WorkerSleep(w) PROVE SleepOK'
  BY <1>6 DEF WorkerSleep
<1>7. ASSUME NEW w \in Workers, WorkerWake(w) PROVE SleepOK'
  BY <1>7 DEF WorkerWake
<1>8. ASSUME NEW w \in Workers, WorkerPop(w) PROVE SleepOK'
  BY <1>8 DEF WorkerPop, PopJob, PopNothing
<1>9. ASSUME NEW w \in Workers, WorkerRun(w) PROVE SleepOK'
  BY <1>9 DEF WorkerRun
<1>10. ASSUME NEW w \in Workers, WorkerFinish(w) PROVE SleepOK'
  BY <1>10 DEF WorkerFinish
<1>11. ASSUME NEW w \in Workers, WorkerNotifyAll(w) PROVE SleepOK'
  BY <1>11 DEF WorkerNotifyAll
<1>12. ASSUME NEW t \in Submitters, EnqueueAccept(t) PROVE SleepOK'
  BY <1>12 DEF EnqueueAccept
<1>13. ASSUME NEW t \in Submitters, EnqueueReject(t) PROVE SleepOK'
  BY <1>13 DEF EnqueueReject
<1>14. ASSUME NEW t \in Submitters, EnqueuePush(t) PROVE SleepOK'
  BY <1>14 DEF EnqueuePush
<1>15. ASSUME NEW t \in Submitters, EnqueueNotify(t) PROVE SleepOK'
  BY <1>15 DEF EnqueueNotify
<1>16. ASSUME CloseCall PROVE SleepOK'
  BY <1>16 DEF CloseCall
<1>17. ASSUME CloseCheck PROVE SleepOK'
  BY <1>17 DEF CloseCheck
<1>18. ASSUME CloseSleep PROVE SleepOK'
  BY <1>18 DEF CloseSleep
<1>19. ASSUME CloseSetStopping PROVE SleepOK'
  BY <1>19 DEF CloseSetStopping
<1>20. ASSUME CloseNotify PROVE SleepOK'
  BY <1>20 DEF CloseNotify
<1>21. ASSUME WaitCheck PROVE SleepOK'
  BY <1>21 DEF WaitCheck
<1>22. ASSUME WaitPredicate PROVE SleepOK'
  BY <1>22 DEF WaitPredicate
<1>23. ASSUME WaitSleep PROVE SleepOK'
  BY <1>23 DEF WaitSleep
<1>24. ASSUME SpuriousWake PROVE SleepOK'
  BY <1>24 DEF SpuriousWake
<1>25. ASSUME SpuriousStartWake PROVE SleepOK'
  BY <1>25 DEF SpuriousStartWake
<1>26. ASSUME UNCHANGED vars PROVE SleepOK'
  BY <1>26 DEF vars
<1> QED BY <1>1, <1>2, <1>3, <1>4, <1>5, <1>6, <1>7, <1>8, <1>9, <1>10, <1>11,
      <1>12, <1>13, <1>14, <1>15, <1>16, <1>17, <1>18, <1>19, <1>20, <1>21,
      <1>22, <1>23, <1>24, <1>25, <1>26
      DEF Next, Work, FinishEnqueue, FinishClose, FinishWait

\* The step leaves the sets alone.
LEMMA WakeStays ==
    ASSUME WakeOK, Coming' = Coming, Notifying' = Notifying, head' = head, tail' = tail,
           isStopping' \/ isStopping' = isStopping, waiters' = {} \/ waiters' = waiters
    PROVE  WakeOK'
BY DEF WakeOK, NoWakeupLost

\* The pool is stopping.
LEMMA WakeStopped ==
    ASSUME WakeOK, Notifying' = Notifying, isStopping'
    PROVE  WakeOK'
BY DEF WakeOK, NoWakeupLost

\* There is nothing in the deque.
LEMMA WakeEmpty ==
    ASSUME WakeOK, TypeOK, Notifying' = Notifying, head' = tail', head' = head
    PROVE  WakeOK'
<1>1. IsFiniteSet(Notifying) /\ Cardinality(Notifying) \in Nat
  BY ComingIs DEF WakeOK
<1>2. Cardinality(Coming') \in Nat
  <2>1. Coming' \subseteq Workers
    BY DEF Coming
  <2> QED
    BY <2>1, PoolAssumption, FS_Subset, FS_CardinalityType
<1> QED
  BY <1>1, <1>2 DEF WakeOK, NoWakeupLost, TypeOK

\* One more worker will look.
LEMMA OneMoreComes ==
    ASSUME WakeOK, TypeOK, NEW w \in Workers, w \notin Coming, Coming' = Coming \cup {w},
           head' = head, tail' = tail, isStopping' = isStopping, waiters' \subseteq waiters,
           \/ Notifying' = Notifying
           \/ \E t \in Notifying : Notifying' = Notifying \ {t}
    PROVE  WakeOK'
<1> DEFINE c == Cardinality(Coming)
           n == Cardinality(Notifying)
<1>1. Cardinality(Coming') = c + 1
  BY OneMore DEF Coming
<1>2. IsFiniteSet(Notifying') /\ n \in Nat /\ Cardinality(Notifying') \in Nat /\ Cardinality(Notifying') + 1 >= n
  <2>1. IsFiniteSet(Notifying) /\ n \in Nat
    BY ComingIs DEF WakeOK
  <2>2. CASE Notifying' = Notifying
    BY <2>1, <2>2
  <2>3. ASSUME NEW t \in Notifying, Notifying' = Notifying \ {t}
        PROVE  IsFiniteSet(Notifying') /\ Cardinality(Notifying') \in Nat /\ Cardinality(Notifying') + 1 = n
    <3>1. IsFiniteSet(Notifying \ {t}) /\ n = Cardinality(Notifying \ {t}) + 1
      BY <2>1, OneLess
    <3>2. Cardinality(Notifying \ {t}) \in Nat
      BY <3>1, FS_CardinalityType
    <3> QED
      BY <2>3, <3>1, <3>2
  <2> QED
    BY <2>1, <2>2, <2>3
<1>3. c \in Nat
  BY ComingIs
<1>4. ~isStopping' /\ waiters' # {} => tail <= head + c + n
  BY DEF WakeOK, NoWakeupLost
<1>5. ~isStopping' /\ waiters' # {} => tail' <= head' + (c + 1) + Cardinality(Notifying')
  <2> HIDE DEF c, n
  <2> QED
    BY <1>2, <1>3, <1>4 DEF TypeOK
<1> QED
  BY <1>1, <1>2, <1>5 DEF WakeOK, NoWakeupLost

LEMMA WakeInv ==
    ASSUME TypeOK, LockDiscipline, OwnerOK, SleepOK, WakeOK, [Next]_vars
    PROVE  WakeOK'
<1> USE ThreadFacts DEF TypeOK, WorkerSteps, EnqueueSteps, OwnerSteps, Goto,
      Acquire, Release, NotifyOne, NotifyAll, queueVars, stopVars, countVars
<1>1. ASSUME NEW w \in Workers, WorkerStart(w) PROVE WakeOK'
  <2>1. Coming' = Coming /\ Notifying' = Notifying
    BY <1>1 DEF WorkerStart, Coming, Notifying
  <2> QED BY <1>1, <2>1, WakeStays DEF WorkerStart
<1>2. ASSUME NEW w \in Workers, WorkerNotifyStart(w) PROVE WakeOK'
  <2>1. Coming' = Coming /\ Notifying' = Notifying
    BY <1>2 DEF WorkerNotifyStart, Coming, Notifying
  <2> QED BY <1>2, <2>1, WakeStays DEF WorkerNotifyStart
<1>3. ASSUME NEW w \in Workers, WorkerEnterLoop(w) PROVE WakeOK'
  <2>1. Coming' = Coming /\ Notifying' = Notifying
    BY <1>3 DEF WorkerEnterLoop, Coming, Notifying
  <2> QED BY <1>3, <2>1, WakeStays DEF WorkerEnterLoop
<1>4. ASSUME NEW w \in Workers, WorkerLeaveLoop(w) PROVE WakeOK'
  <2>1. isStopping' /\ Notifying' = Notifying
    BY <1>4 DEF WorkerLeaveLoop, Notifying, OwnerOK, AfterStop, Leaving
  <2> QED BY <2>1, WakeStopped
<1>5. ASSUME NEW w \in Workers, WorkerLock(w) PROVE WakeOK'
  <2>1. Notifying' = Notifying /\ isStopping' = isStopping /\ waiters' = waiters /\ head' = head /\ tail' = tail
    BY <1>5 DEF WorkerLock, Notifying
  <2>2. CASE isStopping
    BY <2>1, <2>2, WakeStopped
  <2>3. CASE ~Empty
    <3>1. Coming' = Coming
      BY <1>5, <2>3 DEF WorkerLock, Coming
    <3> QED BY <2>1, <3>1, WakeStays
  <2>4. CASE Empty
    <3>1. head' = tail'
      BY <2>1, <2>4 DEF Empty
    <3> QED BY <2>1, <3>1, WakeEmpty
  <2> QED BY <2>2, <2>3, <2>4
<1>6. ASSUME NEW w \in Workers, WorkerSleep(w) PROVE WakeOK'
  <2>1. Notifying' = Notifying /\ head' = tail' /\ head' = head
    BY <1>6 DEF WorkerSleep, Notifying, SleepOK
  <2> QED BY <2>1, WakeEmpty
<1>7. ASSUME NEW w \in Workers, WorkerWake(w) PROVE WakeOK'
  <2>1. Notifying' = Notifying /\ isStopping' = isStopping /\ waiters' = waiters /\ head' = head /\ tail' = tail
    BY <1>7 DEF WorkerWake, Notifying
  <2>2. CASE isStopping
    BY <2>1, <2>2, WakeStopped
  <2>3. CASE ~isStopping
    <3>1. pc[w] = "waiting" /\ w \notin waiters /\ pc' = [pc EXCEPT ![w] = "pop"]
      BY <1>7, <2>3 DEF WorkerWake
    <3>2. Coming' = Coming
      BY <2>1, <3>1 DEF Coming
    <3> QED BY <2>1, <3>2, WakeStays
  <2> QED BY <2>2, <2>3
<1>8. ASSUME NEW w \in Workers, WorkerPop(w) PROVE WakeOK'
  <2>1. /\ Notifying' = Notifying /\ isStopping' = isStopping /\ waiters' = waiters /\ tail' = tail
        /\ w \in Coming /\ Coming' = Coming \ {w}
        /\ head' = head + 1 \/ (head' = head /\ tail <= head)
    BY <1>8 DEF WorkerPop, PopJob, PopNothing, Coming, Notifying
  <2>2. Cardinality(Coming) = Cardinality(Coming \ {w}) + 1 /\ Cardinality(Coming \ {w}) \in Nat
    BY <2>1, ComingIs, OneLess, FS_CardinalityType
  <2>3. IsFiniteSet(Notifying) /\ Cardinality(Notifying) \in Nat
    BY ComingIs DEF WakeOK
  <2> QED BY <2>1, <2>2, <2>3 DEF WakeOK, NoWakeupLost
<1>9. ASSUME NEW w \in Workers, WorkerRun(w) PROVE WakeOK'
  <2>1. /\ Notifying' = Notifying /\ w \notin Coming /\ Coming' = Coming \cup {w}
        /\ head' = head /\ tail' = tail /\ isStopping' = isStopping /\ waiters' = waiters
    BY <1>9 DEF WorkerRun, Coming, Notifying
  <2> QED BY <2>1, OneMoreComes
<1>10. ASSUME NEW w \in Workers, WorkerFinish(w) PROVE WakeOK'
  <2>1. isStopping' /\ Notifying' = Notifying
    BY <1>10 DEF WorkerFinish, Notifying, OwnerOK, AfterStop, Leaving
  <2> QED BY <2>1, WakeStopped
<1>11. ASSUME NEW w \in Workers, WorkerNotifyAll(w) PROVE WakeOK'
  <2>1. isStopping' /\ Notifying' = Notifying
    BY <1>11 DEF WorkerNotifyAll, Notifying, OwnerOK, AfterStop, Leaving
  <2> QED BY <2>1, WakeStopped
<1>12. ASSUME NEW t \in Submitters, EnqueueAccept(t) PROVE WakeOK'
  <2>1. Coming' = Coming /\ Notifying' = Notifying
    BY <1>12 DEF EnqueueAccept, Coming, Notifying
  <2> QED BY <1>12, <2>1, WakeStays DEF EnqueueAccept
<1>13. ASSUME NEW t \in Submitters, EnqueueReject(t) PROVE WakeOK'
  <2>1. isStopping' /\ Notifying' = Notifying
    BY <1>13 DEF EnqueueReject, Notifying, OwnerOK, AfterStop, Leaving
  <2> QED BY <2>1, WakeStopped
<1>14. ASSUME NEW t \in Submitters, EnqueuePush(t) PROVE WakeOK'
  <2>1. /\ t \notin Notifying /\ Notifying' = Notifying \cup {t} /\ Coming' = Coming
        /\ head' = head /\ tail' = tail + 1 /\ isStopping' = isStopping /\ waiters' = waiters
    BY <1>14 DEF EnqueuePush, Coming, Notifying
  <2>2. IsFiniteSet(Notifying) /\ Cardinality(Notifying) \in Nat /\ Cardinality(Coming) \in Nat
    BY ComingIs DEF WakeOK
  <2>3. IsFiniteSet(Notifying') /\ Cardinality(Notifying') = Cardinality(Notifying) + 1
    BY <2>1, <2>2, FS_AddElement
  <2> QED BY <2>1, <2>2, <2>3 DEF WakeOK, NoWakeupLost
<1>15. ASSUME NEW t \in Submitters, EnqueueNotify(t) PROVE WakeOK'
  <2>1. /\ t \in Notifying /\ Notifying' = Notifying \ {t}
        /\ head' = head /\ tail' = tail /\ isStopping' = isStopping
    BY <1>15 DEF EnqueueNotify, Notifying
  <2>2. IsFiniteSet(Notifying')
    BY <2>1, FS_Subset DEF WakeOK
  <2>3. CASE waiters = {} \/ isStopping
    <3>1. waiters' = {} \/ isStopping'
      BY <1>15, <2>1, <2>3 DEF EnqueueNotify
    <3> QED BY <2>2, <3>1 DEF WakeOK, NoWakeupLost
  <2>4. ASSUME NEW x \in waiters, waiters' = waiters \ {x}, ~isStopping PROVE WakeOK'
    <3>1. x \in Workers /\ pc[x] = "waiting" /\ pc' = [pc EXCEPT ![t] = "idle"] /\ pc[t] = "enqNotify"
      BY <1>15, <2>4 DEF EnqueueNotify, SleepOK, OwnerOK, AfterStop
    <3>2. x \notin Coming /\ Coming' = Coming \cup {x}
      BY <2>4, <3>1 DEF Coming
    <3> QED BY <2>1, <2>4, <3>1, <3>2, OneMoreComes
  <2> QED BY <1>15, <2>3, <2>4 DEF EnqueueNotify
<1>16. ASSUME CloseCall PROVE WakeOK'
  <2>1. Coming' = Coming /\ Notifying' = Notifying
    BY <1>16 DEF CloseCall, Coming, Notifying
  <2> QED BY <1>16, <2>1, WakeStays DEF CloseCall
<1>17. ASSUME CloseCheck PROVE WakeOK'
  <2>1. Coming' = Coming /\ Notifying' = Notifying
    BY <1>17 DEF CloseCheck, Coming, Notifying
  <2> QED BY <1>17, <2>1, WakeStays DEF CloseCheck
<1>18. ASSUME CloseSleep PROVE WakeOK'
  <2>1. Coming' = Coming /\ Notifying' = Notifying
    BY <1>18 DEF CloseSleep, Coming, Notifying
  <2> QED BY <1>18, <2>1, WakeStays DEF CloseSleep
<1>19. ASSUME CloseSetStopping PROVE WakeOK'
  <2>1. isStopping' /\ Notifying' = Notifying
    BY <1>19 DEF CloseSetStopping, Notifying, OwnerOK, AfterStop, Leaving
  <2> QED BY <2>1, WakeStopped
<1>20. ASSUME CloseNotify PROVE WakeOK'
  <2>1. isStopping' /\ Notifying' = Notifying
    BY <1>20 DEF CloseNotify, Notifying, OwnerOK, AfterStop, Leaving
  <2> QED BY <2>1, WakeStopped
<1>21. ASSUME WaitCheck PROVE WakeOK'
  <2>1. isStopping' /\ Notifying' = Notifying
    BY <1>21 DEF WaitCheck, Notifying, OwnerOK, AfterStop, Leaving
  <2> QED BY <2>1, WakeStopped
<1>22. ASSUME WaitPredicate PROVE WakeOK'
  <2>1. isStopping' /\ Notifying' = Notifying
    BY <1>22 DEF WaitPredicate, Notifying, OwnerOK, AfterStop, Leaving
  <2> QED BY <2>1, WakeStopped
<1>23. ASSUME WaitSleep PROVE WakeOK'
  <2>1. isStopping' /\ Notifying' = Notifying
    BY <1>23 DEF WaitSleep, Notifying, OwnerOK, AfterStop, Leaving
  <2> QED BY <2>1, WakeStopped
<1>24. ASSUME SpuriousWake PROVE WakeOK'
  <2>1. /\ Notifying' = Notifying /\ pc' = pc
        /\ head' = head /\ tail' = tail /\ isStopping' = isStopping
    BY <1>24 DEF SpuriousWake, Notifying
  <2>2. CASE isStopping
    BY <2>1, <2>2, WakeStopped
  <2>3. ASSUME NEW x \in waiters, waiters' = waiters \ {x}, ~isStopping PROVE WakeOK'
    <3>1. x \in Workers /\ pc[x] = "waiting"
      BY <2>3 DEF SleepOK, OwnerOK, AfterStop
    <3>2. x \notin Coming /\ Coming' = Coming \cup {x}
      BY <2>1, <2>3, <3>1 DEF Coming
    <3> QED BY <2>1, <2>3, <3>1, <3>2, OneMoreComes
  <2> QED BY <1>24, <2>2, <2>3 DEF SpuriousWake
<1>25. ASSUME SpuriousStartWake PROVE WakeOK'
  <2>1. Coming' = Coming /\ Notifying' = Notifying
    BY <1>25 DEF SpuriousStartWake, Coming, Notifying
  <2> QED BY <1>25, <2>1, WakeStays DEF SpuriousStartWake
<1>26. ASSUME UNCHANGED vars PROVE WakeOK'
  <2>1. Coming' = Coming /\ Notifying' = Notifying
    BY <1>26 DEF vars, Coming, Notifying
  <2> QED BY <1>26, <2>1, WakeStays DEF vars
<1> QED BY <1>1, <1>2, <1>3, <1>4, <1>5, <1>6, <1>7, <1>8, <1>9, <1>10, <1>11,
      <1>12, <1>13, <1>14, <1>15, <1>16, <1>17, <1>18, <1>19, <1>20, <1>21,
      <1>22, <1>23, <1>24, <1>25, <1>26
      DEF Next, Work, FinishEnqueue, FinishClose, FinishWait

\* Until the pool stops, no worker sleeps that a job needs: for any number of workers, calls
\* and jobs, and whatever empty deques were popped.
THEOREM WakeupsArrive == Spec => []NoWakeupLost
<1>1. Init => SleepOK /\ WakeOK
  <2> SUFFICES ASSUME Init PROVE SleepOK /\ WakeOK
    OBVIOUS
  <2>1. SleepOK /\ NoWakeupLost
    BY DEF Init, SleepOK, NoWakeupLost
  <2>2. Notifying = {}
    BY ThreadFacts DEF Init, Notifying
  <2> QED BY <2>1, <2>2, FS_EmptySet DEF WakeOK
<1>2. IInv /\ SleepOK /\ WakeOK /\ [Next]_vars => (SleepOK /\ WakeOK)'
  BY SleepInv, WakeInv DEF IInv
<1>3. WakeOK => NoWakeupLost
  BY DEF WakeOK
<1> QED BY <1>1, <1>2, <1>3, Invariance, PTL DEF Spec

-----------------------------------------------------------------------------
(***************************************************************************)
(* The pool implements its promise.                                        *)
(***************************************************************************)
Broken == phantoms > 0 \/ crashed
Returned == pc[Owner] = "returned"

LEMMA InitRefines == Init => Promise!Init
<1> SUFFICES ASSUME Init PROVE Promise!Init
  OBVIOUS
<1>1. pc[Owner] # "returned"
  BY ThreadFacts DEF Init
<1> QED BY <1>1 DEF Init, NoJob, Promise!Init, Promise!Idle

\* What the promise sees of the pool.
Seen == <<tail, head, job, isStopping, stopTail, Returned, Broken>>

LEMMA StepRefines ==
    ASSUME IInv, IInv', [Next]_vars
    PROVE  [Promise!Next]_(Promise!vars)
<1> USE ThreadFacts
<1>0. TypeOK /\ JobsOK /\ OwnerOK
  BY DEF IInv
<1>a. ASSUME UNCHANGED Seen PROVE UNCHANGED Promise!vars
  BY <1>a DEF Seen, Returned, Broken, Promise!vars
<1>b. ASSUME UNCHANGED <<tail, head, job, stopVars, phantoms, crashed>>, Returned' = Returned
      PROVE  UNCHANGED Seen
  BY <1>b DEF Seen, Broken, stopVars
<1>c. ASSUME Broken' PROVE Promise!Next
  BY <1>c DEF Broken, Promise!Next, Promise!Fail
<1>d. ASSUME ~Broken, NEW w \in Workers, WorkerPop(w) PROVE Promise!Next
  <2>1. CASE PopNothing(w)
    <3>1. Broken'
      BY <2>1, <1>0 DEF PopNothing, Broken, TypeOK
    <3> QED BY <3>1, <1>c
  <2>2. CASE PopJob(w)
    <3>1. job[w] = NoJob /\ pc[w] = "pop"
      BY <1>0, <1>d DEF JobsOK, WorkerPop
    <3>2. \E v \in Workers : job[v] = NoJob /\ job' = [job EXCEPT ![v] = head + 1]
      BY <2>2, <3>1 DEF PopJob
    <3>4. ~Returned /\ Returned' = Returned
      BY <1>0, <1>d, <3>1 DEF Returned, OwnerOK, Gone, WorkerPop, Goto, TypeOK
    <3>5. Broken' = Broken
      BY <2>2 DEF PopJob, Broken
    <3>6. /\ head < tail /\ head' = head + 1
          /\ UNCHANGED <<tail, isStopping, stopTail>>
      BY <1>d, <2>2 DEF WorkerPop, PopJob, stopVars
    <3> QED BY <3>2, <3>4, <3>5, <3>6
            DEF NoJob, Returned, Broken, Promise!Next, Promise!Start, Promise!Idle
  <2> QED BY <1>d, <2>1, <2>2 DEF WorkerPop
<1>e. ASSUME ~Broken, NEW w \in Workers, WorkerRun(w) PROVE Promise!Next \/ UNCHANGED Seen
  <2>1. pc[w] = "run" /\ job' = [job EXCEPT ![w] = NoJob]
    BY <1>e DEF WorkerRun
  <2>2. /\ ~Returned /\ Returned' = Returned /\ Broken' = Broken
        /\ UNCHANGED <<tail, head, isStopping, stopTail>>
    BY <1>0, <1>e, <2>1 DEF Returned, Broken, OwnerOK, Gone, WorkerRun, Goto, TypeOK, stopVars
  <2>3. CASE job[w] = NoJob
    <3>1. job' = job
      BY <1>0, <2>1, <2>3 DEF TypeOK
    <3> QED BY <2>2, <3>1 DEF Seen
  <2>4. CASE job[w] # NoJob
    <3> QED BY <2>1, <2>2, <2>4
            DEF NoJob, Returned, Broken, Promise!Next, Promise!Finish, Promise!Idle
  <2> QED BY <2>3, <2>4
<1>f. ASSUME ~Broken, NEW t \in Submitters, EnqueuePush(t) PROVE Promise!Next
  <2>1. /\ tail' = tail + 1 /\ pc[t] = "enqPush"
        /\ UNCHANGED <<head, job, isStopping, stopTail>>
        /\ Broken' = Broken
    BY <1>f DEF EnqueuePush, Broken, stopVars
  <2>2. isStopping => tail = stopTail
    BY <2>1 DEF IInv, LateOK
  <2>3. Returned' = Returned
    BY <1>0, <1>f DEF Returned, EnqueuePush, Goto, TypeOK
  <2> QED BY <2>1, <2>2, <2>3
          DEF Returned, Broken, Promise!Next, Promise!Accept
<1>g. ASSUME ~Broken, CloseSetStopping PROVE Promise!Next
  <2>1. ~isStopping /\ ~Returned
    BY <1>0, <1>g DEF CloseSetStopping, OwnerOK, AfterStop, Returned
  <2>2. /\ isStopping' = TRUE /\ stopTail' = tail
        /\ UNCHANGED <<tail, head, job>>
        /\ Broken' = Broken
    BY <1>g DEF CloseSetStopping, Broken, queueVars
  <2>3. Returned' = Returned
    BY <1>0, <1>g, <2>1 DEF Returned, CloseSetStopping, Goto, TypeOK
  <2> QED BY <2>1, <2>2, <2>3
          DEF Returned, Broken, Promise!Next, Promise!Stop
<1>h. ASSUME ~Broken, WaitCheck, numFinished = PoolSize PROVE Promise!Next
  <2>1. /\ pc[Owner] = "waitCheck" /\ Goto(Owner, "returned")
        /\ UNCHANGED <<tail, head, job, done, isStopping, stopTail, phantoms, crashed>>
    BY <1>h, FS_CardinalityType, PoolAssumption DEF WaitCheck, PoolSize, queueVars, stopVars
  <2>2. ~Returned /\ Returned'
    BY <1>0, <2>1 DEF Returned, Goto, TypeOK
  <2>3. Gone' = Workers /\ isStopping
    BY <2>1, <2>2 DEF IInv, OwnerOK, Returned, AfterStop
  <2>4. \A w \in Workers : pc'[w] \in {"notifyAll", "exit"}
    BY <2>3 DEF Gone
  <2>5. ~(head < stopTail)
    BY <2>1, <2>3, <2>4 , <1>h DEF IInv, DrainOK, Leaving, Broken, TypeOK
  <2>6. \A w \in Workers : job[w] = NoJob
    BY <2>1, <2>4 DEF IInv, JobsOK
  <2>7. 1..stopTail \subseteq 1..head
    BY <2>5 DEF IInv, TypeOK
  <2>8. Broken' = Broken
    BY <2>1 DEF Broken
  <2> QED BY <2>1, <2>2, <2>3, <2>6, <2>7, <2>8
          DEF NoJob, Returned, Broken, Promise!Next, Promise!Terminate,
              Promise!Finished, Promise!Idle
<1>i. CASE Broken
  <2>1. CASE UNCHANGED vars
    BY <2>1, <1>a DEF vars, queueVars, stopVars, Seen, Returned, Broken
  <2>2. CASE Next
    <3>1. phantoms > 0 /\ phantoms \in Nat
      BY <1>i, <2>2, <1>0 DEF Next, Broken, TypeOK
    <3>2. phantoms' > 0
      BY <3>1, <2>2 DEF Next, Work, FinishEnqueue, FinishClose, FinishWait, queueVars,
         WorkerStart, WorkerNotifyStart, WorkerEnterLoop, WorkerLeaveLoop, WorkerLock,
         WorkerSleep, WorkerWake, WorkerPop, PopJob, PopNothing, WorkerRun, WorkerFinish,
         WorkerNotifyAll, EnqueueAccept, EnqueueReject, EnqueuePush, EnqueueNotify,
         CloseCall, CloseCheck, CloseSleep, CloseSetStopping, CloseNotify, WaitCheck,
         WaitPredicate, WaitSleep, SpuriousWake, SpuriousStartWake
    <3> QED BY <3>2, <1>c DEF Broken
  <2> QED BY <2>1, <2>2
<1>j. CASE ~Broken
  <2> DEFINE Quiet == UNCHANGED <<tail, head, job, stopVars, phantoms, crashed>> /\ Returned' = Returned
  <2> USE DEF queueVars, Returned, Goto, TypeOK
  <2>1. ASSUME NEW w \in Workers, Work(w), ~WorkerPop(w), ~WorkerRun(w) PROVE Quiet
    BY <1>0, <2>1 DEF Work, WorkerStart, WorkerNotifyStart, WorkerEnterLoop, WorkerLeaveLoop,
       WorkerLock, WorkerSleep, WorkerWake, WorkerFinish, WorkerNotifyAll
  <2>2. ASSUME NEW t \in Submitters,
               EnqueueAccept(t) \/ EnqueueReject(t) \/ EnqueueNotify(t)
        PROVE  Quiet
    BY <1>0, <2>2 DEF EnqueueAccept, EnqueueReject, EnqueueNotify
  <2>3. CASE CloseCall \/ CloseCheck \/ CloseSleep \/ CloseNotify
    <3>1. Quiet
      BY <1>0, <2>3 DEF CloseCall, CloseCheck, CloseSleep, CloseNotify
    <3> QED BY <3>1, <1>a, <1>b
  <2>4. CASE WaitPredicate \/ WaitSleep \/ SpuriousWake \/ SpuriousStartWake
    <3>1. Quiet
      BY <1>0, <2>4 DEF WaitPredicate, WaitSleep, SpuriousWake, SpuriousStartWake
    <3> QED BY <3>1, <1>a, <1>b
  <2>5. CASE WaitCheck /\ numFinished # PoolSize
    <3>1. numFinished < PoolSize
      <4>1. Gone \in SUBSET Workers /\ numFinished = Cardinality(Gone)
        BY DEF IInv, CountsOK, Gone
      <4> HIDE DEF Gone
      <4> QED BY <2>5, <4>1, FullCount DEF PoolSize
    <3>2. Quiet
      BY <1>0, <2>5, <3>1 DEF WaitCheck
    <3> QED BY <3>2, <1>a, <1>b
  <2>6. CASE UNCHANGED vars
    <3>1. Quiet
      BY <2>6 DEF vars
    <3> QED BY <3>1, <1>a, <1>b
  <2> HIDE DEF Quiet, queueVars, Returned, Goto, TypeOK
  <2>7. ASSUME Quiet PROVE UNCHANGED Promise!vars
    BY <2>7, <1>a, <1>b DEF Quiet
  <2> QED BY <1>j, <1>a, <1>d, <1>e, <1>f, <1>g, <1>h,
             <2>1, <2>2, <2>3, <2>4, <2>5, <2>6, <2>7
          DEF Next, FinishEnqueue, FinishClose, FinishWait, Work
<1> QED BY <1>i, <1>j

\* Whatever the pool does, its promise allows: FIFO starts, each job once, at
\* most one late acceptance, no return before the owed jobs are done.
THEOREM PoolImplementsExecutor == Spec => ImplementsExecutor
<1>1. IInv /\ IInv' /\ [Next]_vars => [Promise!Next]_(Promise!vars)
  BY StepRefines
<1> QED BY <1>1, InitRefines, Invariance, PTL DEF Spec, ImplementsExecutor, Promise!Spec

=============================================================================
