-------------------------- MODULE TaskSchedulerSteps ---------------------------
(***************************************************************************)
(* The inductive invariant of TaskScheduler, for any number of workers,    *)
(* tasks and queries and any plan that PlanAssumption admits, and that the *)
(* steps preserve its first part: types, the mutex, who has a task, the    *)
(* counters of a task, calls and the queue.                                *)
(***************************************************************************)
EXTENDS TaskScheduler, TLAPS

\* Erasing an element closes the gap, and leaves the others in their order.
LEMMA Erase ==
    ASSUME taskQueue \in Seq(Tasks), NEW i \in 1..Len(taskQueue)
    PROVE  /\ erase(i) \in Seq(Tasks) /\ Len(erase(i)) = Len(taskQueue) - 1
           /\ \A j \in 1..Len(erase(i)) : erase(i)[j] = taskQueue[IF j < i THEN j ELSE j + 1]
<1>1. Len(taskQueue) \in Nat /\ Len(taskQueue) - 1 \in Nat
  OBVIOUS
<1>2. \A j \in 1..(Len(taskQueue) - 1) : taskQueue[IF j < i THEN j ELSE j + 1] \in Tasks
  BY <1>1
<1>3. erase(i) \in [1..(Len(taskQueue) - 1) -> Tasks]
  BY <1>2 DEF erase
<1>4. erase(i) \in Seq(Tasks) /\ Len(erase(i)) = Len(taskQueue) - 1
  BY <1>1, <1>3
<1> QED BY <1>4 DEF erase

LEMMA ThreadKinds == Launched \subseteq Tasks /\ Launched \intersect Workers = {}
BY ThreadAssumption DEF Launched

(***************************************************************************)
(* Who holds the scheduler's mutex, and where threads can be.              *)
(***************************************************************************)
Locked == {"setException", "deregister", "scan", "check"}

\* A worker at a label under the mutex owns it, and so its iterator is in range.
LockInv ==
    /\ \A w \in Workers : pc[w] \in Locked => taskSchedulerMtx = w
    /\ \A w \in Workers : pc[w] = "check" => pos[w] <= Len(taskQueue)

\* Which thread has a task when.
ThreadInv ==
    /\ \A x \in Threads : /\ pc[x] \in {"setException", "deregister", "run", "nested"} => task[x] \in Tasks
                          /\ pc[x] \in {"scan", "check", "wait"} => task[x] = NoTask
    /\ \A x \in Launched :
          /\ pc[x] \in {"unborn", "run", "nested", "setException", "deregister", "done"}
          /\ pc[x] \in Working => task[x] = x

\* The threads that are registered and not yet finished.
Holding == Working \union {"stopped"}
Holders(t) == {x \in Threads : task[x] = t /\ pc[x] \in Holding}

\* What the proofs use of Cardinality, for sets of threads.
CardinalityFacts ==
    \A S \in SUBSET Threads :
        /\ Cardinality(S) \in Nat
        /\ Cardinality(S) = 0 <=> S = {}
        /\ \A x \in Threads \ S : Cardinality(S \union {x}) = Cardinality(S) + 1
        /\ \A x \in S : Cardinality(S \ {x}) = Cardinality(S) - 1

CountInv ==
    \A t \in Tasks : numThreadsRegistered[t] = numThreadsFinished[t] + Cardinality(Holders(t))

\* A task is in the queue at most once, from the step that pushes it on.
Queued == {"notify", "test", "wait", "end", "returned"}
QueueInv ==
    /\ \A i \in 1..Len(taskQueue) : call[taskQueue[i]] \in Queued
    /\ \A i, j \in 1..Len(taskQueue) : taskQueue[i] = taskQueue[j] => i = j

\* A task gets threads only once its dependencies are done, and a call leaves its
\* loop only when the task is completed.
CallInv ==
    \A t \in Tasks :
        /\ call[t] \in {"none", "dependencies", "skipped"} => numThreadsRegistered[t] = 0
        /\ call[t] \in {"end", "returned"} => isCompletedNoLock(t)
        /\ call[t] = "threw" => isCompletedNoLock(t) \/ numThreadsRegistered[t] = 0

\* finalize was called when, and only when, the task was completed without an exception.
FinalInv ==
    \A t \in Tasks : /\ ~isCompletedNoLock(t) => finalized[t] = 0
                     /\ finalized[t] \in {0, 1}
                     /\ isCompletedSuccessfully(t) => finalized[t] = 1
                     /\ call[t] = "returned" => ~exception[t]

\* An exception is on its way from the run that threw it to the task.
ErrorInv ==
    /\ \A t \in Tasks : /\ exception[t] => failed[t]
                        /\ failed[t] => exception[t] \/ \E x \in Holders(t) : thrown[x]
    /\ \A x \in Threads :
          /\ thrown[x] => pc[x] \in {"lock", "setException"} /\ task[x] \in Tasks /\ failed[task[x]]
          /\ pc[x] = "setException" => thrown[x]

\* Dependencies up to the current one have returned.
DependencyInv ==
    \A t \in Tasks :
        /\ dependency[t] # 0
        /\ t \notin Roots => call[t] # "skipped"
        /\ \A i \in DOMAIN Children[t] :
              (i < dependency[t] \/ call[t] \notin {"none", "dependencies", "skipped", "threw"})
                 => call[Children[t][i]] = "returned"

\* What a call that throws rethrows.
RethrowInv ==
    \A t \in Tasks :
        call[t] = "threw" => failed[t] \/ \E i \in DOMAIN Children[t] : call[Children[t][i]] = "threw"

--------------------------------------------------------------------------------
(* Types                                                                    *)

LEMMA One == 1 \in Nat \ {0}
OBVIOUS

LEMMA RegisterType ==
    ASSUME TypeOK, NEW t \in Tasks, registerThread(t)
    PROVE  /\ numThreadsRegistered' \in [Tasks -> Nat]
           /\ \A u \in Tasks : numThreadsRegistered'[u] <= MaxNumThreads[u]
<1>1. MaxNumThreads[t] \in Nat /\ numThreadsRegistered[t] \in Nat
      /\ MaxNumThreads[t] > numThreadsRegistered[t]
  BY PlanAssumption, Zenon DEF TypeOK, registerThread, canRegister
<1>2. numThreadsRegistered' \in [Tasks -> Nat]
  BY <1>1 DEF TypeOK, registerThread
<1>3. ASSUME NEW u \in Tasks PROVE numThreadsRegistered'[u] <= MaxNumThreads[u]
  BY <1>1 DEF TypeOK, registerThread
<1> QED BY <1>2, <1>3

LEMMA CallType ==
    ASSUME TypeOK, NEW t, NEW from, NEW to \in CallLabels, CallAt(t, from, to)
    PROVE  call' \in [Tasks -> CallLabels] /\ dependency' \in [Tasks -> Nat]
BY Zenon DEF TypeOK, CallAt

LEMMA TypeInit == Init => TypeOK
<1> SUFFICES ASSUME Init PROVE TypeOK
  OBVIOUS
<1>1. \A t \in Tasks : MaxNumThreads[t] \in Nat
  BY PlanAssumption
<1>2. pc \in [Threads -> ThreadLabels]
  BY DEF Init, ThreadLabels
<1>3. /\ call \in [Tasks -> CallLabels] /\ dependency \in [Tasks -> Nat]
      /\ numThreadsRegistered \in [Tasks -> Nat] /\ numThreadsFinished \in [Tasks -> Nat]
      /\ exception \in [Tasks -> BOOLEAN] /\ finalized \in [Tasks -> Nat]
      /\ failed \in [Tasks -> BOOLEAN]
  BY DEF Init, CallLabels
<1>4. \A t \in Tasks : numThreadsRegistered[t] <= MaxNumThreads[t]
  BY <1>1 DEF Init
<1>5. /\ task \in [Threads -> Tasks \union {NoTask}]
      /\ thrown \in [Threads -> BOOLEAN] /\ pos \in [Threads -> Nat \ {0}]
  BY DEF Init
<1>6. taskQueue \in Seq(Tasks)
  <2>1. taskQueue = <<>>
    BY DEF Init
  <2> QED BY <2>1
<1>7. /\ load \in Loads
      /\ taskSchedulerMtx \in Workers \union {NoThread} /\ stopWorkerThreads \in BOOLEAN
  BY Zenon DEF Init
<1> QED BY <1>2, <1>3, <1>4, <1>5, <1>6, <1>7 DEF TypeOK

LEMMA TypeCallStep ==
    ASSUME TypeOK, NEW t \in Tasks, CallStep(t)
    PROVE  TypeOK'
<1>1. CASE ScheduleDependency(t)
  <2>1. call' \in [Tasks -> CallLabels] /\ dependency' \in [Tasks -> Nat]
    BY <1>1, CallType DEF ScheduleDependency, CallLabels
  <2> QED BY <1>1, <2>1 DEF TypeOK, CallStep, ScheduleDependency, queueVars, taskVars, threadVars
<1>2. CASE DependencyReturns(t)
  <2>1. call' \in [Tasks -> CallLabels] /\ dependency' \in [Tasks -> Nat]
    <3>1. call' = call \/ call' = [call EXCEPT ![t] = "skipped"] \/ call' = [call EXCEPT ![t] = "threw"]
      BY <1>2 DEF DependencyReturns
    <3>2. dependency' = dependency \/ dependency' = [dependency EXCEPT ![t] = dependency[t] + 1]
      BY <1>2 DEF DependencyReturns
    <3>3. dependency[t] + 1 \in Nat
      BY DEF TypeOK
    <3>4. call' \in [Tasks -> CallLabels]
      BY <3>1, Zenon DEF TypeOK, CallLabels
    <3>5. dependency' \in [Tasks -> Nat]
      BY <3>2, <3>3, Zenon DEF TypeOK
    <3> QED BY <3>4, <3>5
  <2> QED BY <1>2, <2>1 DEF TypeOK, CallStep, DependencyReturns, queueVars, taskVars, threadVars
<1>3. CASE LaunchNewWorkerThread(t)
  <2>1. call' \in [Tasks -> CallLabels] /\ dependency' \in [Tasks -> Nat]
    BY <1>3, CallType DEF LaunchNewWorkerThread, CallLabels
  <2>2. CASE t \in Launched
    <3>1. registerThread(t)
      BY <1>3, <2>2 DEF LaunchNewWorkerThread
    <3>2. pc' \in [Threads -> ThreadLabels] /\ task' \in [Threads -> Tasks \union {NoTask}]
      BY <1>3, <2>2, Zenon DEF TypeOK, LaunchNewWorkerThread, ThreadLabels
    <3>3. /\ numThreadsRegistered' \in [Tasks -> Nat]
          /\ \A u \in Tasks : numThreadsRegistered'[u] <= MaxNumThreads[u]
      BY <3>1, RegisterType
    <3> QED BY <1>3, <2>1, <3>1, <3>2, <3>3
            DEF TypeOK, CallStep, LaunchNewWorkerThread, registerThread, queueVars
  <2>3. CASE t \notin Launched
    BY <1>3, <2>1, <2>3 DEF TypeOK, CallStep, LaunchNewWorkerThread, queueVars, taskVars
  <2> QED BY <2>2, <2>3
<1>4. CASE PushTaskIntoQueue(t)
  <2>1. call' \in [Tasks -> CallLabels] /\ dependency' \in [Tasks -> Nat]
    BY <1>4, CallType DEF PushTaskIntoQueue, CallLabels
  <2>2. taskQueue' \in Seq(Tasks)
    BY <1>4 DEF TypeOK, PushTaskIntoQueue
  <2> QED BY <1>4, <2>1, <2>2 DEF TypeOK, CallStep, PushTaskIntoQueue, taskVars, threadVars
<1>5. CASE NotifyWorkers(t)
  <2>1. call' \in [Tasks -> CallLabels] /\ dependency' \in [Tasks -> Nat]
    BY <1>5, CallType DEF NotifyWorkers, CallLabels
  <2>2. pc' \in [Threads -> ThreadLabels]
    BY <1>5 DEF TypeOK, NotifyWorkers, wakeWorkers, ThreadLabels
  <2> QED BY <1>5, <2>1, <2>2 DEF TypeOK, CallStep, NotifyWorkers, queueVars, taskVars
<1>6. CASE TestCompletion(t)
  <2>1. call' \in [Tasks -> CallLabels] /\ dependency' \in [Tasks -> Nat]
    BY <1>6, CallType DEF TestCompletion, CallLabels
  <2> QED BY <1>6, <2>1 DEF TypeOK, CallStep, TestCompletion, queueVars, taskVars, threadVars
<1>7. CASE ThrowException(t)
  <2>1. call' \in [Tasks -> CallLabels] /\ dependency' \in [Tasks -> Nat]
    BY <1>7, CallType DEF ThrowException, CallLabels
  <2>2. taskQueue' \in Seq(Tasks)
    BY <1>7, Erase DEF TypeOK, ThrowException, removeErroringTask
  <2> QED BY <1>7, <2>1, <2>2 DEF TypeOK, CallStep, ThrowException, taskVars, threadVars
<1>8. CASE ReturnFromCall(t)
  <2>1. call' \in [Tasks -> CallLabels] /\ dependency' \in [Tasks -> Nat]
    BY <1>8, CallType DEF ReturnFromCall, CallLabels
  <2> QED BY <1>8, <2>1, Zenon DEF TypeOK, CallStep, ReturnFromCall, queueVars, taskVars, threadVars
<1> QED BY <1>1, <1>2, <1>3, <1>4, <1>5, <1>6, <1>7, <1>8 DEF CallStep

LEMMA TypeWorkerStep ==
    ASSUME TypeOK, LockInv, NEW w \in Workers, WorkerStep(w)
    PROVE  TypeOK'
<1>w. w \in Threads
  BY DEF Threads
<1>1. CASE LockScheduler(w)
  <2>1. pc' \in [Threads -> ThreadLabels]
    BY <1>1, Zenon DEF TypeOK, LockScheduler, ThreadAt, ThreadLabels
  <2> QED BY <1>1, <2>1 DEF TypeOK, WorkerStep, LockScheduler, callVars, taskVars
<1>2. CASE RegisterForTask(w)
  <2>1. PICK t \in Tasks : registerThread(t) /\ task' = [task EXCEPT ![w] = t]
    BY <1>2, Zenon DEF RegisterForTask
  <2>2. /\ numThreadsRegistered' \in [Tasks -> Nat]
        /\ \A u \in Tasks : numThreadsRegistered'[u] <= MaxNumThreads[u]
    BY <2>1, RegisterType
  <2>3. pc' \in [Threads -> ThreadLabels]
    BY <1>2, Zenon DEF TypeOK, RegisterForTask, ThreadAt, ThreadLabels
  <2>4. task' \in [Threads -> Tasks \union {NoTask}]
    BY <1>2, <2>1, Zenon DEF TypeOK, RegisterForTask
  <2>5. pos' \in [Threads -> Nat \ {0}]
    BY <1>2, One, Zenon DEF TypeOK, RegisterForTask
  <2> QED BY <1>2, <2>1, <2>2, <2>3, <2>4, <2>5
          DEF TypeOK, WorkerStep, RegisterForTask, registerThread, callVars
<1>3. CASE CannotRegister(w)
  <2>1. pc' \in [Threads -> ThreadLabels]
    BY <1>3, Zenon DEF TypeOK, CannotRegister, ThreadAt, ThreadLabels
  <2> QED BY <1>3, <2>1 DEF TypeOK, WorkerStep, CannotRegister, queueVars, callVars, taskVars
<1>4. CASE EraseOrSkip(w)
  <2>1. pc' \in [Threads -> ThreadLabels]
    BY <1>4, Zenon DEF TypeOK, EraseOrSkip, ThreadAt, ThreadLabels
  <2>2. pos[w] \in 1..Len(taskQueue)
    BY <1>4, <1>w DEF TypeOK, LockInv, EraseOrSkip, ThreadAt
  <2>3. taskQueue' \in Seq(Tasks)
    BY <1>4, <2>2, Erase, Zenon DEF TypeOK, EraseOrSkip
  <2>4. pos' \in [Threads -> Nat \ {0}]
    <3>1. pos[w] + 1 \in Nat \ {0}
      BY <2>2
    <3> QED BY <1>4, <3>1, Zenon DEF TypeOK, EraseOrSkip
  <2> QED BY <1>4, <2>1, <2>3, <2>4, Zenon DEF TypeOK, WorkerStep, EraseOrSkip, callVars, taskVars
<1>5. CASE NoTaskFound(w)
  <2>1. pc' \in [Threads -> ThreadLabels]
    BY <1>5, Zenon DEF TypeOK, NoTaskFound, ThreadAt, ThreadLabels
  <2>2. pos' \in [Threads -> Nat \ {0}]
    BY <1>5, One, Zenon DEF TypeOK, NoTaskFound
  <2> QED BY <1>5, <2>1, <2>2 DEF TypeOK, WorkerStep, NoTaskFound, callVars, taskVars
<1> QED BY <1>1, <1>2, <1>3, <1>4, <1>5 DEF WorkerStep

LEMMA RunEndsType ==
    ASSUME TypeOK, UNCHANGED load, NEW x \in Threads, NEW throws \in BOOLEAN, RunEnds(x, throws)
    PROVE  TypeOK'
<1>1. pc' \in [Threads -> ThreadLabels]
  BY DEF TypeOK, RunEnds, AfterRun, ThreadLabels
<1>2. thrown' \in [Threads -> BOOLEAN]
  BY DEF TypeOK, RunEnds
<1>3. failed' \in [Tasks -> BOOLEAN]
  BY Zenon DEF TypeOK, RunEnds
<1> QED BY <1>1, <1>2, <1>3 DEF TypeOK, RunEnds, queueVars, callVars

LEMMA TypeThreadStep ==
    ASSUME TypeOK, ThreadInv, NEW x \in Threads, ThreadStep(x)
    PROVE  TypeOK'
<1>1. CASE RunTask(x)
  BY <1>1, RunEndsType DEF RunTask, ThreadStep
<1>2. CASE ScheduleNested(x)
  <2>1. call' \in [Tasks -> CallLabels] /\ dependency' \in [Tasks -> Nat]
    BY <1>2, CallType DEF ScheduleNested, CallLabels
  <2>2. pc' \in [Threads -> ThreadLabels]
    BY <1>2 DEF TypeOK, ScheduleNested, ThreadAt, ThreadLabels
  <2> QED BY <1>2, <2>1, <2>2 DEF TypeOK, ThreadStep, ScheduleNested, queueVars, taskVars
<1>3. CASE NestedEnds(x)
  BY <1>3, RunEndsType, Zenon DEF NestedEnds, ThreadStep
<1>4. CASE SetException(x)
  <2>1. pc' \in [Threads -> ThreadLabels]
    BY <1>4 DEF TypeOK, SetException, ThreadAt, ThreadLabels
  <2>2. exception' \in [Tasks -> BOOLEAN] /\ thrown' \in [Threads -> BOOLEAN]
    BY <1>4, Zenon DEF TypeOK, SetException
  <2> QED BY <1>4, <2>1, <2>2 DEF TypeOK, ThreadStep, SetException, queueVars, callVars
<1>5. CASE Deregister(x)
  <2> DEFINE t == task[x]
  <2>1. pc' \in [Threads -> ThreadLabels] /\ task' \in [Threads -> Tasks \union {NoTask}]
    BY <1>5 DEF TypeOK, Deregister, ThreadAt, ThreadLabels
  <2>2. deRegisterThreadAndFinalizeTask(t)
    BY <1>5 DEF Deregister
  <2>t. t \in Tasks /\ numThreadsFinished[t] + 1 \in Nat /\ finalized[t] + 1 \in Nat
    BY <1>5 DEF TypeOK, ThreadInv, Deregister, ThreadAt
  <2> HIDE DEF t
  <2>3. numThreadsFinished' \in [Tasks -> Nat]
    BY <2>2, <2>t DEF TypeOK, deRegisterThreadAndFinalizeTask
  <2>4. finalized' \in [Tasks -> Nat]
    BY <2>2, <2>t DEF TypeOK, deRegisterThreadAndFinalizeTask
  <2>5. exception' \in [Tasks -> BOOLEAN] /\ failed' \in [Tasks -> BOOLEAN]
    BY <2>2, <2>t, Zenon DEF TypeOK, deRegisterThreadAndFinalizeTask
  <2>6. call' \in [Tasks -> CallLabels] /\ dependency' = dependency
    BY <2>2, ZenonT(60) DEF TypeOK, deRegisterThreadAndFinalizeTask, wakeCall, callVars, CallLabels
  <2>7. numThreadsRegistered' = numThreadsRegistered
    BY <2>2 DEF deRegisterThreadAndFinalizeTask
  <2> QED BY <1>5, <2>1, <2>3, <2>4, <2>5, <2>6, <2>7 DEF TypeOK, ThreadStep, Deregister, queueVars
<1> QED BY <1>1, <1>2, <1>3, <1>4, <1>5 DEF ThreadStep

LEMMA TypeEnvironment ==
    ASSUME TypeOK, Environment
    PROVE  TypeOK'
<1>1. ASSUME NEW t \in Tasks, Submit(t) PROVE TypeOK'
  <2>1. call' \in [Tasks -> CallLabels] /\ dependency' \in [Tasks -> Nat]
    BY <1>1, CallType DEF Submit, CallLabels
  <2> QED BY <1>1, <2>1 DEF TypeOK, Environment, Submit, queueVars, taskVars, threadVars
<1>2. ASSUME NEW t \in Tasks, CallWakesUp(t) PROVE TypeOK'
  <2>1. call' \in [Tasks -> CallLabels] /\ dependency' \in [Tasks -> Nat]
    BY <1>2, CallType DEF CallWakesUp, CallLabels
  <2> QED BY <1>2, <2>1 DEF TypeOK, Environment, CallWakesUp, queueVars, taskVars, threadVars
<1>3. ASSUME NEW w \in Workers, WorkerWakesUp(w) PROVE TypeOK'
  <2>1. pc' \in [Threads -> ThreadLabels]
    BY <1>3, Zenon DEF TypeOK, WorkerWakesUp, ThreadAt, ThreadLabels
  <2> QED BY <1>3, <2>1 DEF TypeOK, Environment, WorkerWakesUp, queueVars, callVars, taskVars
<1>4. CASE StopWorkerThreads
  <2>1. pc' \in [Threads -> ThreadLabels]
    BY <1>4 DEF TypeOK, StopWorkerThreads, wakeWorkers, ThreadLabels
  <2> QED BY <1>4, <2>1 DEF TypeOK, Environment, StopWorkerThreads, queueVars, callVars, taskVars
<1> QED BY <1>1, <1>2, <1>3, <1>4 DEF Environment

LEMMA TypeStep == TypeOK /\ LockInv /\ ThreadInv /\ [Next]_vars => TypeOK'
<1> SUFFICES ASSUME TypeOK, LockInv, ThreadInv, [Next]_vars PROVE TypeOK'
  OBVIOUS
<1>1. CASE UNCHANGED vars
  BY <1>1 DEF TypeOK, vars, queueVars, callVars, taskVars, threadVars
<1> QED BY <1>1, TypeCallStep, TypeWorkerStep, TypeThreadStep, TypeEnvironment DEF Next

--------------------------------------------------------------------------------
(* The scheduler's mutex                                                    *)

\* Nobody is under a free mutex, and only its owner is under a held one.
LEMMA MutexFree ==
    ASSUME LockInv, NEW w \in Workers, taskSchedulerMtx # w
    PROVE  pc[w] \notin Locked
BY DEF LockInv

LEMMA LockCallStep ==
    ASSUME TypeOK, LockInv, NEW t \in Tasks, CallStep(t)
    PROVE  LockInv'
<1>1. CASE ScheduleDependency(t) \/ DependencyReturns(t) \/ TestCompletion(t) \/ ReturnFromCall(t)
  BY <1>1 DEF LockInv, ScheduleDependency, DependencyReturns, TestCompletion, ReturnFromCall,
              queueVars, threadVars
<1>2. CASE LaunchNewWorkerThread(t)
  <2>1. \A w \in Workers : pc'[w] = pc[w]
    BY <1>2, ThreadKinds DEF TypeOK, LaunchNewWorkerThread, Threads
  <2> QED BY <1>2, <2>1 DEF LockInv, LaunchNewWorkerThread, queueVars
<1>3. CASE PushTaskIntoQueue(t) \/ ThrowException(t)
  <2>1. taskSchedulerMtx = NoThread /\ UNCHANGED <<taskSchedulerMtx, pc>>
    BY <1>3 DEF PushTaskIntoQueue, ThrowException, threadVars
  <2>2. \A w \in Workers : pc[w] \notin Locked
    BY <2>1, MutexFree, ThreadAssumption
  <2> QED BY <2>1, <2>2 DEF LockInv, Locked
<1>4. CASE NotifyWorkers(t)
  <2>1. \A w \in Workers : pc'[w] \in Locked => pc'[w] = pc[w]
    BY <1>4 DEF NotifyWorkers, wakeWorkers, Locked, Threads
  <2>2. UNCHANGED <<taskQueue, taskSchedulerMtx, pos>>
    BY <1>4 DEF NotifyWorkers, queueVars
  <2> QED BY <2>1, <2>2 DEF LockInv, Locked
<1> QED BY <1>1, <1>2, <1>3, <1>4 DEF CallStep

LEMMA LockWorkerStep ==
    ASSUME TypeOK, LockInv, NEW w \in Workers, WorkerStep(w)
    PROVE  LockInv'
<1>w. w \in Threads /\ Workers \subseteq Threads /\ NoThread \notin Workers
  BY ThreadAssumption DEF Threads
<1>1. CASE LockScheduler(w)
  <2>1. \A v \in Workers : pc[v] \notin Locked
    BY <1>1, MutexFree, ThreadAssumption DEF LockScheduler
  <2>2. \A v \in Workers : v # w => pc'[v] \notin Locked
    BY <1>1, <1>w, <2>1 DEF TypeOK, LockScheduler, ThreadAt
  <2>3. taskSchedulerMtx' = w /\ pc'[w] # "check"
    BY <1>1, <1>w DEF TypeOK, LockScheduler, ThreadAt
  <2> QED BY <2>2, <2>3 DEF LockInv, Locked
<1>2. CASE RegisterForTask(w) \/ NoTaskFound(w)
  <2>1. pc[w] = "scan" /\ pc'[w] \notin Locked /\ \A v \in Workers : v # w => pc'[v] = pc[v]
    BY <1>2, <1>w DEF TypeOK, RegisterForTask, NoTaskFound, ThreadAt, Locked
  <2>2. taskSchedulerMtx = w
    BY <2>1 DEF LockInv, Locked
  <2>3. \A v \in Workers : pc'[v] \notin Locked
    BY <2>1, <2>2, MutexFree
  <2> QED BY <2>3 DEF LockInv, Locked
<1>3. CASE CannotRegister(w)
  <2>1. pc[w] = "scan" /\ pc'[w] = "check" /\ \A v \in Workers : v # w => pc'[v] = pc[v]
    BY <1>3, <1>w DEF TypeOK, CannotRegister, ThreadAt
  <2>2. taskSchedulerMtx = w
    BY <2>1 DEF LockInv, Locked
  <2>3. \A v \in Workers : v # w => pc'[v] \notin Locked
    BY <2>1, <2>2, MutexFree
  <2>4. pos[w] <= Len(taskQueue) /\ UNCHANGED <<taskQueue, taskSchedulerMtx, pos>>
    BY <1>3 DEF CannotRegister, AtTask, queueVars
  <2> QED BY <2>2, <2>3, <2>4 DEF LockInv, Locked
<1>4. CASE EraseOrSkip(w)
  <2>1. pc[w] = "check" /\ pc'[w] = "scan" /\ \A v \in Workers : v # w => pc'[v] = pc[v]
    BY <1>4, <1>w DEF TypeOK, EraseOrSkip, ThreadAt
  <2>2. taskSchedulerMtx = w /\ taskSchedulerMtx' = w
    BY <1>4, <2>1 DEF LockInv, Locked, EraseOrSkip
  <2>3. \A v \in Workers : v # w => pc'[v] \notin Locked
    BY <2>1, <2>2, MutexFree
  <2> QED BY <2>1, <2>2, <2>3 DEF LockInv, Locked
<1> QED BY <1>1, <1>2, <1>3, <1>4 DEF WorkerStep

LEMMA LockThreadStep ==
    ASSUME TypeOK, LockInv, NEW x \in Threads, ThreadStep(x)
    PROVE  LockInv'
<1>w. Workers \subseteq Threads
  BY DEF Threads
<1>1. UNCHANGED <<taskQueue, taskSchedulerMtx, pos>>
  BY Zenon DEF ThreadStep, RunTask, NestedEnds, RunEnds, ScheduleNested, SetException, Deregister, queueVars
<1>2. \A v \in Workers : v # x => pc'[v] = pc[v]
  BY <1>w, Zenon DEF TypeOK, ThreadStep, RunTask, NestedEnds, RunEnds, ScheduleNested, SetException,
              Deregister, ThreadAt
<1>3. ASSUME x \in Workers
      PROVE  pc'[x] # "check" /\ (pc'[x] \in Locked => pc[x] \in Locked)
  <2>1. CASE RunTask(x) \/ NestedEnds(x)
    BY <1>3, <2>1 DEF TypeOK, RunTask, NestedEnds, RunEnds, AfterRun, Locked
  <2>2. CASE ScheduleNested(x)
    BY <2>2 DEF TypeOK, ScheduleNested, ThreadAt, Locked
  <2>3. CASE SetException(x) \/ Deregister(x)
    BY <2>3 DEF TypeOK, SetException, Deregister, ThreadAt, Locked
  <2> QED BY <2>1, <2>2, <2>3 DEF ThreadStep
<1> QED BY <1>1, <1>2, <1>3 DEF LockInv, Locked

LEMMA LockEnvironment ==
    ASSUME TypeOK, LockInv, Environment
    PROVE  LockInv'
<1>w. Workers \subseteq Threads
  BY DEF Threads
<1>1. UNCHANGED <<taskQueue, taskSchedulerMtx, pos>>
  BY DEF Environment, Submit, CallWakesUp, WorkerWakesUp, StopWorkerThreads, queueVars, threadVars
<1>2. \A v \in Workers : pc'[v] \in Locked => pc'[v] = pc[v]
  BY <1>w DEF TypeOK, Environment, Submit, CallWakesUp, WorkerWakesUp, StopWorkerThreads,
              ThreadAt, wakeWorkers, threadVars, Locked
<1> QED BY <1>1, <1>2 DEF LockInv, Locked

LEMMA LockInit == Init => LockInv
<1> SUFFICES ASSUME Init, NEW w \in Workers PROVE pc[w] \notin Locked
  BY DEF LockInv, Locked
<1> QED BY DEF Init, Locked, Threads

LEMMA LockStep == TypeOK /\ LockInv /\ [Next]_vars => LockInv'
<1> SUFFICES ASSUME TypeOK, LockInv, [Next]_vars PROVE LockInv'
  OBVIOUS
<1>1. CASE UNCHANGED vars
  BY <1>1 DEF LockInv, vars, queueVars, threadVars
<1> QED BY <1>1, LockCallStep, LockWorkerStep, LockThreadStep, LockEnvironment DEF Next

--------------------------------------------------------------------------------
(* Threads and their tasks                                                  *)

LEMMA ThreadCallStep ==
    ASSUME TypeOK, ThreadInv, NEW t \in Tasks, CallStep(t)
    PROVE  ThreadInv'
<1>1. CASE /\ ~LaunchNewWorkerThread(t) /\ ~NotifyWorkers(t)
  <2>1. UNCHANGED <<pc, task>>
    BY <1>1 DEF CallStep, ScheduleDependency, DependencyReturns, TestCompletion, ReturnFromCall,
                PushTaskIntoQueue, ThrowException, threadVars
  <2> QED BY <2>1 DEF ThreadInv
<1>2. CASE LaunchNewWorkerThread(t)
  <2>1. CASE t \in Launched
    <3>1. t \in Threads /\ pc'[t] = "run" /\ task'[t] = t
      BY <1>2, <2>1 DEF TypeOK, LaunchNewWorkerThread, Threads
    <3>2. \A x \in Threads : x # t => pc'[x] = pc[x] /\ task'[x] = task[x]
      BY <1>2, <2>1 DEF TypeOK, LaunchNewWorkerThread
    <3> QED BY <3>1, <3>2, ThreadKinds DEF ThreadInv, Threads
  <2>2. CASE t \notin Launched
    BY <1>2, <2>2 DEF LaunchNewWorkerThread, ThreadInv
  <2> QED BY <2>1, <2>2
<1>3. CASE NotifyWorkers(t)
  <2>1. task' = task /\ \A x \in Threads : pc'[x] = IF pc[x] = "wait" THEN "lock" ELSE pc[x]
    BY <1>3 DEF NotifyWorkers, wakeWorkers
  <2> QED BY <2>1 DEF ThreadInv, Threads, Working
<1> QED BY <1>1, <1>2, <1>3

LEMMA ThreadWorkerStep ==
    ASSUME TypeOK, ThreadInv, NEW w \in Workers, WorkerStep(w)
    PROVE  ThreadInv'
<1>w. w \in Threads /\ w \notin Launched
  BY ThreadKinds DEF Threads
<1>1. \A x \in Threads : x # w => pc'[x] = pc[x] /\ task'[x] = task[x]
  BY DEF TypeOK, WorkerStep, LockScheduler, RegisterForTask, CannotRegister, EraseOrSkip,
         NoTaskFound, ThreadAt
<1>2. /\ pc'[w] \in {"setException", "deregister", "run", "nested"} => task'[w] \in Tasks
      /\ pc'[w] \in {"scan", "check", "wait"} => task'[w] = NoTask
  <2>1. CASE LockScheduler(w)
    <3>1. task[w] \in Tasks \union {NoTask} /\ task' = task
      BY <1>w, <2>1 DEF TypeOK, LockScheduler
    <3>2. pc'[w] = IF task[w] = NoTask THEN "scan" ELSE IF thrown[w] THEN "setException" ELSE "deregister"
      BY <1>w, <2>1 DEF TypeOK, LockScheduler, ThreadAt
    <3> QED BY <3>1, <3>2
  <2>2. CASE RegisterForTask(w)
    BY <1>w, <2>2 DEF TypeOK, RegisterForTask, ThreadAt
  <2>3. CASE CannotRegister(w) \/ EraseOrSkip(w) \/ NoTaskFound(w)
    BY <1>w, <2>3 DEF TypeOK, ThreadInv, CannotRegister, EraseOrSkip, NoTaskFound, ThreadAt
  <2> QED BY <2>1, <2>2, <2>3 DEF WorkerStep
<1> QED BY <1>w, <1>1, <1>2 DEF ThreadInv, Threads

LEMMA ThreadThreadStep ==
    ASSUME TypeOK, ThreadInv, NEW x \in Threads, ThreadStep(x)
    PROVE  ThreadInv'
<1>1. \A y \in Threads : y # x => pc'[y] = pc[y] /\ task'[y] = task[y]
  BY Zenon DEF TypeOK, ThreadStep, RunTask, NestedEnds, RunEnds, ScheduleNested, SetException,
         Deregister, ThreadAt
<1>2. CASE RunTask(x) \/ NestedEnds(x) \/ ScheduleNested(x) \/ SetException(x)
  <2>1. task' = task /\ task[x] \in Tasks
    BY <1>2, Zenon DEF ThreadInv, RunTask, NestedEnds, RunEnds, ScheduleNested, SetException, ThreadAt
  <2>2. \/ x \in Workers /\ pc'[x] \in {"lock", "nested", "deregister"}
        \/ x \in Launched /\ pc'[x] \in {"setException", "nested", "deregister"}
    BY <1>2 DEF TypeOK, RunTask, NestedEnds, RunEnds, AfterRun, ScheduleNested, SetException,
                ThreadAt, Threads
  <2>3. x \in Launched => task[x] = x
    BY <1>2, Zenon DEF ThreadInv, RunTask, NestedEnds, ScheduleNested, SetException, ThreadAt, Working
  <2> QED BY <1>1, <2>1, <2>2, <2>3, ThreadKinds DEF ThreadInv, Threads
<1>3. CASE Deregister(x)
  <2>1. task'[x] = NoTask /\ pc'[x] = IF x \in Workers THEN "scan" ELSE "done"
    BY <1>3 DEF TypeOK, Deregister, ThreadAt
  <2> QED BY <1>1, <2>1, ThreadKinds DEF ThreadInv, Threads, Working
<1> QED BY <1>2, <1>3 DEF ThreadStep

LEMMA ThreadEnvironment ==
    ASSUME TypeOK, ThreadInv, Environment
    PROVE  ThreadInv'
<1>1. task' = task
  BY DEF Environment, Submit, CallWakesUp, WorkerWakesUp, StopWorkerThreads, threadVars
<1>2. \A x \in Threads : pc'[x] = pc[x] \/ (pc[x] = "wait" /\ pc'[x] = "lock")
  BY DEF TypeOK, Environment, Submit, CallWakesUp, WorkerWakesUp, StopWorkerThreads, ThreadAt,
         wakeWorkers, threadVars
<1> QED BY <1>1, <1>2 DEF ThreadInv, Threads, Working

LEMMA ThreadInit == Init => ThreadInv
<1> SUFFICES ASSUME Init PROVE ThreadInv
  OBVIOUS
<1>1. load.workers \subseteq Workers
  BY PlanAssumption DEF Init
<1>2. \A x \in Launched : pc[x] = "unborn"
  BY <1>1, ThreadKinds DEF Init, Threads
<1> QED BY <1>2 DEF Init, ThreadInv, Working, Threads

LEMMA ThreadStepInv == TypeOK /\ ThreadInv /\ [Next]_vars => ThreadInv'
<1> SUFFICES ASSUME TypeOK, ThreadInv, [Next]_vars PROVE ThreadInv'
  OBVIOUS
<1>1. CASE UNCHANGED vars
  BY <1>1 DEF ThreadInv, vars, threadVars
<1> QED BY <1>1, ThreadCallStep, ThreadWorkerStep, ThreadThreadStep, ThreadEnvironment DEF Next

(* The counters of a task and its threads                                   *)

LEMMA CountHolders ==
    ASSUME CardinalityFacts, NEW t \in Tasks
    PROVE  /\ Cardinality(Holders(t)) \in Nat
           /\ Cardinality(Holders(t)) = 0 <=> Holders(t) = {}
           /\ \A x \in Threads \ Holders(t) : Cardinality(Holders(t) \union {x}) = Cardinality(Holders(t)) + 1
           /\ \A x \in Holders(t) : Cardinality(Holders(t) \ {x}) = Cardinality(Holders(t)) - 1
<1>1. Holders(t) \in SUBSET Threads
  BY DEF Holders
<1> HIDE DEF Holders
<1> QED BY <1>1 DEF CardinalityFacts

\* The three ways in which a step changes who works on what.
Joins(x, t) ==
    /\ registerThread(t) /\ x \in Threads \ Holders(t)
    /\ \A u \in Tasks : Holders(u)' = IF u = t THEN Holders(u) \union {x} ELSE Holders(u)
Leaves(x, t) ==
    /\ numThreadsRegistered' = numThreadsRegistered
    /\ numThreadsFinished' = [numThreadsFinished EXCEPT ![t] = @ + 1]
    /\ x \in Holders(t)
    /\ \A u \in Tasks : Holders(u)' = IF u = t THEN Holders(u) \ {x} ELSE Holders(u)
Stays ==
    /\ UNCHANGED <<numThreadsRegistered, numThreadsFinished>>
    /\ \A u \in Tasks : Holders(u)' = Holders(u)

LEMMA WorkerJoins ==
    ASSUME TypeOK, ThreadInv, NEW w \in Workers, RegisterForTask(w)
    PROVE  \E t \in Tasks : AtTask(w, t) /\ Joins(w, t)
<1>1. PICK t \in Tasks : AtTask(w, t) /\ registerThread(t) /\ task' = [task EXCEPT ![w] = t]
  BY Zenon DEF RegisterForTask
<1>2. w \in Threads /\ pc[w] = "scan" /\ pc'[w] \in Holding /\ task'[w] = t
  BY <1>1 DEF TypeOK, Threads, RegisterForTask, ThreadAt, Holding, Working
<1>3. \A x \in Threads : x # w => pc'[x] = pc[x] /\ task'[x] = task[x]
  BY <1>1 DEF TypeOK, RegisterForTask, ThreadAt
<1>4. \A u \in Tasks : w \notin Holders(u)
  BY <1>2 DEF Holders, Holding, Working
<1>5. ASSUME NEW u \in Tasks
      PROVE  Holders(u)' = IF u = t THEN Holders(u) \union {w} ELSE Holders(u)
  BY <1>2, <1>3, <1>4 DEF Holders
<1> QED BY <1>1, <1>2, <1>4, <1>5 DEF Joins

LEMMA LaunchedJoins ==
    ASSUME CardinalityFacts, TypeOK, ThreadInv, CountInv, CallInv, NEW t \in Tasks, LaunchNewWorkerThread(t),
           t \in Launched
    PROVE  Joins(t, t)
<1>1. registerThread(t) /\ call[t] = "dependencies"
  BY DEF LaunchNewWorkerThread, CallAt
<1>2. t \in Threads /\ pc'[t] = "run" /\ task'[t] = t
  BY DEF TypeOK, LaunchNewWorkerThread, Threads
<1>3. \A x \in Threads : x # t => pc'[x] = pc[x] /\ task'[x] = task[x]
  BY DEF TypeOK, LaunchNewWorkerThread
<1>4. Holders(t) = {}
  <2>1. numThreadsRegistered[t] = 0 /\ numThreadsFinished[t] \in Nat
    BY <1>1 DEF CallInv, TypeOK
  <2>2. Cardinality(Holders(t)) = 0
    BY <2>1, CountHolders DEF CountInv
  <2> QED BY <2>2, CountHolders
<1>5. ASSUME NEW u \in Tasks, u # t PROVE t \notin Holders(u)
  BY <1>2, <1>5 DEF Holders, Holding, ThreadInv
<1>6. ASSUME NEW u \in Tasks
      PROVE  Holders(u)' = IF u = t THEN Holders(u) \union {t} ELSE Holders(u)
  BY <1>2, <1>3, <1>5 DEF Holders, Holding, Working
<1> QED BY <1>1, <1>2, <1>4, <1>6 DEF Joins

LEMMA ThreadLeaves ==
    ASSUME TypeOK, ThreadInv, NEW x \in Threads, Deregister(x)
    PROVE  task[x] \in Tasks /\ Leaves(x, task[x])
<1>1. pc[x] = "deregister" /\ task[x] \in Tasks /\ task'[x] = NoTask
  BY DEF TypeOK, ThreadInv, Deregister, ThreadAt
<1>2. \A y \in Threads : y # x => pc'[y] = pc[y] /\ task'[y] = task[y]
  BY DEF TypeOK, Deregister, ThreadAt
<1>3. /\ numThreadsRegistered' = numThreadsRegistered
      /\ numThreadsFinished' = [numThreadsFinished EXCEPT ![task[x]] = @ + 1]
  BY DEF Deregister, deRegisterThreadAndFinalizeTask
<1>4. x \in Holders(task[x])
  BY <1>1 DEF Holders, Holding, Working
<1>5. ASSUME NEW u \in Tasks
      PROVE  Holders(u)' = IF u = task[x] THEN Holders(u) \ {x} ELSE Holders(u)
  BY <1>1, <1>2, <1>4, ThreadAssumption DEF Holders
<1> QED BY <1>1, <1>3, <1>4, <1>5 DEF Leaves

LEMMA CallStays ==
    ASSUME TypeOK, ThreadInv, NEW t \in Tasks, CallStep(t),
           ~(LaunchNewWorkerThread(t) /\ t \in Launched)
    PROVE  Stays
<1>1. CASE NotifyWorkers(t)
  <2>1. task' = task /\ \A x \in Threads : pc'[x] = IF pc[x] = "wait" THEN "lock" ELSE pc[x]
    BY <1>1 DEF NotifyWorkers, wakeWorkers
  <2>2. ASSUME NEW u \in Tasks PROVE Holders(u)' = Holders(u)
    BY <2>1, ThreadAssumption DEF Holders, ThreadInv, Holding, Working
  <2> QED BY <1>1, <2>2 DEF Stays, NotifyWorkers, taskVars
<1>2. CASE ~NotifyWorkers(t)
  <2>1. UNCHANGED <<pc, task, numThreadsRegistered, numThreadsFinished>>
    BY <1>2 DEF CallStep, ScheduleDependency, DependencyReturns, LaunchNewWorkerThread,
                TestCompletion, ReturnFromCall, PushTaskIntoQueue, ThrowException, threadVars, taskVars
  <2> QED BY <2>1 DEF Stays, Holders
<1> QED BY <1>1, <1>2

LEMMA WorkerStays ==
    ASSUME TypeOK, ThreadInv, NEW w \in Workers, WorkerStep(w), ~RegisterForTask(w)
    PROVE  Stays
<1>1. w \in Threads
  BY DEF Threads
<1>2. UNCHANGED <<task, numThreadsRegistered, numThreadsFinished>>
  BY Zenon DEF WorkerStep, LockScheduler, CannotRegister, EraseOrSkip, NoTaskFound, taskVars
<1>3. \A x \in Threads : x # w => pc'[x] = pc[x]
  BY DEF TypeOK, WorkerStep, LockScheduler, CannotRegister, EraseOrSkip, NoTaskFound, ThreadAt
<1>4. task[w] # NoTask => pc[w] \in Holding /\ pc'[w] \in Holding
  BY <1>1 DEF TypeOK, ThreadInv, WorkerStep, LockScheduler, CannotRegister, EraseOrSkip,
              NoTaskFound, ThreadAt, Holding, Working
<1>5. ASSUME NEW u \in Tasks PROVE Holders(u)' = Holders(u)
  BY <1>2, <1>3, <1>4, ThreadAssumption DEF Holders
<1> QED BY <1>2, <1>5 DEF Stays

LEMMA ThreadStays ==
    ASSUME TypeOK, ThreadInv, NEW x \in Threads, ThreadStep(x), ~Deregister(x)
    PROVE  Stays
<1>1. UNCHANGED <<task, numThreadsRegistered, numThreadsFinished>>
  BY Zenon DEF ThreadStep, RunTask, NestedEnds, RunEnds, ScheduleNested, SetException, taskVars
<1>2. \A y \in Threads : y # x => pc'[y] = pc[y]
  BY Zenon DEF TypeOK, ThreadStep, RunTask, NestedEnds, RunEnds, ScheduleNested, SetException, ThreadAt
<1>3. pc[x] \in Holding /\ pc'[x] \in Holding
  BY DEF TypeOK, ThreadStep, RunTask, NestedEnds, RunEnds, AfterRun, ScheduleNested, SetException,
         ThreadAt, Holding, Working
<1>4. ASSUME NEW u \in Tasks PROVE Holders(u)' = Holders(u)
  BY <1>1, <1>2, <1>3 DEF Holders
<1> QED BY <1>1, <1>4 DEF Stays

LEMMA EnvironmentStays ==
    ASSUME TypeOK, ThreadInv, Environment
    PROVE  Stays
<1>1. UNCHANGED <<task, numThreadsRegistered, numThreadsFinished>>
  BY Zenon DEF Environment, Submit, CallWakesUp, WorkerWakesUp, StopWorkerThreads, threadVars, taskVars
<1>2. \A x \in Threads : pc'[x] = pc[x] \/ (pc[x] = "wait" /\ pc'[x] = "lock")
  BY DEF TypeOK, Environment, Submit, CallWakesUp, WorkerWakesUp, StopWorkerThreads, ThreadAt,
         wakeWorkers, threadVars
<1>3. ASSUME NEW u \in Tasks PROVE Holders(u)' = Holders(u)
  BY <1>1, <1>2, ThreadAssumption DEF Holders, ThreadInv
<1> QED BY <1>1, <1>3 DEF Stays

LEMMA StepKinds ==
    ASSUME CardinalityFacts, TypeOK, ThreadInv, CountInv, CallInv, [Next]_vars
    PROVE  \/ Stays
           \/ \E w \in Workers, t \in Tasks : RegisterForTask(w) /\ AtTask(w, t) /\ Joins(w, t)
           \/ \E t \in Launched : LaunchNewWorkerThread(t) /\ Joins(t, t)
           \/ \E x \in Threads : Deregister(x) /\ task[x] \in Tasks /\ Leaves(x, task[x])
<1>1. CASE UNCHANGED vars
  BY <1>1 DEF Stays, Holders, vars, taskVars, threadVars
<1>2. ASSUME NEW t \in Tasks, CallStep(t)
      PROVE  Stays \/ (t \in Launched /\ LaunchNewWorkerThread(t) /\ Joins(t, t))
  BY <1>2, CallStays, LaunchedJoins
<1>3. ASSUME NEW w \in Workers, WorkerStep(w)
      PROVE  Stays \/ (RegisterForTask(w) /\ \E t \in Tasks : AtTask(w, t) /\ Joins(w, t))
  BY <1>3, WorkerStays, WorkerJoins
<1>4. ASSUME NEW x \in Threads, ThreadStep(x)
      PROVE  Stays \/ (Deregister(x) /\ task[x] \in Tasks /\ Leaves(x, task[x]))
  BY <1>4, ThreadStays, ThreadLeaves
<1>5. CASE Environment
  BY <1>5, EnvironmentStays
<1> QED BY <1>1, <1>2, <1>3, <1>4, <1>5 DEF Next

LEMMA CountInit == CardinalityFacts /\ Init => CountInv
<1> SUFFICES ASSUME CardinalityFacts, Init, NEW t \in Tasks
             PROVE  numThreadsRegistered[t] = numThreadsFinished[t] + Cardinality(Holders(t))
  BY DEF CountInv
<1>1. Holders(t) = {}
  BY ThreadAssumption DEF Init, Holders
<1>2. Cardinality(Holders(t)) = 0
  BY <1>1, CountHolders
<1> QED BY <1>2 DEF Init

LEMMA CountStep ==
    ASSUME CardinalityFacts, TypeOK, ThreadInv, CountInv, CallInv, [Next]_vars
    PROVE  CountInv'
<1> SUFFICES ASSUME NEW u \in Tasks
             PROVE  numThreadsRegistered'[u] = numThreadsFinished'[u] + Cardinality(Holders(u)')
  BY DEF CountInv
<1>1. numThreadsRegistered[u] = numThreadsFinished[u] + Cardinality(Holders(u))
      /\ numThreadsRegistered[u] \in Nat /\ numThreadsFinished[u] \in Nat
      /\ Cardinality(Holders(u)) \in Nat
  BY CountHolders DEF CountInv, TypeOK
<1>2. CASE Stays
  BY <1>1, <1>2 DEF Stays
<1>3. ASSUME NEW x, NEW t \in Tasks, Joins(x, t)
      PROVE  numThreadsRegistered'[u] = numThreadsFinished'[u] + Cardinality(Holders(u)')
  <2>1. CASE u = t
    <3>1. Cardinality(Holders(u)') = Cardinality(Holders(u)) + 1
      BY <1>3, <2>1, CountHolders DEF Joins
    <3>2. numThreadsRegistered'[u] = numThreadsRegistered[u] + 1 /\ numThreadsFinished'[u] = numThreadsFinished[u]
      BY <1>3, <2>1 DEF Joins, registerThread, TypeOK
    <3> QED BY <1>1, <3>1, <3>2
  <2>2. CASE u # t
    BY <1>1, <1>3, <2>2 DEF Joins, registerThread, TypeOK
  <2> QED BY <2>1, <2>2
<1>4. ASSUME NEW x, NEW t \in Tasks, Leaves(x, t)
      PROVE  numThreadsRegistered'[u] = numThreadsFinished'[u] + Cardinality(Holders(u)')
  <2>1. CASE u = t
    <3>1. Cardinality(Holders(u)') = Cardinality(Holders(u)) - 1
      BY <1>4, <2>1, CountHolders DEF Leaves
    <3>2. numThreadsRegistered'[u] = numThreadsRegistered[u] /\ numThreadsFinished'[u] = numThreadsFinished[u] + 1
      BY <1>4, <2>1 DEF Leaves, TypeOK
    <3> QED BY <1>1, <3>1, <3>2
  <2>2. CASE u # t
    BY <1>1, <1>4, <2>2 DEF Leaves, TypeOK
  <2> QED BY <2>1, <2>2
<1> QED BY <1>2, <1>3, <1>4, StepKinds, ThreadKinds

LEMMA NothingLeft ==
    ASSUME NEW r \in Nat, NEW f \in Nat, NEW c \in Nat, r = f + c, f = r \/ r = 0
    PROVE  c = 0
OBVIOUS

\* No thread works on a completed task.
LEMMA NoHolders ==
    ASSUME CardinalityFacts, TypeOK, CountInv, NEW t \in Tasks, isCompletedNoLock(t) \/ numThreadsRegistered[t] = 0
    PROVE  Holders(t) = {}
<1>1. numThreadsRegistered[t] = numThreadsFinished[t] + Cardinality(Holders(t))
      /\ numThreadsRegistered[t] \in Nat /\ numThreadsFinished[t] \in Nat
      /\ Cardinality(Holders(t)) \in Nat
  BY CountHolders DEF CountInv, TypeOK
<1>2. numThreadsFinished[t] = numThreadsRegistered[t] \/ numThreadsRegistered[t] = 0
  BY Zenon DEF isCompletedNoLock
<1>3. Cardinality(Holders(t)) = 0
  BY <1>1, <1>2, NothingLeft
<1> QED BY <1>3, CountHolders

\* A completed task stays so.
LEMMA StaysCompleted ==
    ASSUME CardinalityFacts, TypeOK, ThreadInv, CountInv, CallInv, [Next]_vars,
           NEW t \in Tasks, isCompletedNoLock(t)
    PROVE  isCompletedNoLock(t)'
<1>1. Holders(t) = {} /\ numThreadsRegistered[t] \in Nat /\ numThreadsFinished[t] \in Nat
  BY NoHolders DEF TypeOK
<1>2. CASE Stays
  BY <1>2 DEF Stays, isCompletedNoLock
<1>3. ASSUME NEW x, NEW u \in Tasks, Joins(x, u) PROVE isCompletedNoLock(t)'
  <2>1. u # t
    BY <1>1, <1>3 DEF Joins, registerThread, canRegister, isCompletedNoLock
  <2> QED BY <1>3, <2>1 DEF Joins, registerThread, isCompletedNoLock, TypeOK
<1>4. ASSUME NEW x, NEW u \in Tasks, Leaves(x, u) PROVE isCompletedNoLock(t)'
  <2>1. u # t
    BY <1>1, <1>4 DEF Leaves
  <2> QED BY <1>4, <2>1 DEF Leaves, isCompletedNoLock, TypeOK
<1> QED BY <1>2, <1>3, <1>4, StepKinds, ThreadKinds

--------------------------------------------------------------------------------
(* Calls                                                                    *)

Moves(t) ==
    \/ call'[t] = call[t]
    \/ call[t] = "none" /\ call'[t] = "dependencies"
    \/ call[t] = "dependencies" /\ call'[t] \in {"skipped", "threw"} /\ DependencyReturns(t)
    \/ call[t] = "dependencies" /\ call'[t] = "push" /\ LaunchNewWorkerThread(t)
    \/ call[t] = "push" /\ call'[t] = "notify" /\ PushTaskIntoQueue(t)
    \/ call[t] \in {"notify", "test", "wait"} /\ call'[t] \in {"test", "wait"}
    \/ call[t] = "test" /\ call'[t] = "end" /\ TestCompletion(t)
    \/ call[t] = "end" /\ call'[t] = "threw" /\ ThrowException(t)
    \/ call[t] = "end" /\ call'[t] = "returned" /\ ReturnFromCall(t)

LEMMA CallAtMoves ==
    ASSUME TypeOK, NEW u, NEW from, NEW to, CallAt(u, from, to), NEW t \in Tasks
    PROVE  call'[t] = call[t] \/ (u = t /\ call[t] = from /\ call'[t] = to)
BY DEF CallAt, TypeOK

LEMMA CallStepMoves ==
    ASSUME TypeOK, NEW u \in Tasks, CallStep(u), NEW t \in Tasks
    PROVE  Moves(t)
<1>1. CASE ScheduleDependency(u)
  BY <1>1, CallAtMoves DEF ScheduleDependency, Moves
<1>2. CASE DependencyReturns(u)
  <2>1. CASE call' = call
    BY <2>1 DEF Moves
  <2>2. CASE \E to \in {"skipped", "threw"} : call' = [call EXCEPT ![u] = to]
    <3>1. call[u] = "dependencies"
      BY <1>2 DEF DependencyReturns
    <3> QED BY <1>2, <2>2, <3>1 DEF Moves, TypeOK
  <2> QED BY <1>2, <2>1, <2>2 DEF DependencyReturns
<1>3. CASE LaunchNewWorkerThread(u)
  <2>1. CallAt(u, "dependencies", "push")
    BY <1>3 DEF LaunchNewWorkerThread
  <2>2. call'[t] = call[t] \/ (u = t /\ call[t] = "dependencies" /\ call'[t] = "push")
    BY <2>1, CallAtMoves
  <2> QED BY <1>3, <2>2, Zenon DEF Moves
<1>4. CASE PushTaskIntoQueue(u)
  <2>1. CallAt(u, "push", "notify")
    BY <1>4 DEF PushTaskIntoQueue
  <2>2. call'[t] = call[t] \/ (u = t /\ call[t] = "push" /\ call'[t] = "notify")
    BY <2>1, CallAtMoves
  <2> QED BY <1>4, <2>2, Zenon DEF Moves
<1>5. CASE NotifyWorkers(u)
  <2>1. CallAt(u, "notify", "test")
    BY <1>5 DEF NotifyWorkers
  <2>2. call'[t] = call[t] \/ (u = t /\ call[t] = "notify" /\ call'[t] = "test")
    BY <2>1, CallAtMoves
  <2> QED BY <1>5, <2>2, Zenon DEF Moves
<1>6. CASE TestCompletion(u)
  <2>1. PICK to \in {"end", "wait"} : CallAt(u, "test", to)
    BY <1>6 DEF TestCompletion
  <2>2. call'[t] = call[t] \/ (u = t /\ call[t] = "test" /\ call'[t] = to)
    BY <2>1, CallAtMoves
  <2> QED BY <1>6, <2>2, Zenon DEF Moves
<1>7. CASE ThrowException(u)
  <2>1. CallAt(u, "end", "threw")
    BY <1>7 DEF ThrowException
  <2>2. call'[t] = call[t] \/ (u = t /\ call[t] = "end" /\ call'[t] = "threw")
    BY <2>1, CallAtMoves
  <2> QED BY <1>7, <2>2, Zenon DEF Moves
<1>8. CASE ReturnFromCall(u)
  <2>1. CallAt(u, "end", "returned")
    BY <1>8 DEF ReturnFromCall
  <2>2. call'[t] = call[t] \/ (u = t /\ call[t] = "end" /\ call'[t] = "returned")
    BY <2>1, CallAtMoves
  <2> QED BY <1>8, <2>2, Zenon DEF Moves
<1> QED BY <1>1, <1>2, <1>3, <1>4, <1>5, <1>6, <1>7, <1>8 DEF CallStep

LEMMA CallMoves ==
    ASSUME TypeOK, [Next]_vars, NEW t \in Tasks
    PROVE  Moves(t)
<1>1. CASE UNCHANGED vars
  BY <1>1 DEF vars, callVars, Moves
<1>2. ASSUME NEW w \in Workers, WorkerStep(w) PROVE Moves(t)
  BY <1>2, Zenon DEF WorkerStep, LockScheduler, RegisterForTask, CannotRegister, EraseOrSkip, NoTaskFound,
              callVars, Moves
<1>3. ASSUME NEW x \in Threads, ThreadStep(x) PROVE Moves(t)
  <2>1. CASE RunTask(x) \/ NestedEnds(x) \/ SetException(x)
    BY <2>1, Zenon DEF RunTask, NestedEnds, RunEnds, SetException, callVars, Moves
  <2>2. CASE ScheduleNested(x)
    BY <2>2, CallAtMoves, Zenon DEF ScheduleNested, Moves
  <2>3. CASE Deregister(x)
    <3>1. call' = call \/ call' = [call EXCEPT ![task[x]] = IF @ = "wait" THEN "test" ELSE @]
      BY <2>3 DEF Deregister, deRegisterThreadAndFinalizeTask, wakeCall, callVars
    <3> QED BY <3>1 DEF TypeOK, Moves
  <2> QED BY <1>3, <2>1, <2>2, <2>3 DEF ThreadStep
<1>4. CASE Environment
  <2>1. ASSUME NEW u \in Tasks, Submit(u) \/ CallWakesUp(u) PROVE Moves(t)
    <3>1. CallAt(u, "none", "dependencies") \/ CallAt(u, "wait", "test")
      BY <2>1 DEF Submit, CallWakesUp
    <3>2. \/ call'[t] = call[t]
          \/ call[t] = "none" /\ call'[t] = "dependencies"
          \/ call[t] = "wait" /\ call'[t] = "test"
      BY <3>1, CallAtMoves
    <3> QED BY <3>2, Zenon DEF Moves
  <2>2. CASE (\E w \in Workers : WorkerWakesUp(w)) \/ StopWorkerThreads
    BY <2>2 DEF WorkerWakesUp, StopWorkerThreads, callVars, Moves
  <2> QED BY <1>4, <2>1, <2>2 DEF Environment
<1> QED BY <1>1, <1>2, <1>3, <1>4, CallStepMoves DEF Next

LEMMA EraseKeepsQueue ==
    ASSUME TypeOK, QueueInv, NEW k \in 1..Len(taskQueue), taskQueue' = erase(k)
    PROVE  /\ \A i \in 1..Len(taskQueue') :
                 \E j \in 1..Len(taskQueue) : j # k /\ taskQueue'[i] = taskQueue[j]
           /\ \A i, j \in 1..Len(taskQueue') : taskQueue'[i] = taskQueue'[j] => i = j
<1>1. /\ Len(taskQueue') = Len(taskQueue) - 1 /\ Len(taskQueue) \in Nat
      /\ \A j \in 1..Len(taskQueue') : taskQueue'[j] = taskQueue[IF j < k THEN j ELSE j + 1]
  <2>1. taskQueue \in Seq(Tasks)
    BY DEF TypeOK
  <2>2. /\ Len(erase(k)) = Len(taskQueue) - 1
        /\ \A j \in 1..Len(erase(k)) : erase(k)[j] = taskQueue[IF j < k THEN j ELSE j + 1]
    BY <2>1, Erase
  <2> QED BY <2>1, <2>2
<1> DEFINE old(j) == IF j < k THEN j ELSE j + 1
<1>2. \A j \in 1..Len(taskQueue') : old(j) \in 1..Len(taskQueue) /\ old(j) # k
  BY <1>1
<1>3. \A i, j \in 1..Len(taskQueue') : old(i) = old(j) => i = j
  BY <1>1
<1>4. \A j \in 1..Len(taskQueue') : taskQueue'[j] = taskQueue[old(j)]
  BY <1>1
<1> HIDE DEF old
<1>5. \A i \in 1..Len(taskQueue') :
         \E j \in 1..Len(taskQueue) : j # k /\ taskQueue'[i] = taskQueue[j]
  BY <1>2, <1>4, Zenon
<1>6. ASSUME NEW i \in 1..Len(taskQueue'), NEW j \in 1..Len(taskQueue'),
             taskQueue'[i] = taskQueue'[j]
      PROVE  i = j
  <2>1. taskQueue[old(i)] = taskQueue[old(j)]
    BY <1>4, <1>6
  <2>2. old(i) = old(j)
    BY <1>2, <2>1, Zenon DEF QueueInv
  <2> QED BY <1>3, <2>2, Zenon
<1> QED BY <1>5, <1>6

LEMMA AppendProperties ==
    ASSUME NEW q \in Seq(Tasks), NEW t \in Tasks
    PROVE  /\ Append(q, t) \in Seq(Tasks) /\ Len(Append(q, t)) = Len(q) + 1 /\ Len(q) \in Nat
           /\ \A i \in 1..Len(q) : Append(q, t)[i] = q[i]
           /\ Append(q, t)[Len(q) + 1] = t
OBVIOUS

LEMMA QueueKinds ==
    ASSUME TypeOK, LockInv, [Next]_vars
    PROVE  \/ \E t \in Tasks : PushTaskIntoQueue(t) \/ ThrowException(t)
           \/ /\ \A t \in Tasks : ~ThrowException(t)
              /\ taskQueue' = taskQueue \/ \E k \in 1..Len(taskQueue) : taskQueue' = erase(k)
<1> SUFFICES ASSUME \A t \in Tasks : ~PushTaskIntoQueue(t) /\ ~ThrowException(t)
             PROVE  taskQueue' = taskQueue \/ \E k \in 1..Len(taskQueue) : taskQueue' = erase(k)
  OBVIOUS
<1>1. CASE UNCHANGED vars
  BY <1>1 DEF vars, queueVars
<1>2. ASSUME NEW t \in Tasks, CallStep(t) PROVE taskQueue' = taskQueue
  BY <1>2 DEF CallStep, ScheduleDependency, DependencyReturns, LaunchNewWorkerThread, NotifyWorkers,
              TestCompletion, ReturnFromCall, queueVars
<1>3. ASSUME NEW w \in Workers, WorkerStep(w)
      PROVE  taskQueue' = taskQueue \/ \E k \in 1..Len(taskQueue) : taskQueue' = erase(k)
  <2>1. CASE EraseOrSkip(w)
    <3>1. pos[w] \in 1..Len(taskQueue)
      BY <2>1 DEF TypeOK, LockInv, EraseOrSkip, ThreadAt, Threads
    <3> QED BY <2>1, <3>1 DEF EraseOrSkip
  <2>2. CASE ~EraseOrSkip(w)
    BY <1>3, <2>2 DEF WorkerStep, LockScheduler, RegisterForTask, CannotRegister, NoTaskFound, queueVars
  <2> QED BY <2>1, <2>2
<1>4. ASSUME NEW x \in Threads, ThreadStep(x) PROVE taskQueue' = taskQueue
  BY <1>4, Zenon DEF ThreadStep, RunTask, NestedEnds, RunEnds, ScheduleNested, SetException, Deregister, queueVars
<1>5. CASE Environment
  BY <1>5, Zenon DEF Environment, Submit, CallWakesUp, WorkerWakesUp, StopWorkerThreads, queueVars
<1> QED BY <1>1, <1>2, <1>3, <1>4, <1>5 DEF Next

LEMMA QueueStep ==
    ASSUME TypeOK, LockInv, QueueInv, [Next]_vars
    PROVE  QueueInv'
<1>q. taskQueue \in Seq(Tasks) /\ \A i \in 1..Len(taskQueue) : taskQueue[i] \in Tasks
  BY DEF TypeOK
<1>1. \A t \in Tasks : call[t] \in Queued /\ ~ThrowException(t) => call'[t] \in Queued
  BY CallMoves DEF Moves, Queued
<1>2. ASSUME NEW t \in Tasks, PushTaskIntoQueue(t) PROVE QueueInv'
  <2>1. taskQueue' = Append(taskQueue, t) /\ call[t] = "push" /\ call'[t] = "notify"
    BY <1>2 DEF PushTaskIntoQueue, CallAt, TypeOK
  <2>2. \A i \in 1..Len(taskQueue) : taskQueue[i] # t
    BY <2>1 DEF QueueInv, Queued
  <2>3. \A u \in Tasks : u # t => call'[u] = call[u]
    BY <1>2 DEF PushTaskIntoQueue, CallAt, TypeOK
  <2>4. /\ Len(taskQueue') = Len(taskQueue) + 1 /\ Len(taskQueue) \in Nat
        /\ \A i \in 1..Len(taskQueue) : taskQueue'[i] = taskQueue[i]
        /\ taskQueue'[Len(taskQueue) + 1] = t
    BY <1>q, <2>1, AppendProperties
  <2>5. \A i \in 1..Len(taskQueue') : i \in 1..Len(taskQueue) \/ i = Len(taskQueue) + 1
    BY <2>4
  <2>6. \A i \in 1..Len(taskQueue') : call'[taskQueue'[i]] \in Queued
    BY <1>q, <2>1, <2>2, <2>3, <2>4, <2>5 DEF QueueInv, Queued
  <2>7. \A i, j \in 1..Len(taskQueue') : taskQueue'[i] = taskQueue'[j] => i = j
    BY <2>2, <2>4, <2>5 DEF QueueInv
  <2> QED BY <2>6, <2>7 DEF QueueInv
<1>3. ASSUME NEW t \in Tasks, ThrowException(t) PROVE QueueInv'
  <2>1. \A u \in Tasks : u # t => call'[u] = call[u]
    BY <1>3 DEF ThrowException, CallAt, TypeOK
  <2>2. CASE \E k \in 1..Len(taskQueue) : taskQueue[k] = t
    <3>1. PICK k \in 1..Len(taskQueue) : taskQueue[k] = t /\ taskQueue' = erase(k)
      BY <1>q, <1>3, <2>2 DEF ThrowException, removeErroringTask
    <3> QED BY <1>q, <2>1, <3>1, EraseKeepsQueue, SMTT(60) DEF QueueInv
  <2>3. CASE \A k \in 1..Len(taskQueue) : taskQueue[k] # t
    <3>1. taskQueue' = taskQueue
      BY <1>q, <1>3, <2>3 DEF ThrowException, removeErroringTask
    <3> QED BY <1>q, <2>1, <2>3, <3>1 DEF QueueInv
  <2> QED BY <2>2, <2>3
<1>4. ASSUME \A t \in Tasks : ~ThrowException(t), taskQueue' = taskQueue PROVE QueueInv'
  BY <1>q, <1>1, <1>4 DEF QueueInv
<1>5. ASSUME \A t \in Tasks : ~ThrowException(t), NEW k \in 1..Len(taskQueue), taskQueue' = erase(k)
      PROVE  QueueInv'
  <2>1. /\ \A i \in 1..Len(taskQueue') :
                 \E j \in 1..Len(taskQueue) : j # k /\ taskQueue'[i] = taskQueue[j]
        /\ \A i, j \in 1..Len(taskQueue') : taskQueue'[i] = taskQueue'[j] => i = j
    BY <1>5, EraseKeepsQueue
  <2>2. \A j \in 1..Len(taskQueue) : call'[taskQueue[j]] \in Queued
    BY <1>q, <1>1, <1>5 DEF QueueInv
  <2>3. \A i \in 1..Len(taskQueue') : call'[taskQueue'[i]] \in Queued
    BY <2>1, <2>2
  <2> QED BY <2>1, <2>3 DEF QueueInv
<1> QED BY <1>2, <1>3, <1>4, <1>5, QueueKinds

LEMMA CallInvStep ==
    ASSUME CardinalityFacts, TypeOK, ThreadInv, CountInv, QueueInv, CallInv, [Next]_vars
    PROVE  CallInv'
<1> SUFFICES ASSUME NEW t \in Tasks
             PROVE  /\ call'[t] \in {"none", "dependencies", "skipped"} => numThreadsRegistered'[t] = 0
                    /\ call'[t] \in {"end", "returned"} => isCompletedNoLock(t)'
                    /\ call'[t] = "threw" => isCompletedNoLock(t)' \/ numThreadsRegistered'[t] = 0
  BY DEF CallInv
<1>1. Moves(t)
  BY CallMoves
<1>2. isCompletedNoLock(t) => isCompletedNoLock(t)'
  BY StaysCompleted
<1>3. ASSUME numThreadsRegistered[t] = 0, numThreadsRegistered'[t] # 0
      PROVE  call'[t] = "push" \/ call[t] \in Queued
  <2>1. ASSUME NEW w \in Workers, NEW u \in Tasks, AtTask(w, u), Joins(w, u)
        PROVE  call[t] \in Queued
    <3>1. u = t
      BY <1>3, <2>1 DEF Joins, registerThread, TypeOK
    <3>2. pos[w] \in 1..Len(taskQueue) /\ taskQueue[pos[w]] = u
      <4>1. pos[w] \in Nat /\ pos[w] >= 1 /\ Len(taskQueue) \in Nat
        BY DEF TypeOK, Threads
      <4> QED BY <4>1, <2>1 DEF AtTask
    <3> QED BY <3>1, <3>2 DEF QueueInv
  <2>2. ASSUME NEW u \in Launched, LaunchNewWorkerThread(u), Joins(u, u)
        PROVE  call'[t] = "push"
    <3>1. u = t
      BY <1>3, <2>2, ThreadKinds DEF Joins, registerThread, TypeOK
    <3> QED BY <2>2, <3>1 DEF LaunchNewWorkerThread, CallAt, TypeOK
  <2>3. ~Stays /\ \A x \in Threads : ~Leaves(x, task[x])
    BY <1>3 DEF Stays, Leaves
  <2> QED BY <2>1, <2>2, <2>3, StepKinds
<1>4. ASSUME call[t] \in {"none", "dependencies", "skipped"},
             call'[t] \in {"none", "dependencies", "skipped", "threw"}
      PROVE  numThreadsRegistered'[t] = 0
  <2>1. numThreadsRegistered[t] = 0
    BY <1>4 DEF CallInv
  <2>2. call'[t] # "push" /\ call[t] \notin Queued
    BY <1>4 DEF Queued
  <2> QED BY <1>3, <2>1, <2>2
<1>5. call[t] = "threw" => call'[t] = "threw"
  BY <1>1 DEF Moves
<1>6. call[t] = "threw" /\ numThreadsRegistered[t] = 0 => numThreadsRegistered'[t] = 0
  BY <1>3, <1>5 DEF Queued
<1>7. TestCompletion(t) /\ call'[t] = "end" => isCompletedNoLock(t)
  BY DEF TestCompletion, CallAt, TypeOK
<1> QED BY <1>1, <1>2, <1>4, <1>6, <1>7 DEF CallInv, Moves
===============================================================================
