-------------------------- MODULE TaskSchedulerProofs --------------------------
(***************************************************************************)
(* Theorems about TaskScheduler, for any number of workers, tasks and      *)
(* queries and any plan that PlanAssumption admits.  First, that the steps *)
(* preserve what the inductive invariant says of finalization, exceptions  *)
(* and dependencies.                                                       *)
(***************************************************************************)
EXTENDS TaskSchedulerSteps, FiniteSetTheorems

(* Finalization and exceptions                                              *)

\* exceptionsPtr, finalized and the history of failures change only by a thread
\* that ends its run, sets the exception or leaves.
LEMMA OutcomeKinds ==
    ASSUME [Next]_vars
    PROVE  \/ UNCHANGED <<exception, finalized, failed, thrown>>
           \/ \E x \in Threads : RunTask(x) \/ NestedEnds(x) \/ SetException(x) \/ Deregister(x)
<1>1. CASE UNCHANGED vars
  BY <1>1 DEF vars, taskVars, threadVars
<1>2. ASSUME NEW t \in Tasks, CallStep(t) PROVE UNCHANGED <<exception, finalized, failed, thrown>>
  BY <1>2, Zenon DEF CallStep, ScheduleDependency, DependencyReturns, LaunchNewWorkerThread, registerThread,
              PushTaskIntoQueue, NotifyWorkers, TestCompletion, ThrowException, ReturnFromCall,
              taskVars, threadVars
<1>3. ASSUME NEW w \in Workers, WorkerStep(w) PROVE UNCHANGED <<exception, finalized, failed, thrown>>
  BY <1>3, Zenon DEF WorkerStep, LockScheduler, RegisterForTask, registerThread, CannotRegister, EraseOrSkip,
              NoTaskFound, taskVars
<1>4. ASSUME NEW x \in Threads, ScheduleNested(x) PROVE UNCHANGED <<exception, finalized, failed, thrown>>
  BY <1>4 DEF ScheduleNested, taskVars
<1>5. CASE Environment
  BY <1>5, Zenon DEF Environment, Submit, CallWakesUp, WorkerWakesUp, StopWorkerThreads, taskVars, threadVars
<1> QED BY <1>1, <1>2, <1>3, <1>4, <1>5 DEF Next, ThreadStep

\* A thread that runs, sets the exception or leaves is a holder of its task.
LEMMA Holds ==
    ASSUME ThreadInv, NEW x \in Threads, pc[x] \in {"run", "nested", "setException", "deregister"}
    PROVE  task[x] \in Tasks /\ x \in Holders(task[x])
BY DEF ThreadInv, Holders, Holding, Working

LEMMA FinalStep ==
    ASSUME CardinalityFacts, TypeOK, ThreadInv, CountInv, CallInv, FinalInv, [Next]_vars
    PROVE  FinalInv'
<1> SUFFICES ASSUME NEW t \in Tasks
             PROVE  /\ ~isCompletedNoLock(t)' => finalized'[t] = 0
                    /\ finalized'[t] \in {0, 1}
                    /\ isCompletedSuccessfully(t)' => finalized'[t] = 1
                    /\ call'[t] = "returned" => ~exception'[t]
  BY DEF FinalInv
<1>c. isCompletedNoLock(t) => isCompletedNoLock(t)'
  BY StaysCompleted
<1>m. call'[t] = "returned" => call[t] = "returned" \/ (call[t] = "end" /\ ReturnFromCall(t))
  BY CallMoves, Zenon DEF Moves
<1>r. call'[t] = "returned" => isCompletedNoLock(t)
  BY <1>m DEF CallInv
<1>e. call'[t] = "returned" => ~exception[t]
  BY <1>m DEF FinalInv, ReturnFromCall
<1>h. ASSUME NEW x \in Threads, x \in Holders(t) PROVE ~isCompletedNoLock(t)
  BY <1>h, NoHolders
<1>n. numThreadsRegistered[t] \in Nat /\ numThreadsFinished[t] \in Nat
  BY DEF TypeOK
\* A task that nobody leaves is not completed by this step.
<1>s. ASSUME \A x \in Threads : ~Leaves(x, t)
      PROVE  isCompletedNoLock(t)' => isCompletedNoLock(t)
  <2>1. CASE Stays
    BY <2>1 DEF Stays, isCompletedNoLock
  <2>2. ASSUME NEW x, NEW u \in Tasks, Joins(x, u) PROVE isCompletedNoLock(t)' => isCompletedNoLock(t)
    <3>1. CASE u = t
      BY <1>n, <2>2, <3>1 DEF Joins, registerThread, canRegister, isCompletedNoLock, TypeOK
    <3>2. CASE u # t
      BY <2>2, <3>2 DEF Joins, registerThread, isCompletedNoLock, TypeOK
    <3> QED BY <3>1, <3>2
  <2>3. ASSUME NEW x \in Threads, task[x] \in Tasks, Leaves(x, task[x])
        PROVE  isCompletedNoLock(t)' => isCompletedNoLock(t)
    <3>1. task[x] # t
      BY <1>s, <2>3
    <3> QED BY <2>3, <3>1 DEF Leaves, isCompletedNoLock, TypeOK
  <2> QED BY <2>1, <2>2, <2>3, StepKinds, ThreadKinds
<1>1. ASSUME NEW x \in Threads, Deregister(x), task[x] = t
      PROVE  /\ ~isCompletedNoLock(t)' => finalized'[t] = 0
             /\ finalized'[t] \in {0, 1}
             /\ isCompletedSuccessfully(t)' => finalized'[t] = 1
             /\ call'[t] = "returned" => ~exception'[t]
  <2>1. x \in Holders(t)
    BY <1>1, Holds DEF Deregister, ThreadAt
  <2>2. ~isCompletedNoLock(t) /\ finalized[t] = 0 /\ call'[t] # "returned"
    BY <1>h, <1>r, <2>1 DEF FinalInv
  <2>3. deRegisterThreadAndFinalizeTask(t)
    BY <1>1 DEF Deregister
  <2>4. numThreadsRegistered'[t] = numThreadsRegistered[t] /\ numThreadsFinished'[t] = numThreadsFinished[t] + 1
    BY <2>3 DEF deRegisterThreadAndFinalizeTask, TypeOK
  <2>5. isCompletedNoLock(t)' <=> completes(t)
    BY <1>n, <2>4 DEF isCompletedNoLock, completes
  <2>6. CASE completes(t) /\ ~exception[t]
    <3>1. finalized'[t] = 1
      BY <2>2, <2>3, <2>6 DEF deRegisterThreadAndFinalizeTask, TypeOK
    <3> QED BY <2>2, <2>5, <2>6, <3>1
  <2>7. CASE ~(completes(t) /\ ~exception[t])
    <3>1. finalized' = finalized /\ exception' = exception
      BY <2>3, <2>7 DEF deRegisterThreadAndFinalizeTask
    <3> QED BY <2>2, <2>5, <2>7, <3>1 DEF isCompletedSuccessfully
  <2> QED BY <2>6, <2>7
<1>2. ASSUME \A x \in Threads : ~(Deregister(x) /\ task[x] = t)
      PROVE  \A x \in Threads : ~Leaves(x, t)
  <2>1. ASSUME NEW x \in Threads, Leaves(x, t) PROVE FALSE
    <3>1. numThreadsFinished'[t] = numThreadsFinished[t] + 1
      BY <2>1 DEF Leaves, TypeOK
    <3>2. ~Stays
      BY <1>n, <3>1 DEF Stays
    <3>3. \A y, u : ~Joins(y, u)
      BY <1>n, <3>1 DEF Joins, registerThread
    <3>4. PICK y \in Threads : Deregister(y) /\ task[y] \in Tasks /\ Leaves(y, task[y])
      BY <3>2, <3>3, StepKinds
    <3>5. task[y] # t
      BY <1>2, <3>4
    <3>6. numThreadsFinished'[t] = numThreadsFinished[t]
      BY <3>4, <3>5 DEF Leaves, TypeOK
    <3> QED BY <1>n, <3>1, <3>6
  <2> QED BY <2>1
<1>3. ASSUME \A x \in Threads : ~(Deregister(x) /\ task[x] = t)
      PROVE  /\ finalized'[t] = finalized[t]
             /\ isCompletedNoLock(t) => exception'[t] = exception[t]
  <2>1. CASE UNCHANGED <<exception, finalized, failed, thrown>>
    BY <2>1
  <2>2. ASSUME NEW x \in Threads, RunTask(x) \/ NestedEnds(x) PROVE UNCHANGED <<finalized, exception>>
    BY <2>2, Zenon DEF RunTask, NestedEnds, RunEnds
  <2>3. ASSUME NEW x \in Threads, SetException(x)
        PROVE  finalized' = finalized /\ (task[x] = t \/ exception'[t] = exception[t])
               /\ (task[x] = t => ~isCompletedNoLock(t))
    <3>1. task[x] \in Tasks /\ x \in Holders(task[x])
      BY <2>3, Holds, Zenon DEF SetException, ThreadAt
    <3> QED BY <1>h, <2>3, <3>1, Zenon DEF SetException, TypeOK
  <2>4. ASSUME NEW x \in Threads, Deregister(x)
        PROVE  finalized'[t] = finalized[t] /\ exception'[t] = exception[t]
    <3>1. task[x] # t
      BY <1>3, <2>4
    <3> QED BY <2>4, <3>1 DEF Deregister, deRegisterThreadAndFinalizeTask, TypeOK
  <2> QED BY <2>1, <2>2, <2>3, <2>4, OutcomeKinds
<1>4. ASSUME \A x \in Threads : ~(Deregister(x) /\ task[x] = t)
      PROVE  /\ ~isCompletedNoLock(t)' => finalized'[t] = 0
             /\ finalized'[t] \in {0, 1}
             /\ isCompletedSuccessfully(t)' => finalized'[t] = 1
             /\ call'[t] = "returned" => ~exception'[t]
  <2>1. isCompletedNoLock(t)' <=> isCompletedNoLock(t)
    BY <1>c, <1>s, <1>2, <1>4
  <2>2. /\ finalized'[t] = finalized[t]
        /\ isCompletedNoLock(t) => exception'[t] = exception[t]
    BY <1>3, <1>4
  <2> QED BY <1>r, <1>e, <2>1, <2>2, Zenon DEF FinalInv, isCompletedSuccessfully
<1> QED BY <1>1, <1>4, Zenon

LEMMA FailedStays ==
    ASSUME TypeOK, [Next]_vars, NEW t \in Tasks, failed[t]
    PROVE  failed'[t]
<1>1. ASSUME NEW x \in Threads, RunTask(x) \/ NestedEnds(x) PROVE failed'[t]
  BY <1>1, Zenon DEF RunTask, NestedEnds, RunEnds, TypeOK
<1>2. ASSUME NEW x \in Threads, SetException(x) PROVE failed'[t]
  BY <1>2 DEF SetException
<1>3. ASSUME NEW x \in Threads, Deregister(x) PROVE failed'[t]
  BY <1>3, Zenon DEF Deregister, deRegisterThreadAndFinalizeTask, TypeOK
<1> QED BY <1>1, <1>2, <1>3, OutcomeKinds

\* What ErrorInv says of a thread.
Carries(x) ==
    /\ thrown[x] => pc[x] \in {"lock", "setException"} /\ task[x] \in Tasks /\ failed[task[x]]
    /\ pc[x] = "setException" => thrown[x]

LEMMA CarriesUnchanged ==
    ASSUME TypeOK, [Next]_vars, NEW x \in Threads, Carries(x),
           pc'[x] = pc[x], task'[x] = task[x], thrown'[x] = thrown[x]
    PROVE  Carries(x)'
BY FailedStays, Zenon DEF Carries

LEMMA CarriesCallStep ==
    ASSUME CardinalityFacts, TypeOK, ThreadInv, CountInv, CallInv, NEW x \in Threads, Carries(x),
           [Next]_vars, NEW t \in Tasks, CallStep(t)
    PROVE  Carries(x)'
<1>1. thrown' = thrown
  BY Zenon DEF CallStep, ScheduleDependency, DependencyReturns, LaunchNewWorkerThread, PushTaskIntoQueue,
         NotifyWorkers, TestCompletion, ThrowException, ReturnFromCall, threadVars
<1>2. CASE LaunchNewWorkerThread(t) /\ t \in Launched /\ x = t
  <2>1. x \notin Holders(t)
    BY <1>2, LaunchedJoins DEF Joins
  <2>2. pc[x] # "lock" /\ pc[x] # "setException"
    BY <1>2, <2>1 DEF ThreadInv, Holders, Holding, Working
  <2>3. ~thrown[x] /\ pc'[x] = "run"
    BY <1>2, <2>2 DEF Carries, LaunchNewWorkerThread, TypeOK
  <2> QED BY <1>1, <2>3, Zenon DEF Carries
<1>3. CASE LaunchNewWorkerThread(t) /\ ~(t \in Launched /\ x = t)
  <2>1. pc'[x] = pc[x] /\ task'[x] = task[x]
    BY <1>3 DEF LaunchNewWorkerThread, TypeOK
  <2> QED BY <1>1, <2>1, CarriesUnchanged, Zenon
<1>4. CASE NotifyWorkers(t)
  <2>1. task' = task /\ failed' = failed /\ pc'[x] = IF pc[x] = "wait" THEN "lock" ELSE pc[x]
    BY <1>4 DEF NotifyWorkers, wakeWorkers, taskVars
  <2> QED BY <1>1, <2>1 DEF Carries
<1>5. CASE ~LaunchNewWorkerThread(t) /\ ~NotifyWorkers(t)
  <2>1. UNCHANGED <<pc, task>>
    BY <1>5, Zenon DEF CallStep, ScheduleDependency, DependencyReturns, PushTaskIntoQueue,
         TestCompletion, ThrowException, ReturnFromCall, threadVars
  <2> QED BY <1>1, <2>1, CarriesUnchanged
<1> QED BY <1>2, <1>3, <1>4, <1>5

LEMMA CarriesWorkerStep ==
    ASSUME TypeOK, NEW x \in Threads, Carries(x), [Next]_vars, NEW w \in Workers, WorkerStep(w)
    PROVE  Carries(x)'
<1>1. UNCHANGED <<failed, thrown>>
  BY Zenon DEF WorkerStep, LockScheduler, RegisterForTask, registerThread, CannotRegister, EraseOrSkip,
         NoTaskFound, taskVars
<1>2. CASE x # w
  <2>1. pc'[x] = pc[x] /\ task'[x] = task[x]
    BY <1>2 DEF TypeOK, WorkerStep, LockScheduler, RegisterForTask, CannotRegister, EraseOrSkip,
                NoTaskFound, ThreadAt
  <2> QED BY <1>1, <2>1, CarriesUnchanged
<1>3. CASE x = w /\ LockScheduler(w)
  <2>1. task' = task /\ pc[x] = "lock"
        /\ pc'[x] = IF task[x] = NoTask THEN "scan" ELSE IF thrown[x] THEN "setException" ELSE "deregister"
    BY <1>3 DEF TypeOK, LockScheduler, ThreadAt
  <2> QED BY <1>1, <2>1, ThreadAssumption DEF Carries
<1>4. CASE x = w /\ ~LockScheduler(w)
  <2>1. pc[x] \in {"scan", "check"} /\ pc'[x] # "setException"
    BY <1>4 DEF TypeOK, WorkerStep, RegisterForTask, CannotRegister, EraseOrSkip, NoTaskFound, ThreadAt
  <2> QED BY <1>1, <2>1, Zenon DEF Carries
<1> QED BY <1>2, <1>3, <1>4

LEMMA CarriesThreadStep ==
    ASSUME TypeOK, ThreadInv, NEW x \in Threads, Carries(x), [Next]_vars,
           NEW y \in Threads, ThreadStep(y)
    PROVE  Carries(x)'
<1>1. CASE x # y
  <2>1. pc'[x] = pc[x] /\ task'[x] = task[x] /\ thrown'[x] = thrown[x]
    BY <1>1, Zenon DEF TypeOK, ThreadStep, RunTask, NestedEnds, RunEnds, ScheduleNested, SetException,
                Deregister, ThreadAt
  <2> QED BY <2>1, CarriesUnchanged
<1>2. ASSUME x = y, NEW throws \in BOOLEAN, RunEnds(x, throws), pc[x] \in {"run", "nested"}
      PROVE  Carries(x)'
  <2>1. task[x] \in Tasks /\ task' = task
    BY <1>2 DEF ThreadInv, RunEnds
  <2>2. thrown'[x] = throws /\ pc'[x] = AfterRun(x, throws)
    BY <1>2 DEF RunEnds, TypeOK
  <2>3. throws => failed'[task[x]]
    BY <1>2, <2>1, Zenon DEF RunEnds, TypeOK
  <2> QED BY <2>1, <2>2, <2>3, Zenon DEF Carries, AfterRun
<1>3. CASE x = y /\ ScheduleNested(x)
  BY <1>3, Zenon DEF ScheduleNested, ThreadAt, Carries, TypeOK
<1>4. CASE x = y /\ SetException(x)
  BY <1>4 DEF SetException, ThreadAt, Carries, TypeOK
<1>5. CASE x = y /\ Deregister(x)
  BY <1>5, Zenon DEF Deregister, ThreadAt, Carries, TypeOK
<1> QED BY <1>1, <1>2, <1>3, <1>4, <1>5, Zenon DEF ThreadStep, RunTask, NestedEnds

LEMMA CarriesStep ==
    ASSUME CardinalityFacts, TypeOK, ThreadInv, CountInv, CallInv, [Next]_vars, NEW x \in Threads, Carries(x)
    PROVE  Carries(x)'
<1>1. CASE UNCHANGED vars
  BY <1>1 DEF Carries, vars, taskVars, threadVars
<1>2. CASE Environment
  <2>1. UNCHANGED <<failed, task, thrown>> /\ (pc'[x] = pc[x] \/ (pc[x] = "wait" /\ pc'[x] = "lock"))
    BY <1>2, Zenon DEF TypeOK, Environment, Submit, CallWakesUp, WorkerWakesUp, StopWorkerThreads, ThreadAt,
                wakeWorkers, threadVars, taskVars
  <2> QED BY <2>1, Zenon DEF Carries
<1> QED BY <1>1, <1>2, CarriesCallStep, CarriesWorkerStep, CarriesThreadStep DEF Next

LEMMA ErrorStep ==
    ASSUME CardinalityFacts, TypeOK, ThreadInv, CountInv, CallInv, ErrorInv, [Next]_vars
    PROVE  ErrorInv'
<1>c. \A x \in Threads : Carries(x)
  BY Zenon DEF ErrorInv, Carries
<1>1. \A x \in Threads : Carries(x)'
  BY <1>c, CarriesStep
<1>2. ASSUME NEW t \in Tasks, exception'[t] PROVE failed'[t]
  <2>1. CASE UNCHANGED <<exception, finalized, failed, thrown>>
    BY <1>2, <2>1 DEF ErrorInv
  <2>2. ASSUME NEW x \in Threads, RunTask(x) \/ NestedEnds(x) PROVE failed'[t]
    <3>1. exception[t]
      BY <1>2, <2>2, Zenon DEF RunTask, NestedEnds, RunEnds
    <3> QED BY <3>1, FailedStays, Zenon DEF ErrorInv
  <2>3. ASSUME NEW x \in Threads, SetException(x) PROVE failed'[t]
    <3>1. failed' = failed /\ failed[task[x]]
      BY <1>c, <2>3, Zenon DEF SetException, ThreadAt, Carries
    <3>2. exception[t] \/ task[x] = t
      BY <1>2, <2>3 DEF SetException, TypeOK
    <3> QED BY <3>1, <3>2 DEF ErrorInv
  <2>4. ASSUME NEW x \in Threads, Deregister(x) PROVE failed'[t]
    <3>1. CASE exception[t]
      BY <3>1, FailedStays DEF ErrorInv
    <3>2. CASE ~exception[t]
      BY <1>2, <2>4, <3>2 DEF Deregister, deRegisterThreadAndFinalizeTask, TypeOK
    <3> QED BY <3>1, <3>2
  <2> QED BY <2>1, <2>2, <2>3, <2>4, OutcomeKinds
\* A holder that carries an exception stays one until it has set it.
<1>3. ASSUME NEW t \in Tasks, NEW y \in Holders(t), thrown[y] PROVE y \in Holders(t)'
  <2>1. y \in Threads /\ pc[y] # "deregister"
    BY <1>c, <1>3 DEF Holders, Carries
  <2>2. ASSUME NEW x \in Threads, Deregister(x), Leaves(x, task[x]) PROVE y \in Holders(t)'
    <3>1. x # y
      BY <2>1, <2>2 DEF Deregister, ThreadAt
    <3> QED BY <1>3, <2>2, <3>1, Zenon DEF Leaves
  <2>3. Stays => y \in Holders(t)'
    BY <1>3 DEF Stays
  <2>4. ASSUME NEW x, NEW u, Joins(x, u) PROVE y \in Holders(t)'
    BY <1>3, <2>4 DEF Joins
  <2> QED BY <2>2, <2>3, <2>4, StepKinds
<1>4. ASSUME NEW t \in Tasks, failed[t] PROVE exception'[t] \/ \E x \in Holders(t)' : thrown'[x]
  <2>1. CASE UNCHANGED <<exception, finalized, failed, thrown>>
    BY <1>3, <1>4, <2>1, Zenon DEF ErrorInv
  <2>2. ASSUME NEW x \in Threads, RunTask(x) \/ NestedEnds(x)
        PROVE  exception'[t] \/ \E y \in Holders(t)' : thrown'[y]
    <3>a. PICK throws \in BOOLEAN : RunEnds(x, throws)
      BY <2>2, Zenon DEF RunTask, NestedEnds
    <3>b. pc[x] \in {"run", "nested"}
      BY <2>2, Zenon DEF RunTask, NestedEnds
    <3>c. ~thrown[x]
      BY <1>c, <3>b DEF Carries
    <3>1. exception' = exception /\ ~thrown[x] /\ \A y \in Threads : y # x => thrown'[y] = thrown[y]
      BY <3>a, <3>c DEF RunEnds, TypeOK
    <3> QED BY <1>3, <1>4, <3>1 DEF ErrorInv, Holders
  <2>3. ASSUME NEW x \in Threads, SetException(x)
        PROVE  exception'[t] \/ \E y \in Holders(t)' : thrown'[y]
    <3>1. CASE task[x] = t
      BY <2>3, <3>1 DEF SetException, TypeOK
    <3>2. CASE task[x] # t
      <4>1. x \notin Holders(t) /\ exception'[t] = exception[t]
            /\ \A y \in Threads : y # x => thrown'[y] = thrown[y]
        BY <2>3, <3>2, Zenon DEF SetException, TypeOK, Holders
      <4> QED BY <1>3, <1>4, <4>1 DEF ErrorInv, Holders
    <3> QED BY <3>1, <3>2
  <2>4. ASSUME NEW x \in Threads, Deregister(x)
        PROVE  exception'[t] \/ \E y \in Holders(t)' : thrown'[y]
    <3>1. thrown' = thrown /\ (exception[t] => exception'[t])
      BY <2>4, Zenon DEF Deregister, deRegisterThreadAndFinalizeTask, TypeOK
    <3> QED BY <1>3, <1>4, <3>1 DEF ErrorInv
  <2> QED BY <2>1, <2>2, <2>3, <2>4, OutcomeKinds
<1>5. ASSUME NEW t \in Tasks, ~failed[t], failed'[t]
      PROVE  exception'[t] \/ \E x \in Holders(t)' : thrown'[x]
  <2>1. ASSUME NEW x \in Threads, RunTask(x) \/ NestedEnds(x)
        PROVE  exception'[t] \/ \E y \in Holders(t)' : thrown'[y]
    <3>1. task[x] = t /\ thrown'[x]
      BY <1>5, <2>1, Zenon DEF RunTask, NestedEnds, RunEnds, TypeOK
    <3>2. task' = task /\ pc'[x] \in Holding
      BY <2>1, Zenon DEF RunTask, NestedEnds, RunEnds, AfterRun, TypeOK, Holding, Working
    <3> QED BY <3>1, <3>2, Zenon DEF Holders
  <2>2. ASSUME NEW x \in Threads, SetException(x) PROVE FALSE
    BY <1>5, <2>2 DEF SetException
  <2>3. ASSUME NEW x \in Threads, Deregister(x) PROVE exception'[t]
    BY <1>5, <2>3, Zenon DEF Deregister, deRegisterThreadAndFinalizeTask, TypeOK
  <2> QED BY <1>5, <2>1, <2>2, <2>3, OutcomeKinds, Zenon
<1>6. \A t \in Tasks : failed'[t] => exception'[t] \/ \E x \in Holders(t)' : thrown'[x]
  BY <1>4, <1>5, Zenon
<1> QED BY <1>1, <1>2, <1>6, Zenon DEF ErrorInv, Carries

--------------------------------------------------------------------------------
(* Dependencies                                                             *)

LEMMA DependencyKinds ==
    ASSUME [Next]_vars
    PROVE  dependency' = dependency \/ \E t \in Tasks : DependencyReturns(t)
<1>1. CASE UNCHANGED vars
  BY <1>1 DEF vars, callVars
<1>2. ASSUME NEW t \in Tasks, CallStep(t), ~DependencyReturns(t) PROVE dependency' = dependency
  BY <1>2, Zenon DEF CallStep, ScheduleDependency, LaunchNewWorkerThread, PushTaskIntoQueue, NotifyWorkers,
              TestCompletion, ThrowException, ReturnFromCall, CallAt
<1>3. ASSUME NEW w \in Workers, WorkerStep(w) PROVE dependency' = dependency
  BY <1>3, Zenon DEF WorkerStep, LockScheduler, RegisterForTask, CannotRegister, EraseOrSkip, NoTaskFound, callVars
<1>4. ASSUME NEW x \in Threads, ThreadStep(x) PROVE dependency' = dependency
  <2>1. CASE Deregister(x)
    BY <2>1 DEF Deregister, deRegisterThreadAndFinalizeTask, wakeCall, callVars
  <2>2. CASE ~Deregister(x)
    BY <1>4, <2>2, Zenon DEF ThreadStep, RunTask, NestedEnds, RunEnds, ScheduleNested, SetException, CallAt, callVars
  <2> QED BY <2>1, <2>2
<1>5. CASE Environment
  BY <1>5, Zenon DEF Environment, Submit, CallWakesUp, WorkerWakesUp, StopWorkerThreads, CallAt, callVars
<1> QED BY <1>1, <1>2, <1>3, <1>4, <1>5 DEF Next

LEMMA ChildrenType ==
    ASSUME NEW t \in Tasks
    PROVE  /\ DOMAIN Children[t] = 1..Len(Children[t]) /\ Len(Children[t]) \in Nat
           /\ \A i \in DOMAIN Children[t] : Children[t][i] \in Tasks /\ Children[t][i] \notin Roots
BY PlanAssumption

\* The dependency a call is at is one of the task's.
LEMMA ChildOf ==
    ASSUME TypeOK, DependencyInv, NEW t \in Tasks, HasDependencyLeft(t)
    PROVE  dependency[t] \in DOMAIN Children[t] /\ Child(t) = Children[t][dependency[t]]
BY ChildrenType DEF TypeOK, DependencyInv, HasDependencyLeft, Child

LEMMA DependencyStep ==
    ASSUME TypeOK, DependencyInv, [Next]_vars
    PROVE  DependencyInv'
<1> SUFFICES ASSUME NEW t \in Tasks
             PROVE  /\ dependency'[t] # 0
                    /\ t \notin Roots => call'[t] # "skipped"
                    /\ \A i \in DOMAIN Children[t] :
                          (i < dependency'[t] \/ call'[t] \notin {"none", "dependencies", "skipped", "threw"})
                             => call'[Children[t][i]] = "returned"
  BY Zenon DEF DependencyInv
<1>d. dependency[t] \in Nat \ {0}
  BY Zenon DEF TypeOK, DependencyInv
<1>1. \/ dependency'[t] = dependency[t]
      \/ /\ dependency'[t] = dependency[t] + 1 /\ HasDependencyLeft(t)
         /\ call[Child(t)] \in {"returned", "skipped"}
  <2>1. ASSUME NEW u \in Tasks, DependencyReturns(u), u # t PROVE dependency'[t] = dependency[t]
    BY <2>1 DEF DependencyReturns, TypeOK
  <2>2. ASSUME DependencyReturns(t), dependency' # dependency
        PROVE  /\ dependency'[t] = dependency[t] + 1 /\ HasDependencyLeft(t)
               /\ call[Child(t)] \in {"returned", "skipped"}
    BY <2>2 DEF DependencyReturns, TypeOK
  <2> QED BY <2>1, <2>2, DependencyKinds
<1>2. dependency'[t] # 0
  BY <1>d, <1>1
<1>3. t \notin Roots => call'[t] # "skipped"
  <2>1. ASSUME t \notin Roots, DependencyReturns(t), call'[t] = "skipped", call[t] = "dependencies" PROVE FALSE
    <3>1. HasDependencyLeft(t) /\ Child(t) \in MayTerminate
      BY <2>1 DEF DependencyReturns, TypeOK
    <3>2. dependency[t] \in DOMAIN Children[t] /\ Child(t) = Children[t][dependency[t]]
      BY <3>1, ChildOf
    <3>3. t \in Tasks \ Roots
      BY <2>1, Zenon
    <3>4. \A u \in Tasks \ Roots : \A i \in DOMAIN Children[u] : Children[u][i] \notin MayTerminate
      BY PlanAssumption
    <3> QED BY <3>1, <3>2, <3>3, <3>4, Zenon
  <2> QED BY <2>1, CallMoves, Zenon DEF Moves, DependencyInv
<1>4. ASSUME NEW i \in DOMAIN Children[t],
             i < dependency'[t] \/ call'[t] \notin {"none", "dependencies", "skipped", "threw"}
      PROVE  call'[Children[t][i]] = "returned"
  <2>i. i \in Nat /\ i <= Len(Children[t]) /\ Children[t][i] \in Tasks /\ Children[t][i] \notin Roots
    BY ChildrenType
  <2>1. CASE i < dependency[t]
    BY <2>1 , <2>i, CallMoves, Zenon DEF DependencyInv, Moves
  <2>2. CASE i < dependency'[t] /\ ~(i < dependency[t])
    <3>1. i = dependency[t] /\ HasDependencyLeft(t) /\ call[Child(t)] \in {"returned", "skipped"}
      BY <1>d, <1>1, <2>i, <2>2
    <3>2. Child(t) = Children[t][i]
      BY <3>1 DEF Child
    <3>3. call[Children[t][i]] = "returned"
      BY <2>i, <3>1, <3>2 DEF DependencyInv
    <3>4. Moves(Children[t][i])
      BY <2>i, CallMoves
    <3> QED BY <3>3, <3>4, Zenon DEF Moves
  <2>3. CASE call'[t] \notin {"none", "dependencies", "skipped", "threw"}
    <3>1. \/ call[t] \notin {"none", "dependencies", "skipped", "threw"}
          \/ LaunchNewWorkerThread(t)
      BY <2>3, CallMoves DEF Moves
    <3>2. LaunchNewWorkerThread(t) => i < dependency[t]
      BY <1>d, <2>i, ChildrenType DEF LaunchNewWorkerThread, HasDependencyLeft
    <3>3. call[Children[t][i]] = "returned"
      BY <3>1, <3>2 DEF DependencyInv
    <3>4. Moves(Children[t][i])
      BY <2>i, CallMoves, Zenon
    <3> QED BY <3>3, <3>4, Zenon DEF Moves
  <2> QED BY <1>4, <2>1, <2>2, <2>3
<1> QED BY <1>2, <1>3, <1>4

LEMMA RethrowStep ==
    ASSUME TypeOK, DependencyInv, ErrorInv, RethrowInv, [Next]_vars
    PROVE  RethrowInv'
<1> SUFFICES ASSUME NEW t \in Tasks, call'[t] = "threw"
             PROVE  failed'[t] \/ \E i \in DOMAIN Children[t] : call'[Children[t][i]] = "threw"
  BY Zenon DEF RethrowInv
<1>1. ASSUME NEW i \in DOMAIN Children[t], call[Children[t][i]] = "threw"
      PROVE  call'[Children[t][i]] = "threw"
  BY <1>1, ChildrenType, CallMoves, Zenon DEF Moves
<1>2. CASE call[t] = "threw"
  BY <1>1, <1>2, FailedStays DEF RethrowInv
<1>3. CASE DependencyReturns(t) /\ call[t] = "dependencies"
  <2>1. HasDependencyLeft(t) /\ call[Child(t)] = "threw"
    BY <1>3 DEF DependencyReturns, TypeOK
  <2> QED BY <1>1, <2>1, ChildOf, Zenon
<1>4. CASE ThrowException(t)
  BY <1>4, FailedStays DEF ThrowException, ErrorInv
<1> QED BY <1>2, <1>3, <1>4, CallMoves, Zenon DEF Moves

(***************************************************************************)
(* The invariant holds in every reachable state.                           *)
(***************************************************************************)

\* The inductive invariant.
SchedulerInv ==
    /\ TypeOK /\ LockInv /\ ThreadInv /\ CountInv /\ QueueInv /\ CallInv
    /\ FinalInv /\ ErrorInv /\ DependencyInv /\ RethrowInv

LEMMA Counting == CardinalityFacts
<1>1. IsFiniteSet(Threads)
  <2>1. IsFiniteSet(Launched)
    BY ThreadAssumption, ThreadKinds, FS_Subset
  <2> QED BY <2>1, ThreadAssumption, FS_Union DEF Threads
<1>2. ASSUME NEW S \in SUBSET Threads PROVE IsFiniteSet(S)
  BY <1>1, FS_Subset
<1> QED BY <1>2, FS_CardinalityType, FS_EmptySet, FS_AddElement, FS_RemoveElement DEF CardinalityFacts

LEMMA InitInv == Init => SchedulerInv
<1> SUFFICES ASSUME Init PROVE SchedulerInv
  OBVIOUS
<1>1. \A t \in Tasks : ~isCompletedNoLock(t)
  BY DEF Init, isCompletedNoLock
<1>2. QueueInv
  <2>1. Len(taskQueue) = 0
    BY DEF Init
  <2> QED BY <2>1 DEF QueueInv
<1>3. CallInv
  BY DEF Init, CallInv
<1>4. FinalInv
  BY <1>1 DEF Init, FinalInv, isCompletedSuccessfully
<1>5. ErrorInv
  BY DEF Init, ErrorInv
<1>6. DependencyInv
  BY ChildrenType DEF Init, DependencyInv
<1>7. RethrowInv
  BY DEF Init, RethrowInv
<1> QED BY <1>2, <1>3, <1>4, <1>5, <1>6, <1>7, TypeInit, LockInit, ThreadInit, CountInit,
        Counting DEF SchedulerInv

LEMMA NextInv == SchedulerInv /\ [Next]_vars => SchedulerInv'
BY TypeStep, LockStep, ThreadStepInv, CountStep, QueueStep, CallInvStep, FinalStep, ErrorStep,
   DependencyStep, RethrowStep, Counting DEF SchedulerInv

\* Every reachable state satisfies the inductive invariant.
THEOREM Reachable == Spec => []SchedulerInv
BY InitInv, NextInv, PTL DEF Spec

\* The variables keep their types and no task gets more threads than it accepts,
\* whatever the interleaving of calls, workers and launched threads.
THEOREM TypeCorrect == Spec => []TypeOK
<1>1. SchedulerInv => TypeOK
  BY DEF SchedulerInv
<1> QED BY <1>1, Reachable, PTL

\* When scheduleTaskAndWaitOrError has returned or thrown, no thread works on its
\* task any more, and the plan may be destroyed.
THEOREM NobodyLeft == Spec => []NoStragglers
<1>1. SchedulerInv => NoStragglers
  <2> SUFFICES ASSUME SchedulerInv, NEW t \in Tasks, call[t] \in {"returned", "skipped", "threw"},
                      NEW x \in Threads
               PROVE  ~WorksOn(x, t)
    BY DEF NoStragglers
  <2>1. isCompletedNoLock(t) \/ numThreadsRegistered[t] = 0
    BY DEF SchedulerInv, CallInv
  <2>2. Holders(t) = {}
    BY <2>1, NoHolders, Counting DEF SchedulerInv
  <2> QED BY <2>2 DEF Holders, Holding, WorksOn
<1> QED BY <1>1, Reachable, PTL

\* A thread works on a task only after the calls for all its dependencies returned.
THEOREM InOrder == Spec => []DependenciesFirst
<1>1. SchedulerInv => DependenciesFirst
  <2> SUFFICES ASSUME SchedulerInv, NEW x \in Threads, NEW t \in Tasks, WorksOn(x, t),
                      NEW i \in DOMAIN Children[t]
               PROVE  call[Children[t][i]] = "returned"
    BY DEF DependenciesFirst
  <2>1. x \in Holders(t)
    BY DEF WorksOn, Holders, Holding
  <2>2. ~isCompletedNoLock(t) /\ numThreadsRegistered[t] # 0
    BY <2>1, NoHolders, Counting DEF SchedulerInv
  <2>3. call[t] \notin {"none", "dependencies", "skipped", "threw"}
    BY <2>2 DEF SchedulerInv, CallInv
  <2> QED BY <2>3 DEF SchedulerInv, DependencyInv
<1> QED BY <1>1, Reachable, PTL

\* A task is finalized once, when its last thread has left, before its call returns.
THEOREM FinalizedByTheLast == Spec => []FinalizedOnce
<1>1. SchedulerInv => FinalizedOnce
  <2> SUFFICES ASSUME SchedulerInv, NEW t \in Tasks
               PROVE  /\ call[t] = "returned" => finalized[t] = 1
                      /\ finalized[t] <= 1
                      /\ finalized[t] = 1 => \A x \in Threads : ~WorksOn(x, t)
    BY DEF FinalizedOnce
  <2>1. call[t] = "returned" => finalized[t] = 1
    BY DEF SchedulerInv, CallInv, FinalInv, isCompletedSuccessfully
  <2>2. finalized[t] <= 1
    BY DEF SchedulerInv, FinalInv
  <2>3. ASSUME finalized[t] = 1, NEW x \in Threads PROVE ~WorksOn(x, t)
    <3>1. isCompletedNoLock(t)
      BY <2>3 DEF SchedulerInv, FinalInv
    <3>2. Holders(t) = {}
      BY <3>1, NoHolders, Counting DEF SchedulerInv
    <3> QED BY <3>2 DEF Holders, Holding, WorksOn
  <2> QED BY <2>1, <2>2, <2>3
<1> QED BY <1>1, Reachable, PTL

\* A call that returns has seen no error of its task, its finalize or a dependency, and
\* one that throws passes one on: errors are neither lost nor invented on their way from
\* a thread to the client.
THEOREM ErrorsArrive == Spec => []ErrorsReported
<1>1. SchedulerInv => ErrorsReported
  <2> SUFFICES ASSUME SchedulerInv, NEW t \in Tasks, call[t] = "returned"
               PROVE  ~failed[t] /\ \A i \in DOMAIN Children[t] : call[Children[t][i]] # "threw"
    BY DEF ErrorsReported, SchedulerInv, RethrowInv
  <2>1. isCompletedNoLock(t) /\ ~exception[t]
    BY DEF SchedulerInv, CallInv, FinalInv
  <2>2. Holders(t) = {}
    BY <2>1, NoHolders, Counting DEF SchedulerInv
  <2>3. ~failed[t]
    BY <2>1, <2>2 DEF SchedulerInv, ErrorInv
  <2>4. ASSUME NEW i \in DOMAIN Children[t] PROVE call[Children[t][i]] # "threw"
    BY DEF SchedulerInv, DependencyInv
  <2> QED BY <2>3, <2>4
<1> QED BY <1>1, Reachable, PTL

\* removeErroringTask leaves no failed task in the queue.
THEOREM QueueIsClean == Spec => []NoErroringTaskLeft
<1>1. SchedulerInv => NoErroringTaskLeft
  <2> SUFFICES ASSUME SchedulerInv, NEW i \in DOMAIN taskQueue PROVE call[taskQueue[i]] # "threw"
    BY DEF NoErroringTaskLeft
  <2>1. i \in 1..Len(taskQueue)
    BY DEF SchedulerInv, TypeOK
  <2> QED BY <2>1 DEF SchedulerInv, QueueInv, Queued
<1> QED BY <1>1, Reachable, PTL

\* The queue changes under a worker's iterators only by the worker's own step.
THEOREM IteratorsSafe == Spec => IteratorsStayValid
<1>1. SchedulerInv /\ [Next]_vars =>
        [taskQueue' # taskQueue =>
            \A w \in Workers : pc[w] \in {"scan", "check"} => pc'[w] # pc[w]]_vars
  <2> SUFFICES ASSUME SchedulerInv, [Next]_vars, taskQueue' # taskQueue, NEW w \in Workers,
                      pc[w] \in {"scan", "check"}
               PROVE  pc'[w] # pc[w]
    OBVIOUS
  <2>1. taskSchedulerMtx = w /\ w # NoThread
    BY ThreadAssumption DEF SchedulerInv, LockInv, Locked
  <2>2. \A t \in Tasks : ~CallStep(t)
    BY <2>1 DEF CallStep, ScheduleDependency, DependencyReturns, LaunchNewWorkerThread, NotifyWorkers,
                TestCompletion, ReturnFromCall, PushTaskIntoQueue, ThrowException, queueVars
  <2>3. ASSUME NEW v \in Workers, EraseOrSkip(v) PROVE pc'[w] # pc[w]
    <3>1. v = w
      BY <2>1, <2>3 DEF EraseOrSkip, ThreadAt, SchedulerInv, LockInv, Locked
    <3> QED BY <2>3, <3>1 DEF EraseOrSkip, ThreadAt, SchedulerInv, TypeOK, Threads
  <2>4. \E v \in Workers : EraseOrSkip(v)
    <3>1. ~UNCHANGED vars
      BY DEF vars, queueVars
    <3>2. \A x \in Threads : ~ThreadStep(x)
      BY DEF ThreadStep, RunTask, NestedEnds, RunEnds, ScheduleNested, SetException, Deregister, queueVars
    <3>3. ~Environment
      BY DEF Environment, Submit, CallWakesUp, WorkerWakesUp, StopWorkerThreads, queueVars
    <3>4. \A v \in Workers : WorkerStep(v) => EraseOrSkip(v)
      BY DEF WorkerStep, LockScheduler, RegisterForTask, CannotRegister, NoTaskFound, queueVars
    <3> QED BY <2>2, <3>1, <3>2, <3>3, <3>4 DEF Next
  <2> QED BY <2>3, <2>4
<1> QED BY <1>1, Reachable, PTL DEF Spec, IteratorsStayValid
===============================================================================
