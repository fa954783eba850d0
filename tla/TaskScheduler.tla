----------------------------- MODULE TaskScheduler -----------------------------
(***************************************************************************)
(* How queries run on threads.  A query is a tree of tasks (pipelines); the *)
(* client's thread schedules the dependencies of a task before the task and *)
(* waits for each of them.  Worker threads take tasks from a queue, several *)
(* threads may work on one task, and the last of them to finish finalizes   *)
(* it.  A task may also schedule another one while it runs (a frontier task *)
(* of a graph algorithm); the worker then waits like a client, and a thread *)
(* is launched in its place.                                                *)
(*                                                                         *)
(* Every task is scheduled at most once, so that the calls of               *)
(* scheduleTaskAndWaitOrError are told apart by their tasks, and a launched *)
(* thread by the one task it runs.  What a task computes, and the interrupt *)
(* flag that makes it stop early, are left out: its run either returns or   *)
(* throws.                                                                 *)
(***************************************************************************)
EXTENDS Naturals, Sequences, FiniteSets

CONSTANTS
    Workers,        \* the scheduler's worker threads
    Tasks,
    Loads,          \* [workers, queries]: a database's worker threads, and the tasks that
                    \* its clients schedule
    Children,       \* Children[t]: the dependencies of t, in their order
    Nested,         \* Nested[t]: the task that t schedules while it runs, or NoTask
    MaxNumThreads,  \* MaxNumThreads[t]: how many threads t accepts
    MayTerminate,   \* tasks that may end the query (CREATE TABLE of an existing table)
    NoTask, NoThread

Launched == {t \in Tasks : \E u \in Tasks : Nested[u] = t}
Threads == Workers \union Launched
Roots == UNION {l.queries : l \in Loads}

ASSUME ThreadAssumption ==
    /\ IsFiniteSet(Workers) /\ IsFiniteSet(Tasks)
    /\ Workers \intersect Tasks = {}
    /\ NoTask \notin Tasks /\ NoThread \notin Workers
ASSUME PlanAssumption ==
    /\ Loads \subseteq [workers : SUBSET Workers, queries : SUBSET Tasks]
    /\ MayTerminate \subseteq Tasks
    /\ Children \in [Tasks -> Seq(Tasks)]
    /\ Nested \in [Tasks -> Tasks \union {NoTask}]
    /\ MaxNumThreads \in [Tasks -> Nat \ {0}]
    \* A graph algorithm runs in a single-threaded pipeline.
    /\ \A t \in Tasks : Nested[t] # NoTask => MaxNumThreads[t] = 1
    \* CreateTable is a child of the root of CREATE TABLE AS (planCreateTable), and
    \* the root of a query is nobody's child.
    /\ \A t \in Tasks \ Roots : \A i \in DOMAIN Children[t] : Children[t][i] \notin MayTerminate
    /\ \A t \in Tasks : \A i \in DOMAIN Children[t] : Children[t][i] \notin Roots

VARIABLES
    load,                   \* the member of Loads that is run
    taskQueue,
    taskSchedulerMtx,       \* the worker that holds it across steps, or NoThread
    stopWorkerThreads,
    call,                   \* call[t]: where scheduleTaskAndWaitOrError(t) is
    dependency,             \* dependency[t]: the index of the dependency it is at
    numThreadsRegistered,
    numThreadsFinished,
    exception,              \* exception[t]: whether exceptionsPtr is set
    finalized,              \* finalized[t]: how often finalize was called (history)
    failed,                 \* failed[t]: whether a run or finalize of t threw (history)
    pc,                     \* pc[x]: where thread x is
    task,                   \* task[x]: the task that thread x works on, or NoTask
    thrown,                 \* thrown[x]: whether exceptionPtr of thread x is set
    pos                     \* pos[w]: the position of worker w in the queue

callVars == <<call, dependency>>
taskVars == <<numThreadsRegistered, numThreadsFinished, exception, finalized, failed>>
threadVars == <<pc, task, thrown, pos>>
queueVars == <<taskQueue, taskSchedulerMtx>>
vars == <<load, queueVars, stopWorkerThreads, callVars, taskVars, threadVars>>

CallLabels == {"none", "dependencies", "push", "notify", "test", "wait", "end",
               "returned", "skipped", "threw"}
ThreadLabels == {"unborn", "lock", "setException", "deregister", "scan", "check", "wait",
                 "run", "nested", "stopped", "done"}

\* Where a thread works on a task: from its registration to its deregistration.
Working == {"lock", "setException", "deregister", "run", "nested"}
WorksOn(x, t) == task[x] = t /\ pc[x] \in Working

Init ==
    /\ load \in Loads
    /\ taskQueue = <<>> /\ taskSchedulerMtx = NoThread /\ stopWorkerThreads = FALSE
    /\ call = [t \in Tasks |-> "none"] /\ dependency = [t \in Tasks |-> 1]
    /\ numThreadsRegistered = [t \in Tasks |-> 0] /\ numThreadsFinished = [t \in Tasks |-> 0]
    /\ exception = [t \in Tasks |-> FALSE] /\ finalized = [t \in Tasks |-> 0]
    /\ failed = [t \in Tasks |-> FALSE]
    /\ pc = [x \in Threads |-> IF x \in load.workers THEN "lock" ELSE "unborn"]
    /\ task = [x \in Threads |-> NoTask] /\ thrown = [x \in Threads |-> FALSE]
    /\ pos = [x \in Threads |-> 1]

(***************************************************************************)
(* Tasks (every operator here runs under the mutex of the task).           *)
(***************************************************************************)
\* Mutant: one thread that has finished is taken for all.
someFinished(t) == numThreadsFinished[t] > 0

isCompletedNoLock(t) == numThreadsRegistered[t] > 0 /\ numThreadsFinished[t] = numThreadsRegistered[t]
isCompletedSuccessfully(t) == isCompletedNoLock(t) /\ ~exception[t]

canRegister(t) == numThreadsFinished[t] = 0 /\ MaxNumThreads[t] > numThreadsRegistered[t]

registerThread(t) ==
    /\ ~exception[t] /\ canRegister(t)
    /\ numThreadsRegistered' = [numThreadsRegistered EXCEPT ![t] = @ + 1]
    /\ UNCHANGED <<numThreadsFinished, exception, finalized, failed>>

\* cv.notify_all of the task: the call that waits for it tests again.
wakeCall(t) ==
    /\ call' = [call EXCEPT ![t] = IF @ = "wait" THEN "test" ELSE @]
    /\ UNCHANGED dependency

\* Mutant: every thread that leaves finalizes the task.
isLast(t) == TRUE

\* Whether the thread that is leaving is the last one.
completes(t) == numThreadsRegistered[t] = numThreadsFinished[t] + 1

\* The last thread calls finalize, which may throw, unless the task has failed.
\* A waiting call cannot miss the notification, which follows the unlock: once
\* the task is completed it does not begin to wait.
deRegisterThreadAndFinalizeTask(t) ==
    /\ numThreadsFinished' = [numThreadsFinished EXCEPT ![t] = @ + 1]
    /\ IF completes(t) /\ ~exception[t]
       THEN /\ finalized' = [finalized EXCEPT ![t] = @ + 1]
            /\ \E throws \in BOOLEAN : /\ exception' = [exception EXCEPT ![t] = throws]
                                       /\ failed' = [failed EXCEPT ![t] = @ \/ throws]
       ELSE UNCHANGED <<finalized, exception, failed>>
    /\ IF completes(t) THEN wakeCall(t) ELSE UNCHANGED callVars
    /\ UNCHANGED numThreadsRegistered

(***************************************************************************)
(* Calls of scheduleTaskAndWaitOrError.                                    *)
(***************************************************************************)
CallAt(t, from, to) ==
    /\ call[t] = from
    /\ call' = [call EXCEPT ![t] = to]
    /\ UNCHANGED dependency

\* QueryProcessor::execute.
Submit(t) ==
    /\ t \in load.queries /\ ~stopWorkerThreads
    /\ CallAt(t, "none", "dependencies")
    /\ UNCHANGED <<queueVars, stopWorkerThreads, taskVars, threadVars>>

Child(t) == Children[t][dependency[t]]
HasDependencyLeft(t) == dependency[t] <= Len(Children[t])

\* The recursive call for the next dependency ...
ScheduleDependency(t) ==
    /\ call[t] = "dependencies" /\ HasDependencyLeft(t)
    /\ CallAt(Child(t), "none", "dependencies")
    /\ UNCHANGED <<queueVars, stopWorkerThreads, taskVars, threadVars>>

\* Mutant: an exception of a dependency is forgotten.
DependencyForgotten(t) ==
    /\ call[t] = "dependencies" /\ HasDependencyLeft(t)
    /\ call[Child(t)] \in {"returned", "skipped", "threw"}
    /\ dependency' = [dependency EXCEPT ![t] = @ + 1]
    /\ UNCHANGED <<call, queueVars, stopWorkerThreads, taskVars, threadVars>>

\* ... returns, and if the dependency terminates the query, so does this call;
\* or throws, and so does this call.
DependencyReturns(t) ==
    /\ call[t] = "dependencies" /\ HasDependencyLeft(t)
    /\ \/ /\ call[Child(t)] \in {"returned", "skipped"}
          /\ dependency' = [dependency EXCEPT ![t] = @ + 1]
          /\ UNCHANGED call
       \/ /\ call[Child(t)] = "returned" /\ Child(t) \in MayTerminate
          /\ call' = [call EXCEPT ![t] = "skipped"]
          /\ UNCHANGED dependency
       \/ /\ call[Child(t)] = "threw"
          /\ call' = [call EXCEPT ![t] = "threw"]
          /\ UNCHANGED dependency
    /\ UNCHANGED <<queueVars, stopWorkerThreads, taskVars, threadVars>>

\* Mutant: no thread takes the place of the worker that waits.
LaunchNobody(t) ==
    /\ ~HasDependencyLeft(t)
    /\ CallAt(t, "dependencies", "push")
    /\ UNCHANGED <<queueVars, stopWorkerThreads, taskVars, threadVars>>

\* With launchNewWorkerThread a thread is registered for the task and started.
LaunchNewWorkerThread(t) ==
    /\ ~HasDependencyLeft(t)
    /\ CallAt(t, "dependencies", "push")
    /\ IF t \in Launched
       THEN /\ registerThread(t)
            /\ pc' = [pc EXCEPT ![t] = "run"] /\ task' = [task EXCEPT ![t] = t]
       ELSE UNCHANGED <<taskVars, pc, task>>
    /\ UNCHANGED <<queueVars, stopWorkerThreads, thrown, pos>>

PushTaskIntoQueue(t) ==
    /\ CallAt(t, "push", "notify")
    /\ taskSchedulerMtx = NoThread
    /\ taskQueue' = Append(taskQueue, t)
    /\ UNCHANGED <<taskSchedulerMtx, stopWorkerThreads, taskVars, threadVars>>

\* Mutant: the workers are not notified.
wakeNoWorker == UNCHANGED pc

\* cv.notify_all of the scheduler: waiting workers compete for the mutex again.
wakeWorkers == pc' = [x \in Threads |-> IF pc[x] = "wait" THEN "lock" ELSE pc[x]]

NotifyWorkers(t) ==
    /\ CallAt(t, "notify", "test")
    /\ wakeWorkers
    /\ UNCHANGED <<queueVars, stopWorkerThreads, taskVars, task, thrown, pos>>

\* Under the mutex of the task: leave the loop, or wait.  A timeout or an
\* exception also interrupts the query here.
TestCompletion(t) ==
    /\ CallAt(t, "test", IF isCompletedNoLock(t) THEN "end" ELSE "wait")
    /\ UNCHANGED <<queueVars, stopWorkerThreads, taskVars, threadVars>>

\* wait_for times out, or a spurious wakeup.
CallWakesUp(t) ==
    /\ CallAt(t, "wait", "test")
    /\ UNCHANGED <<queueVars, stopWorkerThreads, taskVars, threadVars>>

\* taskQueue.erase: the tasks behind move up.
erase(i) == [j \in 1..(Len(taskQueue) - 1) |-> taskQueue[IF j < i THEN j ELSE j + 1]]

removeErroringTask(t) ==
    IF \E i \in DOMAIN taskQueue : taskQueue[i] = t
    THEN \E i \in DOMAIN taskQueue : taskQueue[i] = t /\ taskQueue' = erase(i)
    ELSE UNCHANGED taskQueue

\* Join the launched thread, removeErroringTask, and rethrow ...
ThrowException(t) ==
    /\ exception[t]
    /\ t \in Launched => pc[t] = "done"
    /\ CallAt(t, "end", "threw")
    /\ taskSchedulerMtx = NoThread
    /\ removeErroringTask(t)
    /\ UNCHANGED <<taskSchedulerMtx, stopWorkerThreads, taskVars, threadVars>>

\* ... or return.  The workers remove completed tasks from the queue.
ReturnFromCall(t) ==
    /\ ~exception[t]
    /\ t \in Launched => pc[t] = "done"
    /\ CallAt(t, "end", "returned")
    /\ UNCHANGED <<queueVars, stopWorkerThreads, taskVars, threadVars>>

(***************************************************************************)
(* Threads.                                                                *)
(***************************************************************************)
ThreadAt(x, from, to) == pc[x] = from /\ pc' = [pc EXCEPT ![x] = to]

\* Where a thread goes when its task's run has ended.
AfterRun(x, throws) ==
    IF x \in Workers THEN "lock" ELSE IF throws THEN "setException" ELSE "deregister"

RunEnds(x, throws) ==
    /\ pc' = [pc EXCEPT ![x] = AfterRun(x, throws)]
    /\ thrown' = [thrown EXCEPT ![x] = throws]
    /\ failed' = [failed EXCEPT ![task[x]] = @ \/ throws]
    /\ UNCHANGED <<queueVars, stopWorkerThreads, callVars, numThreadsRegistered,
                   numThreadsFinished, exception, finalized, task, pos>>

\* The task's run returns or throws.
RunTask(x) ==
    /\ pc[x] = "run"
    /\ \E throws \in BOOLEAN : RunEnds(x, throws)

\* The running task schedules another one and waits for it (GDSUtils).
ScheduleNested(x) ==
    /\ ThreadAt(x, "run", "nested")
    /\ Nested[task[x]] # NoTask
    /\ CallAt(Nested[task[x]], "none", "dependencies")
    /\ UNCHANGED <<queueVars, stopWorkerThreads, taskVars, task, thrown, pos>>

NestedEnds(x) ==
    /\ pc[x] = "nested"
    /\ LET n == Nested[task[x]]
       IN  \/ call[n] \in {"returned", "skipped"} /\ \E throws \in BOOLEAN : RunEnds(x, throws)
           \/ call[n] = "threw" /\ RunEnds(x, TRUE)

\* Mutant: the exception of the run is lost.
LockAndForget(w) ==
    /\ taskSchedulerMtx = NoThread
    /\ taskSchedulerMtx' = w
    /\ ThreadAt(w, "lock", IF task[w] = NoTask THEN "scan" ELSE "deregister")
    /\ UNCHANGED <<taskQueue, stopWorkerThreads, callVars, taskVars, task, thrown, pos>>

\* The worker locks the scheduler, with or without a task to leave.
LockScheduler(w) ==
    /\ taskSchedulerMtx = NoThread
    /\ taskSchedulerMtx' = w
    /\ ThreadAt(w, "lock", IF task[w] = NoTask THEN "scan"
                           ELSE IF thrown[w] THEN "setException" ELSE "deregister")
    /\ UNCHANGED <<taskQueue, stopWorkerThreads, callVars, taskVars, task, thrown, pos>>

SetException(x) ==
    /\ ThreadAt(x, "setException", "deregister")
    /\ exception' = [exception EXCEPT ![task[x]] = TRUE]
    /\ thrown' = [thrown EXCEPT ![x] = FALSE]
    /\ UNCHANGED <<queueVars, stopWorkerThreads, callVars, numThreadsRegistered,
                   numThreadsFinished, finalized, failed, task, pos>>

Deregister(x) ==
    /\ ThreadAt(x, "deregister", IF x \in Workers THEN "scan" ELSE "done")
    /\ deRegisterThreadAndFinalizeTask(task[x])
    /\ task' = [task EXCEPT ![x] = NoTask]
    /\ UNCHANGED <<queueVars, stopWorkerThreads, thrown, pos>>

AtTask(w, t) == pos[w] <= Len(taskQueue) /\ t = taskQueue[pos[w]]

\* getTaskAndRegister goes through the queue: it registers for a task ...
RegisterForTask(w) ==
    /\ \E t \in Tasks :
          /\ AtTask(w, t)
          /\ registerThread(t)
          /\ task' = [task EXCEPT ![w] = t]
    /\ ThreadAt(w, "scan", IF stopWorkerThreads THEN "stopped" ELSE "run")
    /\ taskSchedulerMtx' = NoThread
    /\ pos' = [pos EXCEPT ![w] = 1]
    /\ UNCHANGED <<taskQueue, stopWorkerThreads, callVars, thrown>>

\* ... or cannot, and looks whether the task is completed, which a launched
\* thread may do in between.
CannotRegister(w) ==
    /\ \E t \in Tasks : AtTask(w, t) /\ (exception[t] \/ ~canRegister(t))
    /\ ThreadAt(w, "scan", "check")
    /\ UNCHANGED <<queueVars, stopWorkerThreads, callVars, taskVars, task, thrown, pos>>

EraseOrSkip(w) ==
    /\ ThreadAt(w, "check", "scan")
    /\ IF isCompletedSuccessfully(taskQueue[pos[w]])
       THEN /\ taskQueue' = erase(pos[w])
            /\ UNCHANGED pos
       ELSE /\ pos' = [pos EXCEPT ![w] = @ + 1]
            /\ UNCHANGED taskQueue
    /\ UNCHANGED <<taskSchedulerMtx, stopWorkerThreads, callVars, taskVars, task, thrown>>

\* Nothing to do: wait, which unlocks the scheduler, or stop.
NoTaskFound(w) ==
    /\ pos[w] > Len(taskQueue)
    /\ ThreadAt(w, "scan", IF stopWorkerThreads THEN "stopped" ELSE "wait")
    /\ taskSchedulerMtx' = NoThread
    /\ pos' = [pos EXCEPT ![w] = 1]
    /\ UNCHANGED <<taskQueue, stopWorkerThreads, callVars, taskVars, task, thrown>>

\* A spurious wakeup.
WorkerWakesUp(w) ==
    /\ ThreadAt(w, "wait", "lock")
    /\ UNCHANGED <<queueVars, stopWorkerThreads, callVars, taskVars, task, thrown, pos>>

\* ~TaskScheduler, when the database is closed and no query runs any more.
Idle == \A t \in Tasks : call[t] \in {"none", "returned", "skipped", "threw"}
StopWorkerThreads ==
    /\ Idle /\ ~stopWorkerThreads
    /\ taskSchedulerMtx = NoThread
    /\ stopWorkerThreads' = TRUE
    /\ wakeWorkers
    /\ UNCHANGED <<queueVars, callVars, taskVars, task, thrown, pos>>

--------------------------------------------------------------------------------
CallStep(t) ==
    /\ UNCHANGED load
    /\ \/ ScheduleDependency(t) \/ DependencyReturns(t) \/ LaunchNewWorkerThread(t)
       \/ PushTaskIntoQueue(t) \/ NotifyWorkers(t) \/ TestCompletion(t)
       \/ ThrowException(t) \/ ReturnFromCall(t)

WorkerStep(w) ==
    /\ UNCHANGED load
    /\ \/ LockScheduler(w) \/ RegisterForTask(w) \/ CannotRegister(w) \/ EraseOrSkip(w)
       \/ NoTaskFound(w)

ThreadStep(x) ==
    /\ UNCHANGED load
    /\ \/ RunTask(x) \/ ScheduleNested(x) \/ NestedEnds(x) \/ SetException(x) \/ Deregister(x)

\* What need not happen: queries, timeouts and spurious wakeups, the end.
Environment ==
    /\ UNCHANGED load
    /\ \/ \E t \in Tasks : Submit(t) \/ CallWakesUp(t)
       \/ \E w \in Workers : WorkerWakesUp(w)
       \/ StopWorkerThreads

Stopped == \A w \in load.workers : pc[w] = "stopped"

Next ==
    \/ \E t \in Tasks : CallStep(t)
    \/ \E w \in Workers : WorkerStep(w)
    \/ \E x \in Threads : ThreadStep(x)
    \/ Environment
    \/ Stopped /\ UNCHANGED vars

Spec == Init /\ [][Next]_vars

\* Threads are scheduled, runs end, and a mutex that is free again and again is
\* granted to each that waits for it.
FairSpec ==
    /\ Spec
    /\ \A t \in Tasks : SF_vars(CallStep(t))
    /\ \A w \in Workers : SF_vars(WorkerStep(w))
    /\ \A x \in Threads : WF_vars(ThreadStep(x))

--------------------------------------------------------------------------------
(* Properties                                                               *)

\* The variables keep their types, and no task has more threads than it accepts.
TypeOK ==
    /\ load \in Loads
    /\ taskQueue \in Seq(Tasks)
    /\ taskSchedulerMtx \in Workers \union {NoThread} /\ stopWorkerThreads \in BOOLEAN
    /\ call \in [Tasks -> CallLabels] /\ dependency \in [Tasks -> Nat]
    /\ numThreadsRegistered \in [Tasks -> Nat] /\ numThreadsFinished \in [Tasks -> Nat]
    /\ \A t \in Tasks : numThreadsRegistered[t] <= MaxNumThreads[t]
    /\ exception \in [Tasks -> BOOLEAN] /\ finalized \in [Tasks -> Nat]
    /\ failed \in [Tasks -> BOOLEAN]
    /\ pc \in [Threads -> ThreadLabels] /\ task \in [Threads -> Tasks \union {NoTask}]
    /\ thrown \in [Threads -> BOOLEAN] /\ pos \in [Threads -> Nat \ {0}]

\* "Further no worker thread will be working on the given task" when
\* scheduleTaskAndWaitOrError has returned or thrown (task_scheduler.h): the
\* plan and its operators can be destroyed.
NoStragglers ==
    \A t \in Tasks : call[t] \in {"returned", "skipped", "threw"} => \A x \in Threads : ~WorksOn(x, t)

\* A thread works on a task only when the calls for all its dependencies have
\* returned: the results of a pipeline are complete before another reads them.
DependenciesFirst ==
    \A x \in Threads, t \in Tasks :
        WorksOn(x, t) => \A i \in DOMAIN Children[t] : call[Children[t][i]] = "returned"

\* A task whose call has returned was finalized exactly once, by its last thread,
\* and no task is ever finalized twice or while threads work on it.
FinalizedOnce ==
    \A t \in Tasks : /\ call[t] = "returned" => finalized[t] = 1
                     /\ finalized[t] <= 1
                     /\ finalized[t] = 1 => \A x \in Threads : ~WorksOn(x, t)

\* A call that returns has seen no error: no thread of its task, not its finalize and
\* none of its dependencies threw.  One that throws passes on such an error: none is
\* lost between the threads or between the calls, and none invented.
ErrorsReported ==
    \A t \in Tasks :
        /\ call[t] = "returned" =>
              ~failed[t] /\ \A i \in DOMAIN Children[t] : call[Children[t][i]] # "threw"
        /\ call[t] = "threw" => \/ failed[t]
                                \/ \E i \in DOMAIN Children[t] : call[Children[t][i]] = "threw"

\* While a worker walks the queue nobody else changes it: the iterators of
\* getTaskAndRegister stay valid.
IteratorsStayValid ==
    [][taskQueue' # taskQueue =>
          \A w \in Workers : pc[w] \in {"scan", "check"} => pc'[w] # pc[w]]_vars

\* A task that failed is not left in the queue, where workers would pass it for
\* ever (removeErroringTask).
NoErroringTaskLeft ==
    \A i \in DOMAIN taskQueue : call[taskQueue[i]] # "threw"

Ended(t) == call[t] \in {"returned", "skipped", "threw"}

\* Every query ends, although workers wait for tasks that only workers can run.
QueriesEnd == \A t \in Roots : (call[t] # "none") ~> Ended(t)

\* Closing the database ends: every worker thread is joined.
WorkersStop == stopWorkerThreads ~> Stopped
================================================================================
