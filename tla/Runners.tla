------------------------------- MODULE Runners -------------------------------
(***************************************************************************)
(* A SequenceRunner or an AsyncRunner of the task pool that several        *)
(* threads share by its name: execute, the end of tasks, discarding,       *)
(* cancellation, the collection of handles, the destruction of engines.    *)
(* js_concurrent_module/taskpool: base_runner.cpp, base_runner_manager.cpp, *)
(* sequence_runner.cpp, sequence_runner_manager.cpp, async_runner.cpp,     *)
(* async_runner_manager.cpp, and what task.cpp, task_manager.cpp,          *)
(* taskpool.cpp and worker.cpp do for the tasks of runners.                *)
(*                                                                         *)
(* An action is one critical section of runnersMutex_, of the taskMutex_   *)
(* of the runner, or of that of a task.  What a thread has still to do     *)
(* between two of them is its job.  A thread that goes on with a runner    *)
(* that has been deleted meanwhile finds nothing in it.  A task is         *)
(* executed by the thread that owns it, and only once.                     *)
(***************************************************************************)
EXTENDS Naturals, Sequences, FiniteSets

CONSTANTS
  Threads,   \* threads that own tasks and a handle of the runner
  Mortal,    \* threads whose engine may be destroyed
  Workers,   \* worker threads
  Tasks,
  Configs,   \* how the runner may have been constructed
  Owners,    \* which thread may have constructed which task
  None       \* no task, taskId 0

Config == [kind : {"sequence", "async"}, runningCapacity : Nat \ {0}, waitingCapacity : Nat]

ASSUME RunnerConstants ==
  /\ None \notin Tasks /\ Mortal \subseteq Threads /\ IsFiniteSet(Threads)
  /\ Threads \cap Workers = {}
  /\ Configs \subseteq Config /\ Owners \subseteq [Tasks -> Threads]
  /\ \A c \in Configs : c.kind = "sequence" => c.runningCapacity = 1 /\ c.waitingCapacity = 0

VARIABLES
  config,         \* kind and capacities of the runner; 0 is no waiting limit
  alive,          \* the runner is in BaseRunnerManager::runners_
  refCount,       \* BaseRunner::refCount_
  handles,        \* threads with a JS object that wraps the runner
  tasks,          \* BaseRunner::tasks_, what waits in the runner
  currentTaskId,  \* SequenceRunner::currentTaskId_
  runningCount,   \* AsyncRunner::runningCount_
  env,            \* the engines of the threads
  owner,          \* Task::env_
  taskState,      \* Task::taskState_
  promise,        \* the promise of execute
  taskQueue,      \* tasks in the queues of the TaskManager
  performing,     \* tasks that a worker performs
  results,        \* tasks whose result is posted to their owner
  cancelSignal,   \* tasks with a message for CancelInner
  discardSignal,  \* tasks with a message for DiscardInner
  job             \* what each thread and worker has still to do

runnerVars == <<config, alive, refCount, handles, tasks, currentTaskId, runningCount>>
taskVars == <<owner, taskState, promise>>
placeVars == <<taskQueue, performing, results, cancelSignal, discardSignal>>
vars == <<runnerVars, env, taskVars, placeVars, job>>

Procs == Threads \cup Workers
Jobs == [op : {"idle", "enqueue", "add", "discard", "unref", "trigger", "start", "remove"},
         task : Tasks \cup {None}, next : Tasks \cup {None}, cancels : BOOLEAN]
Idle == [op |-> "idle", task |-> None, next |-> None, cancels |-> FALSE]
Job(op, x) == [Idle EXCEPT !.op = op, !.task = x]

TypeOK ==
  /\ config \in Configs
  /\ alive \in BOOLEAN /\ refCount \in Nat /\ handles \subseteq Threads
  /\ tasks \in Seq(Tasks)
  /\ currentTaskId \in Tasks \cup {None}
  /\ runningCount \in Nat
  /\ env \in [Threads -> {"alive", "closing", "dead"}]
  /\ owner \in Owners
  /\ taskState \in [Tasks -> {"notFound", "waiting", "running", "canceled", "finished"}]
  /\ promise \in [Tasks -> {"none", "open", "settled", "settledTwice"}]
  /\ taskQueue \subseteq Tasks /\ performing \subseteq Tasks /\ results \subseteq Tasks
  /\ cancelSignal \subseteq Tasks /\ discardSignal \subseteq Tasks
  /\ job \in [Procs -> Jobs]

(* Every thread has constructed the runner by its name.                    *)
Init ==
  /\ config \in Configs
  /\ alive = TRUE /\ handles = Threads /\ refCount = Cardinality(Threads)
  /\ tasks = <<>> /\ currentTaskId = None /\ runningCount = 0
  /\ env = [t \in Threads |-> "alive"]
  /\ owner \in Owners
  /\ taskState = [x \in Tasks |-> "notFound"]
  /\ promise = [x \in Tasks |-> "none"]
  /\ taskQueue = {} /\ performing = {} /\ results = {}
  /\ cancelSignal = {} /\ discardSignal = {}
  /\ job = [p \in Procs |-> Idle]

----------------------------------------------------------------------------
Sequential == config.kind = "sequence"
IsValid(x) == env[owner[x]] = "alive"
\* While an engine is closing, its tasks become invalid one after the other.
MayBeValid(x) == env[owner[x]] # "dead"
MayBeInvalid(x) == env[owner[x]] # "alive"
Executed(x) == promise[x] # "none"
IsIdle(p) == job[p] = Idle
Free(t) == IsIdle(t) /\ env[t] = "alive"
Doing(p, op) == job[p].op = op
Then(p, next) == job' = [job EXCEPT ![p] = next]
InTasks(x) == \E i \in DOMAIN tasks : tasks[i] = x
TaskMutexIsFree == \A p \in Procs : job[p].op # "start"

Settle(x) == promise' = [promise EXCEPT ![x] = IF @ = "open" THEN "settled" ELSE "settledTwice"]

Less(n) == IF n > 0 THEN n - 1 ELSE 0

(* UnrefAndDestroyRunner: a runner without references is deleted, with     *)
(* the tasks that are left in it.                                          *)
Unref(left) ==
  /\ refCount' = Less(refCount)
  /\ alive' = (Less(refCount) # 0)
  /\ tasks' = IF Less(refCount) # 0 THEN left ELSE <<>>

----------------------------------------------------------------------------
(* execute *)

(* SequenceRunner::Execute up to UpdateCurrentTaskId.  FindRunnerAndRef,   *)
(* just before, counts the task.                                           *)
ExecuteSequence(t, x) ==
  /\ Free(t) /\ t \in handles /\ owner[x] = t /\ ~Executed(x)
  /\ alive /\ Sequential /\ TaskMutexIsFree
  /\ promise' = [promise EXCEPT ![x] = "open"]
  /\ refCount' = refCount + 1
  /\ \/ /\ currentTaskId = None
        /\ currentTaskId' = x
        /\ Then(t, Job("enqueue", x))
     \/ /\ currentTaskId # None
        /\ Then(t, Job("add", x))
        /\ UNCHANGED currentTaskId
  /\ UNCHANGED <<config, alive, handles, tasks, runningCount, env, owner, taskState, placeVars>>

(* AddTaskToSeqRunner *)
AddTask(t) ==
  /\ Doing(t, "add") /\ alive /\ TaskMutexIsFree
  /\ tasks' = Append(tasks, job[t].task)
  /\ Then(t, Idle)
  /\ UNCHANGED <<config, alive, refCount, handles, currentTaskId, runningCount, env, taskVars, placeVars>>

\* Mutant: the running capacity is overlooked by one.
HasRoomForOneMore == runningCount <= config.runningCapacity

HasRoom == runningCount < config.runningCapacity
IsFull == config.waitingCapacity # 0 /\ Len(tasks) = config.waitingCapacity

(* AsyncRunner::Execute with AddTasksToAsyncRunner: a full waiting list    *)
(* loses its oldest task.                                                  *)
ExecuteAsync(t, x) ==
  /\ Free(t) /\ t \in handles /\ owner[x] = t /\ ~Executed(x)
  /\ alive /\ ~Sequential /\ TaskMutexIsFree
  /\ promise' = [promise EXCEPT ![x] = "open"]
  /\ refCount' = refCount + 1
  /\ \/ /\ HasRoom
        /\ runningCount' = runningCount + 1
        /\ Then(t, Job("enqueue", x))
        /\ UNCHANGED <<tasks, taskState>>
     \/ /\ ~HasRoom /\ IsFull
        /\ tasks' = Append(Tail(tasks), x)
        /\ taskState' = [taskState EXCEPT ![Head(tasks)] = "canceled"]
        /\ Then(t, Job("discard", Head(tasks)))
        /\ UNCHANGED runningCount
     \/ /\ ~HasRoom /\ ~IsFull
        /\ tasks' = Append(tasks, x)
        /\ UNCHANGED <<runningCount, taskState, job>>
  /\ UNCHANGED <<config, alive, handles, currentTaskId, env, owner, placeVars>>

(* ExecuteTaskImmediately: a task that has been cancelled already stays so *)
(* but is queued all the same.                                             *)
EnqueueTaskId(t) ==
  LET x == job[t].task IN
  /\ Doing(t, "enqueue")
  /\ taskState' = [taskState EXCEPT ![x] = IF @ = "notFound" THEN "waiting" ELSE @]
  /\ taskQueue' = taskQueue \cup {x}
  /\ Then(t, Idle)
  /\ UNCHANGED <<runnerVars, env, owner, promise, performing, results, cancelSignal, discardSignal>>

(* TriggerRejectErrorTimer for a task that has left the waiting list: it   *)
(* counts no more, and its owner is told to reject the promise.            *)
RejectError(t) ==
  LET x == job[t].task IN
  /\ Doing(t, "discard")
  /\ \/ /\ MayBeValid(x)
        /\ Unref(tasks)
        /\ discardSignal' = discardSignal \cup {x}
     \/ MayBeInvalid(x) /\ UNCHANGED <<refCount, alive, tasks, discardSignal>>
  /\ Then(t, Idle)
  /\ UNCHANGED <<config, handles, currentTaskId, runningCount, env, taskVars,
                 taskQueue, performing, results, cancelSignal>>

----------------------------------------------------------------------------
(* The workers. *)

(* ShouldDeleteTask, for a task whose engine is gone: a sequence runner    *)
(* goes on, an asynchronous one only counts the task out.                  *)
DropTask(w, x) ==
  \/ Sequential /\ Then(w, Job("unref", x)) /\ UNCHANGED runningCount
  \/ /\ ~Sequential
     /\ runningCount' = IF alive THEN Less(runningCount) ELSE runningCount
     /\ UNCHANGED job

\* Mutant: a task that has been cancelled is not performed.
UpdateTaskUnlessCanceled(x) ==
  /\ performing' = IF taskState[x] = "canceled" THEN performing ELSE performing \cup {x}
  /\ taskState' = [taskState EXCEPT ![x] = IF @ = "canceled" THEN @ ELSE "running"]

(* A task that has been cancelled meanwhile is performed all the same.     *)
UpdateTask(x) ==
  /\ performing' = performing \cup {x}
  /\ taskState' = [taskState EXCEPT ![x] = IF @ = "canceled" THEN @ ELSE "running"]

PerformTask(w, x) ==
  /\ IsIdle(w) /\ x \in taskQueue
  /\ taskQueue' = taskQueue \ {x}
  /\ \/ /\ MayBeValid(x)
        /\ UpdateTask(x)
        /\ UNCHANGED <<runningCount, job>>
     \/ MayBeInvalid(x) /\ DropTask(w, x) /\ UNCHANGED <<performing, taskState>>
  /\ UNCHANGED <<config, alive, refCount, handles, tasks, currentTaskId, env, owner, promise,
                 results, cancelSignal, discardSignal>>

(* NotifyHandleTaskResult *)
NotifyTaskResult(w, x) ==
  /\ IsIdle(w) /\ x \in performing
  /\ performing' = performing \ {x}
  /\ \/ MayBeValid(x) /\ results' = results \cup {x} /\ UNCHANGED <<runningCount, job>>
     \/ MayBeInvalid(x) /\ DropTask(w, x) /\ UNCHANGED results
  /\ UNCHANGED <<config, alive, refCount, handles, tasks, currentTaskId, env, taskVars,
                 taskQueue, cancelSignal, discardSignal>>

----------------------------------------------------------------------------
(* The end of a task. *)

(* HandleTaskResult, then TriggerSeqRunner or TriggerAsyncRunner. *)
HandleTaskResult(t, x) ==
  /\ Free(t) /\ x \in results /\ owner[x] = t
  /\ results' = results \ {x}
  /\ Settle(x)
  /\ taskState' = [taskState EXCEPT ![x] = "finished"]
  /\ Then(t, Job("unref", x))
  /\ UNCHANGED <<runnerVars, env, owner, taskQueue, performing, cancelSignal, discardSignal>>

(* CancelAsyncRunnerTask has still to look among the waiting tasks. *)
AfterTrigger(p) == IF job[p].cancels THEN Job("remove", job[p].task) ELSE Idle

(* GetRunner and UnrefAndDestroyRunner *)
UnrefRunner(p) ==
  /\ Doing(p, "unref") /\ alive
  /\ Unref(tasks)
  /\ Then(p, IF alive' THEN [job[p] EXCEPT !.op = "trigger"] ELSE AfterTrigger(p))
  /\ UNCHANGED <<config, handles, currentTaskId, runningCount, env, taskVars, placeVars>>

(* The waiting tasks before the first one that is not cancelled. *)
Canceled(i) == taskState[tasks[i]] = "canceled"
FrontCanceled == {i \in DOMAIN tasks : \A j \in 1..i : Canceled(j)}

\* Mutants: a cancelled task is not counted out, or twice.
NotCountedOut(n) == refCount
CountedOutTwice(n) == refCount - 2 * n

CountedOut(n) == IF refCount > n THEN refCount - n ELSE 0

(* SequenceRunner::TriggerTask up to the choice of the next task.  Those   *)
(* that have been cancelled are counted out, but the runner is not         *)
(* destroyed here.                                                         *)
TriggerTask(p) ==
  LET n == Cardinality(FrontCanceled) IN
  /\ Doing(p, "trigger") /\ Sequential /\ TaskMutexIsFree
  /\ \/ /\ alive /\ currentTaskId = job[p].task
        /\ refCount' = CountedOut(n)
        /\ cancelSignal' = cancelSignal \cup {x \in {tasks[i] : i \in FrontCanceled} : IsValid(x)}
        /\ \/ /\ n = Len(tasks)
              /\ tasks' = <<>> /\ currentTaskId' = None
              /\ Then(p, Idle)
           \/ /\ n < Len(tasks)
              /\ tasks' = SubSeq(tasks, n + 2, Len(tasks))
              /\ Then(p, [Job("start", job[p].task) EXCEPT !.next = tasks[n + 1]])
              /\ UNCHANGED currentTaskId
     \/ /\ ~alive \/ currentTaskId # job[p].task
        /\ Then(p, Idle)
        /\ UNCHANGED <<refCount, tasks, currentTaskId, cancelSignal>>
  /\ UNCHANGED <<config, alive, handles, runningCount, env, taskVars,
                 taskQueue, performing, results, discardSignal>>

(* ... and the rest.  A cancellation that has come in between is undone.   *)
StartNext(p) ==
  LET x == job[p].next IN
  /\ Doing(p, "start")
  /\ currentTaskId' = x
  /\ taskState' = [taskState EXCEPT ![x] = "waiting"]
  /\ taskQueue' = taskQueue \cup {x}
  /\ Then(p, Idle)
  /\ UNCHANGED <<config, alive, refCount, handles, tasks, runningCount, env, owner, promise,
                 performing, results, cancelSignal, discardSignal>>

(* AsyncRunner::TriggerWaitingTask: one task less is running, and as many  *)
(* waiting ones are started as there is room for, cancelled or not.        *)
TriggerWaitingTask(p) ==
  LET running == Less(runningCount)
      room == IF running < config.runningCapacity THEN config.runningCapacity - running ELSE 0
      n == IF room < Len(tasks) THEN room ELSE Len(tasks)
      started == {tasks[i] : i \in 1..n}
  IN
  /\ Doing(p, "trigger") /\ ~Sequential /\ TaskMutexIsFree
  /\ \/ /\ alive
        /\ runningCount' = running + n
        /\ tasks' = SubSeq(tasks, n + 1, Len(tasks))
        /\ taskState' = [x \in Tasks |-> IF x \in started THEN "waiting" ELSE taskState[x]]
        /\ taskQueue' = taskQueue \cup started
     \/ ~alive /\ UNCHANGED <<runningCount, tasks, taskState, taskQueue>>
  /\ Then(p, AfterTrigger(p))
  /\ UNCHANGED <<config, alive, refCount, handles, currentTaskId, env, owner, promise,
                 performing, results, cancelSignal, discardSignal>>

----------------------------------------------------------------------------
(* Cancellation, on any thread. *)

\* Mutant: a cancelled task is rejected while it waits.
CancelAndReject(t, x) ==
  /\ Free(t) /\ Executed(x) /\ Sequential
  /\ taskState[x] \notin {"canceled", "finished"}
  /\ taskState' = [taskState EXCEPT ![x] = "canceled"]
  /\ cancelSignal' = cancelSignal \cup {x}
  /\ UNCHANGED <<runnerVars, env, owner, promise, taskQueue, performing, results, discardSignal, job>>

(* CancelSeqRunnerTask: TriggerTask will find the task cancelled. *)
CancelSeqRunnerTask(t, x) ==
  /\ Free(t) /\ Executed(x) /\ Sequential
  /\ taskState[x] \notin {"canceled", "finished"}
  /\ taskState' = [taskState EXCEPT ![x] = "canceled"]
  /\ UNCHANGED <<runnerVars, env, owner, promise, placeVars, job>>

(* CancelAsyncRunnerTask up to EraseWaitingTaskId.  A task taken out of    *)
(* the queue counts out like one that is done.                             *)
CancelAsyncRunnerTask(t, x) ==
  /\ Free(t) /\ Executed(x) /\ ~Sequential
  /\ taskState[x] \notin {"canceled", "finished"}
  /\ taskState' = [taskState EXCEPT ![x] = "canceled"]
  /\ \/ /\ taskState[x] = "waiting" /\ x \in taskQueue
        /\ taskQueue' = taskQueue \ {x}
        /\ discardSignal' = IF IsValid(x) THEN discardSignal \cup {x} ELSE discardSignal
        /\ Then(t, [Job("unref", x) EXCEPT !.cancels = TRUE])
     \/ /\ ~(taskState[x] = "waiting" /\ x \in taskQueue)
        /\ Then(t, IF alive THEN Job("remove", x) ELSE Idle)
        /\ UNCHANGED <<taskQueue, discardSignal>>
  /\ UNCHANGED <<runnerVars, env, owner, promise, performing, results, cancelSignal>>

PositionOf(x) == CHOOSE i \in DOMAIN tasks : tasks[i] = x
WithoutTask(x) ==
  IF InTasks(x) THEN SubSeq(tasks, 1, PositionOf(x) - 1) \o SubSeq(tasks, PositionOf(x) + 1, Len(tasks))
  ELSE tasks

(* ... and the rest: RemoveWaitingTask. *)
RemoveWaitingTask(t) ==
  LET x == job[t].task IN
  /\ Doing(t, "remove") /\ TaskMutexIsFree
  /\ tasks' = WithoutTask(x)
  /\ Then(t, IF InTasks(x) THEN Job("discard", x) ELSE Idle)
  /\ UNCHANGED <<config, alive, refCount, handles, currentTaskId, runningCount, env,
                 taskVars, placeVars>>

(* The owner of a task hears of its cancellation. *)
CancelInner(t, x) ==
  /\ Free(t) /\ x \in cancelSignal /\ owner[x] = t
  /\ cancelSignal' = cancelSignal \ {x}
  /\ Settle(x)
  /\ UNCHANGED <<runnerVars, env, owner, taskState, taskQueue, performing, results,
                 discardSignal, job>>

DiscardInner(t, x) ==
  /\ Free(t) /\ x \in discardSignal /\ owner[x] = t
  /\ discardSignal' = discardSignal \ {x}
  /\ Settle(x)
  /\ UNCHANGED <<runnerVars, env, owner, taskState, taskQueue, performing, results,
                 cancelSignal, job>>

----------------------------------------------------------------------------
(* Handles and engines. *)

(* The handle of t is collected. *)
RunnerDestructor(t) ==
  /\ Free(t) /\ t \in handles
  /\ handles' = handles \ {t}
  /\ Unref(tasks)
  /\ UNCHANGED <<config, currentTaskId, runningCount, env, taskVars, placeVars, job>>

(* The engine of t is destroyed: the cleanup hooks of its tasks run, its   *)
(* objects are finalized, and what is posted to it is never delivered.     *)
DestroyEngine(t) ==
  /\ t \in Mortal /\ Free(t)
  /\ env' = [env EXCEPT ![t] = "closing"]
  /\ UNCHANGED <<runnerVars, taskVars, placeVars, job>>

(* Task::CleanupHookFunc, with RemoveWaitingTask *)
CleanupHookFunc(x) ==
  /\ env[owner[x]] = "closing" /\ InTasks(x) /\ TaskMutexIsFree
  /\ Unref(WithoutTask(x))
  /\ UNCHANGED <<config, handles, currentTaskId, runningCount, env, taskVars, placeVars, job>>

EngineDestroyed(t) ==
  LET Delivered(S) == {x \in S : owner[x] # t} IN
  /\ env[t] = "closing" /\ TaskMutexIsFree
  /\ \A x \in Tasks : owner[x] = t => ~InTasks(x)
  /\ env' = [env EXCEPT ![t] = "dead"]
  /\ \/ t \in handles /\ handles' = handles \ {t} /\ Unref(tasks)
     \/ t \notin handles /\ UNCHANGED <<handles, refCount, alive, tasks>>
  /\ results' = Delivered(results)
  /\ cancelSignal' = Delivered(cancelSignal) /\ discardSignal' = Delivered(discardSignal)
  /\ UNCHANGED <<config, currentTaskId, runningCount, taskVars, taskQueue, performing, job>>

----------------------------------------------------------------------------
(* What a thread or a worker goes on with. *)
Step(p) ==
  \/ EnqueueTaskId(p)
  \/ AddTask(p)
  \/ RejectError(p)
  \/ UnrefRunner(p)
  \/ TriggerTask(p)
  \/ StartNext(p)
  \/ TriggerWaitingTask(p)
  \/ RemoveWaitingTask(p)

(* What the loop of an engine finds posted to it. *)
Deliver(t, x) == HandleTaskResult(t, x) \/ CancelInner(t, x) \/ DiscardInner(t, x)

Work(w, x) == PerformTask(w, x) \/ NotifyTaskResult(w, x)

Next ==
  \/ \E p \in Procs : Step(p)
  \/ \E t \in Threads :
       \/ RunnerDestructor(t) \/ DestroyEngine(t) \/ EngineDestroyed(t)
       \/ \E x \in Tasks : \/ ExecuteSequence(t, x) \/ ExecuteAsync(t, x)
                          \/ CancelSeqRunnerTask(t, x) \/ CancelAsyncRunnerTask(t, x)
                          \/ Deliver(t, x)
  \/ \E w \in Workers, x \in Tasks : Work(w, x)
  \/ \E x \in Tasks : CleanupHookFunc(x)

Spec == Init /\ [][Next]_vars

(* Threads go on with what they have begun and deliver what is posted to   *)
(* them; workers perform what is queued.                                   *)
Fairness ==
  /\ \A t \in Threads : WF_vars(Step(t) \/ \E x \in Tasks : Deliver(t, x))
  /\ \A w \in Workers : WF_vars(Step(w) \/ \E x \in Tasks : Work(w, x))

FairSpec == Spec /\ Fairness

----------------------------------------------------------------------------
(* What must hold. *)

JobsOf(ops) == {job[p].task : p \in {q \in Procs : job[q].op \in ops}}
Started == {job[p].next : p \in {q \in Procs : job[q].op = "start"}}

(* Tasks that take up the capacity of the runner: from the moment they are *)
(* let in until the next ones are.                                         *)
InFlight == taskQueue \cup performing \cup results \cup JobsOf({"enqueue", "unref", "trigger"})

(* A sequence runner runs one task at a time, and an asynchronous runner   *)
(* no more than its runningCapacity, on whatever threads tasks are         *)
(* executed, finish, are cancelled and discarded.                          *)
WithinCapacity == Cardinality(InFlight) <= config.runningCapacity

(* The tasks that hold a reference of the runner. *)
Counted ==
  {x \in Tasks : InTasks(x)} \cup taskQueue \cup performing \cup results \cup Started
    \cup JobsOf({"enqueue", "add", "discard"})
    \cup {job[p].task : p \in {q \in Procs : job[q].op = "unref"}}

(* The runner is not deleted under a handle or a task that still needs it, *)
(* and as long as every engine lives its count is exact.                   *)
RefCountIsExact ==
  /\ alive => refCount >= Cardinality(handles) + Cardinality(Counted)
  /\ alive /\ (\A t \in Threads : env[t] = "alive")
       => refCount = Cardinality(handles) + Cardinality(Counted)
  /\ ~alive => handles = {} /\ Counted = {}

(* A task of a live engine that has been executed and not settled is in    *)
(* one place, and one that has been settled is nowhere: it is neither lost *)
(* nor started twice nor told of its end twice.                            *)
Places(x) ==
  Cardinality({i \in DOMAIN tasks : tasks[i] = x})
  + Cardinality({p \in Procs : job[p].op \in {"enqueue", "add"} /\ job[p].task = x})
  + Cardinality({p \in Procs : job[p].op = "discard" /\ job[p].task = x})
  + Cardinality({p \in Procs : job[p].next = x})
  + Cardinality({S \in {<<1, taskQueue>>, <<2, performing>>, <<3, results>>, <<4, cancelSignal>>,
                         <<5, discardSignal>>} : x \in S[2]})

OnePlace ==
  \A x \in Tasks : IsValid(x) => Places(x) = IF promise[x] = "open" THEN 1 ELSE 0

(* The tasks of a sequence runner that has no current one: execute found   *)
(* the runner busy, and added the task when it had become idle.            *)
Stranded(x) == Sequential /\ currentTaskId = None /\ InTasks(x)

(* Every promise is settled in the end, unless an engine is destroyed or   *)
(* the task was stranded.                                                  *)
PromisesSettle ==
  \A x \in Tasks : promise[x] = "open"
    ~> \/ promise[x] # "open"
       \/ Stranded(x)
       \/ \E t \in Threads : env[t] # "alive"
=============================================================================
