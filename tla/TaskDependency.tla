--------------------------- MODULE TaskDependency ---------------------------
(***************************************************************************)
(* Dependencies between the tasks of the task pool: addDependency,         *)
(* removeDependency, execute, cancel and the release of Task objects on    *)
(* their own (host) thread, and the workers that dequeue and perform the   *)
(* tasks.  js_concurrent_module/taskpool: task.cpp, task_manager.cpp,      *)
(* taskpool.cpp, worker.cpp, task_queue.cpp.                               *)
(*                                                                         *)
(* All tasks that depend on each other belong to one host thread; its      *)
(* operations are split where a worker, or another thread that cancels a   *)
(* task, can come between.  A worker holds taskQueuesMutex_ from the       *)
(* moment it takes a task out of the queue until it has parked it or       *)
(* decided to perform it.  One priority is modelled, and every task is     *)
(* executed at most once, as a task with dependencies can be.              *)
(***************************************************************************)
EXTENDS Naturals, Sequences, FiniteSets

CONSTANTS
  Tasks,    \* taskIds
  Workers,  \* worker threads
  Uses,     \* what the clients make use of
  None      \* no task, taskId 0

ASSUME TaskConstants ==
  /\ None \notin Tasks
  /\ Uses \subseteq {"again", "cancel", "release", "remove"}

VARIABLES
  taskState,          \* Task::taskState_
  hasDependency,      \* Task::hasDependency_
  currentTaskInfo,    \* tasks whose Task::currentTaskInfo_ is not null
  promise,            \* the promise execute returned
  dependTaskInfos,    \* TaskManager::dependTaskInfos_: what a task waits for
  dependentTaskInfos, \* TaskManager::dependentTaskInfos_: who waits for a task
  pendingTaskInfos,   \* TaskManager::pendingTaskInfos_
  taskQueue,          \* the ExecuteQueue of the priority
  worker,             \* what each worker does, and to which task
  results,            \* tasks whose result is posted to the host thread
  cancelMessage,      \* the state in which a task has been cancelled
  host                \* what the host thread is in the middle of

graph == <<dependTaskInfos, dependentTaskInfos>>
vars == <<taskState, hasDependency, currentTaskInfo, promise, graph,
          pendingTaskInfos, taskQueue, worker, results, cancelMessage, host>>

NoWork == [pc |-> "idle", task |-> None]
HostIdle == [op |-> "idle", task |-> None, found |-> FALSE, edges |-> {},
             next |-> None]

TypeOK ==
  /\ taskState \in [Tasks -> {"notFound", "waiting", "running", "canceled",
                              "finished", "released"}]
  /\ hasDependency \in [Tasks -> BOOLEAN]
  /\ currentTaskInfo \subseteq Tasks
  /\ promise \in [Tasks -> {"none", "open", "settled", "abandoned"}]
  /\ DOMAIN dependTaskInfos \subseteq Tasks
  /\ \A t \in DOMAIN dependTaskInfos : dependTaskInfos[t] \subseteq Tasks
  /\ dependentTaskInfos \in [Tasks -> SUBSET Tasks]
  /\ pendingTaskInfos \subseteq Tasks
  /\ taskQueue \in Seq(Tasks)
  /\ worker \in [Workers -> [pc : {"idle", "parking", "ready", "running"},
                             task : Tasks \cup {None}]]
  /\ results \subseteq Tasks
  /\ cancelMessage \in [Tasks -> {None, "waiting", "running"}]
  /\ host \in [op : {"idle", "notify", "drop", "cancel"},
               task : Tasks \cup {None}, found : BOOLEAN,
               edges : SUBSET (Tasks \X Tasks), next : Tasks \cup {None}]

Init ==
  /\ taskState = [t \in Tasks |-> "notFound"]
  /\ hasDependency = [t \in Tasks |-> FALSE]
  /\ currentTaskInfo = {} /\ results = {} /\ pendingTaskInfos = {}
  /\ promise = [t \in Tasks |-> "none"]
  /\ dependTaskInfos = <<>>
  /\ dependentTaskInfos = [t \in Tasks |-> {}]
  /\ taskQueue = <<>>
  /\ worker = [w \in Workers |-> NoWork]
  /\ cancelMessage = [t \in Tasks |-> None]
  /\ host = HostIdle

----------------------------------------------------------------------------
(* The tables of the TaskManager. *)

DependsOn(t) == IF t \in DOMAIN dependTaskInfos THEN dependTaskInfos[t] ELSE {}
IsDependend(t) == DependsOn(t) # {}
Queued(t) == \E i \in DOMAIN taskQueue : taskQueue[i] = t
HostIsIdle == host.op = "idle"
QueueMutexIsFree == \A w \in Workers : worker[w].pc # "parking"

\* ExecuteQueue::EraseWaitingTaskId, for a task that is queued
Position(t) == CHOOSE i \in DOMAIN taskQueue : taskQueue[i] = t
WithoutQueued(t) == SubSeq(taskQueue, 1, Position(t) - 1)
                    \o SubSeq(taskQueue, Position(t) + 1, Len(taskQueue))

\* What the tasks of S wait for, directly or not, and S itself.
Upstream(S) ==
  {x \in Tasks : \A C \in SUBSET Tasks :
     S \subseteq C /\ (\A y \in C : DependsOn(y) \subseteq C) => x \in C}

\* Mutant: only the tasks next to the new ones are looked at.
DirectlyCircular(t, S) == \E p \in S : t \in DependsOn(p)

\* CheckCircularDependency, from every task of S: is t found on the way?
Circular(t, S) == t \in Upstream(UNION {DependsOn(p) : p \in S})

\* dependTaskInfos_ with the entry of t replaced
Depend(t, S) ==
  [x \in DOMAIN dependTaskInfos \cup {t} |->
     IF x = t THEN S ELSE dependTaskInfos[x]]

\* dependTaskInfos_ without p in the entry of t, if it has one
WithoutEdge(t, p) ==
  [x \in DOMAIN dependTaskInfos |->
     IF x = t THEN dependTaskInfos[x] \ {p} ELSE dependTaskInfos[x]]

(* StoreTaskDependency: a task that already has an entry has the entry     *)
(* checked for circles as it is, not with what is about to be added.       *)
(* dependentTaskInfos_ has been updated before the check in either case.   *)
StoreTaskDependency(t, S) ==
  /\ dependentTaskInfos' = [p \in Tasks |->
        IF p \in S THEN dependentTaskInfos[p] \cup {t} ELSE dependentTaskInfos[p]]
  /\ dependTaskInfos' =
        IF t \in DOMAIN dependTaskInfos
        THEN IF Circular(t, DependsOn(t)) THEN dependTaskInfos
             ELSE Depend(t, DependsOn(t) \cup S)
        ELSE IF Circular(t, S) THEN dependTaskInfos ELSE Depend(t, S)

----------------------------------------------------------------------------
(* The host thread: what the clients call. *)

\* Mutant: a task that has been executed may still get a dependency.
AddDependencyLate(t, S) ==
  /\ HostIsIdle /\ S # {} /\ t \notin S
  /\ taskState[t] # "released" /\ \A p \in S : taskState[p] = "notFound"
  /\ "again" \in Uses \/ t \notin DOMAIN dependTaskInfos
  /\ hasDependency' = [x \in Tasks |-> hasDependency[x] \/ x \in S \cup {t}]
  /\ StoreTaskDependency(t, S)
  /\ UNCHANGED <<taskState, currentTaskInfo, promise, pendingTaskInfos,
                 taskQueue, worker, results, cancelMessage, host>>

(* addDependency: neither the task nor those it is to wait for have been   *)
(* executed.  The clients that do not use "again" add to a task once.      *)
AddDependency(t, S) ==
  /\ HostIsIdle /\ S # {} /\ t \notin S
  /\ \A x \in S \cup {t} : taskState[x] = "notFound"
  /\ "again" \in Uses \/ t \notin DOMAIN dependTaskInfos
  /\ hasDependency' = [x \in Tasks |-> hasDependency[x] \/ x \in S \cup {t}]
  /\ StoreTaskDependency(t, S)
  /\ UNCHANGED <<taskState, currentTaskInfo, promise, pendingTaskInfos,
                 taskQueue, worker, results, cancelMessage, host>>

(* addDependency that throws on one of its arguments: the flags set so far *)
(* stay set.                                                               *)
AddDependencyFails(t, S) ==
  /\ HostIsIdle
  /\ \A x \in S \cup {t} : taskState[x] = "notFound"
  /\ hasDependency' = [x \in Tasks |-> hasDependency[x] \/ x \in S \cup {t}]
  /\ UNCHANGED <<taskState, currentTaskInfo, promise, graph, pendingTaskInfos,
                 taskQueue, worker, results, cancelMessage, host>>

\* Mutant: it is enough that the task waits for no other.
StillWaits(t, depend, dependent) ==
  hasDependency[t] /\ t \in DOMAIN depend /\ depend[t] # {}

(* TryClearHasDependency, for a task that has not been executed. *)
StillHasDependency(t, depend, dependent) ==
  /\ hasDependency[t]
  /\ \/ t \in DOMAIN depend /\ depend[t] # {}
     \/ dependent[t] # {}

RemoveDependency(t, p) ==
  /\ "remove" \in Uses
  /\ HostIsIdle
  /\ taskState[t] = "notFound" /\ taskState[p] = "notFound"
  /\ hasDependency[t] /\ hasDependency[p]
  /\ dependentTaskInfos' = [dependentTaskInfos EXCEPT ![p] = @ \ {t}]
  /\ \/ /\ p \in DependsOn(t)
        /\ dependTaskInfos' = WithoutEdge(t, p)
        /\ hasDependency' = [x \in Tasks |->
             IF x \in {t, p}
             THEN StillHasDependency(x, WithoutEdge(t, p),
                    [dependentTaskInfos EXCEPT ![p] = @ \ {t}])
             ELSE hasDependency[x]]
     \/ /\ p \notin DependsOn(t)     \* ERR_INEXISTENT_DEPENDENCY
        /\ UNCHANGED <<dependTaskInfos, hasDependency>>
  /\ UNCHANGED <<taskState, currentTaskInfo, promise, pendingTaskInfos,
                 taskQueue, worker, results, cancelMessage, host>>

(* execute, up to EnqueueTaskId *)
Execute(t) ==
  /\ HostIsIdle /\ QueueMutexIsFree
  /\ taskState[t] = "notFound"
  /\ taskState' = [taskState EXCEPT ![t] = "waiting"]
  /\ currentTaskInfo' = currentTaskInfo \cup {t}
  /\ promise' = [promise EXCEPT ![t] = "open"]
  /\ taskQueue' = Append(taskQueue, t)
  /\ UNCHANGED <<hasDependency, graph, pendingTaskInfos, worker, results,
                 cancelMessage, host>>

(* A Task object that nothing refers to is collected: ReleaseTaskData.  The *)
(* whole entry of everything it waits for goes away, with those who wait   *)
(* for the same.  A cancellation that is under way finds no task any more. *)
ReleaseTaskData(t) ==
  /\ "release" \in Uses
  /\ HostIsIdle
  /\ taskState[t] # "released" /\ promise[t] # "open"
  /\ taskState' = [taskState EXCEPT ![t] = "released"]
  /\ currentTaskInfo' = currentTaskInfo \ {t}
  /\ pendingTaskInfos' = pendingTaskInfos \ {t}
  /\ dependentTaskInfos' = [p \in Tasks |->
       IF t \in dependentTaskInfos[p] THEN {} ELSE dependentTaskInfos[p]]
  /\ dependTaskInfos' = [x \in DOMAIN dependTaskInfos \ {t} |-> dependTaskInfos[x]]
  /\ cancelMessage' = [cancelMessage EXCEPT ![t] = None]
  /\ UNCHANGED <<hasDependency, promise, taskQueue, worker, results, host>>

----------------------------------------------------------------------------
(* The workers. *)

(* DequeueTaskId and GetTaskByPriority, up to what IsDependendByTaskId     *)
(* says of the task.                                                       *)
Dequeue(w) ==
  /\ worker[w] = NoWork /\ QueueMutexIsFree /\ taskQueue # <<>>
  /\ taskQueue' = Tail(taskQueue)
  /\ worker' = [worker EXCEPT ![w] =
       [pc |-> IF IsDependend(Head(taskQueue)) THEN "parking" ELSE "ready",
        task |-> Head(taskQueue)]]
  /\ UNCHANGED <<taskState, hasDependency, currentTaskInfo, promise, graph,
                 pendingTaskInfos, results, cancelMessage, host>>

EnqueuePendingTaskInfo(w) ==
  /\ worker[w].pc = "parking"
  /\ pendingTaskInfos' = pendingTaskInfos \cup {worker[w].task}
  /\ worker' = [worker EXCEPT ![w] = NoWork]
  /\ UNCHANGED <<taskState, hasDependency, currentTaskInfo, promise, graph,
                 taskQueue, results, cancelMessage, host>>

(* PerformTask: a task that has been cancelled is performed all the same. *)
PerformTask(w) ==
  /\ worker[w].pc = "ready"
  /\ worker' = [worker EXCEPT ![w].pc = "running"]
  /\ taskState' = [taskState EXCEPT ![worker[w].task] =
                     IF @ = "canceled" THEN @ ELSE "running"]
  /\ UNCHANGED <<hasDependency, currentTaskInfo, promise, graph,
                 pendingTaskInfos, taskQueue, results, cancelMessage, host>>

NotifyTaskResult(w) ==
  /\ worker[w].pc = "running"
  /\ results' = results \cup {worker[w].task}
  /\ worker' = [worker EXCEPT ![w] = NoWork]
  /\ UNCHANGED <<taskState, hasDependency, currentTaskInfo, promise, graph,
                 pendingTaskInfos, taskQueue, cancelMessage, host>>

----------------------------------------------------------------------------
(* The host thread: results. *)

(* NotifyDependencyTaskInfo starts with the tasks that wait for t. *)
Notifying(t) == [HostIdle EXCEPT !.op = "notify", !.task = t]

(* HandleTaskResult and TriggerTask: the promise is settled, and those who *)
(* wait for the task are told, unless it has been cancelled.               *)
HandleTaskResult(t) ==
  /\ HostIsIdle /\ t \in results
  /\ results' = results \ {t}
  /\ promise' = [promise EXCEPT ![t] = "settled"]
  /\ taskState' = [taskState EXCEPT ![t] = "finished"]
  /\ currentTaskInfo' = currentTaskInfo \ {t}
  /\ host' = IF taskState[t] = "canceled" THEN HostIdle ELSE Notifying(t)
  /\ UNCHANGED <<hasDependency, graph, pendingTaskInfos, taskQueue, worker,
                 cancelMessage>>

(* NotifyDependencyTaskInfo, for one of those who wait: the edge goes, and *)
(* if it was the last one the task is looked for among the pending ones.   *)
RemoveDependencyById(d) ==
  LET t == host.task IN
  /\ host.op = "notify" /\ host.next = None
  /\ d \in dependentTaskInfos[t]
  /\ dependTaskInfos' = WithoutEdge(d, t)
  /\ dependentTaskInfos' = [dependentTaskInfos EXCEPT ![t] = @ \ {d}]
  /\ host' = [host EXCEPT !.next = IF DependsOn(d) \subseteq {t} THEN d ELSE None]
  /\ UNCHANGED <<taskState, hasDependency, currentTaskInfo, promise,
                 pendingTaskInfos, taskQueue, worker, results, cancelMessage>>

(* DequeuePendingTaskInfo and EnqueueTaskId *)
EnqueueIfPending ==
  LET d == host.next IN
  /\ host.op = "notify" /\ d # None
  /\ \/ /\ d \in pendingTaskInfos /\ QueueMutexIsFree
        /\ pendingTaskInfos' = pendingTaskInfos \ {d}
        /\ taskQueue' = Append(taskQueue, d)
     \/ /\ d \notin pendingTaskInfos
        /\ UNCHANGED <<pendingTaskInfos, taskQueue>>
  /\ host' = [host EXCEPT !.next = None]
  /\ UNCHANGED <<taskState, hasDependency, currentTaskInfo, promise, graph,
                 worker, results, cancelMessage>>

AllNotified ==
  /\ host.op = "notify" /\ host.next = None
  /\ dependentTaskInfos[host.task] = {}
  /\ host' = HostIdle
  /\ UNCHANGED <<taskState, hasDependency, currentTaskInfo, promise, graph,
                 pendingTaskInfos, taskQueue, worker, results, cancelMessage>>

----------------------------------------------------------------------------
(* Cancellation. *)

\* Mutant: a task that has been cancelled already is cancelled again.
CancelTaskAgain(t) ==
  /\ "cancel" \in Uses
  /\ taskState[t] \in {"waiting", "running", "canceled"} /\ t \in currentTaskInfo
  /\ taskState' = [taskState EXCEPT ![t] = "canceled"]
  /\ cancelMessage' = [cancelMessage EXCEPT ![t] = taskState[t]]
  /\ UNCHANGED <<hasDependency, currentTaskInfo, promise, graph,
                 pendingTaskInfos, taskQueue, worker, results, host>>

(* CancelTask, on any thread: the state is exchanged under taskMutex_, the *)
(* rest is left to the host thread.                                        *)
CancelTask(t) ==
  /\ "cancel" \in Uses
  /\ taskState[t] \in {"waiting", "running"} /\ t \in currentTaskInfo
  /\ taskState' = [taskState EXCEPT ![t] = "canceled"]
  /\ cancelMessage' = [cancelMessage EXCEPT ![t] = taskState[t]]
  /\ UNCHANGED <<hasDependency, currentTaskInfo, promise, graph,
                 pendingTaskInfos, taskQueue, worker, results, host>>

WaitersOf(t, dependent) == {<<t, d>> : d \in dependent[t]}

(* CancelInner, with ClearDependentTask: the task waits for nobody any     *)
(* more and is not pending any more; then those who wait for it are        *)
(* dropped one by one.                                                     *)
CancelInner(t) ==
  /\ HostIsIdle /\ cancelMessage[t] # None
  /\ \/ /\ hasDependency[t]
        /\ dependTaskInfos' = [x \in DOMAIN dependTaskInfos \ {t} |-> dependTaskInfos[x]]
        /\ dependentTaskInfos' = [p \in Tasks |->
             IF p \in DependsOn(t) THEN dependentTaskInfos[p] \ {t}
             ELSE dependentTaskInfos[p]]
        /\ pendingTaskInfos' = pendingTaskInfos \ {t}
        /\ host' = [op |-> "drop", task |-> t, found |-> t \in pendingTaskInfos,
                    edges |-> WaitersOf(t, dependentTaskInfos), next |-> None]
     \/ /\ ~hasDependency[t]
        /\ host' = [HostIdle EXCEPT !.op = "cancel", !.task = t]
        /\ UNCHANGED <<graph, pendingTaskInfos>>
  /\ UNCHANGED <<taskState, hasDependency, currentTaskInfo, promise, taskQueue,
                 worker, results, cancelMessage>>

(* RemoveDependentTaskByTaskId, for one of those who wait.  A task that    *)
(* was pending is dropped with its promise neither resolved nor rejected.  *)
DropDependent(p, d) ==
  /\ host.op = "drop" /\ host.next = None /\ <<p, d>> \in host.edges
  /\ pendingTaskInfos' = pendingTaskInfos \ {d}
  /\ promise' = [promise EXCEPT ![d] = IF d \in pendingTaskInfos THEN "abandoned" ELSE @]
  /\ dependTaskInfos' = WithoutEdge(d, p)
  /\ dependentTaskInfos' = [dependentTaskInfos EXCEPT ![p] = @ \ {d}]
  /\ host' = [host EXCEPT !.edges = @ \ {<<p, d>>}, !.next = d]
  /\ UNCHANGED <<taskState, hasDependency, currentTaskInfo, taskQueue, worker,
                 results, cancelMessage>>

(* The same for a task that was still in the queue; then those who wait    *)
(* for that one.                                                           *)
DropQueued ==
  LET d == host.next IN
  /\ host.op = "drop" /\ d # None /\ QueueMutexIsFree
  /\ \/ /\ d \in currentTaskInfo /\ Queued(d)
        /\ taskQueue' = WithoutQueued(d)
        /\ currentTaskInfo' = currentTaskInfo \ {d}
        /\ promise' = [promise EXCEPT ![d] = "abandoned"]
     \/ /\ ~(d \in currentTaskInfo /\ Queued(d))
        /\ UNCHANGED <<taskQueue, currentTaskInfo, promise>>
  /\ host' = [host EXCEPT !.edges = @ \cup WaitersOf(d, dependentTaskInfos),
                          !.next = None]
  /\ UNCHANGED <<taskState, hasDependency, graph, pendingTaskInfos, worker,
                 results, cancelMessage>>

AllDropped ==
  /\ host.op = "drop" /\ host.next = None /\ host.edges = {}
  /\ host' = [host EXCEPT !.op = "cancel"]
  /\ UNCHANGED <<taskState, hasDependency, currentTaskInfo, promise, graph,
                 pendingTaskInfos, taskQueue, worker, results, cancelMessage>>

\* Mutant: whether a worker has taken the task meanwhile is not looked at.
WasWaiting(t) == cancelMessage[t] = "waiting" /\ t \in currentTaskInfo

\* The task was waiting, and EraseWaitingTaskId or ClearDependentTask got it.
StillWaiting(t) ==
  /\ cancelMessage[t] = "waiting" /\ t \in currentTaskInfo
  /\ Queued(t) \/ host.found

(* The end of CancelInner: the promise is rejected here only if no worker  *)
(* has taken the task meanwhile.                                           *)
RejectCancelled ==
  LET t == host.task IN
  /\ host.op = "cancel" /\ QueueMutexIsFree
  /\ \/ /\ StillWaiting(t)
        /\ currentTaskInfo' = currentTaskInfo \ {t}
        /\ taskQueue' = IF Queued(t) THEN WithoutQueued(t) ELSE taskQueue
        /\ promise' = [promise EXCEPT ![t] = "settled"]
     \/ /\ ~StillWaiting(t)
        /\ UNCHANGED <<currentTaskInfo, taskQueue, promise>>
  /\ host' = HostIdle
  /\ cancelMessage' = [cancelMessage EXCEPT ![t] = None]
  /\ UNCHANGED <<taskState, hasDependency, graph, pendingTaskInfos, worker, results>>

----------------------------------------------------------------------------
(* What the host thread has begun. *)
HostStep ==
  \/ \E d \in Tasks : RemoveDependencyById(d)
  \/ EnqueueIfPending
  \/ AllNotified
  \/ \E p, d \in Tasks : DropDependent(p, d)
  \/ DropQueued
  \/ AllDropped
  \/ RejectCancelled

WorkerStep(w) ==
  \/ EnqueuePendingTaskInfo(w)
  \/ PerformTask(w)
  \/ NotifyTaskResult(w)

Next ==
  \/ \E t \in Tasks, S \in SUBSET Tasks : AddDependency(t, S) \/ AddDependencyFails(t, S)
  \/ \E t, p \in Tasks : RemoveDependency(t, p)
  \/ \E t \in Tasks : \/ Execute(t)
                      \/ ReleaseTaskData(t)
                      \/ HandleTaskResult(t)
                      \/ CancelTask(t)
                      \/ CancelInner(t)
  \/ \E w \in Workers : Dequeue(w) \/ WorkerStep(w)
  \/ HostStep

Spec == Init /\ [][Next]_vars

----------------------------------------------------------------------------
(* What must hold. *)

(* A worker performs a task only when it waits for no other: it is asked   *)
(* when the task is dequeued, and no dependency is added after execute.    *)
PerformedAfterPrerequisites ==
  \A w \in Workers : worker[w].pc \in {"ready", "running"} => ~IsDependend(worker[w].task)

(* An execution that has not been settled or given up is in exactly one    *)
(* place, and one that has been is nowhere: a task is neither lost nor     *)
(* performed twice between the queue, the pending tasks, the workers, the  *)
(* results and the host thread that is just cancelling it.                 *)
Occurrences(t) == {i \in DOMAIN taskQueue : taskQueue[i] = t}
Holders(t) == {w \in Workers : worker[w].task = t}
Here(condition) == IF condition THEN 1 ELSE 0
OnePlace ==
  \A t \in Tasks :
    Cardinality(Occurrences(t)) + Cardinality(Holders(t))
      + Here(t \in pendingTaskInfos) + Here(t \in results)
      + Here(host.found /\ host.task = t)
    = Here(promise[t] = "open")

(* No task waits for itself, directly or through others: addDependency     *)
(* refuses with ERR_CIRCULAR_DEPENDENCY.                                   *)
Acyclic == \A t \in Tasks : t \notin Upstream(DependsOn(t))

(* A task that waits or is waited for has its flag set: cancel would       *)
(* otherwise not look at the tables, and leave others waiting for it.      *)
FlagCoversEdges ==
  \A t \in Tasks : IsDependend(t) \/ dependentTaskInfos[t] # {} => hasDependency[t]

(* A task is pending only while it waits for another: the last of those it *)
(* waited for puts it back into the queue.                                 *)
PendingOnlyIfDependent ==
  \A t \in pendingTaskInfos : IsDependend(t) \/ host.next = t
=============================================================================
