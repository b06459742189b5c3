----------------------------- MODULE WorkerPool -----------------------------
(***************************************************************************)
(* The worker threads of the task pool and their number: creation,         *)
(* expansion, performing, shrinking, blocked workers, release.             *)
(* taskpool/worker.cpp and the worker management of task_manager.cpp.      *)
(*                                                                         *)
(* An action is a critical section of workersMutex_, a callback on the     *)
(* loop of a worker, or one on the loop of the monitor thread (the task    *)
(* manager's own).  Durations are left open: a timer may fire at any time, *)
(* a running worker may be found to have run too long, an idle one to      *)
(* have been idle long enough.  Tasks are counted (nonIdleTaskNum_).       *)
(***************************************************************************)
EXTENDS Integers, FiniteSets, FiniteSetsExt

CONSTANTS
  Workers,       \* names of Worker objects, used again after their deletion
  MaxThreads,    \* the larger of maxThreads_ and DEFAULT_THREADS
  ExtraThreads,  \* how many more there may be when a worker is blocked
  ShrinkStep,    \* SHRINK_STEP
  MaxTasks,      \* bound: tasks that are ever executed
  MayFail        \* whether the construction of an engine may fail, once

VARIABLE pool

(* thread: the life of the thread of a worker                              *)
(* clear, signals: workers with an event for clearWorkerSignal_,           *)
(*   performTaskSignal_; runningCount: with the tasks whose promise is      *)
(*   still open                                                            *)
(* rested: workers that have been idle for MAX_IDLE_TIME                   *)
(* adding: a worker that runs and is not in workers_ yet                   *)
(* create: how many the monitor has still to create                        *)
(* manager: how far RunTaskManager is; posting: what an execute that found *)
(*   isHandleInited_ false has still to do                                 *)
TypeOK ==
  /\ \A f \in {"workers", "idle", "timeout", "signals", "clear", "adding", "rested"} : pool[f] \subseteq Workers
  /\ pool.expanding \in Nat /\ pool.create \in Nat /\ pool.tasks \in Nat /\ pool.executed \in 0..MaxTasks
  /\ \A f \in {"suspended", "expandTimer", "dispatch", "needChecking"} : pool[f] \in BOOLEAN
  /\ pool.manager \in {"starting", "inited", "running"}
  /\ pool.posting \in {"no", "notify", "flag"}
  /\ pool.thread \in [Workers -> {"none", "starting", "looping", "stopping", "failed", "deleted"}]
  /\ pool.state \in [Workers -> {"idle", "running", "blocked"}]
  /\ pool.doing \in [Workers -> {"loop", "dequeued", "performing", "leaving"}]
  /\ pool.runningCount \in [Workers -> Nat]

Fresh(w) == [thread |-> "starting", state |-> "idle", doing |-> "loop", runningCount |-> 0]

(* InitTaskManager has created the first worker, if it does not leave that *)
(* out (TryCreateWorkerForPerformance).  Which of the names that are free  *)
(* a worker gets does not matter.                                          *)
Init ==
  \E created \in SUBSET Workers :
    /\ Cardinality(created) <= 1 /\ created \subseteq {CHOOSE w \in Workers : TRUE}
    /\ pool = [workers |-> created, idle |-> {}, timeout |-> {}, signals |-> {}, clear |-> {},
               adding |-> {}, rested |-> {}, expanding |-> Cardinality(created), create |-> 0,
               tasks |-> 0, executed |-> 0,
               suspended |-> FALSE, expandTimer |-> FALSE, dispatch |-> FALSE, needChecking |-> FALSE,
               manager |-> "starting", posting |-> "no",
               thread |-> [w \in Workers |-> IF w \in created THEN "starting" ELSE "none"],
               state |-> [w \in Workers |-> "idle"], doing |-> [w \in Workers |-> "loop"],
               runningCount |-> [w \in Workers |-> 0]]

----------------------------------------------------------------------------
Least(a, b) == IF a < b THEN a ELSE b
Failures == {w \in Workers : pool.thread[w] \in {"failed", "deleted"}}
InLoop(w) == pool.thread[w] = "looping" /\ pool.doing[w] = "loop"
MonitorIsFree == pool.manager = "running" /\ pool.create = 0 /\ pool.adding = {}

(* NotifyExecuteTask wakes every idle worker. *)
Notified(p) ==
  IF p.tasks = 0 /\ Cardinality(p.workers) # Cardinality(p.idle) THEN p
  ELSE [p EXCEPT !.signals = @ \cup {w \in p.idle : p.thread[w] = "looping"}]

NotifiedOfTasks(p) == IF p.tasks # 0 THEN Notified(p) ELSE p

(* TryExpandWithCheckIdle: what the monitor goes on to create. *)
Expanded(p, idleCount, target) ==
  LET workerCount == Cardinality(p.workers)
      maxThreads == MaxThreads + (IF p.timeout = {} THEN 0 ELSE ExtraThreads)
      expands == workerCount < maxThreads /\ idleCount < target
      step == Least(Least(maxThreads, target) - idleCount, maxThreads - workerCount) - p.expanding
      checked == [p EXCEPT !.needChecking = FALSE, !.expandTimer = FALSE]
  IN  IF p.tasks = 0 THEN p
      ELSE IF expands /\ step <= 0 THEN checked
      ELSE [checked EXCEPT !.create = IF expands THEN step ELSE 0, !.suspended = FALSE]

(* ComputeSuitableIdleNum depends on how long tasks have run so far. *)
SuitableIdleNum == 1..Max({1, pool.tasks})

----------------------------------------------------------------------------
(* execute *)

(* EnqueueTaskId and TryTriggerExpand *)
EnqueueTask ==
  /\ pool.executed < MaxTasks /\ pool.posting = "no"
  /\ pool' = [pool EXCEPT !.tasks = @ + 1, !.executed = @ + 1,
                          !.dispatch = @ \/ pool.manager # "starting",
                          !.posting = IF pool.manager = "starting" THEN "notify" ELSE "no"]

(* ... before the handle is there. *)
NotifyEarly ==
  /\ pool.posting = "notify"
  /\ pool' = [Notified(pool) EXCEPT !.posting = "flag"]

NeedChecking ==
  /\ pool.posting = "flag"
  /\ pool' = [pool EXCEPT !.posting = "no", !.needChecking = TRUE]

----------------------------------------------------------------------------
(* The monitor thread. *)

(* RunTaskManager *)
HandleInited ==
  /\ pool.manager = "starting"
  /\ pool' = [pool EXCEPT !.manager = "inited"]

StartLoop ==
  /\ pool.manager = "inited"
  /\ pool' = [pool EXCEPT !.manager = "running", !.needChecking = FALSE,
                          !.dispatch = @ \/ pool.needChecking]

(* DispatchAndTryExpandInner *)
Dispatch ==
  /\ MonitorIsFree /\ pool.dispatch
  /\ \E target \in SuitableIdleNum :
       LET p == Expanded(Notified(pool), Cardinality(pool.idle), target) IN
       pool' = [p EXCEPT !.dispatch = FALSE, !.expandTimer = @ \/ pool.tasks # 0]

(* TryExpand, with the idle workers that were woken just now (IsRunnable). *)
ExpandTimer ==
  /\ MonitorIsFree /\ pool.expandTimer
  /\ \E target \in SuitableIdleNum, runnable \in SUBSET (pool.idle \ pool.rested) :
       pool' = [Expanded(pool, Cardinality(runnable), target) EXCEPT !.expandTimer = FALSE]

(* CreateWorkers: the thread starts in WorkerConstructor, and only then    *)
(* NotifyWorkerAdded makes the worker known.                               *)
WorkerConstructor(w) ==
  /\ pool.create > 0 /\ pool.adding = {} /\ pool.thread[w] = "none"
  /\ w = CHOOSE v \in Workers : pool.thread[v] = "none"
  /\ pool' = [pool EXCEPT !.create = @ - 1, !.adding = {w}, !.expanding = @ + 1,
                          !.thread[w] = Fresh(w).thread, !.state[w] = "idle",
                          !.doing[w] = "loop", !.runningCount[w] = 0]

NotifyWorkerAdded(w) ==
  /\ w \in pool.adding
  /\ pool' = [pool EXCEPT !.adding = {}, !.workers = @ \cup {w}]

Freeable == {w \in pool.idle \cap pool.rested : pool.state[w] = "idle" /\ pool.runningCount[w] = 0}

(* TriggerShrink: those idle for long enough, at most step of them; when   *)
(* step is 0 the count of the released never meets it, and all of them go. *)
Shrunk(S) == [pool EXCEPT !.idle = @ \ S, !.clear = @ \cup S]
Shrinks(step) == {S \in SUBSET Freeable : step = 0 \/ Cardinality(S) <= step}

(* CheckForBlockedWorkers, for one worker that has run too long.  One that *)
(* performs, or executes the jobs of a task that has returned a promise,   *)
(* is blocked; if it has a long task it is that in its state alone.  One   *)
(* that waits in its loop is idle, or stays as it was, for a request.      *)
BlockWorker(w) ==
  /\ MonitorIsFree /\ ~pool.suspended /\ w \in pool.workers /\ pool.state[w] = "running"
  /\ \/ /\ pool.doing[w] \in {"performing", "leaving"} \/ InLoop(w)
        /\ \/ pool' = [pool EXCEPT !.state[w] = "blocked", !.idle = @ \ {w}, !.timeout = @ \cup {w},
                                   !.expandTimer = TRUE]
           \/ pool' = [pool EXCEPT !.state[w] = "blocked"]
     \/ /\ pool.doing[w] \in {"loop", "dequeued"}
        /\ pool' = [pool EXCEPT !.state[w] = "idle"]

(* The idle workers NotifyShrink may release: those beyond what is needed, *)
(* or the only one when memory is moderate.  How many are needed depends   *)
(* on how long tasks have run.                                             *)
Surplus(minThread) ==
  LET count == Cardinality(pool.workers)
      running == Cardinality({w \in pool.workers : pool.runningCount[w] # 0})
      step(target) == Least(count - Max({minThread, target + running}), ShrinkStep)
  IN  {S \in SUBSET Freeable :
         \/ S = {}
         \/ count = 1 /\ Cardinality(pool.idle) = 1
         \/ \E target \in SuitableIdleNum : Cardinality(S) <= step(target)}

(* NotifyShrink, on the balance timer.  One timeout worker without tasks   *)
(* is released, and that ends the call; otherwise the timer is suspended   *)
(* when there is nothing to watch.                                         *)
NotifyShrink ==
  /\ MonitorIsFree /\ ~pool.suspended
  /\ \E minThread \in {0, 1} :
       LET count == Cardinality(pool.workers) IN
          \E S \in Surplus(minThread) :
            LET p == Shrunk(S)
                left == {w \in p.timeout : w \in p.workers}
                releasable == {w \in left : p.runningCount[w] = 0}
            IN \/ \E w \in releasable :
                    pool' = [p EXCEPT !.timeout = left \ {w}, !.clear = @ \cup {w}]
               \/ /\ releasable = {}
                  /\ pool' = [p EXCEPT
                       !.timeout = left,
                       !.create = IF minThread # 0 /\ p.workers = {} THEN 1 ELSE 0,
                       !.suspended = left = {} /\ count <= minThread /\ count = Cardinality(p.idle)]

(* NotifyShrinkByInBackground, on the main thread.  A worker idle for a    *)
(* second (BACKGROUND_IDLE_TIME) has been added by then.  The step for a   *)
(* single idle worker is 0.                                                *)
NotifyShrinkByInBackground ==
  /\ Cardinality(pool.workers) > 0
  /\ \E S \in Shrinks(Cardinality(pool.idle) \div 2) : S \subseteq pool.workers /\ pool' = Shrunk(S)

----------------------------------------------------------------------------
(* A worker thread. *)

(* The engine cannot be created: the thread just ends. *)
CreateRuntimeFails(w) ==
  /\ MayFail /\ Failures = {} /\ pool.thread[w] = "starting"
  /\ pool' = [pool EXCEPT !.thread[w] = "failed"]

(* PrepareForWorkerInstance fails: the worker is removed and deleted. *)
PrepareFails(w) ==
  /\ MayFail /\ Failures = {} /\ pool.thread[w] = "starting"
  /\ pool' = [pool EXCEPT !.thread[w] = "deleted", !.workers = @ \ {w}]

(* NotifyWorkerCreated *)
WorkerCreated(w) ==
  /\ pool.thread[w] = "starting"
  /\ pool' = NotifiedOfTasks([pool EXCEPT !.thread[w] = "looping", !.idle = @ \cup {w},
                                          !.expanding = @ - 1])

(* Time passes for a worker that has nothing to do, idlePoint_ gets old. *)
Rest(w) ==
  /\ w \in pool.idle \ pool.rested /\ pool.doing[w] = "loop" /\ w \notin pool.signals \cup pool.clear
  /\ pool' = [pool EXCEPT !.rested = @ \cup {w}]

(* PerformTask: DequeueTaskId *)
DequeueTask(w) ==
  /\ InLoop(w) /\ w \in pool.signals
  /\ pool' = IF pool.tasks = 0 THEN [pool EXCEPT !.signals = @ \ {w}]
             ELSE [pool EXCEPT !.signals = @ \ {w}, !.tasks = @ - 1, !.doing[w] = "dequeued"]

(* NotifyWorkerRunning and the RunningScope *)
StartTask(w) ==
  /\ pool.doing[w] = "dequeued"
  /\ pool' = [pool EXCEPT !.doing[w] = "performing", !.idle = @ \ {w},
                          !.state[w] = "running", !.runningCount[w] = @ + 1]

(* NotifyTaskFinished *)
TaskFinished(p, w) ==
  [p EXCEPT !.runningCount[w] = @ - 1, !.rested = @ \ {w},
            !.state[w] = IF p.runningCount[w] = 1 /\ @ = "running" THEN "idle" ELSE @]

(* NotifyWorkerIdle, by the end of the RunningScope *)
NotifyIdle(p, w) ==
  IF p.state[w] = "blocked" THEN [p EXCEPT !.doing[w] = "leaving"]
  ELSE NotifiedOfTasks([p EXCEPT !.doing[w] = "leaving", !.idle = @ \cup {w}])

(* A task has a result, or it does not count as finished: it has returned  *)
(* a promise, or PerformTask has returned early without NotifyTaskFinished *)
(* (a task that is gone).  The latter is a promise that is never settled.  *)
EndTask(w) ==
  /\ pool.doing[w] = "performing"
  /\ \/ pool' = NotifyIdle(TaskFinished(pool, w), w)
     \/ pool' = NotifyIdle(pool, w)

(* idleState_ is set last. *)
LeaveTask(w) ==
  /\ pool.doing[w] = "leaving"
  /\ pool' = [pool EXCEPT !.doing[w] = "loop"]

(* TaskResultCallback: a promise is settled. *)
TaskResultCallback(w) ==
  /\ InLoop(w) /\ pool.runningCount[w] > 0
  /\ pool' = TaskFinished(pool, w)

\* Mutant: a worker is released whatever it still has to do.
AlwaysFree(w) == TRUE

(* CheckFreeConditions; timers, requests and jobs of the engine may also   *)
(* keep it.                                                                *)
MayBeFreed(w) == pool.runningCount[w] = 0

ReleaseWorkerHandles(w) ==
  /\ InLoop(w) /\ w \in pool.clear /\ MayBeFreed(w)
  /\ pool' = [pool EXCEPT !.thread[w] = "stopping", !.clear = @ \ {w},
                          !.idle = @ \ {w}, !.timeout = @ \ {w}, !.workers = @ \ {w}]

(* RestoreWorker *)
RestoreWorker(w) ==
  /\ InLoop(w) /\ w \in pool.clear
  /\ LET p == [pool EXCEPT !.clear = @ \ {w}, !.suspended = FALSE] IN
     pool' = IF p.state[w] = "blocked" THEN [p EXCEPT !.timeout = @ \cup {w}]
             ELSE NotifiedOfTasks([p EXCEPT !.idle = @ \cup {w}])

(* The loop has ended: ExecuteInThread removes the worker once more and    *)
(* deletes it, with the events that are left.                              *)
ThreadExits(w) ==
  /\ pool.thread[w] = "stopping"
  /\ pool' = [pool EXCEPT !.thread[w] = "none", !.state[w] = "idle",
                          !.signals = @ \ {w}, !.clear = @ \ {w}, !.rested = @ \ {w}]

----------------------------------------------------------------------------
MonitorStep ==
  \/ HandleInited \/ StartLoop \/ Dispatch \/ ExpandTimer
  \/ \E w \in Workers : WorkerConstructor(w) \/ NotifyWorkerAdded(w)

WorkerStep(w) ==
  \/ WorkerCreated(w) \/ DequeueTask(w) \/ StartTask(w) \/ EndTask(w) \/ LeaveTask(w)
  \/ ReleaseWorkerHandles(w) \/ RestoreWorker(w) \/ ThreadExits(w)

Balance ==
  \/ NotifyShrink \/ NotifyShrinkByInBackground
  \/ \E w \in Workers : BlockWorker(w)

Next ==
  \/ EnqueueTask \/ NotifyEarly \/ NeedChecking \/ MonitorStep \/ Balance
  \/ \E w \in Workers :
       \/ WorkerStep(w) \/ CreateRuntimeFails(w) \/ PrepareFails(w)
       \/ Rest(w) \/ TaskResultCallback(w)

(* Threads go on with what they have begun, and loops deliver what has     *)
(* been sent to them; the balance timer fires again and again.  Nobody     *)
(* promises that promises of tasks are settled.                            *)
Fairness ==
  /\ WF_pool(NotifyEarly \/ NeedChecking)
  /\ WF_pool(MonitorStep)
  /\ WF_pool(NotifyShrink)
  /\ \A w \in Workers : WF_pool(DequeueTask(w)) /\ WF_pool(WorkerStep(w))

Spec == Init /\ [][Next]_pool /\ Fairness

----------------------------------------------------------------------------
(* What must hold. *)

(* The pool never grows beyond its bound and the replacements of blocked   *)
(* workers, however expansion, creation and release interleave.            *)
BoundedPool == Cardinality(pool.workers \cup pool.adding) <= MaxThreads + ExtraThreads

(* A worker that leaves its loop has nothing to do, nobody can find it to  *)
(* give it work, and what the manager knows are threads that run.          *)
ReleasedWorkersAreFree ==
  \A w \in Workers :
    /\ pool.thread[w] \in {"stopping", "none"} =>
         /\ pool.runningCount[w] = 0 /\ pool.doing[w] = "loop"
         /\ w \notin pool.workers \cup pool.idle \cup pool.timeout
    /\ w \in pool.idle \cup pool.timeout => pool.thread[w] = "looping"

(* The workers under construction are counted, as long as none fails. *)
ExpandingIsExact ==
  Failures = {} => pool.expanding = Cardinality({w \in Workers : pool.thread[w] = "starting"})

(* needChecking_ is set after the monitor has looked at it: a task queued  *)
(* by then, before there is a worker to notify, is left to the next one.   *)
Forgotten == pool.manager = "running" /\ pool.needChecking

(* In low memory the last worker may be released with the signal for a     *)
(* task it has just been sent, and the timer that would replace it stops.  *)
Abandoned == pool.suspended /\ pool.workers = {}

(* Every worker there is has run too long: nothing tries to expand the     *)
(* pool again, and their engines (a timer, a request) may keep them.       *)
Exhausted == pool.workers # {} /\ \A w \in pool.workers : pool.state[w] = "blocked"

(* Every queued task is performed in the end: whatever wake-up is lost to  *)
(* a worker that is released or blocked meanwhile, another one is made.    *)
TasksArePerformed == pool.tasks # 0 ~> pool.tasks = 0 \/ Forgotten \/ Abandoned \/ Exhausted \/ Failures # {}
=============================================================================
