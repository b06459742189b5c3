------------------------------ MODULE TaskLife ------------------------------
(***************************************************************************)
(* One Task object of the task pool and its executions: execute,           *)
(* executeDelayed, executePeriodically, the timeout of execute, cancel,    *)
(* the worker that performs it and the settling of the promises.           *)
(* taskpool/task.cpp and taskpool.cpp.                                     *)
(*                                                                         *)
(* A task has no dependencies here (TaskDependency) and is in no runner or *)
(* group (Runners, TaskGroup).  The callbacks of the host's loop are       *)
(* atomic; workers, and cancel on another thread, come between them.       *)
(***************************************************************************)
EXTENDS Naturals, Sequences, FiniteSets

CONSTANT MaxExecutions  \* bound: executions, and firings of the periodic timer

VARIABLE life

ExecuteState == {"notFound", "waiting", "running", "canceled", "finished", "delayed", "ending", "timeout"}
Executions == 1..MaxExecutions

(* promise: "none" of an execution that is periodic or not made yet        *)
(* current, pending: currentTaskInfo_ (0 when null), pendingTaskInfos_     *)
(* worker, halves: where a worker is, and which of the end of the function *)
(*   and the result it has seen                                             *)
(* message: the state in a cancel message that is under way                *)
(* refs: taskRef_                                                          *)
(* gaps: what has happened of the known ways to lose track, see below      *)
TypeOK ==
  /\ life.state \in ExecuteState /\ life.message \in ExecuteState \cup {"none"}
  /\ \A f \in {"executed", "long", "isPeriodic", "done", "timer", "limited", "clock", "result"} :
       life[f] \in BOOLEAN
  /\ life.promise \in [Executions -> {"none", "open", "settled", "twice"}]
  /\ life.made \in 0..MaxExecutions /\ life.current \in 0..MaxExecutions
  /\ life.pending \in Seq(Executions) /\ life.delayed \subseteq Executions
  /\ life.queued \in Nat /\ life.worker \in {"none", "dequeued", "performing"}
  /\ life.halves \subseteq {"function", "callback"} /\ life.refs \in Nat

Init ==
  \E long \in BOOLEAN :
    life = [state |-> "notFound", executed |-> FALSE, long |-> long, isPeriodic |-> FALSE, done |-> FALSE,
            promise |-> [i \in Executions |-> "none"], made |-> 0, current |-> 0, pending |-> <<>>,
            delayed |-> {}, timer |-> FALSE, limited |-> FALSE, clock |-> FALSE, queued |-> 0,
            worker |-> "none", halves |-> {}, result |-> FALSE, message |-> "none", refs |-> 0, gaps |-> {}]

----------------------------------------------------------------------------
(* Helpers, on a record l. *)

Settled(l, S) ==
  [l EXCEPT !.promise = [i \in Executions |->
     IF i \notin S \/ @[i] = "none" THEN @[i] ELSE IF @[i] = "open" THEN "settled" ELSE "twice"]]

(* napi_reference_unref fails at zero. *)
Unref(l, n) == [l EXCEPT !.refs = IF @ > n THEN @ - n ELSE 0]

IsRealyCanceled(l) == l.state = "canceled" /\ l.done

(* GetTaskInfo: an execution waits behind the one that has not finished.   *)
GetTaskInfo(l, i) ==
  IF l.current = 0 THEN [l EXCEPT !.current = i] ELSE [l EXCEPT !.pending = Append(@, i)]

(* UpdateTaskStateToWaiting *)
MayWait(l) == l.state \in {"notFound", "finished"} \/ (~l.isPeriodic /\ IsRealyCanceled(l))
Waiting(l) == [l EXCEPT !.state = "waiting", !.queued = @ + 1]

NewExecution(l) == [l EXCEPT !.made = @ + 1]
NewPromise(l) == [NewExecution(l) EXCEPT !.promise[l.made + 1] = "open"]

(* UpdateTaskType *)
Typed(l) == [l EXCEPT !.executed = TRUE, !.refs = @ + 1]

(* CanExecute, CanExecuteDelayed; a task with a timeout is executed once.  *)
CanExecuteAgain ==
  ~(life.executed /\ life.long) /\ ~life.isPeriodic /\ ~life.limited /\ life.made < MaxExecutions

----------------------------------------------------------------------------
(* The host. *)

(* A task that counts as stopped, and is not. *)
RestartGap == IF IsRealyCanceled(life) /\ life.current # 0 THEN {"staleDone"} ELSE {}

(* Execute, with or without a timeout.  What cannot be serialized is an    *)
(* exception, before anything has changed.                                 *)
Execute(timeout) ==
  /\ CanExecuteAgain
  /\ timeout => life.state = "notFound"
  /\ LET typed == [Typed(GetTaskInfo(NewPromise(life), life.made + 1)) EXCEPT !.limited = timeout]
         gap == IF life.state = "delayed" THEN {"executedDelayed"}
                ELSE IF life.message = "delayed" /\ life.current = 0 THEN {"lateCancel"} ELSE RestartGap
     IN life' = IF MayWait(life)
                THEN [Waiting(typed) EXCEPT !.done = FALSE, !.timer = timeout, !.gaps = @ \cup gap]
                ELSE [typed EXCEPT !.gaps = @ \cup gap]

(* ExecuteDelayed and UpdateTaskStateToDelayed *)
ExecuteDelayed ==
  /\ CanExecuteAgain
  /\ LET typed == Typed(NewPromise(life)) IN
     life' = [typed EXCEPT
       !.delayed = @ \cup {life.made + 1},
       !.gaps = @ \cup RestartGap,
       !.state = IF ~life.executed \/ IsRealyCanceled(life) \/ life.state = "finished" THEN "delayed" ELSE @]

(* DelayTask, when the timer of the execution fires. *)
Fired(i) == [life EXCEPT !.delayed = @ \ {i}]

DelayTask(i) ==
  /\ i \in life.delayed
  /\ LET fired == Fired(i) IN
     life' = IF life.state = "canceled" THEN Settled(fired, {i})
             ELSE IF life.state \in {"delayed", "finished"} THEN Waiting(GetTaskInfo(fired, i))
             ELSE GetTaskInfo(fired, i)

(* The task cannot be serialized (any more): its state and reference stay. *)
DelayTaskFails(i) ==
  /\ i \in life.delayed /\ life.state # "canceled"
  /\ life' = Settled(Fired(i), {i})

(* ExecutePeriodically; it may fail to serialize, and the task is spoilt.  *)
ExecutePeriodically ==
  /\ ~life.executed /\ ~life.isPeriodic /\ ~life.limited
  /\ LET typed == [Typed(life) EXCEPT !.isPeriodic = TRUE] IN
     \/ life' = typed
     \/ life' = [typed EXCEPT !.clock = TRUE]

(* CancelPendingTask *)
PendingCanceled(l) ==
  Unref(Settled([l EXCEPT !.pending = <<>>], {l.pending[k] : k \in 1..Len(l.pending)}), Len(l.pending))

PeriodicTaskCallback ==
  /\ life.clock
  /\ IF life.state = "canceled"
     THEN /\ life.current = 0
          /\ life' = [PendingCanceled(Unref(life, 1)) EXCEPT !.clock = FALSE]
     ELSE /\ life.made < MaxExecutions
          /\ LET l == GetTaskInfo(NewExecution(life), life.made + 1) IN
             life' = IF MayWait(life) THEN Waiting(l) ELSE l

(* TaskTimeoutCallback and UpdateTaskStateToTimeout *)
TaskTimeoutCallback ==
  /\ life.timer
  /\ LET fired == [life EXCEPT !.timer = FALSE]
         late == Settled([fired EXCEPT !.state = "timeout"], {life.current})
     IN life' = IF life.state \in {"canceled", "finished", "ending", "delayed", "timeout"} THEN fired
                ELSE IF life.state # "running" /\ life.queued > 0
                THEN Unref([late EXCEPT !.queued = @ - 1, !.current = 0], 1)
                ELSE late

----------------------------------------------------------------------------
(* cancel *)

(* ClearDelayedTimers *)
DelayedCleared(l) == Unref(Settled([l EXCEPT !.delayed = {}], l.delayed), Cardinality(l.delayed))

\* Mutant: the execution that waits is rejected without a look at the queue.
CancelWithoutErase(l, state) ==
  LET cleared == [PendingCanceled(DelayedCleared(l)) EXCEPT !.timer = FALSE] IN
  IF state = "waiting" /\ l.current # 0
  THEN Unref(Settled([cleared EXCEPT !.current = 0, !.done = TRUE], {l.current}), 1)
  ELSE [cleared EXCEPT !.done = @ \/ state = "delayed"]

(* CancelInner, with the state at the time of the call. *)
CancelInner(l, state) ==
  LET cleared == [PendingCanceled(DelayedCleared(l)) EXCEPT !.timer = @ /\ l.state = "timeout"] IN
  IF state = "waiting" /\ l.current # 0 /\ l.queued > 0
  THEN Unref(Settled([cleared EXCEPT !.queued = @ - 1, !.current = 0, !.done = TRUE,
                                     !.gaps = IF l.state = "canceled" THEN @ ELSE @ \cup {"lateCancel"}],
                     {l.current}), 1)
  ELSE [cleared EXCEPT !.done = @ \/ state = "delayed",
                       !.gaps = IF state = "delayed" /\ l.state # "canceled" THEN @ \cup {"lateCancel"} ELSE @]

(* CancelTask throws for a task that is not being executed. *)
Cancellable ==
  /\ life.state \notin {"canceled", "timeout"}
  /\ life.isPeriodic \/ (/\ life.state \notin {"notFound", "finished", "ending"}
                         /\ life.current # 0 \/ life.state = "delayed")

Cancel ==
  /\ Cancellable
  /\ LET canceled == [life EXCEPT !.state = "canceled"] IN
     life' = IF life.isPeriodic THEN canceled ELSE CancelInner(canceled, life.state)

(* On another thread: TriggerCancel, and the event the host gets.          *)
TriggerCancel ==
  /\ Cancellable /\ ~life.isPeriodic
  /\ life' = [life EXCEPT !.state = "canceled", !.message = life.state]

(* ... within DelayTask, which reads the state without a lock: after it    *)
(* has seen that the task is not canceled, before or after it sees that it *)
(* is to be queued.                                                        *)
TriggerCancelWithin(i) ==
  /\ i \in life.delayed /\ life.state = "delayed"
  /\ LET started == [GetTaskInfo(Fired(i), i) EXCEPT !.message = "delayed", !.gaps = @ \cup {"lateCancel"}] IN
     \/ life' = [started EXCEPT !.state = "canceled"]
     \/ life' = Waiting(started)

CancelOnHost ==
  /\ life.message # "none"
  /\ life' = [CancelInner(life, life.message) EXCEPT !.message = "none"]

----------------------------------------------------------------------------
(* The worker. *)

Dequeue ==
  /\ life.queued > 0 /\ life.worker = "none"
  /\ life' = [life EXCEPT !.queued = @ - 1, !.worker = "dequeued"]

(* UpdateTask: what has been canceled meanwhile is performed all the same. *)
UpdateTask ==
  /\ life.worker = "dequeued"
  /\ life' = [life EXCEPT !.worker = "performing",
                          !.state = IF @ \in {"timeout", "canceled"} THEN @ ELSE "running"]

(* The function returns and its result arrives (PerformTask and            *)
(* TaskResultCallback, IsReadyToHandle), in either order.                  *)
HalfDone(half) ==
  /\ life.worker = "performing" /\ half \notin life.halves
  /\ life' = IF life.halves = {} THEN [life EXCEPT !.halves = {half}]
             ELSE [life EXCEPT !.halves = {}, !.worker = "none", !.result = TRUE]

(* An early return of PerformTask reports an error, or, where even that    *)
(* cannot be made, nothing.                                                *)
PerformFails ==
  /\ life.worker = "performing" /\ life.halves = {}
  /\ \/ life' = [life EXCEPT !.worker = "none", !.result = TRUE]
     \/ life' = [life EXCEPT !.worker = "none", !.gaps = @ \cup {"lost"}]

----------------------------------------------------------------------------
(* NotifyPendingTask *)
PendingNotified(l) ==
  IF l.pending = <<>> \/ (l.isPeriodic /\ l.state = "canceled") THEN [l EXCEPT !.current = 0]
  ELSE Waiting([l EXCEPT !.current = Head(l.pending), !.pending = Tail(@)])

(* UpdateTaskStateToEnding, UpdateTaskStateToFinished *)
Finished(l) ==
  IF l.state = "running" \/ (l.state = "canceled" /\ ~l.isPeriodic) THEN [l EXCEPT !.state = "finished"] ELSE l

(* HandleTaskResult and TriggerTask *)
HandleTaskResult ==
  /\ life.result
  /\ LET handled == [Settled(life, IF life.state = "timeout" THEN {} ELSE {life.current}) EXCEPT
                       !.done = FALSE, !.result = FALSE]
         notified == PendingNotified(Finished(handled))
     IN life' = IF life.isPeriodic THEN notified ELSE Unref(notified, 1)

Next ==
  \/ \E timeout \in BOOLEAN : Execute(timeout)
  \/ ExecuteDelayed \/ ExecutePeriodically \/ PeriodicTaskCallback \/ TaskTimeoutCallback
  \/ \E i \in Executions : DelayTask(i) \/ DelayTaskFails(i) \/ TriggerCancelWithin(i)
  \/ Cancel \/ TriggerCancel \/ CancelOnHost
  \/ Dequeue \/ UpdateTask \/ PerformFails \/ HandleTaskResult
  \/ \E half \in {"function", "callback"} : HalfDone(half)

----------------------------------------------------------------------------
(* What must hold, as long as none of the following has happened.          *)
(*   executedDelayed: execute of a task in the state DELAYED is queued by  *)
(*     the timer of the delayed one; a cancel removes that, and that one   *)
(*     may fail                                                            *)
(*   lateCancel: the event of a cancel on another thread comes when a      *)
(*     later execution has been made, which it takes for the one it is to  *)
(*     stop, or does not stop and nobody has queued; or the cancel comes   *)
(*     while the timer of a delayed execution makes it current             *)
(*   staleDone: a task runs again after a cancel, the flag                 *)
(*     isCancelToFinish_ of which is still set; a cancel and another         *)
(*     execution then queue it beside itself                               *)
(*   lost: PerformTask has returned without a result                       *)

(* No promise is settled twice, whatever races with what. *)
SettledOnce == \A i \in Executions : life.promise[i] # "twice"

Carriers == life.queued + (IF life.worker = "none" THEN 0 ELSE 1) + (IF life.result THEN 1 ELSE 0)

(* A task is performed by one worker at a time, for the execution that is  *)
(* current, and an execution whose promise is open will settle it: it has  *)
(* a timer, it is current, or it waits behind another.                     *)
Performed ==
  life.gaps = {} =>
    /\ Carriers <= 1 /\ (Carriers = 1 <=> life.current # 0)
    /\ life.pending # <<>> => life.current # 0 \/ (life.isPeriodic /\ life.state = "canceled")
    /\ \A i \in Executions : life.promise[i] = "open" =>
         i \in {life.current} \cup life.delayed \cup {life.pending[k] : k \in 1..Len(life.pending)}

(* The object is not collected as long as an execution needs it.           *)
KeptAlive ==
  life.gaps = {} /\ ~life.isPeriodic =>
    life.refs >= Cardinality(life.delayed) + Len(life.pending) + (IF life.current = 0 THEN 0 ELSE 1)
=============================================================================
