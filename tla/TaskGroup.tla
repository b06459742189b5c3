----------------------------- MODULE TaskGroup -----------------------------
(***************************************************************************)
(* A TaskGroup of the task pool: taskpool/task_group.cpp,                  *)
(* task_group_manager.cpp and the group part of taskpool.cpp.              *)
(*                                                                         *)
(* The group is executed, canceled and timed out on its host, where the    *)
(* results of its tasks arrive too; the workers, and a cancel of one task  *)
(* on another thread, come between these callbacks.                        *)
(***************************************************************************)
EXTENDS Naturals, Sequences, FiniteSets

CONSTANTS
  Tasks,
  MaxExecutions  \* bound: executions of the group

VARIABLE group

Executions == 1..MaxExecutions

(* current, pending: currentGroupInfo_ (0 when null), pendingGroupInfos_   *)
(* finished: finishedTaskNum of the current execution                      *)
(* info: the task has its currentTaskInfo_; queued: it is in a task queue  *)
(* worker, result: where the worker is, a result is under way to the host  *)
(* signal: onRejectResultSignal_                                           *)
(* gaps: what has happened of the known ways to lose track, see below      *)
TypeOK ==
  /\ group.state \in {"notFound", "waiting", "running", "canceled", "finished", "timeout"}
  /\ group.members \subseteq Tasks /\ group.functions \subseteq group.members
  /\ group.made \in 0..MaxExecutions /\ group.current \in 0..MaxExecutions
  /\ group.pending \in Seq(Executions) /\ group.finished \in 0..Cardinality(Tasks)
  /\ group.promise \in [Executions -> {"none", "open", "resolved", "rejected", "twice"}]
  /\ \A f \in {"failed", "timer", "limited", "signal"} : group[f] \in BOOLEAN
  /\ group.task \in [Tasks -> {"notFound", "waiting", "running", "canceled", "finished", "timeout"}]
  /\ \A f \in {"info", "queued", "result"} : group[f] \subseteq Tasks
  /\ group.worker \in [Tasks -> {"none", "dequeued", "updated", "checked", "performing"}]

Init ==
  group = [state |-> "notFound", members |-> {}, functions |-> {}, made |-> 0, current |-> 0,
           pending |-> <<>>, finished |-> 0, promise |-> [i \in Executions |-> "none"],
           failed |-> FALSE, timer |-> FALSE, limited |-> FALSE, signal |-> FALSE,
           task |-> [t \in Tasks |-> "notFound"], info |-> {}, queued |-> {}, result |-> {},
           worker |-> [t \in Tasks |-> "none"], gaps |-> {}]

----------------------------------------------------------------------------
(* Helpers, on a record g. *)

Settled(g, S, outcome) ==
  [g EXCEPT !.promise = [i \in Executions |->
     IF i \notin S THEN @[i] ELSE IF @[i] = "open" THEN outcome ELSE "twice"]]

PendingOf(g) == {g.pending[k] : k \in 1..Len(g.pending)}
AllFinished(g) == g.finished = Cardinality(g.members)

(* RejectResult *)
Rejected(g) == [Settled(g, {g.current}, "rejected") EXCEPT !.current = 0]

\* Mutant: the tasks of the execution before stay counted.
BegunCounting(g, i) == [g EXCEPT !.current = i, !.failed = FALSE]

Begun(g, i) == [g EXCEPT !.current = i, !.finished = 0, !.failed = FALSE]

(* CancelGroupTask: what is still queued counts as finished. *)
TasksCanceled(g, S) ==
  LET erased == {t \in S : g.task[t] = "waiting" /\ t \in g.info \cap g.queued} IN
  [g EXCEPT !.queued = @ \ erased, !.info = @ \ erased,
            !.finished = @ + (IF g.current = 0 THEN 0 ELSE Cardinality(erased)),
            !.task = [t \in Tasks |-> IF t \notin S THEN @[t]
                                      ELSE IF g.state = "timeout" THEN "timeout" ELSE "canceled"],
            !.gaps = IF erased \cap g.functions = {} THEN @ ELSE @ \cup {"spoilt"}]

(* The rest of CancelGroup and of TimeoutGroup. *)
Stopped(g, before) ==
  LET canceled == IF AllFinished(g) THEN g ELSE TasksCanceled(g, g.members) IN
  IF (~AllFinished(g) /\ AllFinished(canceled)) \/ before = "waiting" THEN Rejected(canceled) ELSE canceled

----------------------------------------------------------------------------
(* The host. *)

(* AddTask, of a task or of a function. *)
AddTask(t) ==
  /\ group.state = "notFound" /\ t \notin group.members
  /\ \/ group' = [group EXCEPT !.members = @ \cup {t}]
     \/ group' = [group EXCEPT !.members = @ \cup {t}, !.functions = @ \cup {t}, !.info = @ \cup {t}]

(* ExecuteTask queues the tasks that are not being executed. *)
TasksExecuted(g) ==
  LET queued == {t \in g.members : g.task[t] \in {"notFound", "finished"}} IN
  [g EXCEPT !.info = @ \cup (g.members \ g.functions), !.queued = @ \cup queued,
            !.task = [t \in Tasks |-> IF t \in queued THEN "waiting" ELSE @[t]],
            !.gaps = IF queued = g.members THEN @ ELSE @ \cup {"executedCanceled"}]

ExecuteGroup(timeout) ==
  /\ group.made < MaxExecutions /\ ~group.limited
  /\ timeout => group.state = "notFound"
  /\ LET i == group.made + 1
         g == [group EXCEPT !.made = i, !.promise[i] = "open", !.limited = timeout,
                            !.state = IF @ \in {"notFound", "finished", "canceled"} THEN "waiting" ELSE @]
     IN group' = IF g.members = {} THEN [Settled(g, {i}, "resolved") EXCEPT !.state = "finished"]
                 ELSE IF g.current = 0 THEN TasksExecuted([Begun(g, i) EXCEPT !.timer = timeout])
                 ELSE [g EXCEPT !.pending = Append(@, i)]

(* NotifyGroupTask queues every task. *)
NotifyGroupTask(g) ==
  IF g.pending = <<>> THEN g
  ELSE [Begun(g, Head(g.pending)) EXCEPT
          !.pending = Tail(@), !.state = "waiting",
          !.info = @ \cup (g.members \ g.functions), !.queued = @ \cup g.members,
          !.task = [t \in Tasks |-> IF t \in g.members THEN "waiting" ELSE @[t]]]

(* HandleTaskResult and UpdateGroupInfoByResult.  A task that has been     *)
(* canceled, or timed out, has failed.                                     *)
UpdateGroupInfoByResult(t, success) ==
  /\ t \in group.result
  /\ success => group.task[t] = "running"
  /\ LET g == [group EXCEPT !.result = @ \ {t}, !.info = IF t \in group.functions THEN @ ELSE @ \ {t},
                            !.task[t] = IF @ \in {"running", "canceled"} THEN "finished" ELSE @]
         counted == [g EXCEPT !.finished = @ + 1, !.failed = @ \/ ~success]
         outcome == IF counted.failed THEN "rejected" ELSE "resolved"
     IN group' = IF group.current = 0 THEN g
                 ELSE IF ~AllFinished(counted) THEN counted
                 ELSE IF group.state = "timeout" THEN Rejected(counted)
                 ELSE NotifyGroupTask([Settled(counted, {group.current}, outcome) EXCEPT
                        !.state = "finished", !.current = 0, !.timer = FALSE])

(* CancelGroup *)
CancelGroup ==
  /\ group.current # 0 /\ group.state \notin {"canceled", "timeout", "notFound", "finished"}
  /\ LET g == [Settled(group, PendingOf(group), "rejected") EXCEPT
                 !.state = "canceled", !.pending = <<>>, !.timer = FALSE]
     IN group' = Stopped(g, group.state)

(* TaskGroupTimeoutCallback, TimeoutGroup *)
TimeoutGroup ==
  /\ group.timer
  /\ LET g == [group EXCEPT !.timer = FALSE] IN
     group' = IF group.state \in {"canceled", "finished", "timeout"} THEN g
              ELSE IF group.current = 0 THEN [g EXCEPT !.state = "timeout"]
              ELSE Stopped([g EXCEPT !.state = "timeout"], group.state)

(* cancel of one of the tasks: TaskGroup::CancelGroupTask, and RejectResult *)
(* here or, when the caller is another thread, through the signal.         *)
CancelTask(t, sameEnv) ==
  /\ t \in group.members \cap group.info
  /\ group.task[t] \in {"waiting", "running"}
  /\ LET g == [TasksCanceled(group, {t}) EXCEPT !.gaps = @ \cup {"taskCanceled"}] IN
     group' = IF ~sameEnv THEN [g EXCEPT !.signal = TRUE]
              ELSE IF g.current # 0 /\ AllFinished(g) THEN Rejected(g) ELSE g

StartRejectResult ==
  /\ group.signal
  /\ LET g == [group EXCEPT !.signal = FALSE] IN
     group' = IF g.current # 0 /\ AllFinished(g) THEN Rejected(g) ELSE g

----------------------------------------------------------------------------
(* The workers. *)

Dequeue(t) ==
  /\ t \in group.queued /\ group.worker[t] = "none"
  /\ group' = [group EXCEPT !.queued = @ \ {t}, !.worker[t] = "dequeued"]

UpdateTask(t) ==
  /\ group.worker[t] = "dequeued"
  /\ group' = [group EXCEPT !.worker[t] = "updated",
                            !.task[t] = IF @ \in {"canceled", "timeout"} THEN @ ELSE "running"]

(* UpdateGroupState keeps a cancel that it sees; the host may cancel the   *)
(* group, or time it out, between the check and the change.                *)
UpdateGroupState(t) ==
  /\ group.worker[t] = "updated"
  /\ group' = [group EXCEPT !.worker[t] = IF group.state = "canceled" THEN "performing" ELSE "checked"]

SetGroupRunning(t) ==
  /\ group.worker[t] = "checked"
  /\ group' = [group EXCEPT !.worker[t] = "performing", !.state = "running"]

(* Without its information the task has no result. *)
Perform(t) ==
  /\ group.worker[t] = "performing"
  /\ group' = [group EXCEPT !.worker[t] = "none", !.result = IF t \in group.info THEN @ \cup {t} ELSE @]

Next ==
  \/ \E timeout \in BOOLEAN : ExecuteGroup(timeout)
  \/ CancelGroup \/ TimeoutGroup \/ StartRejectResult
  \/ \E t \in Tasks :
       \/ AddTask(t) \/ Dequeue(t) \/ UpdateTask(t) \/ UpdateGroupState(t) \/ SetGroupRunning(t)
       \/ Perform(t)
       \/ \E success \in BOOLEAN : UpdateGroupInfoByResult(t, success)
       \/ \E sameEnv \in BOOLEAN : CancelTask(t, sameEnv)

----------------------------------------------------------------------------
(* What must hold.  Of executions that go wrong, these are the ways:       *)
(*   executedCanceled: a group that was canceled is executed again; its    *)
(*     tasks keep the state CANCELED, without isCancelToFinish_, and are   *)
(*     not queued                                                          *)
(*   taskCanceled: a cancel of its last task ends an execution, and those  *)
(*     that wait behind it are not started                                 *)
(*   spoilt: a function has lost its information with a cancel             *)

(* The promise of an execution is settled once. *)
SettledOnce == \A i \in Executions : group.promise[i] # "twice"

Outstanding == group.queued \cup group.result \cup {t \in Tasks : group.worker[t] # "none"}

(* An execution ends when, and only when, each of its tasks has ended: the *)
(* tasks it counts and those under way are all of them.  Executions wait   *)
(* only behind one that is under way, and none is open but these.          *)
Counted ==
  /\ group.gaps = {} /\ group.current # 0 =>
       group.finished + Cardinality(Outstanding) = Cardinality(group.members)
  /\ "taskCanceled" \notin group.gaps /\ group.pending # <<>> => group.current # 0
  /\ \A i \in Executions : group.promise[i] = "open" => i = group.current \/ i \in PendingOf(group)
=============================================================================
