----------------------------- MODULE TaskQueues -----------------------------
(***************************************************************************)
(* The queues of the task pool, one per priority, and the choice of the    *)
(* next task: taskpool/task_queue.cpp and EnqueueTaskId, EraseWaitingTaskId, *)
(* DequeueTaskId, GetTaskByPriority, IsChooseIdle of task_manager.cpp.     *)
(* A queue is the number of tasks in it: which of them goes first is the   *)
(* concern of TaskDependency.  Everything but IsChooseIdle happens under   *)
(* taskQueuesMutex_.                                                       *)
(***************************************************************************)
EXTENDS Naturals

CONSTANTS
  Workers,
  PriorityTaskCount,  \* USER_INTERACTION_, DEADLINE_, HIGH_ and MEDIUM_PRIORITY_TASK_COUNT
  MaxQueued           \* bound: tasks in all queues together

VARIABLE queues

Weighted == {"userInteraction", "deadline", "high", "medium"}
Priorities == Weighted \cup {"low", "idle"}
SystemOnly == {"userInteraction", "deadline"}

(* The tasks in the queues, without those of idle priority, and all.       *)
NonIdle(length) ==
  length["userInteraction"] + length["deadline"] + length["high"] + length["medium"] + length["low"]
Queued(length) == NonIdle(length) + length["idle"]

(* asked: what IsChooseIdle has told a worker that goes on to dequeue.     *)
TypeOK ==
  /\ queues.system \in BOOLEAN
  /\ queues.length \in [Priorities -> 0..MaxQueued]
  /\ queues.executed \in [Weighted -> 0..PriorityTaskCount]
  /\ queues.total \in Nat /\ queues.nonIdle \in Nat
  /\ queues.performIdle \in BOOLEAN
  /\ queues.asked \in [Workers -> {"no", "choose", "skip"}]
  /\ queues.performs \in [Workers -> Priorities \cup {"none"}]

Init ==
  \E system \in BOOLEAN :
    queues = [system |-> system,
              length |-> [p \in Priorities |-> 0],
              executed |-> [p \in Weighted |-> 0],
              total |-> 0, nonIdle |-> 0, performIdle |-> FALSE,
              asked |-> [w \in Workers |-> "no"],
              performs |-> [w \in Workers |-> "none"]]

Counts(p) == IF p = "idle" THEN 0 ELSE 1
IsEmpty(p) == queues.length[p] = 0

(* The priorities above IDLE are those of system applications. *)
EnqueueTaskId(p) ==
  /\ Queued(queues.length) < MaxQueued
  /\ p \in SystemOnly => queues.system
  /\ queues' = [queues EXCEPT !.length[p] = @ + 1, !.total = @ + 1, !.nonIdle = @ + Counts(p)]

EraseWaitingTaskId(p) ==
  /\ ~IsEmpty(p)
  /\ queues' = [queues EXCEPT !.length[p] = @ - 1, !.total = @ - 1, !.nonIdle = @ - Counts(p)]

(* Whether all workers are idle is asked before the queues are locked. *)
IsChooseIdle(w) ==
  /\ queues.performs[w] = "none" /\ queues.asked[w] = "no"
  /\ queues' = [queues EXCEPT !.asked[w] =
                  IF \A v \in Workers : queues.performs[v] = "none" THEN "choose" ELSE "skip"]

----------------------------------------------------------------------------
(* A weighted queue is passed over when it is empty or has had its turns;  *)
(* then it gets new turns.                                                 *)
Skipped(p) == IsEmpty(p) \/ queues.executed[p] >= PriorityTaskCount

\* Mutant: a turn is not counted.
UncountedTurn(p, before) == [q \in Weighted |-> IF q \in before THEN 0 ELSE queues.executed[q]]

Turn(p, before) ==
  [q \in Weighted |-> IF q \in before THEN 0 ELSE queues.executed[q] + (IF q = p THEN 1 ELSE 0)]

(* GetTaskByPriority: a task that depends on another is only taken out. *)
GetTaskByPriority(w, p, executed) ==
  \E dependent \in BOOLEAN :
    queues' = [queues EXCEPT
      !.length[p] = @ - 1, !.total = @ - 1, !.nonIdle = @ - Counts(p),
      !.executed = executed, !.asked[w] = "no",
      !.performIdle = @ \/ (p = "idle" /\ ~dependent),
      !.performs[w] = IF dependent THEN "none" ELSE p]

DequeueWeighted(w, p, before) ==
  /\ \A q \in before : Skipped(q)
  /\ ~Skipped(p)
  /\ GetTaskByPriority(w, p, Turn(p, before))

TakesIdle(w) ==
  /\ ~queues.performIdle /\ ~IsEmpty("idle") /\ queues.asked[w] = "choose"
  /\ IsEmpty("high") /\ IsEmpty("medium")

DequeueTaskId(w) ==
  LET above == IF queues.system THEN SystemOnly ELSE {} IN
  /\ queues.asked[w] # "no"
  /\ \/ queues.system /\ DequeueWeighted(w, "userInteraction", {})
     \/ queues.system /\ DequeueWeighted(w, "deadline", {"userInteraction"})
     \/ DequeueWeighted(w, "high", above)
     \/ DequeueWeighted(w, "medium", above \cup {"high"})
     \/ LET all == above \cup {"high", "medium"} IN
        /\ \A q \in all : Skipped(q)
        /\ \/ ~IsEmpty("low") /\ GetTaskByPriority(w, "low", Turn("low", all))
           \/ IsEmpty("low") /\ TakesIdle(w) /\ GetTaskByPriority(w, "idle", Turn("idle", all))
           \/ /\ IsEmpty("low") /\ ~TakesIdle(w)
              /\ queues' = [queues EXCEPT !.executed = Turn("none", all), !.asked[w] = "no"]

(* The end of PerformTask: ResetPerformIdleState. *)
TaskPerformed(w) ==
  /\ queues.performs[w] # "none"
  /\ queues' = [queues EXCEPT !.performs[w] = "none",
                              !.performIdle = @ /\ queues.performs[w] # "idle"]

Next ==
  \/ \E p \in Priorities : EnqueueTaskId(p) \/ EraseWaitingTaskId(p)
  \/ \E w \in Workers : IsChooseIdle(w) \/ DequeueTaskId(w) \/ TaskPerformed(w)

----------------------------------------------------------------------------
(* What must hold. *)

(* The counters that decide on expansion and on the wake-up of workers are *)
(* those of the queues, and one idle-priority task is performed at a time. *)
Consistent ==
  /\ queues.total = Queued(queues.length)
  /\ queues.nonIdle = NonIdle(queues.length)
  /\ queues.performIdle <=> \E w \in Workers : queues.performs[w] = "idle"
  /\ \A v, w \in Workers : queues.performs[v] = "idle" /\ queues.performs[w] = "idle" => v = w

(* How far the turns have advanced, most significant first: while a task   *)
(* of low priority waits, no dequeue lets this go back, so that the task   *)
(* has its turn after a bounded number of others.                          *)
Turns(executed) ==
  LET n == PriorityTaskCount + 1 IN
  ((executed["medium"] * n + executed["high"]) * n + executed["deadline"]) * n
    + executed["userInteraction"]

LowHasItsTurn ==
  (\E w \in Workers : queues.asked[w] # "no" /\ queues'.asked[w] = "no") /\ ~IsEmpty("low")
    => \/ queues'.length["low"] < queues.length["low"]
       \/ Turns(queues'.executed) > Turns(queues.executed)
=============================================================================
