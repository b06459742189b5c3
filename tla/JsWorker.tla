------------------------------ MODULE JsWorker ------------------------------
(***************************************************************************)
(* A Worker of the @ohos.worker module: worker/worker.cpp.                 *)
(*                                                                         *)
(* One Worker object is shared by the thread of the host, whose JS object  *)
(* wraps it, and the thread it starts.  liveStatusLock_ is held for the    *)
(* length of one action, except by GlobalCall, which keeps it while it     *)
(* waits for the host.  The checks the two threads make before they act    *)
(* are steps of their own where the code does not lock.                    *)
(***************************************************************************)
EXTENDS Naturals, Sequences, SequencesExt

CONSTANTS
  MaxMessages,  \* bound: messages the host posts, and those in its own queue
  MaxCalls      \* bound: synchronous calls of the worker, and those in the queue

VARIABLE worker

RunnerState == <<"starting", "running", "terminateing", "terminated">>
Rank(state) == CHOOSE i \in 1..4 : RunnerState[i] = state

(* thread, host: where the two threads are in the code.                    *)
(* wrapped: the JS object keeps the pointer; listed: it is in g_workers    *)
(*   and counted by the WorkerManager                                       *)
(* signal, callSignal, over: events sent and not handled yet               *)
(* answer: the last GlobalCall that returned a value, and whose it was     *)
(* late: a call has ended, by its timeout or by the failure of an earlier   *)
(*   one, while its answer was about to be queued                          *)
TypeOK ==
  /\ worker.mainHandler \in BOOLEAN /\ worker.debug \in BOOLEAN
  /\ worker.thread \in {"none", "created", "env", "script", "prepared", "loop", "handler",
                        "cancelling", "calling", "waiting", "stopped", "released", "ended"}
  /\ worker.host \in {"idle", "terminating", "posting", "serving", "answering", "collecting",
                      "cleaning", "checked", "exited"}
  /\ worker.runner \in ToSet(RunnerState)
  /\ \A f \in {"hostStop", "hostExited", "isTerminated", "inited", "signal", "wrapped", "over",
               "handles", "deleted", "listed", "needOnExit", "callSignal", "success"} :
       worker[f] \in BOOLEAN
  /\ worker.queue \in Seq({"message", "terminate"}) /\ worker.toHost \in Nat
  /\ worker.calls \in Seq(1..MaxCalls) /\ worker.answers \in Seq(0..MaxCalls)
  /\ worker.callId \in 1..(MaxCalls + 1) /\ worker.serving \in 0..MaxCalls
  /\ worker.exits \in Nat /\ worker.late \in BOOLEAN

(* Constructor and StartExecuteInThread; a bad path leaves no thread.      *)
Init ==
  \E mainHandler, debug, found \in BOOLEAN :
    worker = [mainHandler |-> mainHandler, debug |-> debug,
              thread |-> IF found THEN "created" ELSE "none", host |-> "idle", runner |-> "starting",
              hostStop |-> FALSE, hostExited |-> FALSE, isTerminated |-> FALSE, inited |-> FALSE,
              signal |-> FALSE, queue |-> <<>>, toHost |-> 0, wrapped |-> TRUE, over |-> FALSE,
              handles |-> ~mainHandler, deleted |-> FALSE, listed |-> found, needOnExit |-> TRUE,
              exits |-> 0, posted |-> 0, callSignal |-> FALSE, success |-> TRUE, callId |-> 1,
              calls |-> <<>>, answers |-> <<>>, serving |-> 0, answer |-> <<0, 0>>, late |-> FALSE]

----------------------------------------------------------------------------
HostIsGone(w) == w.hostStop \/ w.hostExited
Unlocked == worker.thread # "waiting"

(* UpdateWorkerState: the state only advances. *)
Advanced(w, state) == IF Rank(w.runner) < Rank(state) THEN [w EXCEPT !.runner = state] ELSE w

\* Mutant: the loop is woken by a message only when the worker is running.
PostedToRunning(w, data) ==
  IF w.runner = "terminated" THEN w
  ELSE [w EXCEPT !.queue = Append(@, data), !.signal = @ \/ w.runner = "running"]

(* PostMessageInner: the signals exist once the thread has made them. *)
Posted(w, data) ==
  IF w.runner = "terminated" THEN w
  ELSE [w EXCEPT !.queue = Append(@, data), !.signal = @ \/ w.inited]

(* ReleaseHostThreadContent: an inactive host keeps its hostEnv_. *)
ContentReleased(w) ==
  [w EXCEPT !.toHost = 0, !.calls = <<>>, !.wrapped = IF w.hostStop THEN @ ELSE FALSE,
            !.handles = FALSE, !.callSignal = FALSE]

(* EraseWorker *)
Erased(w) == [w EXCEPT !.listed = FALSE]

(* TerminateInner *)
Terminated(w) ==
  IF Rank(w.runner) >= Rank("terminateing") THEN w
  ELSE Posted(Advanced(w, "terminateing"), "terminate")

----------------------------------------------------------------------------
(* The host. *)

Reachable == worker.host = "idle" /\ worker.wrapped /\ ~worker.hostStop

(* CommonPostMessage checks the state and serializes before it posts.      *)
CommonPostMessage ==
  /\ Reachable /\ worker.posted < MaxMessages /\ worker.runner \in {"starting", "running"}
  /\ worker' = [worker EXCEPT !.host = "posting", !.posted = @ + 1]

PostMessageInner ==
  /\ worker.host = "posting"
  /\ worker' = [Posted(worker, "message") EXCEPT !.host = "idle"]

(* Terminate, whose first caller goes on to TerminateInner. *)
Terminate ==
  /\ Reachable /\ ~worker.isTerminated
  /\ worker' = IF Rank(worker.runner) >= Rank("terminateing")
               THEN [worker EXCEPT !.isTerminated = TRUE]
               ELSE [Advanced(worker, "terminateing") EXCEPT !.isTerminated = TRUE, !.host = "terminating"]

PostTerminate ==
  /\ worker.host = "terminating"
  /\ worker' = [Posted(worker, "terminate") EXCEPT !.host = "idle"]

CancelTask ==
  /\ Reachable /\ worker.runner \in {"starting", "running"} /\ worker.queue # <<>>
  /\ worker' = [worker EXCEPT !.queue = <<>>]

(* HostOnMessageInner: the messages of the queue; on the main thread it    *)
(* stops for an event of higher priority and posts itself again.           *)
HostOnMessage ==
  /\ worker.host = "idle" /\ worker.toHost > 0 /\ ~worker.hostStop /\ ~worker.deleted
  /\ \E left \in IF worker.mainHandler THEN 0..(worker.toHost - 1) ELSE {0} :
       worker' = [worker EXCEPT !.toHost = left]

(* HostOnGlobalCallInner: the call that is waited for is looked up ...     *)
HostOnGlobalCall ==
  /\ worker.host = "idle" /\ worker.callSignal /\ ~worker.deleted
  /\ LET handled == [worker EXCEPT !.callSignal = FALSE]
         failed == [handled EXCEPT !.success = FALSE]
         found == SelectInSeq(worker.calls, LAMBDA id : id = worker.callId)
     IN worker' = IF worker.hostStop \/ worker.calls = <<>> THEN failed
                  ELSE IF found = 0 THEN [failed EXCEPT !.calls = <<>>]
                  ELSE [handled EXCEPT !.calls = SubSeq(@, found + 1, Len(@)),
                                       !.serving = worker.callId, !.host = "serving"]

(* ... the method is called, which may fail ...                            *)
CallFails ==
  /\ worker.host = "serving"
  /\ worker' = [worker EXCEPT !.host = "idle", !.serving = 0, !.success = FALSE]

CallReturns ==
  /\ worker.host = "serving"
  /\ worker' = IF worker.serving = worker.callId THEN [worker EXCEPT !.host = "answering"]
               ELSE [worker EXCEPT !.host = "idle", !.serving = 0]

(* ... and what it returns is queued, not under a lock with the check.     *)
AnswerCall ==
  /\ worker.host = "answering"
  /\ worker' = [worker EXCEPT !.host = "idle", !.serving = 0, !.success = TRUE,
                              !.answers = Append(@, worker.serving)]

(* HostOnExitInner and CloseHostCallback: the end of a worker whose thread *)
(* has told the host.                                                      *)
HostOnExit ==
  /\ worker.host = "idle" /\ worker.over /\ ~worker.deleted /\ Unlocked
  /\ worker' = IF worker.hostStop THEN [worker EXCEPT !.over = FALSE]
               ELSE [worker EXCEPT !.over = FALSE, !.handles = FALSE, !.wrapped = FALSE,
                                   !.deleted = TRUE, !.exits = @ + (IF worker.needOnExit THEN 1 ELSE 0)]

(* The JS object is garbage; its finalizer waits for the lock.             *)
Collect ==
  /\ Reachable
  /\ worker' = [worker EXCEPT !.host = "collecting"]

WorkerDestructor ==
  /\ worker.host = "collecting" /\ Unlocked
  /\ LET released == [ContentReleased([worker EXCEPT !.hostStop = TRUE]) EXCEPT
                        !.wrapped = FALSE, !.host = "idle"]
     IN worker' = IF worker.runner = "running" THEN Terminated(released) ELSE released

(* The engine of the host ends: the cleanup hook, which WorkerDestructor   *)
(* has taken away, looks for the worker in g_workers ...                   *)
HostEnds ==
  /\ worker.host = "idle"
  /\ worker' = [worker EXCEPT !.host = IF worker.listed /\ ~worker.hostStop THEN "checked" ELSE "cleaning"]

(* ... and, if it was listed, releases what is the host's; its thread may  *)
(* have ended in between, and nobody deletes it then.                      *)
HostEnvCleanCallback ==
  /\ worker.host = "checked" /\ Unlocked
  /\ worker' = [ContentReleased(worker) EXCEPT !.hostExited = TRUE, !.host = "exited", !.over = FALSE]

(* Otherwise there is the finalizer of what is still wrapped, if it is.    *)
HostExits ==
  /\ worker.host = "cleaning" /\ Unlocked
  /\ worker' = [ContentReleased(worker) EXCEPT !.hostStop = @ \/ worker.wrapped, !.wrapped = FALSE,
                                               !.host = "exited", !.over = FALSE]

----------------------------------------------------------------------------
(* The thread of the worker. *)

(* IsPublishWorkerOverSignal: the host deletes the worker, or the thread.  *)
Over(w) ==
  IF HostIsGone(w) THEN Erased(w) ELSE [Erased(w) EXCEPT !.over = TRUE]

(* CreateWorkerEnv; without an engine, WorkerOverWithoutExit. *)
CreateWorkerEnv ==
  /\ worker.thread = "created"
  /\ \/ ~HostIsGone(worker) /\ worker' = [worker EXCEPT !.thread = "env"]
     \/ worker' = [Over([worker EXCEPT !.needOnExit = FALSE]) EXCEPT !.thread = "ended"]

(* PrepareForWorkerInstance, before the script. *)
PrepareForWorkerInstance ==
  /\ worker.thread = "env"
  /\ \/ ~HostIsGone(worker) /\ worker' = [worker EXCEPT !.thread = "script"]
     \/ worker' = [Advanced(worker, "terminated") EXCEPT !.thread = "stopped"]

ScriptFails ==
  /\ worker.thread = "script"
  /\ worker' = [Advanced(worker, "terminated") EXCEPT !.thread = "stopped"]

(* The rest of ExecuteInThread, which wakes itself for what was queued     *)
(* before there were signals.  A loop that was stopped does not run.       *)
ExecuteInThread ==
  /\ worker.thread \in {"script", "prepared"}
  /\ worker' = [Advanced(worker, "running") EXCEPT
                  !.inited = TRUE, !.signal = TRUE,
                  !.thread = IF worker.thread = "prepared" THEN "stopped" ELSE "loop"]

(* TerminateWorker *)
TerminateWorker(w) ==
  [Advanced(Advanced(w, "terminateing"), "terminated") EXCEPT !.inited = FALSE, !.signal = FALSE]

(* CloseInner, in the script or in a handler, unless terminate was first.  *)
CloseInner ==
  /\ worker.thread \in {"script", "handler"} /\ ~worker.isTerminated
  /\ worker' = [TerminateWorker(worker) EXCEPT
                  !.isTerminated = TRUE,
                  !.thread = IF worker.thread = "script" THEN "prepared" ELSE "stopped"]

(* WorkerOnMessageInner *)
WorkerOnMessage ==
  /\ worker.thread = "loop" /\ worker.signal
  /\ worker' = IF worker.queue = <<>> \/ worker.runner = "terminated" THEN [worker EXCEPT !.signal = FALSE]
               ELSE IF Head(worker.queue) = "terminate"
               THEN [TerminateWorker(worker) EXCEPT !.thread = "stopped", !.queue = Tail(@)]
               ELSE [worker EXCEPT !.thread = "handler", !.queue = Tail(@)]

HandlerReturns ==
  /\ worker.thread = "handler"
  /\ worker' = [worker EXCEPT !.thread = "loop"]

(* CommonPostMessageToHost and PostMessageAtFrontToHost: a worker that     *)
(* does not run, or whose host is gone, posts nothing.                     *)
PostMessageToHost ==
  /\ worker.thread = "handler" /\ worker.runner = "running" /\ ~HostIsGone(worker)
  /\ worker.toHost < MaxMessages
  /\ worker' = [worker EXCEPT !.toHost = @ + 1]

(* ParentPortCancelTask: the check and the clearing, which the host may    *)
(* come between.                                                           *)
ParentPortCancelTask ==
  /\ worker.thread = "handler" /\ worker.runner \in {"starting", "running"}
  /\ worker' = [worker EXCEPT !.thread = "cancelling"]

ClearWorkerTasks ==
  /\ worker.thread = "cancelling"
  /\ worker' = [worker EXCEPT !.thread = "handler", !.queue = IF worker.hostExited THEN @ ELSE <<>>]

(* GlobalCall: a request is queued ...                                     *)
GlobalCall ==
  /\ worker.thread = "handler" /\ worker.runner = "running"
  /\ worker.callId <= MaxCalls /\ Len(worker.calls) < MaxCalls
  /\ worker' = [worker EXCEPT !.thread = "calling", !.calls = Append(@, worker.callId)]

(* ... then, under the lock, the answers to earlier ones are dropped and   *)
(* the host is told; a signal of an earlier call may have told it before.  *)
(* When the host is gone, the call throws.                                 *)
InitGlobalCallStatus ==
  /\ worker.thread = "calling"
  /\ worker' = IF HostIsGone(worker) THEN [worker EXCEPT !.thread = "handler"]
               ELSE [worker EXCEPT !.thread = "waiting", !.answers = <<>>, !.success = TRUE, !.callSignal = TRUE]

(* IncreaseGlobalCallId, after DEFAULT_TIMEOUT at most, or never when the  *)
(* engine is debugged.                                                     *)
IncreaseGlobalCallId(w) ==
  [w EXCEPT !.thread = "handler", !.callId = @ + 1, !.late = @ \/ w.host = "answering"]

GlobalCallTimeout ==
  /\ worker.thread = "waiting" /\ ~worker.debug
  /\ worker' = IncreaseGlobalCallId(worker)

GlobalCallReturns ==
  /\ worker.thread = "waiting" /\ (worker.answers # <<>> \/ ~worker.success)
  /\ worker' = IF worker.success
               THEN [IncreaseGlobalCallId(worker) EXCEPT
                       !.answer = <<worker.callId, Head(worker.answers)>>, !.answers = Tail(@)]
               ELSE IncreaseGlobalCallId(worker)

(* ReleaseWorkerThreadContent *)
ReleaseWorkerThreadContent ==
  /\ worker.thread = "stopped"
  /\ worker' = [worker EXCEPT !.thread = "released", !.queue = <<>>, !.answers = <<>>]

\* Mutant: the thread deletes the worker in every case.
ThreadAlwaysDeletes ==
  /\ worker.thread = "released"
  /\ worker' = [Over(worker) EXCEPT !.thread = "ended", !.deleted = TRUE]

(* The end of ExecuteInThread. *)
ThreadEnds ==
  /\ worker.thread = "released"
  /\ worker' = [Over(worker) EXCEPT !.thread = "ended", !.deleted = HostIsGone(worker)]

----------------------------------------------------------------------------
ThreadStep ==
  \/ CreateWorkerEnv \/ PrepareForWorkerInstance \/ ExecuteInThread \/ WorkerOnMessage
  \/ HandlerReturns \/ ClearWorkerTasks \/ InitGlobalCallStatus \/ GlobalCallTimeout \/ GlobalCallReturns
  \/ ReleaseWorkerThreadContent \/ ThreadEnds

HostStep ==
  \/ AnswerCall \/ PostMessageInner \/ PostTerminate
  \/ WorkerDestructor \/ HostEnvCleanCallback \/ HostExits

Next ==
  \/ ThreadStep \/ HostStep
  \/ CommonPostMessage \/ Terminate \/ CancelTask \/ HostOnMessage \/ HostOnGlobalCall
  \/ CallFails \/ CallReturns \/ HostOnExit \/ Collect \/ HostEnds
  \/ ScriptFails \/ CloseInner \/ PostMessageToHost \/ ParentPortCancelTask \/ GlobalCall

----------------------------------------------------------------------------
(* What must hold. *)

(* The Worker is deleted by one of the threads, after the other has        *)
(* finished with it: nothing that could still reach it is left.            *)
DeletedLast ==
  worker.deleted =>
    /\ worker.thread = "ended" /\ ~worker.wrapped /\ ~worker.over /\ ~worker.handles
    /\ worker.host \in {"idle", "cleaning", "exited"}

(* The number of workers an application may have counts the live threads,  *)
(* and onexit is called once, for a thread that has ended.                 *)
CountedWhileAlive ==
  /\ worker.listed <=> worker.thread \notin {"none", "ended"}
  /\ worker.exits <= 1 /\ (worker.exits = 1 => worker.thread = "ended")

(* A synchronous call returns what the host answered to it, except when an *)
(* earlier one has ended just between the host's check and its answer: it  *)
(* has timed out, or was told of the failure of one that had.              *)
AnswersMatch == worker.answer[1] # worker.answer[2] => worker.late

(* A worker that is asked to terminate ends, whenever in its life that is, *)
(* unless a parentPort.cancelTasks that passed its check before has thrown *)
(* the request away.                                                       *)
Deaf ==
  /\ worker.thread = "loop" /\ worker.host # "terminating"
  /\ ~Contains(worker.queue, "terminate")

(* The host waits for the lock no longer than a call may take.             *)
Locking == {"collecting", "cleaning", "checked"}
Settled ==
  /\ worker.runner \in {"terminateing", "terminated"} => worker.thread \in {"ended", "none"} \/ Deaf
  /\ worker.host \notin Locking
EndsAreReached ==
  ~worker.debug /\ (worker.runner = "terminateing" \/ worker.host \in Locking) ~> Settled
=============================================================================
