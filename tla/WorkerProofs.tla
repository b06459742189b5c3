---------------------------- MODULE WorkerProofs ----------------------------
(***************************************************************************)
(* Lemmas about JsWorker, WorkerListeners and SysTimer, each with the      *)
(* invariant that a step keeps: for any number of messages, calls,         *)
(* listeners, events and timers.                                           *)
(***************************************************************************)
EXTENDS Parts, Naturals, SequenceTheorems, WellFoundedInduction, TLAPS

CONSTANTS
  MaxMessages, MaxCalls,                         \* JsWorker
  Callbacks, Objects, MaxListeners, MaxEvents,   \* WorkerListeners
  Envs, Ids, MaxTimers                           \* SysTimer

Worker == INSTANCE JsWorker WITH worker <- state
Listener == INSTANCE WorkerListeners WITH listeners <- state
Timer == INSTANCE SysTimer WITH timers <- state

----------------------------------------------------------------------------
(* The worker.  The two threads may end in any order, so it is known of    *)
(* every end what the other thread has left: a host that is gone has no    *)
(* handles and wraps nothing, a thread that has ended is not counted.      *)

(* What the bound of JsWorker is. *)
WorkerAssumption == MaxCalls \in Nat

(* Where the two threads may be, and the states. *)
ThreadPlaces == {"none", "created", "env", "script", "prepared", "loop", "handler",
                 "cancelling", "calling", "waiting", "stopped", "released", "ended"}
HostPlaces == {"idle", "terminating", "posting", "serving", "answering", "collecting",
               "cleaning", "checked", "exited"}
InCall == {"calling", "waiting"}
RunnerStates == {"starting", "running", "terminateing", "terminated"}
Posts == {"message", "terminate"}

(* The values of worker. *)
WorkerValues ==
  [mainHandler : BOOLEAN, debug : BOOLEAN,
   thread : ThreadPlaces, host : HostPlaces, runner : RunnerStates,
   hostStop : BOOLEAN, hostExited : BOOLEAN, isTerminated : BOOLEAN, inited : BOOLEAN, signal : BOOLEAN,
   queue : Seq(Posts), toHost : Nat, wrapped : BOOLEAN, over : BOOLEAN,
   handles : BOOLEAN, deleted : BOOLEAN, listed : BOOLEAN, needOnExit : BOOLEAN, exits : Nat,
   posted : Nat, callSignal : BOOLEAN, success : BOOLEAN, callId : 1..(MaxCalls + 1),
   calls : Seq(1..MaxCalls), answers : Seq(0..MaxCalls), serving : 0..MaxCalls,
   answer : Nat \X Nat, late : BOOLEAN]

(* The ends of the two threads, and of the Worker. *)
WorkerEndings(w) ==
  /\ w.listed <=> w.thread \notin {"none", "ended"}
  /\ w.over => w.thread = "ended"
  /\ w.hostStop \/ w.hostExited => ~w.wrapped /\ ~w.handles /\ w.host \in {"idle", "cleaning", "exited"}
  /\ w.hostExited => w.host = "exited"
  /\ w.deleted => /\ w.thread = "ended" /\ ~w.wrapped /\ ~w.over /\ ~w.handles
                  /\ w.host \in {"idle", "cleaning", "exited"}
  /\ w.exits = 0 \/ (w.exits = 1 /\ w.deleted)

(* The number of a call is given out once, until the host is gone and      *)
(* calls fail.  Unless an answer was late, the host answers and has        *)
(* answered only the call that waits.                                      *)
Issued(w, id) == id < w.callId \/ (id = w.callId /\ w.thread \in InCall)
WorkerCalls(w) ==
  /\ w.thread \in InCall => w.callId <= MaxCalls
  /\ ~(w.hostStop \/ w.hostExited) => \A k \in 1..Len(w.calls) : Issued(w, w.calls[k])
  /\ w.host \in {"serving", "answering"} => Issued(w, w.serving)
  /\ w.host \notin {"serving", "answering"} => w.serving = 0
  /\ ~w.late => /\ w.host = "answering" => w.thread \in InCall /\ w.serving = w.callId
                /\ w.thread = "waiting" => \A k \in 1..Len(w.answers) : w.answers[k] = w.callId
                /\ w.answer[1] = w.answer[2]

WorkerInv == state \in WorkerValues /\ WorkerEndings(state) /\ WorkerCalls(state)

(* The fields of a value of worker. *)
LEMMA WorkerFields ==
  ASSUME NEW w \in WorkerValues
  PROVE  /\ w.mainHandler \in BOOLEAN /\ w.debug \in BOOLEAN
         /\ w.thread \in ThreadPlaces /\ w.host \in HostPlaces /\ w.runner \in RunnerStates
         /\ w.hostStop \in BOOLEAN /\ w.hostExited \in BOOLEAN /\ w.isTerminated \in BOOLEAN
         /\ w.inited \in BOOLEAN /\ w.signal \in BOOLEAN
         /\ w.queue \in Seq(Posts) /\ w.toHost \in Nat
         /\ w.wrapped \in BOOLEAN /\ w.over \in BOOLEAN /\ w.handles \in BOOLEAN
         /\ w.deleted \in BOOLEAN /\ w.listed \in BOOLEAN /\ w.needOnExit \in BOOLEAN
         /\ w.exits \in Nat /\ w.posted \in Nat /\ w.callSignal \in BOOLEAN /\ w.success \in BOOLEAN
         /\ w.callId \in 1..(MaxCalls + 1) /\ w.calls \in Seq(1..MaxCalls)
         /\ w.answers \in Seq(0..MaxCalls) /\ w.serving \in 0..MaxCalls
         /\ w.answer \in Nat \X Nat /\ w.late \in BOOLEAN
BY ZenonT(60) DEF WorkerValues

(* The places and states have their names. *)
LEMMA PlacesAre ==
  /\ "none" \in ThreadPlaces /\ "created" \in ThreadPlaces /\ "env" \in ThreadPlaces
  /\ "script" \in ThreadPlaces /\ "prepared" \in ThreadPlaces /\ "loop" \in ThreadPlaces
  /\ "handler" \in ThreadPlaces /\ "cancelling" \in ThreadPlaces /\ "waiting" \in ThreadPlaces
  /\ "calling" \in ThreadPlaces /\ "checked" \in HostPlaces
  /\ "stopped" \in ThreadPlaces /\ "released" \in ThreadPlaces /\ "ended" \in ThreadPlaces
  /\ "idle" \in HostPlaces /\ "terminating" \in HostPlaces /\ "posting" \in HostPlaces
  /\ "serving" \in HostPlaces /\ "answering" \in HostPlaces /\ "collecting" \in HostPlaces
  /\ "cleaning" \in HostPlaces /\ "exited" \in HostPlaces
  /\ "running" \in RunnerStates /\ "terminateing" \in RunnerStates /\ "terminated" \in RunnerStates
  /\ "message" \in Posts /\ "terminate" \in Posts
BY Zenon DEF ThreadPlaces, HostPlaces, RunnerStates, Posts

(* UpdateWorkerState changes nothing but the state of the runner. *)
LEMMA AdvancedIs ==
  ASSUME NEW w \in WorkerValues, NEW s \in RunnerStates
  PROVE  \E r \in RunnerStates :
           Worker!Advanced(w, s) = [w EXCEPT !.runner = r]
<1>1. CASE Worker!Rank(w.runner) < Worker!Rank(s)
  BY <1>1 DEF Worker!Advanced
<1>2. CASE ~(Worker!Rank(w.runner) < Worker!Rank(s))
  <2>1. w = [w EXCEPT !.runner = w.runner]
    BY DEF WorkerValues
  <2> QED BY <1>2, <2>1, WorkerFields DEF Worker!Advanced
<1> QED BY <1>1, <1>2

(* A message that is posted is queued, or nothing changes. *)
LEMMA PostedIs ==
  ASSUME NEW w \in WorkerValues, NEW data \in Posts
  PROVE  \E q \in Seq(Posts), b \in BOOLEAN :
           Worker!Posted(w, data) = [w EXCEPT !.queue = q, !.signal = b]
<1>1. w.queue \in Seq(Posts) /\ w.signal \in BOOLEAN /\ w.inited \in BOOLEAN
  BY WorkerFields
<1>2. CASE w.runner = "terminated"
  <2>1. w = [w EXCEPT !.queue = w.queue, !.signal = w.signal]
    BY DEF WorkerValues
  <2> QED BY <1>1, <1>2, <2>1 DEF Worker!Posted
<1>3. CASE w.runner # "terminated"
  <2>1. Append(w.queue, data) \in Seq(Posts)
    BY <1>1, AppendProperties
  <2> QED BY <1>1, <1>3, <2>1, Zenon DEF Worker!Posted
<1> QED BY <1>2, <1>3

(* What the two parts of the invariant depend on, besides the places of    *)
(* the threads.                                                            *)
SameEnds(w, v) ==
  /\ v.hostStop = w.hostStop /\ v.hostExited = w.hostExited /\ v.wrapped = w.wrapped /\ v.over = w.over
  /\ v.handles = w.handles /\ v.deleted = w.deleted /\ v.listed = w.listed /\ v.exits = w.exits
SameCalls(w, v) ==
  v.callId = w.callId /\ v.calls = w.calls /\ v.serving = w.serving /\ v.answer = w.answer /\ v.late = w.late

(* A step that moves neither thread and leaves the ends and calls alone.   *)
LEMMA NobodyMoves ==
  ASSUME NEW w, NEW v, WorkerEndings(w), WorkerCalls(w), SameEnds(w, v), SameCalls(w, v),
         v.thread = w.thread, v.host = w.host, v.answers = w.answers
  PROVE  WorkerEndings(v) /\ WorkerCalls(v)
BY DEF WorkerEndings, WorkerCalls, Issued, SameEnds, SameCalls

(* Init establishes the invariant. *)
LEMMA WorkerInitEstablishesInv ==
  ASSUME WorkerAssumption, Worker!Init
  PROVE  WorkerInv
<1>1. PICK mainHandler \in BOOLEAN, debug \in BOOLEAN, found \in BOOLEAN :
        state = [mainHandler |-> mainHandler, debug |-> debug,
              thread |-> IF found THEN "created" ELSE "none", host |-> "idle", runner |-> "starting",
              hostStop |-> FALSE, hostExited |-> FALSE, isTerminated |-> FALSE, inited |-> FALSE,
              signal |-> FALSE, queue |-> <<>>, toHost |-> 0, wrapped |-> TRUE, over |-> FALSE,
              handles |-> ~mainHandler, deleted |-> FALSE, listed |-> found, needOnExit |-> TRUE,
              exits |-> 0, posted |-> 0, callSignal |-> FALSE, success |-> TRUE, callId |-> 1,
              calls |-> <<>>, answers |-> <<>>, serving |-> 0, answer |-> <<0, 0>>, late |-> FALSE]
  BY DEF Worker!Init
<1>2. state \in WorkerValues
  <2>1. (IF found THEN "created" ELSE "none") \in ThreadPlaces /\ "starting" \in RunnerStates
    BY DEF ThreadPlaces, RunnerStates
  <2>2. 1 \in 1..(MaxCalls + 1) /\ 0 \in 0..MaxCalls /\ <<0, 0>> \in Nat \X Nat /\ 0 \in Nat
    BY DEF WorkerAssumption
  <2>3. <<>> \in Seq(Posts) /\ <<>> \in Seq(1..MaxCalls) /\ <<>> \in Seq(0..MaxCalls)
    OBVIOUS
  <2>4. (~mainHandler) \in BOOLEAN
    OBVIOUS
  <2> QED BY <1>1, <2>1, <2>2, <2>3, <2>4, PlacesAre, ZenonT(60) DEF WorkerValues
<1>3. WorkerEndings(state)
  BY <1>1 DEF WorkerEndings
<1>4. WorkerCalls(state)
  BY <1>1 DEF WorkerCalls, Issued, WorkerAssumption, InCall
<1> QED BY <1>2, <1>3, <1>4 DEF WorkerInv

(* A host that comes to another place in its code, without a call. *)
LEMMA HostMoves ==
  ASSUME NEW w, NEW v, WorkerEndings(w), WorkerCalls(w), SameEnds(w, v), SameCalls(w, v),
         w.host \notin {"serving", "answering"}, v.host \notin {"serving", "answering"}, ~w.hostExited,
         w.hostStop \/ w.deleted => v.host \in {"idle", "cleaning", "exited"},
         v.thread = w.thread, v.answers = w.answers
  PROVE  WorkerEndings(v) /\ WorkerCalls(v)
BY DEF WorkerEndings, WorkerCalls, Issued, SameEnds, SameCalls

(* A thread that goes on, and is not in a call. *)
LEMMA ThreadMoves ==
  ASSUME NEW w, NEW v, WorkerEndings(w), WorkerCalls(w), SameEnds(w, v), SameCalls(w, v),
         w.thread \notin {"none", "ended"} \cup InCall, v.thread \notin {"none", "ended"} \cup InCall,
         v.host = w.host
  PROVE  WorkerEndings(v) /\ WorkerCalls(v)
BY DEF WorkerEndings, WorkerCalls, Issued, InCall, SameEnds, SameCalls

(* The host posts, terminates, takes its messages, or begins to end. *)
LEMMA HostKeepsInv ==
  ASSUME WorkerInv,
         \/ Worker!CommonPostMessage \/ Worker!PostMessageInner \/ Worker!Terminate \/ Worker!PostTerminate
         \/ Worker!CancelTask \/ Worker!HostOnMessage \/ Worker!Collect \/ Worker!HostEnds
  PROVE  WorkerInv'
<1>1. state \in WorkerValues /\ WorkerEndings(state) /\ WorkerCalls(state)
  BY DEF WorkerInv
<1>2. /\ state.host # "exited" => ~state.hostExited
      /\ state.hostStop \/ state.deleted => state.host \in {"idle", "cleaning", "exited"} /\ ~state.wrapped
  BY <1>1 DEF WorkerEndings
<1>3. CASE Worker!CommonPostMessage
  <2>1. /\ state' = [state EXCEPT !.host = "posting", !.posted = state.posted + 1]
        /\ state.host = "idle" /\ state.wrapped
    BY <1>3 DEF Worker!CommonPostMessage, Worker!Reachable
  <2>2. state' \in WorkerValues
    <3>1. state.posted + 1 \in Nat
      BY <1>1, WorkerFields
    <3> QED BY <1>1, <2>1, <3>1, PlacesAre, ZenonT(60) DEF WorkerValues
  <2>3. /\ SameEnds(state, state') /\ SameCalls(state, state')
        /\ state'.thread = state.thread /\ state'.answers = state.answers /\ state'.host = "posting"
    BY <1>1, <2>1 DEF WorkerValues, SameEnds, SameCalls
  <2> QED BY <1>1, <1>2, <2>1, <2>2, <2>3, HostMoves DEF WorkerInv
<1>4. CASE Worker!PostMessageInner \/ Worker!PostTerminate
  <2>1. PICK data \in Posts :
          /\ state' = [Worker!Posted(state, data) EXCEPT !.host = "idle"]
          /\ state.host \in {"posting", "terminating"}
    BY <1>4, PlacesAre DEF Worker!PostMessageInner, Worker!PostTerminate
  <2>2. PICK q \in Seq(Posts), b \in BOOLEAN :
          Worker!Posted(state, data) = [state EXCEPT !.queue = q, !.signal = b]
    BY <1>1, PostedIs
  <2>3. state' = [state EXCEPT !.queue = q, !.signal = b, !.host = "idle"]
    BY <2>1, <2>2
  <2>4. state' \in WorkerValues
    BY <1>1, <2>3, PlacesAre, ZenonT(60) DEF WorkerValues
  <2>5. /\ SameEnds(state, state') /\ SameCalls(state, state')
        /\ state'.thread = state.thread /\ state'.answers = state.answers /\ state'.host = "idle"
    BY <1>1, <2>3 DEF WorkerValues, SameEnds, SameCalls
  <2> QED BY <1>1, <1>2, <2>1, <2>3, <2>4, <2>5, HostMoves DEF WorkerInv
<1>5. CASE Worker!Terminate
  <2>1. /\ state.host = "idle" /\ state.wrapped
        /\ \/ state' = [state EXCEPT !.isTerminated = TRUE]
           \/ state' = [Worker!Advanced(state, "terminateing") EXCEPT !.isTerminated = TRUE, !.host = "terminating"]
    BY <1>5 DEF Worker!Terminate, Worker!Reachable
  <2>2. CASE state' = [state EXCEPT !.isTerminated = TRUE]
    <3>1. state' \in WorkerValues
      BY <1>1, <2>2, ZenonT(60) DEF WorkerValues
    <3>2. /\ SameEnds(state, state') /\ SameCalls(state, state')
          /\ state'.thread = state.thread /\ state'.host = state.host /\ state'.answers = state.answers
      BY <1>1, <2>2 DEF WorkerValues, SameEnds, SameCalls
    <3> QED BY <1>1, <2>2, <3>1, <3>2, NobodyMoves DEF WorkerInv
  <2>3. CASE state' = [Worker!Advanced(state, "terminateing") EXCEPT !.isTerminated = TRUE, !.host = "terminating"]
    <3>1. PICK r \in RunnerStates : Worker!Advanced(state, "terminateing") = [state EXCEPT !.runner = r]
      BY <1>1, AdvancedIs, PlacesAre
    <3>2. state' = [state EXCEPT !.runner = r, !.isTerminated = TRUE, !.host = "terminating"]
      BY <2>3, <3>1
    <3>3. state' \in WorkerValues
      BY <1>1, <3>2, PlacesAre, ZenonT(60) DEF WorkerValues
    <3>4. /\ SameEnds(state, state') /\ SameCalls(state, state')
          /\ state'.thread = state.thread /\ state'.answers = state.answers /\ state'.host = "terminating"
      BY <1>1, <3>2 DEF WorkerValues, SameEnds, SameCalls
    <3> QED BY <1>1, <1>2, <2>1, <3>2, <3>3, <3>4, HostMoves DEF WorkerInv
  <2> QED BY <2>1, <2>2, <2>3
<1>6. CASE Worker!CancelTask
  <2>1. state' = [state EXCEPT !.queue = <<>>]
    BY <1>6 DEF Worker!CancelTask
  <2>2. state' \in WorkerValues
    <3>1. <<>> \in Seq(Posts)
      OBVIOUS
    <3> QED BY <1>1, <2>1, <3>1, PlacesAre, ZenonT(60) DEF WorkerValues
  <2>3. /\ SameEnds(state, state') /\ SameCalls(state, state')
        /\ state'.thread = state.thread /\ state'.host = state.host /\ state'.answers = state.answers
    BY <1>1, <2>1 DEF WorkerValues, SameEnds, SameCalls
  <2> QED BY <1>1, <2>1, <2>2, <2>3, NobodyMoves DEF WorkerInv
<1>7. CASE Worker!HostOnMessage
  <2>1. PICK left \in Nat : state' = [state EXCEPT !.toHost = left]
    BY <1>7 DEF Worker!HostOnMessage
  <2>2. state' \in WorkerValues
    BY <1>1, <2>1, PlacesAre, ZenonT(60) DEF WorkerValues
  <2>3. /\ SameEnds(state, state') /\ SameCalls(state, state')
        /\ state'.thread = state.thread /\ state'.host = state.host /\ state'.answers = state.answers
    BY <1>1, <2>1 DEF WorkerValues, SameEnds, SameCalls
  <2> QED BY <1>1, <2>1, <2>2, <2>3, NobodyMoves DEF WorkerInv
<1>8. CASE Worker!Collect
  <2>1. state' = [state EXCEPT !.host = "collecting"] /\ state.host = "idle" /\ state.wrapped
    BY <1>8 DEF Worker!Collect, Worker!Reachable
  <2>2. state' \in WorkerValues
    BY <1>1, <2>1, PlacesAre, ZenonT(60) DEF WorkerValues
  <2>3. /\ SameEnds(state, state') /\ SameCalls(state, state')
        /\ state'.thread = state.thread /\ state'.answers = state.answers /\ state'.host = "collecting"
    BY <1>1, <2>1 DEF WorkerValues, SameEnds, SameCalls
  <2> QED BY <1>1, <1>2, <2>1, <2>2, <2>3, HostMoves DEF WorkerInv
<1>9. CASE Worker!HostEnds
  <2>1. PICK h \in {"checked", "cleaning"} :
          /\ state' = [state EXCEPT !.host = h] /\ state.host = "idle"
          /\ h = "checked" => state.listed /\ ~state.hostStop
    BY <1>9 DEF Worker!HostEnds
  <2>2. state' \in WorkerValues
    BY <1>1, <2>1, PlacesAre, ZenonT(60) DEF WorkerValues
  <2>3. /\ SameEnds(state, state') /\ SameCalls(state, state')
        /\ state'.thread = state.thread /\ state'.answers = state.answers /\ state'.host = h
    BY <1>1, <2>1 DEF WorkerValues, SameEnds, SameCalls
  <2>4. state.deleted => ~state.listed
    BY <1>1 DEF WorkerEndings
  <2> QED BY <1>1, <1>2, <2>1, <2>2, <2>3, <2>4, HostMoves DEF WorkerInv
<1> QED BY <1>3, <1>4, <1>5, <1>6, <1>7, <1>8, <1>9

(* The end of the thread of the worker changes no more than it says. *)
LEMMA TerminateWorkerIs ==
  ASSUME NEW w \in WorkerValues
  PROVE  \E r \in RunnerStates :
           Worker!TerminateWorker(w) = [w EXCEPT !.runner = r, !.inited = FALSE, !.signal = FALSE]
<1>1. PICK q \in RunnerStates : Worker!Advanced(w, "terminateing") = [w EXCEPT !.runner = q]
  BY AdvancedIs, PlacesAre
<1>2. [w EXCEPT !.runner = q] \in WorkerValues
  BY ZenonT(60) DEF WorkerValues
<1>3. PICK r \in RunnerStates :
        Worker!Advanced([w EXCEPT !.runner = q], "terminated") = [[w EXCEPT !.runner = q] EXCEPT !.runner = r]
  BY <1>2, AdvancedIs, PlacesAre
<1>4. [[w EXCEPT !.runner = q] EXCEPT !.runner = r] = [w EXCEPT !.runner = r]
  BY DEF WorkerValues
<1>5. Worker!Advanced(Worker!Advanced(w, "terminateing"), "terminated") = [w EXCEPT !.runner = r]
  BY <1>1, <1>3, <1>4
<1>6. Worker!TerminateWorker(w) = [w EXCEPT !.runner = r, !.inited = FALSE, !.signal = FALSE]
  BY <1>5 DEF Worker!TerminateWorker
<1> QED BY <1>6

(* The thread of the worker goes on. *)
LEMMA ThreadKeepsInv ==
  ASSUME WorkerInv,
         \/ (Worker!CreateWorkerEnv /\ state' = [state EXCEPT !.thread = "env"])
         \/ Worker!PrepareForWorkerInstance \/ Worker!ScriptFails \/ Worker!ExecuteInThread
         \/ Worker!CloseInner \/ Worker!WorkerOnMessage \/ Worker!HandlerReturns
         \/ Worker!PostMessageToHost \/ Worker!ParentPortCancelTask \/ Worker!ClearWorkerTasks
         \/ Worker!ReleaseWorkerThreadContent
  PROVE  WorkerInv'
<1>1. state \in WorkerValues /\ WorkerEndings(state) /\ WorkerCalls(state)
  BY DEF WorkerInv
<1>2. state.queue \in Seq(Posts) /\ <<>> \in Seq(Posts) /\ <<>> \in Seq(0..MaxCalls)
  BY <1>1, WorkerFields
<1> DEFINE Going(t) == t \in ThreadPlaces \ ({"none", "ended"} \cup InCall)
<1>3. CASE \/ (Worker!CreateWorkerEnv /\ state' = [state EXCEPT !.thread = "env"])
           \/ (Worker!PrepareForWorkerInstance /\ state' = [state EXCEPT !.thread = "script"])
           \/ Worker!HandlerReturns \/ Worker!ParentPortCancelTask
  <2>1. PICK t \in ThreadPlaces : state' = [state EXCEPT !.thread = t] /\ Going(state.thread) /\ Going(t)
    BY <1>1, <1>3, PlacesAre, WorkerFields
       DEF Worker!CreateWorkerEnv, Worker!PrepareForWorkerInstance, Worker!HandlerReturns, Worker!ParentPortCancelTask, InCall
  <2>2. state' \in WorkerValues
    BY <1>1, <2>1, ZenonT(60) DEF WorkerValues
  <2>3. /\ SameEnds(state, state') /\ SameCalls(state, state')
        /\ state'.host = state.host /\ state'.thread = t
    BY <1>1, <2>1 DEF WorkerValues, SameEnds, SameCalls
  <2> QED BY <1>1, <2>1, <2>2, <2>3, ThreadMoves DEF WorkerInv
<1>4. CASE (Worker!PrepareForWorkerInstance /\ state' # [state EXCEPT !.thread = "script"]) \/ Worker!ScriptFails
  <2>1. /\ state' = [Worker!Advanced(state, "terminated") EXCEPT !.thread = "stopped"]
        /\ Going(state.thread) /\ Going("stopped")
    BY <1>1, <1>4, PlacesAre, WorkerFields DEF Worker!PrepareForWorkerInstance, Worker!ScriptFails, InCall
  <2>2. PICK r \in RunnerStates : Worker!Advanced(state, "terminated") = [state EXCEPT !.runner = r]
    BY <1>1, AdvancedIs, PlacesAre
  <2>3. state' = [state EXCEPT !.runner = r, !.thread = "stopped"]
    BY <2>1, <2>2
  <2>4. state' \in WorkerValues
    BY <1>1, <2>3, PlacesAre, ZenonT(60) DEF WorkerValues
  <2>5. /\ SameEnds(state, state') /\ SameCalls(state, state')
        /\ state'.host = state.host /\ state'.thread = "stopped"
    BY <1>1, <2>3 DEF WorkerValues, SameEnds, SameCalls
  <2> QED BY <1>1, <2>1, <2>4, <2>5, ThreadMoves DEF WorkerInv, InCall
<1>5. CASE Worker!ExecuteInThread
  <2>1. PICK t \in ThreadPlaces :
          /\ state' = [Worker!Advanced(state, "running") EXCEPT !.inited = TRUE, !.signal = TRUE, !.thread = t]
          /\ Going(state.thread) /\ Going(t)
    BY <1>1, <1>5, PlacesAre, WorkerFields DEF Worker!ExecuteInThread, InCall
  <2>2. PICK r \in RunnerStates : Worker!Advanced(state, "running") = [state EXCEPT !.runner = r]
    BY <1>1, AdvancedIs, PlacesAre
  <2>3. state' = [state EXCEPT !.runner = r, !.inited = TRUE, !.signal = TRUE, !.thread = t]
    BY <2>1, <2>2
  <2>4. state' \in WorkerValues
    BY <1>1, <2>3, ZenonT(60) DEF WorkerValues
  <2>5. /\ SameEnds(state, state') /\ SameCalls(state, state')
        /\ state'.host = state.host /\ state'.thread = t
    BY <1>1, <2>3 DEF WorkerValues, SameEnds, SameCalls
  <2> QED BY <1>1, <2>1, <2>4, <2>5, ThreadMoves DEF WorkerInv, InCall
<1>6. PICK r \in RunnerStates :
        Worker!TerminateWorker(state) = [state EXCEPT !.runner = r, !.inited = FALSE, !.signal = FALSE]
  BY <1>1, TerminateWorkerIs
<1>7. CASE Worker!CloseInner
  <2>1. PICK t \in ThreadPlaces :
          /\ state' = [state EXCEPT !.runner = r, !.inited = FALSE, !.signal = FALSE, !.isTerminated = TRUE, !.thread = t]
          /\ Going(state.thread) /\ Going(t)
    BY <1>1, <1>6, <1>7, PlacesAre, WorkerFields DEF Worker!CloseInner, InCall
  <2>2. state' \in WorkerValues
    BY <1>1, <2>1, ZenonT(60) DEF WorkerValues
  <2>3. /\ SameEnds(state, state') /\ SameCalls(state, state')
        /\ state'.host = state.host /\ state'.thread = t
    BY <1>1, <2>1 DEF WorkerValues, SameEnds, SameCalls
  <2> QED BY <1>1, <2>1, <2>2, <2>3, ThreadMoves DEF WorkerInv, InCall
<1>8. CASE Worker!WorkerOnMessage
  <2>1. Going(state.thread) /\ Going("loop") /\ Going("stopped") /\ Going("handler") /\ state.thread = "loop"
    BY <1>1, <1>8, PlacesAre, WorkerFields DEF Worker!WorkerOnMessage, InCall
  <2>2. CASE state' = [state EXCEPT !.signal = FALSE]
    <3>1. state' \in WorkerValues
      BY <1>1, <2>2, ZenonT(60) DEF WorkerValues
    <3>2. /\ SameEnds(state, state') /\ SameCalls(state, state')
          /\ state'.host = state.host /\ state'.thread = "loop"
      BY <1>1, <2>1, <2>2 DEF WorkerValues, SameEnds, SameCalls
    <3> QED BY <1>1, <2>1, <3>1, <3>2, ThreadMoves DEF WorkerInv
  <2>3. CASE state.queue # <<>> /\ state' = [Worker!TerminateWorker(state) EXCEPT !.thread = "stopped", !.queue = Tail(@)]
    <3>1. PICK q \in Seq(Posts) : q = Tail(state.queue)
      BY <1>2, <2>3, HeadTailProperties
    <3>2. state' = [state EXCEPT !.runner = r, !.inited = FALSE, !.signal = FALSE, !.thread = "stopped", !.queue = q]
      <4>1. [state EXCEPT !.runner = r, !.inited = FALSE, !.signal = FALSE].queue = state.queue
        BY <1>1 DEF WorkerValues
      <4> QED BY <1>6, <2>3, <3>1, <4>1
    <3>3. state' \in WorkerValues
      BY <1>1, <3>2, PlacesAre, ZenonT(60) DEF WorkerValues
    <3>4. /\ SameEnds(state, state') /\ SameCalls(state, state')
          /\ state'.host = state.host /\ state'.thread = "stopped"
      BY <1>1, <3>2 DEF WorkerValues, SameEnds, SameCalls
    <3> QED BY <1>1, <2>1, <3>3, <3>4, ThreadMoves DEF WorkerInv
  <2>4. CASE state.queue # <<>> /\ state' = [state EXCEPT !.thread = "handler", !.queue = Tail(@)]
    <3>1. PICK q \in Seq(Posts) : q = Tail(state.queue)
      BY <1>2, <2>4, HeadTailProperties
    <3>2. state' = [state EXCEPT !.thread = "handler", !.queue = q]
      BY <2>4, <3>1
    <3>3. state' \in WorkerValues
      BY <1>1, <3>2, PlacesAre, ZenonT(60) DEF WorkerValues
    <3>4. /\ SameEnds(state, state') /\ SameCalls(state, state')
          /\ state'.host = state.host /\ state'.thread = "handler"
      BY <1>1, <3>2 DEF WorkerValues, SameEnds, SameCalls
    <3> QED BY <1>1, <2>1, <3>3, <3>4, ThreadMoves DEF WorkerInv
  <2> QED BY <1>8, <2>2, <2>3, <2>4 DEF Worker!WorkerOnMessage
<1>9. CASE Worker!PostMessageToHost
  <2>1. PICK n \in Nat : state' = [state EXCEPT !.toHost = n]
    <3>1. state.toHost + 1 \in Nat
      BY <1>1, WorkerFields
    <3> QED BY <1>9, <3>1 DEF Worker!PostMessageToHost
  <2>2. state.thread = "handler" /\ Going("handler")
    BY <1>9, PlacesAre DEF Worker!PostMessageToHost, InCall
  <2>3. state' \in WorkerValues
    BY <1>1, <2>1, ZenonT(60) DEF WorkerValues
  <2>4. /\ SameEnds(state, state') /\ SameCalls(state, state')
        /\ state'.host = state.host /\ state'.thread = "handler"
    BY <1>1, <2>1, <2>2 DEF WorkerValues, SameEnds, SameCalls
  <2> QED BY <1>1, <2>2, <2>3, <2>4, ThreadMoves DEF WorkerInv
<1>10. CASE Worker!ClearWorkerTasks
  <2>1. PICK q \in Seq(Posts) : state' = [state EXCEPT !.thread = "handler", !.queue = q]
    BY <1>2, <1>10 DEF Worker!ClearWorkerTasks
  <2>2. Going(state.thread) /\ Going("handler")
    BY <1>10, PlacesAre DEF Worker!ClearWorkerTasks, InCall
  <2>3. state' \in WorkerValues
    BY <1>1, <2>1, <2>2, ZenonT(60) DEF WorkerValues
  <2>4. /\ SameEnds(state, state') /\ SameCalls(state, state')
        /\ state'.host = state.host /\ state'.thread = "handler"
    BY <1>1, <2>1 DEF WorkerValues, SameEnds, SameCalls
  <2> QED BY <1>1, <2>2, <2>3, <2>4, ThreadMoves DEF WorkerInv
<1>11. CASE Worker!ReleaseWorkerThreadContent
  <2>1. state' = [state EXCEPT !.thread = "released", !.queue = <<>>, !.answers = <<>>]
    BY <1>11 DEF Worker!ReleaseWorkerThreadContent
  <2>2. Going(state.thread) /\ Going("released")
    BY <1>11, PlacesAre DEF Worker!ReleaseWorkerThreadContent, InCall
  <2>3. state' \in WorkerValues
    BY <1>1, <1>2, <2>1, <2>2, ZenonT(60) DEF WorkerValues
  <2>4. /\ SameEnds(state, state') /\ SameCalls(state, state')
        /\ state'.host = state.host /\ state'.thread = "released"
    BY <1>1, <2>1 DEF WorkerValues, SameEnds, SameCalls
  <2> QED BY <1>1, <2>2, <2>3, <2>4, ThreadMoves DEF WorkerInv
<1> QED BY <1>3, <1>4, <1>5, <1>7, <1>8, <1>9, <1>10, <1>11

(* A set of natural numbers has a least one. *)
LEMMA LeastNumber ==
  ASSUME NEW T \in SUBSET Nat, T # {}
  PROVE  \E m \in T : \A n \in T : m <= n
<1> DEFINE R == OpToRel(<, Nat)
<1>1. IsWellFoundedOn(R, Nat)
  BY NatLessThanWellFounded
<1>2. \A m, n \in Nat : m < n => <<m, n>> \in R
  BY DEF OpToRel
<1> HIDE DEF R
<1>3. PICK m \in T : \A n \in T : ~ (<<n, m>> \in R)
  BY <1>1, WFMin
<1>4. \A n \in T : ~(n < m)
  BY <1>2, <1>3
<1> QED BY <1>4

(* The place at which the host finds a call is one of that call. *)
LEMMA CallIsFound ==
  ASSUME NEW w \in WorkerValues, NEW found, found = Worker!SelectInSeq(w.calls, LAMBDA id : id = w.callId), found # 0
  PROVE  found \in 1..Len(w.calls) /\ w.calls[found] = w.callId
<1> DEFINE I == {i \in 1..Len(w.calls) : w.calls[i] = w.callId}
<1>1. found = IF I # {} THEN Worker!Min(I) ELSE 0
  BY DEF Worker!SelectInSeq
<1>2. I # {} /\ found = Worker!Min(I)
  BY <1>1
<1>3. I \in SUBSET Nat
  BY WorkerFields, LenProperties
<1>4. \E m \in I : \A n \in I : m <= n
  BY <1>2, <1>3, LeastNumber
<1>5. found \in I
  BY <1>2, <1>4 DEF Worker!Min
<1> QED BY <1>5

(* What the host serves, or has given up, it finds among the calls. *)
LEMMA HostOnGlobalCallKeepsInv ==
  ASSUME WorkerInv, Worker!HostOnGlobalCall
  PROVE  WorkerInv'
<1>1. state \in WorkerValues /\ WorkerEndings(state) /\ WorkerCalls(state)
  BY DEF WorkerInv
<1>2. PICK found : found = Worker!SelectInSeq(state.calls, LAMBDA id : id = state.callId)
  OBVIOUS
<1>3. /\ state.host = "idle" /\ ~state.deleted
      /\ \/ state' = [state EXCEPT !.callSignal = FALSE, !.success = FALSE]
         \/ state' = [state EXCEPT !.callSignal = FALSE, !.success = FALSE, !.calls = <<>>]
         \/ /\ ~state.hostStop /\ found # 0
            /\ state' = [state EXCEPT !.callSignal = FALSE, !.calls = SubSeq(state.calls, found + 1, Len(state.calls)),
                                      !.serving = state.callId, !.host = "serving"]
  <2>1. [state EXCEPT !.callSignal = FALSE].calls = state.calls
    BY <1>1 DEF WorkerValues
  <2> QED BY <1>2, <2>1 DEF Worker!HostOnGlobalCall
<1>4. CASE state' = [state EXCEPT !.callSignal = FALSE, !.success = FALSE]
  <2>1. state' \in WorkerValues
    BY <1>1, <1>4, ZenonT(60) DEF WorkerValues
  <2>2. /\ SameEnds(state, state') /\ SameCalls(state, state')
        /\ state'.thread = state.thread /\ state'.host = state.host /\ state'.answers = state.answers
    BY <1>1, <1>4 DEF WorkerValues, SameEnds, SameCalls
  <2> QED BY <1>1, <2>1, <2>2, NobodyMoves DEF WorkerInv
<1>5. CASE state' = [state EXCEPT !.callSignal = FALSE, !.success = FALSE, !.calls = <<>>]
  <2>1. state' \in WorkerValues
    <3>1. PICK c \in Seq(1..MaxCalls) : c = <<>>
      <4>1. <<>> \in Seq(1..MaxCalls)
        OBVIOUS
      <4> QED BY <4>1, Zenon
    <3>2. state' = [state EXCEPT !.callSignal = FALSE, !.success = FALSE, !.calls = c]
      BY <1>5, <3>1
    <3> QED BY <1>1, <3>2, ZenonT(60) DEF WorkerValues
  <2>2. /\ SameEnds(state, state') /\ state'.thread = state.thread /\ state'.host = state.host
        /\ state'.callId = state.callId /\ state'.calls = <<>> /\ state'.serving = state.serving
        /\ state'.answers = state.answers /\ state'.answer = state.answer /\ state'.late = state.late
    BY <1>1, <1>5 DEF WorkerValues, SameEnds
  <2>3. WorkerEndings(state')
    BY <1>1, <2>2 DEF WorkerEndings, SameEnds
  <2>4. WorkerCalls(state')
    BY <1>1, <2>2 DEF WorkerCalls, Issued, SameEnds
  <2> QED BY <2>1, <2>3, <2>4 DEF WorkerInv
<1>6. CASE /\ ~state.hostStop /\ found # 0
           /\ state' = [state EXCEPT !.callSignal = FALSE, !.calls = SubSeq(state.calls, found + 1, Len(state.calls)),
                                     !.serving = state.callId, !.host = "serving"]
  <2>1. found \in 1..Len(state.calls) /\ state.calls[found] = state.callId
    BY <1>1, <1>2, <1>6, CallIsFound
  <2>2. state.calls \in Seq(1..MaxCalls) /\ Len(state.calls) \in Nat /\ state.callId \in 1..(MaxCalls + 1)
    BY <1>1, WorkerFields, LenProperties
  <2>3. state.callId \in 1..MaxCalls /\ Issued(state, state.callId)
    <3>1. ~state.hostStop /\ ~state.hostExited
      BY <1>1, <1>3, <1>6 DEF WorkerEndings
    <3>2. Issued(state, state.calls[found])
      BY <1>1, <2>1, <3>1 DEF WorkerCalls
    <3>3. state.calls[found] \in 1..MaxCalls
      BY <2>1, <2>2, ElementOfSeq
    <3> QED BY <2>1, <3>2, <3>3
  <2>4. state.thread \in InCall
    BY <2>2, <2>3 DEF Issued
  <2>5. PICK c \in Seq(1..MaxCalls) : /\ c = SubSeq(state.calls, found + 1, Len(state.calls))
                                     /\ \A k \in 1..Len(c) : \E j \in 1..Len(state.calls) : c[k] = state.calls[j]
    <3> DEFINE d == SubSeq(state.calls, found + 1, Len(state.calls))
    <3>1. /\ d \in Seq(1..MaxCalls)
          /\ Len(d) = IF found + 1 <= Len(state.calls) THEN Len(state.calls) - (found + 1) + 1 ELSE 0
          /\ \A i \in 1..(Len(state.calls) - (found + 1) + 1) : d[i] = state.calls[(found + 1) + i - 1]
      <4>1. \A i \in (found + 1)..Len(state.calls) : i \in 1..Len(state.calls)
        BY <2>1, <2>2
      <4>2. \A i \in (found + 1)..Len(state.calls) : state.calls[i] \in 1..MaxCalls
        BY <2>2, <4>1, ElementOfSeq
      <4>3. found + 1 \in Int /\ Len(state.calls) \in Int
        BY <2>1, <2>2
      <4> QED BY <4>2, <4>3, SubSeqProperties
    <3>2. \A k \in 1..Len(d) : /\ k \in 1..(Len(state.calls) - (found + 1) + 1)
                               /\ (found + 1) + k - 1 \in 1..Len(state.calls)
      BY <2>1, <2>2, <3>1
    <3> QED BY <3>1, <3>2
  <2>6. state' = [state EXCEPT !.callSignal = FALSE, !.calls = c, !.serving = state.callId, !.host = "serving"]
    BY <1>6, <2>5
  <2>7. state' \in WorkerValues
    <3>1. state.callId \in 0..MaxCalls
      BY <2>3
    <3> QED BY <1>1, <2>6, <3>1, PlacesAre, ZenonT(60) DEF WorkerValues
  <2>8. /\ SameEnds(state, state') /\ state'.thread = state.thread /\ state'.host = "serving"
        /\ state'.callId = state.callId /\ state'.calls = c /\ state'.serving = state.callId
        /\ state'.answers = state.answers /\ state'.answer = state.answer /\ state'.late = state.late
    BY <1>1, <2>6 DEF WorkerValues, SameEnds
  <2>9. WorkerEndings(state')
    <3>1. ~state.hostExited /\ ~state.hostStop /\ ~state.deleted
      BY <1>1, <1>3, <1>6 DEF WorkerEndings
    <3> QED BY <1>1, <2>8, <3>1 DEF WorkerEndings, SameEnds
  <2>10. WorkerCalls(state')
    <3>1. \A k \in 1..Len(c) : Issued(state, c[k])
      <4>1. ~state.hostStop /\ ~state.hostExited
        BY <1>1, <1>3, <1>6 DEF WorkerEndings
      <4> QED BY <1>1, <2>5, <4>1 DEF WorkerCalls
    <3> QED BY <1>1, <2>3, <2>4, <2>8, <3>1 DEF WorkerCalls, Issued, SameEnds
  <2> QED BY <2>7, <2>9, <2>10 DEF WorkerInv
<1> QED BY <1>3, <1>4, <1>5, <1>6

(* The method fails or returns, and what it returns is queued. *)
LEMMA HostAnswersKeepsInv ==
  ASSUME WorkerAssumption, WorkerInv, Worker!CallFails \/ Worker!CallReturns \/ Worker!AnswerCall
  PROVE  WorkerInv'
<1>1. state \in WorkerValues /\ WorkerEndings(state) /\ WorkerCalls(state)
  BY DEF WorkerInv
<1>2. /\ state.serving \in 0..MaxCalls /\ state.callId \in 1..(MaxCalls + 1)
      /\ state.answers \in Seq(0..MaxCalls) /\ Len(state.answers) \in Nat
  BY <1>1, WorkerFields, LenProperties
<1>3. CASE Worker!CallFails \/ (Worker!CallReturns /\ state.serving # state.callId)
  <2>1. PICK b \in BOOLEAN : state' = [state EXCEPT !.host = "idle", !.serving = 0, !.success = b]
    <3>1. state.success \in BOOLEAN
      BY <1>1, WorkerFields
    <3>2. CASE Worker!CallFails
      BY <3>2 DEF Worker!CallFails
    <3>3. CASE Worker!CallReturns /\ state.serving # state.callId
      <4>1. state' = [state EXCEPT !.host = "idle", !.serving = 0]
        BY <3>3 DEF Worker!CallReturns
      <4>2. state' = [state EXCEPT !.host = "idle", !.serving = 0, !.success = state.success]
        BY <1>1, <4>1 DEF WorkerValues
      <4> QED BY <3>1, <4>2
    <3> QED BY <1>3, <3>2, <3>3
  <2>2. state' \in WorkerValues
    <3>1. 0 \in 0..MaxCalls
      BY DEF WorkerAssumption
    <3> QED BY <1>1, <2>1, <3>1, PlacesAre, ZenonT(60) DEF WorkerValues
  <2>3. /\ SameEnds(state, state') /\ state'.thread = state.thread /\ state'.host = "idle"
        /\ state'.callId = state.callId /\ state'.calls = state.calls /\ state'.serving = 0
        /\ state'.answers = state.answers /\ state'.answer = state.answer /\ state'.late = state.late
    BY <1>1, <2>1 DEF WorkerValues, SameEnds
  <2>4. state.host = "serving"
    BY <1>3 DEF Worker!CallFails, Worker!CallReturns
  <2>5. WorkerEndings(state')
    BY <1>1, <2>3, <2>4 DEF WorkerEndings, SameEnds
  <2>6. WorkerCalls(state')
    BY <1>1, <2>3 DEF WorkerCalls, Issued, SameEnds
  <2> QED BY <2>2, <2>5, <2>6 DEF WorkerInv
<1>4. CASE Worker!CallReturns /\ state.serving = state.callId
  <2>1. state' = [state EXCEPT !.host = "answering"] /\ state.host = "serving"
    BY <1>4 DEF Worker!CallReturns
  <2>2. state' \in WorkerValues
    BY <1>1, <2>1, PlacesAre, ZenonT(60) DEF WorkerValues
  <2>3. /\ SameEnds(state, state') /\ SameCalls(state, state') /\ state'.answers = state.answers
        /\ state'.thread = state.thread /\ state'.host = "answering"
    BY <1>1, <2>1 DEF WorkerValues, SameEnds, SameCalls
  <2>4. state.thread \in InCall
    BY <1>1, <1>2, <1>4, <2>1 DEF WorkerCalls, Issued
  <2>5. WorkerEndings(state')
    BY <1>1, <2>1, <2>3 DEF WorkerEndings, SameEnds
  <2>6. WorkerCalls(state')
    BY <1>1, <1>4, <2>1, <2>3, <2>4 DEF WorkerCalls, Issued, SameCalls, SameEnds
  <2> QED BY <2>2, <2>5, <2>6 DEF WorkerInv
<1>5. CASE Worker!AnswerCall
  <2>1. PICK a : a = Append(state.answers, state.serving)
    OBVIOUS
  <2>2. /\ a \in Seq(0..MaxCalls) /\ Len(a) = Len(state.answers) + 1
        /\ a[Len(state.answers) + 1] = state.serving
        /\ \A k \in 1..Len(state.answers) : a[k] = state.answers[k]
    BY <1>2, <2>1, AppendProperties
  <2>3. \A k \in 1..Len(a) : a[k] = state.serving \/ (k \in 1..Len(state.answers) /\ a[k] = state.answers[k])
    <3>1. \A k \in 1..Len(a) : k = Len(state.answers) + 1 \/ k \in 1..Len(state.answers)
      BY <1>2, <2>2
    <3> QED BY <2>2, <3>1
  <2>4. /\ state' = [state EXCEPT !.host = "idle", !.serving = 0, !.success = TRUE, !.answers = a]
        /\ state.host = "answering"
    BY <1>5, <2>1 DEF Worker!AnswerCall
  <2>5. state' \in WorkerValues
    <3>1. 0 \in 0..MaxCalls
      BY DEF WorkerAssumption
    <3> QED BY <1>1, <2>2, <2>4, <3>1, PlacesAre, ZenonT(60) DEF WorkerValues
  <2>6. /\ SameEnds(state, state') /\ state'.thread = state.thread /\ state'.host = "idle"
        /\ state'.callId = state.callId /\ state'.calls = state.calls /\ state'.serving = 0
        /\ state'.answers = a /\ state'.answer = state.answer /\ state'.late = state.late
    BY <1>1, <2>4 DEF WorkerValues, SameEnds
  <2>7. WorkerEndings(state')
    BY <1>1, <2>4, <2>6 DEF WorkerEndings, SameEnds
  <2>8. WorkerCalls(state')
    BY <1>1, <2>3, <2>4, <2>6 DEF WorkerCalls, Issued, SameEnds
  <2> QED BY <2>5, <2>7, <2>8 DEF WorkerInv
<1> QED BY <1>3, <1>4, <1>5

(* The host takes the worker's end, and deletes it unless it is gone. *)
LEMMA HostOnExitKeepsInv ==
  ASSUME WorkerInv, Worker!HostOnExit
  PROVE  WorkerInv'
<1>1. state \in WorkerValues /\ WorkerEndings(state) /\ WorkerCalls(state)
  BY DEF WorkerInv
<1>2. state.host = "idle" /\ state.over /\ ~state.deleted /\ state.thread = "ended"
  BY <1>1 DEF Worker!HostOnExit, WorkerEndings
<1>3. CASE state.hostStop
  <2>1. state' = [state EXCEPT !.over = FALSE]
    BY <1>3 DEF Worker!HostOnExit
  <2>2. state' \in WorkerValues
    BY <1>1, <2>1, ZenonT(60) DEF WorkerValues
  <2>3. /\ SameCalls(state, state') /\ state'.thread = state.thread /\ state'.host = state.host
        /\ state'.hostStop = state.hostStop /\ state'.hostExited = state.hostExited
        /\ state'.wrapped = state.wrapped /\ state'.over = FALSE /\ state'.handles = state.handles
        /\ state'.deleted = state.deleted /\ state'.listed = state.listed /\ state'.exits = state.exits
        /\ state'.answers = state.answers
    BY <1>1, <2>1 DEF WorkerValues, SameCalls
  <2>4. WorkerEndings(state')
    BY <1>1, <2>3 DEF WorkerEndings
  <2>5. WorkerCalls(state')
    BY <1>1, <2>3 DEF WorkerCalls, Issued, SameCalls
  <2> QED BY <2>2, <2>4, <2>5 DEF WorkerInv
<1>4. CASE ~state.hostStop
  <2>1. state.exits = 0
    BY <1>1, <1>2 DEF WorkerEndings
  <2>2. PICK n \in {0, 1} :
          state' = [state EXCEPT !.over = FALSE, !.handles = FALSE, !.wrapped = FALSE, !.deleted = TRUE, !.exits = n]
    <3>1. state.exits + (IF state.needOnExit THEN 1 ELSE 0) \in {0, 1}
      BY <2>1
    <3> QED BY <1>4, <3>1 DEF Worker!HostOnExit
  <2>3. state' \in WorkerValues
    <3>1. n \in Nat
      OBVIOUS
    <3> QED BY <1>1, <2>2, <3>1, ZenonT(60) DEF WorkerValues
  <2>4. /\ SameCalls(state, state') /\ state'.thread = state.thread /\ state'.host = state.host
        /\ state'.hostStop = state.hostStop /\ state'.hostExited = state.hostExited
        /\ state'.wrapped = FALSE /\ state'.over = FALSE /\ state'.handles = FALSE
        /\ state'.deleted = TRUE /\ state'.listed = state.listed /\ state'.exits = n
        /\ state'.answers = state.answers
    BY <1>1, <2>2 DEF WorkerValues, SameCalls
  <2>5. WorkerEndings(state')
    BY <1>1, <1>2, <2>4 DEF WorkerEndings
  <2>6. WorkerCalls(state')
    BY <1>1, <2>4 DEF WorkerCalls, Issued, SameCalls
  <2> QED BY <2>3, <2>5, <2>6 DEF WorkerInv
<1> QED BY <1>3, <1>4

(* Terminating a worker touches its queue, signal and state. *)
LEMMA TerminatedIs ==
  ASSUME NEW w \in WorkerValues
  PROVE  \E r \in RunnerStates, q \in Seq(Posts), b \in BOOLEAN :
           Worker!Terminated(w) = [w EXCEPT !.runner = r, !.queue = q, !.signal = b]
<1>1. CASE Worker!Rank(w.runner) >= Worker!Rank("terminateing")
  <2>1. w = [w EXCEPT !.runner = w.runner, !.queue = w.queue, !.signal = w.signal]
    BY DEF WorkerValues
  <2>2. Worker!Terminated(w) = w
    BY <1>1 DEF Worker!Terminated
  <2>3. Worker!Terminated(w) = [w EXCEPT !.runner = w.runner, !.queue = w.queue, !.signal = w.signal]
    BY <2>1, <2>2
  <2>4. w.runner \in RunnerStates /\ w.queue \in Seq(Posts) /\ w.signal \in BOOLEAN
    BY WorkerFields
  <2> QED BY <2>3, <2>4, Zenon
<1>2. CASE ~(Worker!Rank(w.runner) >= Worker!Rank("terminateing"))
  <2>1. PICK r \in RunnerStates : Worker!Advanced(w, "terminateing") = [w EXCEPT !.runner = r]
    BY AdvancedIs, PlacesAre
  <2>2. [w EXCEPT !.runner = r] \in WorkerValues
    BY ZenonT(60) DEF WorkerValues
  <2>3. PICK q \in Seq(Posts), b \in BOOLEAN :
          Worker!Posted([w EXCEPT !.runner = r], "terminate") = [[w EXCEPT !.runner = r] EXCEPT !.queue = q, !.signal = b]
    BY <2>2, PostedIs, PlacesAre
  <2>4. [[w EXCEPT !.runner = r] EXCEPT !.queue = q, !.signal = b] = [w EXCEPT !.runner = r, !.queue = q, !.signal = b]
    OBVIOUS
  <2> QED BY <1>2, <2>1, <2>3, <2>4 DEF Worker!Terminated
<1> QED BY <1>1, <1>2

(* The host is collected, or its engine ends. *)
LEMMA HostIsGoneKeepsInv ==
  ASSUME WorkerInv, Worker!WorkerDestructor \/ Worker!HostEnvCleanCallback \/ Worker!HostExits
  PROVE  WorkerInv'
<1>1. state \in WorkerValues /\ WorkerEndings(state) /\ WorkerCalls(state)
  BY DEF WorkerInv
<1>2. PICK c \in Seq(1..MaxCalls) : c = <<>>
  <2>1. <<>> \in Seq(1..MaxCalls)
    OBVIOUS
  <2> QED BY <2>1, Zenon
<1>3. CASE Worker!WorkerDestructor
  <2> DEFINE stopped == [state EXCEPT !.hostStop = TRUE]
             released == [stopped EXCEPT !.toHost = 0, !.calls = c, !.wrapped = state.wrapped, !.handles = FALSE,
                                         !.callSignal = FALSE, !.wrapped = FALSE, !.host = "idle"]
  <2>1. /\ state.host = "collecting" /\ state.thread # "waiting"
        /\ \/ state' = Worker!Terminated(released)
           \/ state' = released
    <3>1. [Worker!ContentReleased([state EXCEPT !.hostStop = TRUE]) EXCEPT !.wrapped = FALSE, !.host = "idle"] = released
      <4>1. stopped.hostStop /\ stopped.wrapped = state.wrapped
        BY <1>1 DEF WorkerValues
      <4> HIDE DEF stopped
      <4>2. Worker!ContentReleased(stopped) = [stopped EXCEPT !.toHost = 0, !.calls = c, !.wrapped = state.wrapped,
                                                 !.handles = FALSE, !.callSignal = FALSE]
        BY <1>2, <4>1 DEF Worker!ContentReleased
      <4> QED BY <4>2 DEF stopped
    <3> QED BY <1>3, <3>1 DEF Worker!WorkerDestructor, Worker!Unlocked
  <2>2. released \in WorkerValues
    <3>1. 0 \in Nat
      OBVIOUS
    <3> QED BY <1>1, <3>1, PlacesAre, ZenonT(60) DEF WorkerValues
  <2>3. /\ released.thread = state.thread /\ released.host = "idle" /\ released.answers = state.answers
        /\ released.hostStop = TRUE /\ released.hostExited = state.hostExited
        /\ released.wrapped = FALSE /\ released.over = state.over /\ released.handles = FALSE
        /\ released.deleted = state.deleted /\ released.listed = state.listed /\ released.exits = state.exits
        /\ released.callId = state.callId /\ released.calls = c /\ released.serving = state.serving
        /\ released.answer = state.answer /\ released.late = state.late
    BY <1>1 DEF WorkerValues
  <2> HIDE DEF released
  <2>4. WorkerEndings(released)
    BY <1>1, <2>1, <2>3 DEF WorkerEndings
  <2>5. WorkerCalls(released)
    BY <1>1, <1>2, <2>1, <2>3 DEF WorkerCalls, Issued
  <2>6. CASE state' = Worker!Terminated(released)
    <3>1. PICK x \in WorkerValues : x = released
      BY <2>2
    <3>2. PICK r \in RunnerStates, q \in Seq(Posts), b \in BOOLEAN :
            Worker!Terminated(x) = [x EXCEPT !.runner = r, !.queue = q, !.signal = b]
      BY TerminatedIs
    <3>3. state' = [x EXCEPT !.runner = r, !.queue = q, !.signal = b]
      BY <2>6, <3>1, <3>2
    <3>4. state' \in WorkerValues
      BY <3>3, ZenonT(60) DEF WorkerValues
    <3>5. /\ SameEnds(x, state') /\ SameCalls(x, state')
          /\ state'.thread = x.thread /\ state'.host = x.host /\ state'.answers = x.answers
      BY <3>3 DEF WorkerValues, SameEnds, SameCalls
    <3> QED BY <2>4, <2>5, <3>1, <3>4, <3>5, NobodyMoves DEF WorkerInv
  <2>7. CASE state' = released
    BY <2>2, <2>4, <2>5, <2>7 DEF WorkerInv
  <2> QED BY <2>1, <2>6, <2>7
<1>4. CASE Worker!HostEnvCleanCallback \/ Worker!HostExits
  <2>1. state.host \in {"checked", "cleaning"} /\ state.thread # "waiting"
    BY <1>4 DEF Worker!HostEnvCleanCallback, Worker!HostExits, Worker!Unlocked
  <2>2. state.wrapped \in BOOLEAN /\ (state.hostStop => state.wrapped = FALSE)
    BY <1>1, WorkerFields DEF WorkerEndings
  <2>3. PICK x : x = Worker!ContentReleased(state)
    OBVIOUS
  <2>4. x = [state EXCEPT !.toHost = 0, !.calls = c, !.wrapped = FALSE, !.handles = FALSE, !.callSignal = FALSE]
    BY <1>2, <2>2, <2>3 DEF Worker!ContentReleased
  <2>5. x \in WorkerValues
    <3>1. 0 \in Nat
      OBVIOUS
    <3> QED BY <1>1, <2>4, <3>1, ZenonT(60) DEF WorkerValues
  <2>6. /\ x.thread = state.thread /\ x.hostStop = state.hostStop /\ x.hostExited = state.hostExited
        /\ x.wrapped = FALSE /\ x.handles = FALSE /\ x.answers = state.answers
        /\ x.deleted = state.deleted /\ x.listed = state.listed /\ x.exits = state.exits
        /\ x.callId = state.callId /\ x.calls = c /\ x.serving = state.serving
        /\ x.answer = state.answer /\ x.late = state.late
    BY <1>1, <2>4 DEF WorkerValues
  <2>7. /\ state' \in WorkerValues /\ SameCalls(x, state') /\ state'.answers = x.answers
        /\ state'.thread = x.thread /\ state'.host = "exited" /\ state'.wrapped = FALSE /\ state'.over = FALSE
        /\ state'.handles = FALSE /\ state'.deleted = x.deleted /\ state'.listed = x.listed /\ state'.exits = x.exits
    <3>1. CASE Worker!HostEnvCleanCallback
      <4>1. state' = [x EXCEPT !.hostExited = TRUE, !.host = "exited", !.over = FALSE]
        BY <2>3, <3>1 DEF Worker!HostEnvCleanCallback
      <4>2. state' \in WorkerValues
        BY <2>5, <4>1, PlacesAre, ZenonT(60) DEF WorkerValues
      <4> QED BY <2>5, <2>6, <4>1, <4>2 DEF WorkerValues, SameCalls
    <3>2. CASE Worker!HostExits
      <4>1. PICK s \in BOOLEAN : s = (state.hostStop \/ state.wrapped)
        OBVIOUS
      <4>2. state' = [x EXCEPT !.hostStop = s, !.wrapped = FALSE, !.host = "exited", !.over = FALSE]
        BY <2>3, <2>6, <3>2, <4>1 DEF Worker!HostExits
      <4>3. state' \in WorkerValues
        BY <2>5, <4>2, PlacesAre, ZenonT(60) DEF WorkerValues
      <4> QED BY <2>5, <2>6, <4>2, <4>3 DEF WorkerValues, SameCalls
    <3> QED BY <1>4, <3>1, <3>2
  <2>8. WorkerEndings(state')
    BY <1>1, <2>1, <2>6, <2>7 DEF WorkerEndings
  <2>9. WorkerCalls(state')
    BY <1>1, <1>2, <2>1, <2>6, <2>7 DEF WorkerCalls, Issued, SameCalls
  <2> QED BY <2>7, <2>8, <2>9 DEF WorkerInv
<1> QED BY <1>3, <1>4

(* The thread ends: the host deletes the worker then, or it does itself.   *)
LEMMA ThreadEndsKeepsInv ==
  ASSUME WorkerInv,
         \/ (Worker!CreateWorkerEnv /\ state' # [state EXCEPT !.thread = "env"])
         \/ Worker!ThreadEnds
  PROVE  WorkerInv'
<1>1. state \in WorkerValues /\ WorkerEndings(state) /\ WorkerCalls(state)
  BY DEF WorkerInv
<1>2. PICK gone \in BOOLEAN : gone = (state.hostStop \/ state.hostExited)
  OBVIOUS
<1>3. state.over \in BOOLEAN /\ state.deleted \in BOOLEAN /\ state.thread \notin {"none", "ended"} \cup InCall
  BY <1>1, WorkerFields DEF Worker!CreateWorkerEnv, Worker!ThreadEnds, InCall
<1>4. ~state.deleted /\ ~state.over
  BY <1>1, <1>3 DEF WorkerEndings
<1>5. /\ state' \in WorkerValues /\ SameCalls(state, state') /\ state'.answers = state.answers
      /\ state'.thread = "ended" /\ state'.host = state.host
      /\ state'.hostStop = state.hostStop /\ state'.hostExited = state.hostExited
      /\ state'.wrapped = state.wrapped /\ state'.handles = state.handles
      /\ state'.listed = FALSE /\ state'.exits = state.exits
      /\ state'.deleted => gone /\ ~state'.over
  <2>1. CASE Worker!CreateWorkerEnv /\ state' # [state EXCEPT !.thread = "env"]
    <3>1. PICK x : x = [state EXCEPT !.needOnExit = FALSE]
      OBVIOUS
    <3>2. x.hostStop = state.hostStop /\ x.hostExited = state.hostExited
      BY <1>1, <3>1 DEF WorkerValues
    <3>3. state' = [Worker!Over(x) EXCEPT !.thread = "ended"]
      BY <2>1, <3>1 DEF Worker!CreateWorkerEnv
    <3>4. CASE gone
      <4>1. state' = [state EXCEPT !.needOnExit = FALSE, !.listed = FALSE, !.thread = "ended"]
        BY <1>2, <3>1, <3>2, <3>3, <3>4 DEF Worker!Over, Worker!HostIsGone, Worker!Erased
      <4>2. state' \in WorkerValues
        BY <1>1, <4>1, PlacesAre, ZenonT(60) DEF WorkerValues
      <4> QED BY <1>1, <1>3, <1>4, <4>1, <4>2 DEF WorkerValues, SameCalls
    <3>5. CASE ~gone
      <4>1. state' = [state EXCEPT !.needOnExit = FALSE, !.listed = FALSE, !.over = TRUE, !.thread = "ended"]
        BY <1>2, <3>1, <3>2, <3>3, <3>5 DEF Worker!Over, Worker!HostIsGone, Worker!Erased
      <4>2. state' \in WorkerValues
        BY <1>1, <4>1, PlacesAre, ZenonT(60) DEF WorkerValues
      <4> QED BY <1>1, <1>3, <1>4, <4>1, <4>2 DEF WorkerValues, SameCalls
    <3> QED BY <3>4, <3>5
  <2>2. CASE Worker!ThreadEnds
    <3>1. state' = [Worker!Over(state) EXCEPT !.thread = "ended", !.deleted = gone]
      BY <1>2, <2>2 DEF Worker!ThreadEnds, Worker!HostIsGone
    <3>2. CASE gone
      <4>1. state' = [state EXCEPT !.listed = FALSE, !.thread = "ended", !.deleted = TRUE]
        BY <1>2, <3>1, <3>2 DEF Worker!Over, Worker!HostIsGone, Worker!Erased
      <4>2. state' \in WorkerValues
        BY <1>1, <4>1, PlacesAre, ZenonT(60) DEF WorkerValues
      <4> QED BY <1>1, <1>3, <1>4, <3>2, <4>1, <4>2 DEF WorkerValues, SameCalls
    <3>3. CASE ~gone
      <4>1. state' = [state EXCEPT !.listed = FALSE, !.over = TRUE, !.thread = "ended", !.deleted = FALSE]
        BY <1>2, <3>1, <3>3 DEF Worker!Over, Worker!HostIsGone, Worker!Erased
      <4>2. state' \in WorkerValues
        BY <1>1, <4>1, PlacesAre, ZenonT(60) DEF WorkerValues
      <4> QED BY <1>1, <1>3, <1>4, <4>1, <4>2 DEF WorkerValues, SameCalls
    <3> QED BY <3>2, <3>3
  <2> QED BY <2>1, <2>2
<1>6. WorkerEndings(state')
  BY <1>1, <1>2, <1>4, <1>5 DEF WorkerEndings
<1>7. WorkerCalls(state')
  BY <1>1, <1>3, <1>5 DEF WorkerCalls, Issued, SameCalls, InCall
<1> QED BY <1>5, <1>6, <1>7 DEF WorkerInv

(* A call is made, and ends by its timeout, an answer or a failure. *)
LEMMA GlobalCallKeepsInv ==
  ASSUME WorkerAssumption, WorkerInv, \/ Worker!GlobalCall \/ Worker!InitGlobalCallStatus
                                      \/ Worker!GlobalCallTimeout \/ Worker!GlobalCallReturns
  PROVE  WorkerInv'
<1>1. state \in WorkerValues /\ WorkerEndings(state) /\ WorkerCalls(state)
  BY DEF WorkerInv
<1>2. /\ state.callId \in 1..(MaxCalls + 1) /\ state.calls \in Seq(1..MaxCalls) /\ Len(state.calls) \in Nat
      /\ state.answers \in Seq(0..MaxCalls) /\ state.late \in BOOLEAN /\ state.answer \in Nat \X Nat
      /\ state.serving \in 0..MaxCalls
  BY <1>1, WorkerFields, LenProperties
<1>3. CASE Worker!GlobalCall
  <2>1. PICK c : c = Append(state.calls, state.callId)
    OBVIOUS
  <2>2. state.callId \in 1..MaxCalls
    BY <1>2, <1>3 DEF Worker!GlobalCall
  <2>3. /\ c \in Seq(1..MaxCalls) /\ Len(c) = Len(state.calls) + 1 /\ c[Len(state.calls) + 1] = state.callId
        /\ \A k \in 1..Len(state.calls) : c[k] = state.calls[k]
    BY <1>2, <2>1, <2>2, AppendProperties
  <2>4. \A k \in 1..Len(c) : c[k] = state.callId \/ (k \in 1..Len(state.calls) /\ c[k] = state.calls[k])
    <3>1. \A k \in 1..Len(c) : k = Len(state.calls) + 1 \/ k \in 1..Len(state.calls)
      BY <1>2, <2>3
    <3> QED BY <2>3, <3>1
  <2>5. state' = [state EXCEPT !.thread = "calling", !.calls = c] /\ state.thread = "handler"
    BY <1>3, <2>1 DEF Worker!GlobalCall
  <2>6. state' \in WorkerValues
    BY <1>1, <2>3, <2>5, PlacesAre, ZenonT(60) DEF WorkerValues
  <2>7. /\ SameEnds(state, state') /\ state'.thread = "calling" /\ state'.host = state.host
        /\ state'.callId = state.callId /\ state'.calls = c /\ state'.serving = state.serving
        /\ state'.answers = state.answers /\ state'.answer = state.answer /\ state'.late = state.late
    BY <1>1, <2>5 DEF WorkerValues, SameEnds
  <2>8. WorkerEndings(state')
    BY <1>1, <2>5, <2>7 DEF WorkerEndings, SameEnds
  <2>9. WorkerCalls(state')
    BY <1>1, <2>2, <2>4, <2>5, <2>7 DEF WorkerCalls, Issued, InCall, SameEnds
  <2> QED BY <2>6, <2>8, <2>9 DEF WorkerInv
<1>5. CASE Worker!InitGlobalCallStatus
  <2>1. CASE state.hostStop \/ state.hostExited
    <3>1. state' = [state EXCEPT !.thread = "handler"] /\ state.thread = "calling"
      BY <1>5, <2>1 DEF Worker!InitGlobalCallStatus, Worker!HostIsGone
    <3>2. state' \in WorkerValues
      BY <1>1, <3>1, PlacesAre, ZenonT(60) DEF WorkerValues
    <3>3. /\ SameEnds(state, state') /\ SameCalls(state, state') /\ state'.thread = "handler"
          /\ state'.host = state.host /\ state'.answers = state.answers
      BY <1>1, <3>1 DEF WorkerValues, SameEnds, SameCalls
    <3>4. WorkerEndings(state')
      BY <1>1, <3>1, <3>3 DEF WorkerEndings, SameEnds
    <3>5. state.host \in {"idle", "cleaning", "exited"}
      BY <1>1, <2>1 DEF WorkerEndings
    <3>6. WorkerCalls(state')
      BY <1>1, <2>1, <3>3, <3>5 DEF WorkerCalls, SameCalls, SameEnds, InCall
    <3> QED BY <3>2, <3>4, <3>6 DEF WorkerInv
  <2>2. CASE ~(state.hostStop \/ state.hostExited)
    <3>1. PICK a : a = <<>>
      OBVIOUS
    <3>2. a \in Seq(0..MaxCalls) /\ Len(a) = 0
      BY <3>1, EmptySeq
    <3>3. /\ state' = [state EXCEPT !.thread = "waiting", !.answers = a, !.success = TRUE, !.callSignal = TRUE]
          /\ state.thread = "calling"
      BY <1>5, <2>2, <3>1 DEF Worker!InitGlobalCallStatus, Worker!HostIsGone
    <3>4. state' \in WorkerValues
      BY <1>1, <3>2, <3>3, PlacesAre, ZenonT(60) DEF WorkerValues
    <3>5. /\ SameEnds(state, state') /\ SameCalls(state, state') /\ state'.thread = "waiting"
          /\ state'.host = state.host /\ state'.answers = a
      BY <1>1, <3>3 DEF WorkerValues, SameEnds, SameCalls
    <3>6. WorkerEndings(state')
      BY <1>1, <3>3, <3>5 DEF WorkerEndings, SameEnds
    <3>7. WorkerCalls(state')
      BY <1>1, <3>2, <3>3, <3>5 DEF WorkerCalls, Issued, SameCalls, SameEnds, InCall
    <3> QED BY <3>4, <3>6, <3>7 DEF WorkerInv
  <2> QED BY <2>1, <2>2
<1>4. CASE Worker!GlobalCallTimeout \/ Worker!GlobalCallReturns
  <2>1. state.thread = "waiting" /\ state.callId <= MaxCalls
    BY <1>1, <1>4 DEF Worker!GlobalCallTimeout, Worker!GlobalCallReturns, WorkerCalls, InCall
  <2>2. PICK n \in 1..(MaxCalls + 1) : n = state.callId + 1
    <3>1. state.callId + 1 \in 1..(MaxCalls + 1)
      BY <1>2, <2>1 DEF WorkerAssumption
    <3> QED BY <3>1, Zenon
  <2>3. PICK l \in BOOLEAN : l = (state.late \/ state.host = "answering")
    OBVIOUS
  <2>4. PICK x : x = Worker!IncreaseGlobalCallId(state)
    OBVIOUS
  <2>5. x = [state EXCEPT !.thread = "handler", !.callId = n, !.late = l]
    BY <2>2, <2>3, <2>4 DEF Worker!IncreaseGlobalCallId
  <2>6. x \in WorkerValues
    BY <1>1, <2>5, PlacesAre, ZenonT(60) DEF WorkerValues
  <2>7. /\ SameEnds(state, x) /\ x.thread = "handler" /\ x.host = state.host
        /\ x.callId = n /\ x.calls = state.calls /\ x.serving = state.serving
        /\ x.answers = state.answers /\ x.answer = state.answer /\ x.late = l
    BY <1>1, <2>5 DEF WorkerValues, SameEnds
  <2>8. PICK p \in Nat \X Nat :
          /\ state' \in WorkerValues /\ SameEnds(x, state') /\ state'.thread = "handler" /\ state'.host = x.host
          /\ state'.callId = n /\ state'.calls = x.calls /\ state'.serving = x.serving
          /\ state'.answer = p /\ state'.late = l
          /\ p = state.answer \/ (~state.late => p[1] = p[2])
    <3>1. CASE state' = x
      BY <1>2, <2>6, <2>7, <3>1 DEF SameEnds
    <3>2. CASE /\ state.answers # <<>>
               /\ state' = [x EXCEPT !.answer = <<state.callId, Head(state.answers)>>, !.answers = Tail(@)]
      <4>1. PICK t, p : t = Tail(state.answers) /\ p = <<state.callId, Head(state.answers)>>
        OBVIOUS
      <4>2. t \in Seq(0..MaxCalls) /\ Head(state.answers) = state.answers[1]
        <5>1. state.answers \in Seq(0..MaxCalls) /\ state.answers # <<>>
          BY <1>2, <3>2
        <5>2. Tail(state.answers) \in Seq(0..MaxCalls)
          BY <5>1, HeadTailProperties
        <5>3. Head(state.answers) = state.answers[1]
          BY <5>1
        <5> QED BY <4>1, <5>2, <5>3
      <4>3. Len(state.answers) \in Nat \ {0}
        BY <1>2, <3>2, EmptySeq
      <4>4. state.answers[1] \in 0..MaxCalls /\ 1 \in 1..Len(state.answers)
        <5>1. 1 \in 1..Len(state.answers)
          BY <4>3
        <5> QED BY <1>2, <5>1, ElementOfSeq
      <4>5. p \in Nat \X Nat /\ p[1] = state.callId /\ p[2] = state.answers[1]
        BY <1>2, <4>1, <4>2, <4>4
      <4>6. ~state.late => p[1] = p[2]
        BY <1>1, <2>1, <4>4, <4>5 DEF WorkerCalls
      <4>7. state' = [x EXCEPT !.answer = p, !.answers = t]
        BY <2>7, <3>2, <4>1
      <4>8. state' \in WorkerValues
        BY <2>6, <4>2, <4>5, <4>7, ZenonT(60) DEF WorkerValues
      <4>9. /\ SameEnds(x, state') /\ state'.thread = "handler" /\ state'.host = x.host
            /\ state'.callId = n /\ state'.calls = x.calls /\ state'.serving = x.serving
            /\ state'.answer = p /\ state'.late = l
        BY <2>6, <2>7, <4>7 DEF WorkerValues, SameEnds
      <4> QED BY <4>5, <4>6, <4>8, <4>9
    <3> QED BY <1>4, <2>4, <3>1, <3>2 DEF Worker!GlobalCallTimeout, Worker!GlobalCallReturns
  <2>9. WorkerEndings(state')
    BY <1>1, <2>1, <2>7, <2>8 DEF WorkerEndings, SameEnds
  <2>10. WorkerCalls(state')
    <3>1. \A k \in 1..Len(state.calls) : state.calls[k] \in Nat
      <4>1. \A k \in 1..Len(state.calls) : state.calls[k] \in 1..MaxCalls
        BY <1>2, ElementOfSeq
      <4> QED BY <4>1
    <3>2. /\ ~(state.hostStop \/ state.hostExited) => \A k \in 1..Len(state.calls) : state.calls[k] < n
          /\ state.host \in {"serving", "answering"} => state.serving < n
      <4>1. state.callId \in Nat /\ state.serving \in Nat /\ n = state.callId + 1
        BY <1>2, <2>2
      <4>2. ~(state.hostStop \/ state.hostExited) =>
              \A k \in 1..Len(state.calls) : state.calls[k] < state.callId \/ state.calls[k] = state.callId
        BY <1>1 DEF WorkerCalls, Issued
      <4>3. ~(state.hostStop \/ state.hostExited) => \A k \in 1..Len(state.calls) : state.calls[k] < n
        BY <3>1, <4>1, <4>2
      <4>4. state.host \in {"serving", "answering"} => state.serving < n
        BY <1>1, <4>1 DEF WorkerCalls, Issued
      <4> QED BY <4>3, <4>4
    <3>3. ~l => ~state.late /\ state.host # "answering" /\ p[1] = p[2]
      BY <1>1, <2>3, <2>8 DEF WorkerCalls
    <3> QED BY <1>1, <2>7, <2>8, <3>2, <3>3 DEF WorkerCalls, Issued, SameEnds, InCall
  <2> QED BY <2>8, <2>9, <2>10 DEF WorkerInv
<1> QED BY <1>3, <1>4, <1>5

(* Every step keeps the invariant. *)
LEMMA WorkerNextKeepsInv ==
  ASSUME WorkerAssumption, WorkerInv, Worker!Next
  PROVE  WorkerInv'
<1>1. CASE \/ Worker!CommonPostMessage \/ Worker!PostMessageInner \/ Worker!Terminate \/ Worker!PostTerminate
           \/ Worker!CancelTask \/ Worker!HostOnMessage \/ Worker!Collect \/ Worker!HostEnds
  BY <1>1, HostKeepsInv
<1>2. CASE \/ (Worker!CreateWorkerEnv /\ state' = [state EXCEPT !.thread = "env"])
           \/ Worker!PrepareForWorkerInstance \/ Worker!ScriptFails \/ Worker!ExecuteInThread
           \/ Worker!CloseInner \/ Worker!WorkerOnMessage \/ Worker!HandlerReturns
           \/ Worker!PostMessageToHost \/ Worker!ParentPortCancelTask \/ Worker!ClearWorkerTasks
           \/ Worker!ReleaseWorkerThreadContent
  BY <1>2, ThreadKeepsInv
<1>3. CASE Worker!HostOnGlobalCall \/ Worker!HostOnExit
  BY <1>3, HostOnGlobalCallKeepsInv, HostOnExitKeepsInv
<1>4. CASE Worker!CallFails \/ Worker!CallReturns \/ Worker!AnswerCall
  BY <1>4, HostAnswersKeepsInv
<1>5. CASE Worker!WorkerDestructor \/ Worker!HostEnvCleanCallback \/ Worker!HostExits
  BY <1>5, HostIsGoneKeepsInv
<1>6. CASE (Worker!CreateWorkerEnv /\ state' # [state EXCEPT !.thread = "env"]) \/ Worker!ThreadEnds
  BY <1>6, ThreadEndsKeepsInv
<1>7. CASE Worker!GlobalCall \/ Worker!InitGlobalCallStatus \/ Worker!GlobalCallTimeout \/ Worker!GlobalCallReturns
  BY <1>7, GlobalCallKeepsInv
<1> QED BY <1>1, <1>2, <1>3, <1>4, <1>5, <1>6, <1>7 DEF Worker!Next, Worker!ThreadStep, Worker!HostStep

(* The invariant implies the types and what must hold. *)
LEMMA WorkerInvImplies ==
  ASSUME WorkerInv
  PROVE  Worker!TypeOK /\ Worker!DeletedLast /\ Worker!CountedWhileAlive /\ Worker!AnswersMatch
<1>1. state \in WorkerValues /\ WorkerEndings(state) /\ WorkerCalls(state)
  BY DEF WorkerInv
<1>2. Worker!TypeOK
  <2>1. Worker!ToSet(Worker!RunnerState) = RunnerStates
    BY DEF Worker!ToSet, Worker!RunnerState, RunnerStates
  <2>2. \A f \in {"hostStop", "hostExited", "isTerminated", "inited", "signal", "wrapped", "over",
                  "handles", "deleted", "listed", "needOnExit", "callSignal", "success"} : state[f] \in BOOLEAN
    BY <1>1, WorkerFields
  <2> QED BY <1>1, <2>1, <2>2, WorkerFields DEF Worker!TypeOK, ThreadPlaces, HostPlaces, Posts
<1>3. Worker!DeletedLast
  BY <1>1 DEF Worker!DeletedLast, WorkerEndings
<1>4. Worker!CountedWhileAlive
  BY <1>1 DEF Worker!CountedWhileAlive, WorkerEndings
<1>5. Worker!AnswersMatch
  BY <1>1 DEF Worker!AnswersMatch, WorkerCalls
<1> QED BY <1>2, <1>3, <1>4, <1>5

----------------------------------------------------------------------------
(* The listeners of a Worker.  Only what changes the innermost dispatch is *)
(* of interest: of those it interrupts every step keeps what is known of   *)
(* them, as listeners are deleted for good and nothing else leaves a list. *)

(* What the bounds of WorkerListeners are. *)
ListenerAssumption == MaxListeners \in Nat /\ MaxEvents \in Nat

Dispatches ==
  [type : Listener!Types, data : 0..MaxListeners, it : 0..MaxListeners, caught : BOOLEAN, reports : BOOLEAN,
   own : BOOLEAN, thrown : BOOLEAN, due : SUBSET Listener!Records, called : Seq(Listener!Records)]

(* The values of listeners. *)
ListenerValues ==
  [side : Listener!Sides, lists : [Listener!Types -> SUBSET Listener!Records], made : 0..MaxListeners,
   deleted : SUBSET Listener!Records, info : Seq([cb : Callbacks, once : BOOLEAN]), frames : Seq(Dispatches),
   events : 0..MaxEvents, errors : 0..MaxEvents, done : [Listener!Records -> Nat],
   missed : SUBSET Listener!Records, spoiled : BOOLEAN, globals : [Objects -> 0..2],
   refs : SUBSET (Objects \X (1..2))]

(* The lists hold listeners that were made and are not deleted, no two of  *)
(* a function, and no listener twice; one for a single call is deleted     *)
(* after it.                                                               *)
Listing(s) ==
  /\ Len(s.info) = s.made
  /\ \A i \in s.deleted : i <= s.made
  /\ \A t \in Listener!Types : \A i \in s.lists[t] : i <= s.made /\ i \notin s.deleted
  /\ \A t, u \in Listener!Types : \A i \in s.lists[t] : i \in s.lists[u] => t = u
  /\ \A t \in Listener!Types : \A i, j \in s.lists[t] : s.info[i].cb = s.info[j].cb => i = j
  /\ \A i \in Listener!Records : i > s.made => s.done[i] = 0
  /\ \A i \in 1..s.made : s.info[i].once /\ s.done[i] # 0 => s.done[i] = 1 /\ i \in s.deleted

(* A dispatch has called the listeners up to data, in order and without    *)
(* those that are still listed and due, which begin at it.                 *)
Dispatched(s, f) ==
  /\ f.data <= s.made /\ f.it <= s.made /\ \A i \in f.due : i <= s.made
  /\ f.data = 0 => f.called = <<>>
  /\ \A n \in DOMAIN f.called : f.called[n] <= f.data
  /\ \A m, n \in DOMAIN f.called : m < n => f.called[m] < f.called[n]
  /\ f.data # 0 /\ f.it # 0 => f.data < f.it
  /\ f.data # 0 /\ f.data \notin s.deleted => f.data \in s.lists[f.type]
  /\ f.it # 0 /\ f.it \notin s.deleted => f.it \in s.lists[f.type]
  /\ \A i \in f.due : i \notin s.deleted => i \in s.lists[f.type]
  /\ f.data # 0 => \A i \in f.due : i \notin s.deleted =>
       (\E n \in DOMAIN f.called : f.called[n] = i) \/ (f.it # 0 /\ f.it <= i)

Dispatching(s) ==
  /\ s.missed = {} /\ s.errors + Len(s.frames) <= s.events
  /\ \A n \in DOMAIN s.frames : Dispatched(s, s.frames[n])

Referring(s) == s.refs = {<<o, s.globals[o]>> : o \in {p \in Objects : s.globals[p] # 0}}

ListenersAre(s) == s \in ListenerValues /\ Listing(s) /\ Dispatching(s) /\ Referring(s)
ListenerInv == ListenersAre(state)

(* The fields of a value of listeners, and of a dispatch. *)
LEMMA ListenerFields ==
  ASSUME NEW s \in ListenerValues
  PROVE  /\ s.side \in Listener!Sides /\ s.lists \in [Listener!Types -> SUBSET Listener!Records]
         /\ s.made \in 0..MaxListeners /\ s.deleted \in SUBSET Listener!Records
         /\ s.info \in Seq([cb : Callbacks, once : BOOLEAN]) /\ s.frames \in Seq(Dispatches)
         /\ s.events \in 0..MaxEvents /\ s.errors \in 0..MaxEvents /\ s.done \in [Listener!Records -> Nat]
         /\ s.missed \in SUBSET Listener!Records /\ s.spoiled \in BOOLEAN /\ s.globals \in [Objects -> 0..2]
         /\ s.refs \in SUBSET (Objects \X (1..2))
BY Zenon DEF ListenerValues

LEMMA DispatchFields ==
  ASSUME NEW f \in Dispatches
  PROVE  /\ f.type \in Listener!Types /\ f.data \in 0..MaxListeners /\ f.it \in 0..MaxListeners
         /\ f.caught \in BOOLEAN /\ f.reports \in BOOLEAN /\ f.own \in BOOLEAN /\ f.thrown \in BOOLEAN
         /\ f.due \in SUBSET Listener!Records
         /\ f.called \in Seq(Listener!Records)
BY Zenon DEF Dispatches

(* The iterator after listener i is at the next one of the list. *)
LEMMA FollowingIs ==
  ASSUME NEW list \in SUBSET Listener!Records, NEW i \in Nat
  PROVE  LET j == Listener!Following(list, i) IN
         \/ j = 0 /\ \A k \in list : k <= i
         \/ j \in list /\ j > i /\ \A k \in list : k <= i \/ j <= k
<1> DEFINE later == {j \in list : j > i}
<1>1. CASE later = {}
  <2>1. Listener!Following(list, i) = 0
    BY <1>1 DEF Listener!Following
  <2>2. \A k \in list : k <= i
    <3> SUFFICES ASSUME NEW k \in list PROVE k <= i
      OBVIOUS
    <3>1. k \in Nat /\ ~(k > i)
      BY <1>1 DEF Listener!Records
    <3> QED BY <3>1
  <2> QED BY <2>1, <2>2
<1>2. CASE later # {}
  <2>1. later \in SUBSET Nat
    <3>1. \A j \in list : j \in Nat
      BY DEF Listener!Records
    <3> QED BY <3>1
  <2>2. \E m \in later : \A n \in later : m <= n
    BY <1>2, <2>1, LeastNumber
  <2>3. PICK j : j = Listener!Min(later)
    OBVIOUS
  <2>4. j = CHOOSE m \in later : \A n \in later : m <= n
    BY <2>3 DEF Listener!Min
  <2>5. j \in later /\ \A n \in later : j <= n
    BY <2>2, <2>4
  <2>6. Listener!Following(list, i) = j
    BY <1>2, <2>3 DEF Listener!Following
  <2>7. \A k \in list : k <= i \/ j <= k
    BY <2>5 DEF Listener!Records
  <2> QED BY <2>5, <2>6, <2>7
<1> QED BY <1>1, <1>2

(* A dispatch is known as before when listeners are added and deleted. *)
Later(s, u) ==
  /\ u.made >= s.made /\ \A i \in s.deleted : i \in u.deleted
  /\ \A t \in Listener!Types : \A i \in s.lists[t] : i \notin u.deleted => i \in u.lists[t]

LEMMA DispatchedLater ==
  ASSUME ListenerAssumption, NEW s \in ListenerValues, NEW u \in ListenerValues, Later(s, u),
         NEW f \in Dispatches, Dispatched(s, f)
  PROVE  Dispatched(u, f)
<1>1. /\ s.made \in Nat /\ u.made \in Nat /\ f.data \in Nat /\ f.it \in Nat /\ f.due \in SUBSET Nat
      /\ f.type \in Listener!Types
  BY ListenerFields, DispatchFields DEF ListenerAssumption, Listener!Records
<1>2. f.data <= u.made /\ f.it <= u.made /\ \A i \in f.due : i <= u.made
  BY <1>1 DEF Dispatched, Later
<1>3. \A i : i \notin u.deleted => i \notin s.deleted
  BY DEF Later
<1>4. \A i \in s.lists[f.type] : i \notin u.deleted => i \in u.lists[f.type]
  BY <1>1 DEF Later
<1> QED BY <1>2, <1>3, <1>4 DEF Dispatched

(* The dispatches in progress with another one at the front, ... *)
LEMMA FramesPushed ==
  ASSUME NEW fs \in Seq(Dispatches), NEW f \in Dispatches
  PROVE  /\ <<f>> \o fs \in Seq(Dispatches) /\ Len(<<f>> \o fs) = Len(fs) + 1 /\ (<<f>> \o fs)[1] = f
         /\ \A n \in DOMAIN (<<f>> \o fs) : n = 1 \/ (n - 1 \in DOMAIN fs /\ (<<f>> \o fs)[n] = fs[n - 1])
<1>1. <<f>> \in Seq(Dispatches) /\ Len(<<f>>) = 1 /\ <<f>>[1] = f
  OBVIOUS
<1>2. PICK one \in Seq(Dispatches) : one = <<f>> /\ Len(one) = 1 /\ one[1] = f
  BY <1>1
<1>3. PICK both \in Seq(Dispatches) :
        /\ both = one \o fs /\ Len(both) = 1 + Len(fs)
        /\ \A n \in 1..(1 + Len(fs)) : both[n] = IF n <= 1 THEN one[n] ELSE fs[n - 1]
  <2>1. /\ one \o fs \in Seq(Dispatches) /\ Len(one \o fs) = 1 + Len(fs)
        /\ \A n \in 1..(1 + Len(fs)) : (one \o fs)[n] = IF n <= 1 THEN one[n] ELSE fs[n - 1]
    BY <1>2, ConcatProperties
  <2> QED BY <2>1, Zenon
<1>4. Len(fs) \in Nat /\ DOMAIN fs = 1..Len(fs) /\ DOMAIN both = 1..Len(both)
  BY LenProperties
<1>5. both = <<f>> \o fs
  BY <1>2, <1>3
<1>6. both[1] = f /\ \A n \in DOMAIN both : n = 1 \/ (n - 1 \in DOMAIN fs /\ both[n] = fs[n - 1])
  BY <1>2, <1>3, <1>4
<1>7. Len(both) = Len(fs) + 1
  BY <1>3, <1>4
<1> QED BY <1>5, <1>6, <1>7

(* ... and without the innermost one. *)
LEMMA FramesPopped ==
  ASSUME NEW fs \in Seq(Dispatches), fs # <<>>
  PROVE  /\ Head(fs) \in Dispatches /\ 1 \in DOMAIN fs /\ Head(fs) = fs[1] /\ Len(fs) \in Nat \ {0}
         /\ Tail(fs) \in Seq(Dispatches) /\ Len(Tail(fs)) = Len(fs) - 1
         /\ \A n \in DOMAIN Tail(fs) : n + 1 \in DOMAIN fs /\ Tail(fs)[n] = fs[n + 1]
<1>1. Len(fs) \in Nat \ {0} /\ DOMAIN fs = 1..Len(fs)
  BY EmptySeq, LenProperties
<1>2. /\ Head(fs) \in Dispatches /\ Tail(fs) \in Seq(Dispatches) /\ Len(Tail(fs)) = Len(fs) - 1
      /\ \A n \in 1..Len(Tail(fs)) : Tail(fs)[n] = fs[n + 1]
  BY HeadTailProperties
<1>3. DOMAIN Tail(fs) = 1..Len(Tail(fs))
  BY <1>2, LenProperties
<1>4. Head(fs) = fs[1]
  OBVIOUS
<1> QED BY <1>1, <1>2, <1>3, <1>4

(* Init establishes the invariant. *)
LEMMA ListenerInitEstablishesInv ==
  ASSUME ListenerAssumption, Listener!Init
  PROVE  ListenerInv
<1>1. PICK side \in Listener!Sides :
        state = [side |-> side, lists |-> [t \in Listener!Types |-> {}], made |-> 0, deleted |-> {},
                 info |-> <<>>, frames |-> <<>>, events |-> 0, errors |-> 0,
                 done |-> [i \in Listener!Records |-> 0], missed |-> {}, spoiled |-> FALSE,
                 globals |-> [o \in Objects |-> 0], refs |-> {}]
  BY DEF Listener!Init
<1>2. PICK lists \in [Listener!Types -> SUBSET Listener!Records] :
        lists = [t \in Listener!Types |-> {}] /\ \A t \in Listener!Types : lists[t] = {}
  <2>1. [t \in Listener!Types |-> {}] \in [Listener!Types -> SUBSET Listener!Records]
    OBVIOUS
  <2> QED BY <2>1
<1>3. PICK done \in [Listener!Records -> Nat] :
        done = [i \in Listener!Records |-> 0] /\ \A i \in Listener!Records : done[i] = 0
  <2>1. [i \in Listener!Records |-> 0] \in [Listener!Records -> Nat]
    OBVIOUS
  <2> QED BY <2>1
<1>4. PICK globals \in [Objects -> 0..2] : globals = [o \in Objects |-> 0] /\ \A o \in Objects : globals[o] = 0
  <2>1. [o \in Objects |-> 0] \in [Objects -> 0..2]
    OBVIOUS
  <2> QED BY <2>1
<1>5. 0 \in 0..MaxListeners /\ 0 \in 0..MaxEvents
  BY DEF ListenerAssumption
<1>6. PICK none \in SUBSET Listener!Records : none = {}
  OBVIOUS
<1>7. PICK refs \in SUBSET (Objects \X (1..2)) : refs = {}
  OBVIOUS
<1>8. PICK info \in Seq([cb : Callbacks, once : BOOLEAN]) : info = <<>> /\ Len(info) = 0
  BY EmptySeq
<1>9. PICK frames \in Seq(Dispatches) : frames = <<>> /\ Len(frames) = 0 /\ DOMAIN frames = {}
  <2>1. <<>> \in Seq(Dispatches) /\ Len(<<>>) = 0 /\ DOMAIN <<>> = {}
    OBVIOUS
  <2> QED BY <2>1
<1>10. state = [side |-> side, lists |-> lists, made |-> 0, deleted |-> none, info |-> info, frames |-> frames,
                events |-> 0, errors |-> 0, done |-> done, missed |-> none, spoiled |-> FALSE,
                globals |-> globals, refs |-> refs]
  BY <1>1, <1>2, <1>3, <1>4, <1>6, <1>7, <1>8, <1>9
<1>11. state \in ListenerValues
  BY <1>5, <1>10, ZenonT(60) DEF ListenerValues
<1>12. /\ state.lists = lists /\ state.made = 0 /\ state.deleted = {} /\ state.info = info /\ state.frames = frames
       /\ state.events = 0 /\ state.errors = 0 /\ state.done = done /\ state.missed = {} /\ state.globals = globals
       /\ state.refs = {}
  BY <1>6, <1>7, <1>10
<1>13. Listing(state)
  BY <1>2, <1>3, <1>8, <1>12 DEF Listing
<1>14. Dispatching(state)
  BY <1>9, <1>12 DEF Dispatching
<1>15. Referring(state)
  BY <1>4, <1>12 DEF Referring
<1> QED BY <1>11, <1>13, <1>14, <1>15 DEF ListenerInv, ListenersAre

(* The fields of a state of which the invariant holds. *)
LEMMA ListenersFields ==
  ASSUME ListenerAssumption, NEW s, ListenersAre(s)
  PROVE  /\ s \in ListenerValues /\ Listing(s) /\ Dispatching(s) /\ Referring(s)
         /\ s.lists \in [Listener!Types -> SUBSET Listener!Records] /\ s.made \in 0..MaxListeners
         /\ s.deleted \in SUBSET Listener!Records /\ s.info \in Seq([cb : Callbacks, once : BOOLEAN])
         /\ s.frames \in Seq(Dispatches) /\ s.events \in 0..MaxEvents /\ s.errors \in 0..MaxEvents
         /\ s.done \in [Listener!Records -> Nat] /\ s.globals \in [Objects -> 0..2]
         /\ s.refs \in SUBSET (Objects \X (1..2)) /\ s.missed \in SUBSET Listener!Records
         /\ MaxListeners \in Nat /\ MaxEvents \in Nat /\ s.made \in Nat
         /\ \A n \in DOMAIN s.frames : s.frames[n] \in Dispatches
<1>1. s \in ListenerValues /\ Listing(s) /\ Dispatching(s) /\ Referring(s)
  BY DEF ListenersAre
<1>2. /\ s.lists \in [Listener!Types -> SUBSET Listener!Records] /\ s.made \in 0..MaxListeners
      /\ s.deleted \in SUBSET Listener!Records /\ s.info \in Seq([cb : Callbacks, once : BOOLEAN])
      /\ s.frames \in Seq(Dispatches) /\ s.events \in 0..MaxEvents /\ s.errors \in 0..MaxEvents
      /\ s.done \in [Listener!Records -> Nat] /\ s.globals \in [Objects -> 0..2]
      /\ s.refs \in SUBSET (Objects \X (1..2)) /\ s.missed \in SUBSET Listener!Records
  BY <1>1, ListenerFields
<1>3. MaxListeners \in Nat /\ MaxEvents \in Nat /\ s.made \in Nat
  BY <1>2 DEF ListenerAssumption
<1>4. \A n \in DOMAIN s.frames : s.frames[n] \in Dispatches
  BY <1>2, LenProperties, ElementOfSeq
<1> QED BY <1>1, <1>2, <1>3, <1>4

(* Taking listeners out of the lists and deleting them. *)
Gone(s, gone, lists, done) ==
  /\ \A i \in gone : i <= s.made
  /\ \A t \in Listener!Types : lists[t] = s.lists[t] \ gone
  /\ \A i \in Listener!Records : done[i] = s.done[i] \/ (i \in gone /\ done[i] = 1)

LEMMA ListenersGone ==
  ASSUME ListenerAssumption, NEW s, ListenersAre(s), NEW gone \in SUBSET Listener!Records,
         NEW lists \in [Listener!Types -> SUBSET Listener!Records], NEW done \in [Listener!Records -> Nat],
         Gone(s, gone, lists, done),
         NEW u, u = [s EXCEPT !.lists = lists, !.deleted = @ \cup gone, !.done = done]
  PROVE  ListenersAre(u)
<1>1. /\ s \in ListenerValues /\ Listing(s) /\ Dispatching(s) /\ Referring(s) /\ s.made \in Nat
      /\ s.deleted \in SUBSET Listener!Records /\ \A n \in DOMAIN s.frames : s.frames[n] \in Dispatches
  BY ListenersFields
<1>2. PICK deleted \in SUBSET Listener!Records : deleted = s.deleted \cup gone
  BY <1>1
<1>3. u = [s EXCEPT !.lists = lists, !.deleted = deleted, !.done = done]
  BY <1>2
<1>4. u \in ListenerValues
  BY <1>1, <1>3, ZenonT(60) DEF ListenerValues
<1>5. /\ u.lists = lists /\ u.made = s.made /\ u.deleted = deleted /\ u.info = s.info /\ u.frames = s.frames
      /\ u.events = s.events /\ u.errors = s.errors /\ u.done = done /\ u.missed = s.missed
      /\ u.globals = s.globals /\ u.refs = s.refs
  BY <1>1, <1>3 DEF ListenerValues
<1>6. \A t \in Listener!Types : \A i \in lists[t] : i \in s.lists[t] /\ i \notin gone
  BY DEF Gone
<1>7. Listing(u)
  <2>1. \A i \in deleted : i <= s.made
    BY <1>1, <1>2 DEF Gone, Listing
  <2>2. \A t \in Listener!Types : \A i \in lists[t] : i <= s.made /\ i \notin deleted
    BY <1>1, <1>2, <1>6 DEF Listing
  <2>3. \A t, v \in Listener!Types : \A i \in lists[t] : i \in lists[v] => t = v
    BY <1>1, <1>6 DEF Listing
  <2>4. \A t \in Listener!Types : \A i, j \in lists[t] : s.info[i].cb = s.info[j].cb => i = j
    BY <1>1, <1>6 DEF Listing
  <2>5. \A i \in Listener!Records : i > s.made => done[i] = 0
    BY <1>1 DEF Listing, Gone, Listener!Records
  <2>6. \A i \in 1..s.made : s.info[i].once /\ done[i] # 0 => done[i] = 1 /\ i \in deleted
    <3>1. \A i \in 1..s.made : i \in Listener!Records
      BY <1>1, ListenerFields DEF Listener!Records, ListenerAssumption
    <3> QED BY <1>1, <1>2, <3>1 DEF Listing, Gone
  <2> QED BY <1>1, <1>5, <2>1, <2>2, <2>3, <2>4, <2>5, <2>6 DEF Listing
<1>8. Dispatching(u)
  <2>1. Later(s, u)
    <3>1. \A t \in Listener!Types : \A i \in s.lists[t] : i \notin deleted => i \in lists[t]
      BY <1>2 DEF Gone
    <3> QED BY <1>1, <1>2, <1>5, <3>1 DEF Later
  <2>2. \A n \in DOMAIN s.frames : Dispatched(u, s.frames[n])
    BY <1>1, <1>4, <2>1, DispatchedLater DEF Dispatching
  <2> QED BY <1>1, <1>5, <2>2 DEF Dispatching
<1>9. Referring(u)
  BY <1>1, <1>5 DEF Referring
<1> QED BY <1>4, <1>7, <1>8, <1>9 DEF ListenersAre

(* Adding a listener. *)
LEMMA AddListenerKeepsInv ==
  ASSUME ListenerAssumption, ListenerInv, NEW t \in Listener!Types, NEW cb \in Callbacks, NEW once \in BOOLEAN,
         Listener!AddListener(t, cb, once)
  PROVE  ListenerInv'
<1> DEFINE Infos == [cb : Callbacks, once : BOOLEAN]
<1>1. ListenersAre(state)
  BY DEF ListenerInv
<1>2. /\ state \in ListenerValues /\ Listing(state) /\ Dispatching(state) /\ Referring(state)
      /\ state.lists \in [Listener!Types -> SUBSET Listener!Records] /\ state.made \in Nat
      /\ state.info \in Seq(Infos) /\ state.deleted \in SUBSET Listener!Records /\ MaxListeners \in Nat
      /\ \A n \in DOMAIN state.frames : state.frames[n] \in Dispatches
  BY <1>1, ListenersFields
<1>3. PICK i \in Listener!Records : i = state.made + 1 /\ i \in 0..MaxListeners
  BY <1>2 DEF Listener!AddListener, Listener!Records
<1>4. PICK entry \in Infos : entry = [cb |-> cb, once |-> once] /\ entry.cb = cb
  <2>1. [cb |-> cb, once |-> once] \in Infos
    BY Zenon
  <2> QED BY <2>1
<1>5. PICK info \in Seq(Infos) :
        /\ info = Append(state.info, entry) /\ Len(info) = Len(state.info) + 1
        /\ \A n \in 1..Len(state.info) : info[n] = state.info[n]
        /\ info[Len(state.info) + 1] = entry
  <2>1. PICK old \in Seq(Infos) : old = state.info
    BY <1>2
  <2>2. /\ Append(old, entry) \in Seq(Infos) /\ Len(Append(old, entry)) = Len(old) + 1
        /\ \A n \in 1..Len(old) : Append(old, entry)[n] = old[n]
        /\ Append(old, entry)[Len(old) + 1] = entry
    BY AppendProperties
  <2> QED BY <2>1, <2>2
<1>6. PICK lists \in [Listener!Types -> SUBSET Listener!Records] :
        /\ lists = [state.lists EXCEPT ![t] = @ \cup {i}]
        /\ lists[t] = state.lists[t] \cup {i} /\ \A v \in Listener!Types : v # t => lists[v] = state.lists[v]
  <2>1. [state.lists EXCEPT ![t] = @ \cup {i}] \in [Listener!Types -> SUBSET Listener!Records]
    BY <1>2
  <2> QED BY <1>2, <2>1
<1>7. state' = [state EXCEPT !.made = i, !.info = info, !.lists = lists]
  BY <1>3, <1>4, <1>5, <1>6 DEF Listener!AddListener
<1>8. state' \in ListenerValues
  BY <1>2, <1>3, <1>7, ZenonT(60) DEF ListenerValues
<1>9. /\ state'.lists = lists /\ state'.made = i /\ state'.deleted = state.deleted /\ state'.info = info
      /\ state'.frames = state.frames /\ state'.events = state.events /\ state'.errors = state.errors
      /\ state'.done = state.done /\ state'.missed = state.missed
      /\ state'.globals = state.globals /\ state'.refs = state.refs
  BY <1>2, <1>7 DEF ListenerValues
<1>10. /\ \A v \in Listener!Types : \A j \in state.lists[v] : j # i /\ j <= state.made /\ j \in 1..state.made
       /\ \A j \in state.deleted : j # i /\ j <= state.made
       /\ state.done[i] = 0
  <2>1. \A v \in Listener!Types : \A j \in state.lists[v] : j \in Listener!Records /\ j <= state.made
    BY <1>2 DEF Listing
  <2>2. \A j \in state.deleted : j \in Listener!Records /\ j <= state.made
    BY <1>2 DEF Listing
  <2>3. i > state.made
    BY <1>2, <1>3
  <2>4. state.done[i] = 0
    BY <1>2, <2>3 DEF Listing
  <2> QED BY <1>2, <1>3, <2>1, <2>2, <2>4 DEF Listener!Records
<1>11. info[i] = entry /\ \A j \in 1..state.made : info[j] = state.info[j]
  BY <1>2, <1>3, <1>5 DEF Listing
<1>12. Listing(state')
  <2>1. Len(info) = i
    BY <1>2, <1>3, <1>5 DEF Listing
  <2>2. \A j \in state.deleted : j <= i
    BY <1>2, <1>3, <1>10 DEF Listener!Records
  <2>3. \A v \in Listener!Types : \A j \in lists[v] : j <= i /\ j \notin state.deleted
    BY <1>2, <1>3, <1>6, <1>10 DEF Listing, Listener!Records
  <2>4. \A v, w \in Listener!Types : \A j \in lists[v] : j \in lists[w] => v = w
    BY <1>2, <1>6, <1>10 DEF Listing
  <2>5. \A v \in Listener!Types : \A j, k \in lists[v] : info[j].cb = info[k].cb => j = k
    <3>1. \A j \in state.lists[t] : state.info[j].cb # cb
      BY DEF Listener!AddListener, Listener!Listed
    <3>2. \A v \in Listener!Types : \A j, k \in state.lists[v] : state.info[j].cb = state.info[k].cb => j = k
      BY <1>2 DEF Listing
    <3>3. \A v \in Listener!Types : \A j \in state.lists[v] : j # i /\ info[j] = state.info[j]
      BY <1>10, <1>11
    <3>4. \A j, k \in lists[t] : info[j].cb = info[k].cb => j = k
      BY <1>4, <1>6, <1>11, <3>1, <3>2, <3>3
    <3>5. \A v \in Listener!Types : v # t => \A j, k \in lists[v] : info[j].cb = info[k].cb => j = k
      BY <1>6, <3>2, <3>3
    <3> QED BY <3>4, <3>5
  <2>6. \A j \in Listener!Records : j > i => state.done[j] = 0
    BY <1>2, <1>3 DEF Listing, Listener!Records
  <2>7. \A j \in 1..i : info[j].once /\ state.done[j] # 0 => state.done[j] = 1 /\ j \in state.deleted
    <3> SUFFICES ASSUME NEW j \in 1..i, info[j].once, state.done[j] # 0
                 PROVE  state.done[j] = 1 /\ j \in state.deleted
      OBVIOUS
    <3>1. j # i
      BY <1>10
    <3>2. j \in 1..state.made
      BY <1>2, <1>3, <3>1
    <3> QED BY <1>2, <1>11, <3>2 DEF Listing
  <2> QED BY <1>9, <2>1, <2>2, <2>3, <2>4, <2>5, <2>6, <2>7 DEF Listing
<1>13. Dispatching(state')
  <2>1. Later(state, state')
    BY <1>2, <1>3, <1>6, <1>9 DEF Later
  <2>2. \A n \in DOMAIN state.frames : Dispatched(state', state.frames[n])
    BY <1>2, <1>8, <2>1, DispatchedLater DEF Dispatching
  <2> QED BY <1>2, <1>9, <2>2 DEF Dispatching
<1>14. Referring(state')
  BY <1>2, <1>9 DEF Referring
<1> QED BY <1>8, <1>12, <1>13, <1>14 DEF ListenerInv, ListenersAre

(* Removing listeners. *)
LEMMA RemoveKeepsInv ==
  ASSUME ListenerAssumption, ListenerInv,
         \/ \E t \in Listener!Types, cb \in Callbacks : Listener!RemoveListener(t, cb)
         \/ \E t \in Listener!Types : Listener!RemoveListeners(t)
         \/ Listener!RemoveAllListener
  PROVE  ListenerInv'
<1>1. ListenersAre(state)
  BY DEF ListenerInv
<1>2. /\ state \in ListenerValues /\ Listing(state) /\ state.made \in Nat
      /\ state.lists \in [Listener!Types -> SUBSET Listener!Records]
      /\ state.done \in [Listener!Records -> Nat] /\ state.deleted \in SUBSET Listener!Records
  BY <1>1, ListenersFields
<1>3. PICK done \in [Listener!Records -> Nat] : done = state.done
  BY <1>2
<1>4. \A t \in Listener!Types : state.lists[t] \subseteq Listener!Records /\ \A i \in state.lists[t] : i <= state.made
  BY <1>2 DEF Listing
<1>5. \A t, v \in Listener!Types : \A i \in state.lists[t] : i \in state.lists[v] => t = v
  BY <1>2 DEF Listing
<1>6. ASSUME NEW gone \in SUBSET Listener!Records, NEW lists \in [Listener!Types -> SUBSET Listener!Records],
             Gone(state, gone, lists, done), state' = [state EXCEPT !.lists = lists, !.deleted = @ \cup gone]
      PROVE  ListenerInv'
  <2>1. state' = [state EXCEPT !.lists = lists, !.deleted = @ \cup gone, !.done = done]
    BY <1>2, <1>3, <1>6 DEF ListenerValues
  <2>2. ListenersAre(state')
    BY <1>1, <1>6, <2>1, ListenersGone
  <2> QED BY <2>2 DEF ListenerInv
<1>7. ASSUME NEW t \in Listener!Types, NEW gone \in SUBSET state.lists[t],
             state' = [state EXCEPT !.lists[t] = @ \ gone, !.deleted = @ \cup gone]
      PROVE  ListenerInv'
  <2>1. PICK lists \in [Listener!Types -> SUBSET Listener!Records] :
          /\ lists = [state.lists EXCEPT ![t] = @ \ gone]
          /\ lists[t] = state.lists[t] \ gone /\ \A v \in Listener!Types : v # t => lists[v] = state.lists[v]
    <3>1. [state.lists EXCEPT ![t] = @ \ gone] \in [Listener!Types -> SUBSET Listener!Records]
      BY <1>2
    <3> QED BY <1>2, <3>1
  <2>2. \A v \in Listener!Types : lists[v] = state.lists[v] \ gone
    BY <1>5, <2>1
  <2>3. Gone(state, gone, lists, done)
    BY <1>3, <1>4, <2>2 DEF Gone
  <2>4. gone \in SUBSET Listener!Records
    BY <1>4
  <2>5. state' = [state EXCEPT !.lists = lists, !.deleted = @ \cup gone]
    BY <1>7, <2>1
  <2> QED BY <1>6, <2>3, <2>4, <2>5
<1>8. CASE \E t \in Listener!Types, cb \in Callbacks : Listener!RemoveListener(t, cb)
  <2>1. PICK t \in Listener!Types, cb \in Callbacks : \E i \in Listener!Listed(t, cb) :
          state' = [state EXCEPT !.lists[t] = @ \ {i}, !.deleted = @ \cup {i}]
    BY <1>8 DEF Listener!RemoveListener
  <2>2. PICK i \in Listener!Listed(t, cb) :
          state' = [state EXCEPT !.lists[t] = @ \ {i}, !.deleted = @ \cup {i}]
    BY <2>1
  <2>3. {i} \in SUBSET state.lists[t]
    BY DEF Listener!Listed
  <2> QED BY <1>7, <2>2, <2>3
<1>9. CASE \E t \in Listener!Types : Listener!RemoveListeners(t)
  <2>1. PICK t \in Listener!Types : state' = [state EXCEPT !.lists[t] = {}, !.deleted = @ \cup state.lists[t]]
    BY <1>9 DEF Listener!RemoveListeners
  <2>2. PICK gone \in SUBSET state.lists[t] : gone = state.lists[t]
    OBVIOUS
  <2>3. state' = [state EXCEPT !.lists[t] = @ \ gone, !.deleted = @ \cup gone]
    BY <2>1, <2>2
  <2> QED BY <1>7, <2>3
<1>10. CASE Listener!RemoveAllListener
  <2>1. PICK gone \in SUBSET Listener!Records : gone = UNION {state.lists[t] : t \in Listener!Types}
    BY <1>4
  <2>2. PICK lists \in [Listener!Types -> SUBSET Listener!Records] :
          lists = [t \in Listener!Types |-> {}] /\ \A t \in Listener!Types : lists[t] = {}
    <3>1. [t \in Listener!Types |-> {}] \in [Listener!Types -> SUBSET Listener!Records]
      OBVIOUS
    <3> QED BY <3>1
  <2>3. Gone(state, gone, lists, done)
    <3>1. \A t \in Listener!Types : state.lists[t] \ gone = {}
      BY <2>1
    <3>2. \A i \in gone : i <= state.made
      BY <1>4, <2>1
    <3> QED BY <1>3, <2>2, <3>1, <3>2 DEF Gone
  <2>4. state' = [state EXCEPT !.lists = lists, !.deleted = @ \cup gone]
    BY <1>10, <2>1, <2>2 DEF Listener!RemoveAllListener
  <2> QED BY <1>6, <2>3, <2>4
<1> QED BY <1>8, <1>9, <1>10

(* A dispatch that begins. *)
LEMMA FrameIs ==
  ASSUME ListenerAssumption, NEW s, ListenersAre(s), NEW t \in Listener!Types, NEW caught \in BOOLEAN
  PROVE  \E f \in Dispatches : f = Listener!Frame(s, t, caught) /\ Dispatched(s, f)
<1>1. s.lists \in [Listener!Types -> SUBSET Listener!Records] /\ Listing(s) /\ s.made \in Nat
  BY ListenersFields
<1>2. PICK due \in SUBSET Listener!Records : due = s.lists[t]
  BY <1>1
<1>3. PICK called \in Seq(Listener!Records) : called = <<>> /\ DOMAIN called = {}
  <2>1. <<>> \in Seq(Listener!Records) /\ DOMAIN <<>> = {}
    OBVIOUS
  <2> QED BY <2>1
<1>4. PICK zero \in 0..MaxListeners : zero = 0
  BY DEF ListenerAssumption
<1>5. PICK f : f = [type |-> t, data |-> zero, it |-> zero, caught |-> caught, reports |-> FALSE,
                    own |-> FALSE, thrown |-> FALSE, due |-> due, called |-> called]
  OBVIOUS
<1>6. f \in Dispatches
  BY <1>5, ZenonT(30) DEF Dispatches
<1>7. f = Listener!Frame(s, t, caught)
  BY <1>2, <1>3, <1>4, <1>5 DEF Listener!Frame
<1>8. f.type = t /\ f.data = 0 /\ f.it = 0 /\ f.due = due /\ f.called = called
  BY <1>4, <1>5
<1>9. Dispatched(s, f)
  BY <1>1, <1>2, <1>3, <1>8 DEF Dispatched, Listing
<1> QED BY <1>6, <1>7, <1>9

(* What the stack of dispatches may become. *)
Stacked(s, frames, errors, events) ==
  (\A n \in DOMAIN frames : Dispatched(s, frames[n])) /\ errors + Len(frames) <= events

LEMMA StackChanges ==
  ASSUME ListenerAssumption, NEW s, ListenersAre(s), NEW frames \in Seq(Dispatches),
         NEW errors \in 0..MaxEvents, NEW events \in 0..MaxEvents, Stacked(s, frames, errors, events),
         NEW u, u = [s EXCEPT !.frames = frames, !.errors = errors, !.events = events]
  PROVE  ListenersAre(u)
<1>1. s \in ListenerValues /\ Listing(s) /\ Dispatching(s) /\ Referring(s)
  BY ListenersFields
<1>2. u \in ListenerValues
  BY <1>1, ZenonT(60) DEF ListenerValues
<1>3. /\ u.lists = s.lists /\ u.made = s.made /\ u.deleted = s.deleted /\ u.info = s.info /\ u.frames = frames
      /\ u.events = events /\ u.errors = errors /\ u.done = s.done /\ u.missed = s.missed
      /\ u.globals = s.globals /\ u.refs = s.refs
  BY <1>1 DEF ListenerValues
<1>4. Listing(u)
  BY <1>1, <1>3 DEF Listing
<1>5. \A n \in DOMAIN frames : Dispatched(u, frames[n])
  BY <1>3 DEF Stacked, Dispatched
<1>6. Dispatching(u)
  BY <1>1, <1>3, <1>5 DEF Dispatching, Stacked
<1>7. Referring(u)
  BY <1>1, <1>3 DEF Referring
<1> QED BY <1>2, <1>4, <1>6, <1>7 DEF ListenersAre

(* A dispatch begins inside those in progress. *)
LEMMA PushedKeepsInv ==
  ASSUME ListenerAssumption, NEW s, ListenersAre(s), s.events < MaxEvents,
         NEW f \in Dispatches, Dispatched(s, f)
  PROVE  ListenersAre(Listener!Pushed(s, f))
<1>1. /\ s \in ListenerValues /\ Dispatching(s) /\ s.frames \in Seq(Dispatches)
      /\ s.events \in 0..MaxEvents /\ s.errors \in 0..MaxEvents /\ MaxEvents \in Nat
  BY ListenersFields
<1>2. PICK fs \in Seq(Dispatches) : fs = s.frames
  BY <1>1
<1>3. PICK frames \in Seq(Dispatches) :
        /\ frames = <<f>> \o fs /\ Len(frames) = Len(fs) + 1 /\ frames[1] = f
        /\ \A n \in DOMAIN frames : n = 1 \/ (n - 1 \in DOMAIN fs /\ frames[n] = fs[n - 1])
  <2>1. /\ <<f>> \o fs \in Seq(Dispatches) /\ Len(<<f>> \o fs) = Len(fs) + 1 /\ (<<f>> \o fs)[1] = f
        /\ \A n \in DOMAIN (<<f>> \o fs) : n = 1 \/ (n - 1 \in DOMAIN fs /\ (<<f>> \o fs)[n] = fs[n - 1])
    BY FramesPushed
  <2> QED BY <2>1, Zenon
<1>4. PICK events \in 0..MaxEvents : events = s.events + 1
  BY <1>1
<1>5. PICK errors \in 0..MaxEvents : errors = s.errors
  BY <1>1
<1>6. Listener!Pushed(s, f) = [s EXCEPT !.frames = frames, !.errors = errors, !.events = events]
  <2>1. Listener!Pushed(s, f) = [s EXCEPT !.frames = frames, !.events = events]
    BY <1>1, <1>2, <1>3, <1>4 DEF Listener!Pushed, ListenerValues
  <2> QED BY <1>1, <1>5, <2>1 DEF ListenerValues
<1>7. Stacked(s, frames, errors, events)
  <2>1. \A n \in DOMAIN frames : Dispatched(s, frames[n])
    BY <1>1, <1>2, <1>3 DEF Dispatching
  <2>2. Len(fs) \in Nat /\ errors + Len(fs) <= s.events
    BY <1>1, <1>2, <1>5, LenProperties DEF Dispatching
  <2>3. errors + Len(frames) <= events
    BY <1>1, <1>3, <1>4, <2>2
  <2> QED BY <2>1, <2>3 DEF Stacked
<1> QED BY <1>6, <1>7, StackChanges

(* What is known of a dispatch is not told apart by its last marks. *)
LEMMA MarkedDispatchIs ==
  ASSUME NEW s, NEW f \in Dispatches, Dispatched(s, f),
         NEW g, g \in {[f EXCEPT !.own = TRUE], [f EXCEPT !.thrown = TRUE], [f EXCEPT !.reports = TRUE]}
  PROVE  g \in Dispatches /\ Dispatched(s, g)
<1>1. g \in Dispatches
  BY ZenonT(60) DEF Dispatches
<1>2. g.type = f.type /\ g.data = f.data /\ g.it = f.it /\ g.due = f.due /\ g.called = f.called
  BY DEF Dispatches
<1> QED BY <1>1, <1>2 DEF Dispatched

LEMMA DispatchEventKeepsInv ==
  ASSUME ListenerAssumption, ListenerInv,
         (\E t \in Listener!Types : Listener!DispatchEvent(t)) \/ Listener!WorkerOnMessage
  PROVE  ListenerInv'
<1>1. ListenersAre(state)
  BY DEF ListenerInv
<1>2. CASE \E t \in Listener!Types : Listener!DispatchEvent(t)
  <2>1. PICK t \in Listener!Types : Listener!DispatchEvent(t)
    BY <1>2
  <2>2. PICK caught \in BOOLEAN : caught = (state.side = "port")
    OBVIOUS
  <2>3. PICK f \in Dispatches : f = Listener!Frame(state, t, caught) /\ Dispatched(state, f)
    BY <1>1, FrameIs
  <2>4. state' = Listener!Pushed(state, f) /\ state.events < MaxEvents
    BY <2>1, <2>2, <2>3 DEF Listener!DispatchEvent
  <2>5. ListenersAre(state')
    BY <1>1, <2>3, <2>4, PushedKeepsInv
  <2> QED BY <2>5 DEF ListenerInv
<1>3. CASE Listener!WorkerOnMessage
  <2>1. "message" \in Listener!Types
    BY DEF Listener!Types
  <2>2. PICK f \in Dispatches : f = Listener!Frame(state, "message", TRUE) /\ Dispatched(state, f)
    BY <1>1, <2>1, FrameIs
  <2>3. PICK g \in Dispatches : g = [f EXCEPT !.own = TRUE] /\ Dispatched(state, g)
    BY <2>2, MarkedDispatchIs
  <2>4. state' = Listener!Pushed(state, g) /\ state.events < MaxEvents
    BY <1>3, <2>2, <2>3 DEF Listener!WorkerOnMessage
  <2>5. ListenersAre(state')
    BY <1>1, <2>3, <2>4, PushedKeepsInv
  <2> QED BY <2>5 DEF ListenerInv
<1> QED BY <1>2, <1>3

(* The loop goes on to a listener that is still there, ... *)
GoesOn(s, f, i) ==
  i \in s.lists[f.type] /\ IF f.data = 0 THEN \A k \in s.lists[f.type] : i <= k ELSE i = f.it

Moved(s, f, i) ==
  [f EXCEPT !.data = i, !.it = Listener!Following(s.lists[f.type], i), !.called = Append(@, i),
            !.thrown = FALSE]

LEMMA DispatchGoesOn ==
  ASSUME ListenerAssumption, NEW s, ListenersAre(s), NEW f \in Dispatches, Dispatched(s, f), NEW i, GoesOn(s, f, i)
  PROVE  Moved(s, f, i) \in Dispatches /\ Dispatched(s, Moved(s, f, i))
<1>1. /\ s.lists \in [Listener!Types -> SUBSET Listener!Records] /\ Listing(s) /\ s.made \in 0..MaxListeners
      /\ s.deleted \in SUBSET Listener!Records /\ MaxListeners \in Nat
  BY ListenersFields
<1>2. f.type \in Listener!Types /\ f.data \in Nat /\ f.due \in SUBSET Listener!Records /\ f.called \in Seq(Listener!Records)
  BY DispatchFields DEF ListenerAssumption
<1>3. PICK list \in SUBSET Listener!Records : list = s.lists[f.type]
  BY <1>1, <1>2
<1>4. \A k \in list : k \in Nat /\ k # 0 /\ k <= s.made /\ k \in 0..MaxListeners
  BY <1>1, <1>2, <1>3 DEF Listing, Listener!Records
<1>5. i \in list /\ i \in Listener!Records /\ i \in Nat /\ i # 0 /\ i \in 0..MaxListeners
  BY <1>3, <1>4 DEF GoesOn
<1>6. PICK it : /\ it = Listener!Following(list, i)
                /\ \/ it = 0 /\ \A k \in list : k <= i
                   \/ it \in list /\ it > i /\ \A k \in list : k <= i \/ it <= k
  BY <1>5, FollowingIs
<1>7. it \in 0..MaxListeners
  BY <1>1, <1>4, <1>6
<1>8. PICK called \in Seq(Listener!Records) :
        /\ called = Append(f.called, i) /\ Len(called) = Len(f.called) + 1
        /\ \A n \in 1..Len(f.called) : called[n] = f.called[n]
        /\ called[Len(f.called) + 1] = i
  <2>1. PICK old \in Seq(Listener!Records) : old = f.called
    BY <1>2
  <2>2. /\ Append(old, i) \in Seq(Listener!Records) /\ Len(Append(old, i)) = Len(old) + 1
        /\ \A n \in 1..Len(old) : Append(old, i)[n] = old[n]
        /\ Append(old, i)[Len(old) + 1] = i
    BY <1>5, AppendProperties
  <2> QED BY <2>1, <2>2
<1>9. Len(f.called) \in Nat /\ DOMAIN f.called = 1..Len(f.called) /\ DOMAIN called = 1..Len(called)
  BY <1>2, LenProperties
<1>10. PICK g : g = [f EXCEPT !.data = i, !.it = it, !.called = called, !.thrown = FALSE]
  OBVIOUS
<1>11. g \in Dispatches
  BY <1>5, <1>7, <1>10, ZenonT(60) DEF Dispatches
<1>12. g.type = f.type /\ g.data = i /\ g.it = it /\ g.due = f.due /\ g.called = called
  BY <1>10 DEF Dispatches
<1>13. \A n \in DOMAIN f.called : f.called[n] \in Nat /\ f.called[n] < i
  <2> SUFFICES ASSUME NEW n \in DOMAIN f.called PROVE f.called[n] \in Nat /\ f.called[n] < i
    OBVIOUS
  <2>1. f.called[n] \in Nat
    <3>1. PICK old \in Seq(Listener!Records) : old = f.called
      BY <1>2
    <3>2. \A k \in 1..Len(old) : old[k] \in Listener!Records
      BY ElementOfSeq
    <3> QED BY <1>9, <3>1, <3>2 DEF Listener!Records
  <2>2. f.data # 0
    <3>1. f.data = 0 => DOMAIN f.called = {}
      BY DEF Dispatched
    <3> QED BY <3>1
  <2>3. f.called[n] <= f.data /\ f.data < i
    BY <1>5, <2>2 DEF Dispatched, GoesOn
  <2> QED BY <1>2, <1>5, <2>1, <2>3
<1>14. \A n \in DOMAIN called : called[n] <= i
  BY <1>5, <1>8, <1>9, <1>13
<1>15. \A m, n \in DOMAIN called : m < n => called[m] < called[n]
  <2> SUFFICES ASSUME NEW m \in DOMAIN called, NEW n \in DOMAIN called, m < n PROVE called[m] < called[n]
    OBVIOUS
  <2>1. m \in DOMAIN f.called /\ called[m] = f.called[m]
    BY <1>8, <1>9
  <2>2. CASE n = Len(f.called) + 1
    <3>1. called[n] = i
      BY <1>8, <2>2
    <3>2. f.called[m] < i
      BY <1>13, <2>1
    <3> QED BY <2>1, <3>1, <3>2
  <2>3. CASE n # Len(f.called) + 1
    <3>1. n \in DOMAIN f.called /\ called[n] = f.called[n]
      BY <1>8, <1>9, <2>3
    <3> QED BY <2>1, <3>1 DEF Dispatched
  <2> QED BY <2>2, <2>3
<1>16. \A k \in f.due : k \notin s.deleted =>
         (\E n \in DOMAIN called : called[n] = k) \/ (it # 0 /\ it <= k)
  <2> SUFFICES ASSUME NEW k \in f.due, k \notin s.deleted
               PROVE  (\E n \in DOMAIN called : called[n] = k) \/ (it # 0 /\ it <= k)
    OBVIOUS
  <2>1. k \in list /\ k \in Nat
    BY <1>3, <1>4 DEF Dispatched
  <2>2. (\E n \in DOMAIN f.called : f.called[n] = k) \/ i <= k
    BY <1>3, <2>1 DEF Dispatched, GoesOn
  <2>3. CASE \E n \in DOMAIN f.called : f.called[n] = k
    BY <1>8, <1>9, <2>3
  <2>4. CASE k = i
    <3>1. Len(f.called) + 1 \in DOMAIN called
      BY <1>8, <1>9
    <3> QED BY <1>8, <2>4, <3>1
  <2>5. CASE i <= k /\ k # i
    <3>1. ~(k <= i)
      BY <1>5, <2>1, <2>5
    <3> QED BY <1>4, <1>6, <2>1, <3>1
  <2> QED BY <2>2, <2>3, <2>4, <2>5
<1>17. \A k \in f.due : k <= s.made /\ (k \notin s.deleted => k \in list)
  BY <1>3 DEF Dispatched
<1>18. it # 0 => i < it /\ it \in list /\ it <= s.made
  BY <1>4, <1>5, <1>6
<1>19. it <= s.made
  BY <1>1, <1>6, <1>18
<1>20. Dispatched(s, g)
  BY <1>3, <1>4, <1>5, <1>12, <1>14, <1>15, <1>16, <1>17, <1>18, <1>19 DEF Dispatched
<1>21. g = Moved(s, f, i)
  BY <1>3, <1>6, <1>8, <1>10 DEF Moved
<1> QED BY <1>11, <1>20, <1>21

(* ... or it is at its end, and has called all that was due and is left.   *)
LEMMA DispatchIsOver ==
  ASSUME ListenerAssumption, NEW s, ListenersAre(s), NEW f \in Dispatches, Dispatched(s, f),
         f.data = 0 => \A k \in s.lists[f.type] : k <= 0,
         f.data # 0 => f.it = 0
  PROVE  (f.due \ s.deleted) \ Listener!Range(f.called) = {}
<1>1. s.lists \in [Listener!Types -> SUBSET Listener!Records] /\ f.type \in Listener!Types
  BY ListenersFields, DispatchFields
<1>2. SUFFICES ASSUME NEW k \in f.due, k \notin s.deleted PROVE k \in Listener!Range(f.called)
  OBVIOUS
<1>3. k \in s.lists[f.type]
  BY <1>2 DEF Dispatched
<1>4. f.data # 0
  <2>1. ~(k <= 0)
    BY <1>1, <1>3 DEF Listener!Records
  <2> QED BY <1>3, <2>1
<1>5. \E n \in DOMAIN f.called : f.called[n] = k
  BY <1>2, <1>4 DEF Dispatched
<1> QED BY <1>5 DEF Listener!Range

(* The listener at which the loop goes on, 0 for none. *)
IsNext(s, i) ==
  LET f == Head(s.frames) IN
  IF f.data = 0 THEN i = Listener!Following(s.lists[f.type], 0) ELSE i = f.it /\ i \notin s.deleted

LEMMA IterateKeepsInv ==
  ASSUME ListenerAssumption, NEW s, ListenersAre(s), s.frames # <<>>, NEW i, IsNext(s, i)
  PROVE  ListenersAre(Listener!Iterate(s, i))
<1>1. /\ s \in ListenerValues /\ Dispatching(s) /\ s.frames \in Seq(Dispatches) /\ s.missed = {}
      /\ s.events \in 0..MaxEvents /\ s.errors \in 0..MaxEvents /\ MaxEvents \in Nat
      /\ s.lists \in [Listener!Types -> SUBSET Listener!Records]
  BY ListenersFields DEF Dispatching
<1>2. PICK fs \in Seq(Dispatches) : fs = s.frames /\ fs # <<>>
  BY <1>1
<1>3. PICK f \in Dispatches, rest \in Seq(Dispatches) :
        /\ f = Head(fs) /\ rest = Tail(fs) /\ 1 \in DOMAIN fs /\ f = fs[1] /\ Len(fs) \in Nat \ {0}
        /\ Len(rest) = Len(fs) - 1 /\ \A n \in DOMAIN rest : n + 1 \in DOMAIN fs /\ rest[n] = fs[n + 1]
  <2>1. /\ Head(fs) \in Dispatches /\ 1 \in DOMAIN fs /\ Head(fs) = fs[1] /\ Len(fs) \in Nat \ {0}
        /\ Tail(fs) \in Seq(Dispatches) /\ Len(Tail(fs)) = Len(fs) - 1
        /\ \A n \in DOMAIN Tail(fs) : n + 1 \in DOMAIN fs /\ Tail(fs)[n] = fs[n + 1]
    BY <1>2, FramesPopped
  <2> QED BY <2>1, Zenon
<1>4. Dispatched(s, f) /\ \A n \in DOMAIN rest : Dispatched(s, rest[n])
  BY <1>1, <1>2, <1>3 DEF Dispatching
<1>5. f.type \in Listener!Types /\ s.lists[f.type] \in SUBSET Listener!Records
  BY <1>1, DispatchFields
<1>6. s.errors + Len(fs) <= s.events
  BY <1>1, <1>2 DEF Dispatching
<1>7. \/ f.data = 0 /\ i = Listener!Following(s.lists[f.type], 0)
      \/ f.data # 0 /\ i = f.it /\ i \notin s.deleted
  BY <1>2, <1>3 DEF IsNext
<1>8. f.data = 0 => \/ i = 0 /\ \A k \in s.lists[f.type] : k <= 0
                    \/ i \in s.lists[f.type] /\ \A k \in s.lists[f.type] : k <= 0 \/ i <= k
  <2>1. PICK list \in SUBSET Listener!Records : list = s.lists[f.type]
    BY <1>5
  <2>2. PICK j : /\ j = Listener!Following(list, 0)
                 /\ \/ j = 0 /\ \A k \in list : k <= 0
                    \/ j \in list /\ j > 0 /\ \A k \in list : k <= 0 \/ j <= k
    BY FollowingIs
  <2> QED BY <1>7, <2>1, <2>2
<1>9. CASE i = 0
  <2>1. (f.due \ s.deleted) \ Listener!Range(f.called) = {}
    <3>1. 0 \notin s.lists[f.type]
      BY <1>5 DEF Listener!Records
    <3>2. f.data = 0 => \A k \in s.lists[f.type] : k <= 0
      BY <1>8, <1>9, <3>1
    <3>3. f.data # 0 => f.it = 0
      BY <1>7, <1>9
    <3> QED BY <1>4, <3>2, <3>3, DispatchIsOver
  <2>2. PICK errors \in 0..MaxEvents :
          errors = (IF f.reports THEN s.errors + 1 ELSE s.errors) /\ errors <= s.errors + 1
    <3>1. s.errors + 1 \in 0..MaxEvents
      BY <1>1, <1>3, <1>6
    <3>2. CASE f.reports
      BY <3>1, <3>2
    <3>3. CASE ~f.reports
      BY <1>1, <3>3
    <3> QED BY <3>2, <3>3
  <2>3. PICK events \in 0..MaxEvents : events = s.events
    BY <1>1
  <2>4. Listener!Iterate(s, i) = [s EXCEPT !.frames = rest, !.errors = errors, !.missed = {}]
    BY <1>1, <1>2, <1>3, <1>9, <2>1, <2>2 DEF Listener!Iterate
  <2>5. [s EXCEPT !.frames = rest, !.errors = errors, !.missed = {}]
          = [s EXCEPT !.frames = rest, !.errors = errors, !.events = events]
    BY <1>1, <2>3 DEF ListenerValues
  <2>6. errors + Len(rest) <= events
    BY <1>1, <1>3, <1>6, <2>2, <2>3
  <2>7. Stacked(s, rest, errors, events)
    BY <1>4, <2>6 DEF Stacked
  <2>8. Listener!Iterate(s, i) = [s EXCEPT !.frames = rest, !.errors = errors, !.events = events]
    BY <2>4, <2>5
  <2> QED BY <2>7, <2>8, StackChanges
<1>10. CASE i # 0
  <2>1. i \in s.lists[f.type]
    BY <1>4, <1>7, <1>8, <1>10 DEF Dispatched
  <2>2. f.data = 0 => \A k \in s.lists[f.type] : i <= k
    <3>1. \A k \in s.lists[f.type] : ~(k <= 0)
      BY <1>5 DEF Listener!Records
    <3> QED BY <1>8, <1>10, <3>1
  <2>3. PICK g \in Dispatches : g = Moved(s, f, i) /\ Dispatched(s, g)
    <3>1. GoesOn(s, f, i)
      BY <1>7, <2>1, <2>2 DEF GoesOn
    <3>2. Moved(s, f, i) \in Dispatches /\ Dispatched(s, Moved(s, f, i))
      BY <1>4, <3>1, DispatchGoesOn
    <3> QED BY <3>2
  <2>4. PICK frames \in Seq(Dispatches) :
          /\ frames = <<g>> \o rest /\ Len(frames) = Len(rest) + 1 /\ frames[1] = g
          /\ \A n \in DOMAIN frames : n = 1 \/ (n - 1 \in DOMAIN rest /\ frames[n] = rest[n - 1])
    <3>1. /\ <<g>> \o rest \in Seq(Dispatches) /\ Len(<<g>> \o rest) = Len(rest) + 1 /\ (<<g>> \o rest)[1] = g
          /\ \A n \in DOMAIN (<<g>> \o rest) : n = 1 \/ (n - 1 \in DOMAIN rest /\ (<<g>> \o rest)[n] = rest[n - 1])
      BY FramesPushed
    <3> QED BY <3>1, Zenon
  <2>5. PICK events \in 0..MaxEvents, errors \in 0..MaxEvents : events = s.events /\ errors = s.errors
    BY <1>1
  <2>6. Listener!Iterate(s, i) = [s EXCEPT !.frames = frames]
    BY <1>2, <1>3, <1>10, <2>3, <2>4 DEF Listener!Iterate, Moved
  <2>7. [s EXCEPT !.frames = frames] = [s EXCEPT !.frames = frames, !.errors = errors, !.events = events]
    BY <1>1, <2>5 DEF ListenerValues
  <2>8. errors + Len(frames) <= events
    BY <1>1, <1>3, <1>6, <2>4, <2>5
  <2>9. \A n \in DOMAIN frames : Dispatched(s, frames[n])
    BY <1>4, <2>3, <2>4
  <2>10. Stacked(s, frames, errors, events)
    BY <2>8, <2>9 DEF Stacked
  <2>11. Listener!Iterate(s, i) = [s EXCEPT !.frames = frames, !.errors = errors, !.events = events]
    BY <2>6, <2>7
  <2> QED BY <2>10, <2>11, StackChanges
<1> QED BY <1>9, <1>10

(* Deleted memory is used. *)
LEMMA SpoiledKeepsInv ==
  ASSUME ListenerAssumption, NEW s, ListenersAre(s), NEW u, u = [s EXCEPT !.spoiled = TRUE]
  PROVE  ListenersAre(u)
<1>1. s \in ListenerValues /\ Listing(s) /\ Dispatching(s) /\ Referring(s)
  BY ListenersFields
<1>2. u \in ListenerValues
  BY <1>1, ZenonT(60) DEF ListenerValues
<1>3. /\ u.lists = s.lists /\ u.made = s.made /\ u.deleted = s.deleted /\ u.info = s.info /\ u.frames = s.frames
      /\ u.events = s.events /\ u.errors = s.errors /\ u.done = s.done /\ u.missed = s.missed
      /\ u.globals = s.globals /\ u.refs = s.refs
  BY <1>1 DEF ListenerValues
<1>4. \A n \in DOMAIN s.frames : Dispatched(s, s.frames[n]) => Dispatched(u, s.frames[n])
  BY <1>3 DEF Dispatched
<1>5. Listing(u)
  BY <1>1, <1>3 DEF Listing
<1>6. Dispatching(u)
  BY <1>1, <1>3, <1>4 DEF Dispatching
<1>7. Referring(u)
  BY <1>1, <1>3 DEF Referring
<1> QED BY <1>2, <1>5, <1>6, <1>7 DEF ListenersAre

(* A called listener has returned, and is dropped if it was for one call. *)
LEMMA DropKeepsInv ==
  ASSUME ListenerAssumption, NEW s, ListenersAre(s), s.frames # <<>>,
         NEW i, i \in s.lists[Head(s.frames).type]
  PROVE  /\ ListenersAre(Listener!Drop(s, i)) /\ Listener!Drop(s, i).frames = s.frames
         /\ Listener!Drop(s, i).events = s.events /\ Listener!Drop(s, i).errors = s.errors
<1>1. /\ s \in ListenerValues /\ Listing(s) /\ Dispatching(s) /\ s.frames \in Seq(Dispatches)
      /\ s.lists \in [Listener!Types -> SUBSET Listener!Records] /\ s.done \in [Listener!Records -> Nat]
      /\ s.made \in 0..MaxListeners /\ MaxListeners \in Nat /\ s.deleted \in SUBSET Listener!Records
  BY ListenersFields
<1>2. PICK f \in Dispatches : f = Head(s.frames) /\ Dispatched(s, f)
  <2>1. Head(s.frames) \in Dispatches /\ 1 \in DOMAIN s.frames /\ Head(s.frames) = s.frames[1]
    BY <1>1, FramesPopped
  <2> QED BY <1>1, <2>1 DEF Dispatching
<1>3. f.type \in Listener!Types /\ i \in s.lists[f.type]
  BY <1>2, DispatchFields
<1>4. i \in Listener!Records /\ i <= s.made /\ i \in 1..s.made
  BY <1>1, <1>3 DEF Listing, Listener!Records
<1>5. PICK done \in [Listener!Records -> Nat] :
        /\ done = [s.done EXCEPT ![i] = @ + 1]
        /\ done[i] = s.done[i] + 1 /\ \A j \in Listener!Records : j # i => done[j] = s.done[j]
  <2>1. PICK n \in Nat : n = s.done[i] + 1
    BY <1>1, <1>4
  <2>2. PICK done \in [Listener!Records -> Nat] : done = [s.done EXCEPT ![i] = n]
    <3>1. [s.done EXCEPT ![i] = n] \in [Listener!Records -> Nat]
      BY <1>1
    <3> QED BY <3>1
  <2>3. done[i] = n /\ \A j \in Listener!Records : j # i => done[j] = s.done[j]
    BY <1>1, <1>4, <2>2
  <2>4. done = [s.done EXCEPT ![i] = @ + 1]
    BY <2>1, <2>2
  <2> QED BY <2>1, <2>3, <2>4
<1>6. CASE s.info[i].once
  <2>1. PICK lists \in [Listener!Types -> SUBSET Listener!Records] :
          /\ lists = [s.lists EXCEPT ![f.type] = @ \ {i}]
          /\ lists[f.type] = s.lists[f.type] \ {i}
          /\ \A t \in Listener!Types : t # f.type => lists[t] = s.lists[t]
    <3>1. [s.lists EXCEPT ![f.type] = @ \ {i}] \in [Listener!Types -> SUBSET Listener!Records]
      BY <1>1
    <3> QED BY <1>1, <1>3, <3>1
  <2>2. \A t \in Listener!Types : lists[t] = s.lists[t] \ {i}
    <3>1. \A t \in Listener!Types : t # f.type => i \notin s.lists[t]
      BY <1>1, <1>3 DEF Listing
    <3> QED BY <2>1, <3>1
  <2>3. s.done[i] = 0
    <3>1. i \notin s.deleted
      BY <1>1, <1>3 DEF Listing
    <3>2. s.done[i] # 0 => i \in s.deleted
      BY <1>1, <1>4, <1>6 DEF Listing
    <3> QED BY <3>1, <3>2
  <2>4. Gone(s, {i}, lists, done)
    BY <1>4, <1>5, <2>2, <2>3 DEF Gone
  <2>5. PICK u : u = [s EXCEPT !.lists = lists, !.deleted = @ \cup {i}, !.done = done]
    OBVIOUS
  <2>6. Listener!Drop(s, i) = u
    <3>1. Listener!Drop(s, i)
            = [s EXCEPT !.done[i] = @ + 1, !.deleted = @ \cup {i}, !.lists[f.type] = @ \ {i}]
      BY <1>2, <1>6 DEF Listener!Drop
    <3>2. [s EXCEPT !.done[i] = @ + 1, !.deleted = @ \cup {i}, !.lists[f.type] = @ \ {i}]
            = [s EXCEPT !.lists = lists, !.deleted = @ \cup {i}, !.done = done]
      BY <1>1, <1>5, <2>1 DEF ListenerValues
    <3> QED BY <2>5, <3>1, <3>2
  <2>7. {i} \in SUBSET Listener!Records
    BY <1>4
  <2>8. ListenersAre(u)
    BY <2>4, <2>5, <2>7, ListenersGone
  <2>9. u.frames = s.frames /\ u.events = s.events /\ u.errors = s.errors
    BY <1>1, <2>5 DEF ListenerValues
  <2> QED BY <2>6, <2>8, <2>9
<1>7. CASE ~s.info[i].once
  <2>1. PICK u : u = [s EXCEPT !.done = done]
    OBVIOUS
  <2>2. Listener!Drop(s, i) = u
    BY <1>5, <1>7, <2>1 DEF Listener!Drop
  <2>3. u \in ListenerValues
    BY <1>1, <2>1, ZenonT(60) DEF ListenerValues
  <2>4. /\ u.lists = s.lists /\ u.made = s.made /\ u.deleted = s.deleted /\ u.info = s.info /\ u.frames = s.frames
        /\ u.events = s.events /\ u.errors = s.errors /\ u.done = done /\ u.missed = s.missed
        /\ u.globals = s.globals /\ u.refs = s.refs
    BY <1>1, <2>1 DEF ListenerValues
  <2>5. \A j \in 1..s.made : s.info[j].once /\ done[j] # 0 => done[j] = 1 /\ j \in s.deleted
    <3>1. \A j \in 1..s.made : j \in Listener!Records
      BY <1>1 DEF Listener!Records
    <3> QED BY <1>1, <1>5, <1>7, <3>1 DEF Listing
  <2>6. \A j \in Listener!Records : j > s.made => done[j] = 0
    BY <1>1, <1>4, <1>5 DEF Listing, Listener!Records
  <2>7. Listing(u)
    BY <1>1, <2>4, <2>5, <2>6 DEF Listing
  <2>8. \A n \in DOMAIN s.frames : Dispatched(s, s.frames[n]) => Dispatched(u, s.frames[n])
    BY <2>4 DEF Dispatched
  <2>9. Dispatching(u)
    BY <1>1, <2>4, <2>8 DEF Dispatching
  <2>10. Referring(u)
    BY <2>4 DEF ListenersAre, Referring
  <2> QED BY <2>2, <2>3, <2>4, <2>7, <2>9, <2>10 DEF ListenersAre
<1> QED BY <1>6, <1>7

(* A call returns. *)
LEMMA ContinueKeepsInv ==
  ASSUME ListenerAssumption, NEW s, ListenersAre(s), s.frames # <<>>
  PROVE  ListenersAre(Listener!Continue(s))
<1>1. PICK f : f = Head(s.frames)
  OBVIOUS
<1>2. CASE f.data = 0
  <2>1. PICK i : i = Listener!Following(s.lists[f.type], 0)
    OBVIOUS
  <2>2. IsNext(s, i)
    BY <1>1, <1>2, <2>1 DEF IsNext
  <2>3. Listener!Continue(s) = Listener!Iterate(s, i)
    BY <1>1, <1>2, <2>1 DEF Listener!Continue
  <2> QED BY <2>2, <2>3, IterateKeepsInv
<1>3. CASE f.data # 0 /\ f.it \in s.deleted
  <2>1. Listener!Continue(s) = [s EXCEPT !.spoiled = TRUE]
    BY <1>1, <1>3 DEF Listener!Continue
  <2> QED BY <2>1, SpoiledKeepsInv
<1>4. CASE f.data # 0 /\ f.it \notin s.deleted
  <2>1. PICK i : i = f.it
    OBVIOUS
  <2>2. IsNext(s, i)
    BY <1>1, <1>4, <2>1 DEF IsNext
  <2>3. Listener!Continue(s) = Listener!Iterate(s, i)
    BY <1>1, <1>4, <2>1 DEF Listener!Continue
  <2> QED BY <2>2, <2>3, IterateKeepsInv
<1> QED BY <1>2, <1>3, <1>4

(* The listener that is called and not deleted is in the list. *)
LEMMA CalledIsListed ==
  ASSUME ListenerAssumption, NEW s, ListenersAre(s), s.frames # <<>>,
         NEW i, i = Head(s.frames).data, i # 0, i \notin s.deleted
  PROVE  i \in s.lists[Head(s.frames).type]
<1>1. s.frames \in Seq(Dispatches) /\ Dispatching(s)
  BY ListenersFields
<1>2. 1 \in DOMAIN s.frames /\ Head(s.frames) = s.frames[1]
  BY <1>1, FramesPopped
<1>3. Dispatched(s, Head(s.frames))
  BY <1>1, <1>2 DEF Dispatching
<1> QED BY <1>3 DEF Dispatched

LEMMA CallReturnsKeepsInv ==
  ASSUME ListenerAssumption, ListenerInv, Listener!CallReturns
  PROVE  ListenerInv'
<1>1. ListenersAre(state) /\ state.frames # <<>>
  BY DEF ListenerInv, Listener!CallReturns
<1>2. PICK i : i = Head(state.frames).data
  OBVIOUS
<1>3. PICK u : /\ u = IF i = 0 THEN Listener!Continue(state)
                       ELSE IF i \in state.deleted THEN [state EXCEPT !.spoiled = TRUE]
                       ELSE Listener!Continue(Listener!Drop(state, i))
               /\ state' = Listener!Resumed(u)
  BY <1>2 DEF Listener!CallReturns, Listener!Top
<1>4. ListenersAre(u)
  <2>1. CASE i = 0
    BY <1>1, <1>3, <2>1, ContinueKeepsInv
  <2>2. CASE i # 0 /\ i \in state.deleted
    BY <1>1, <1>3, <2>2, SpoiledKeepsInv
  <2>3. CASE i # 0 /\ i \notin state.deleted
    <3>1. PICK s : s = Listener!Drop(state, i)
      OBVIOUS
    <3>2. u = Listener!Continue(s)
      BY <1>3, <2>3, <3>1
    <3>3. i \in state.lists[Head(state.frames).type]
      BY <1>1, <1>2, <2>3, CalledIsListed
    <3>4. ListenersAre(s) /\ s.frames = state.frames
      BY <1>1, <3>1, <3>3, DropKeepsInv
    <3> QED BY <1>1, <3>2, <3>4, ContinueKeepsInv
  <2> QED BY <2>1, <2>2, <2>3
<1>5. ListenersAre(state')
  <2>1. CASE u.frames # <<>> /\ Head(u.frames).thrown
    <3>1. state' = Listener!Continue(u)
      BY <1>3, <2>1 DEF Listener!Resumed
    <3> QED BY <1>4, <2>1, <3>1, ContinueKeepsInv
  <2>2. CASE ~(u.frames # <<>> /\ Head(u.frames).thrown)
    <3>1. state' = u
      BY <1>3, <2>2 DEF Listener!Resumed
    <3> QED BY <1>4, <3>1
  <2> QED BY <2>1, <2>2
<1> QED BY <1>5 DEF ListenerInv

(* A dispatch that is left, ... *)
LEMMA PoppedKeepsInv ==
  ASSUME ListenerAssumption, NEW s, ListenersAre(s), s.frames # <<>>
  PROVE  ListenersAre([s EXCEPT !.frames = Tail(@)])
<1>1. /\ s \in ListenerValues /\ Dispatching(s) /\ s.frames \in Seq(Dispatches)
      /\ s.events \in 0..MaxEvents /\ s.errors \in 0..MaxEvents /\ MaxEvents \in Nat
  BY ListenersFields
<1>2. PICK fs \in Seq(Dispatches) : fs = s.frames /\ fs # <<>>
  BY <1>1
<1>3. PICK rest \in Seq(Dispatches) :
        /\ rest = Tail(fs) /\ Len(fs) \in Nat \ {0} /\ Len(rest) = Len(fs) - 1
        /\ \A n \in DOMAIN rest : n + 1 \in DOMAIN fs /\ rest[n] = fs[n + 1]
  <2>1. /\ Len(fs) \in Nat \ {0} /\ Tail(fs) \in Seq(Dispatches) /\ Len(Tail(fs)) = Len(fs) - 1
        /\ \A n \in DOMAIN Tail(fs) : n + 1 \in DOMAIN fs /\ Tail(fs)[n] = fs[n + 1]
    BY <1>2, FramesPopped
  <2> QED BY <2>1, Zenon
<1>4. PICK errors \in 0..MaxEvents, events \in 0..MaxEvents : errors = s.errors /\ events = s.events
  BY <1>1
<1>5. [s EXCEPT !.frames = Tail(@)] = [s EXCEPT !.frames = rest, !.errors = errors, !.events = events]
  BY <1>1, <1>2, <1>3, <1>4 DEF ListenerValues
<1>6. s.errors + Len(fs) <= s.events /\ \A n \in DOMAIN fs : Dispatched(s, fs[n])
  BY <1>1, <1>2 DEF Dispatching
<1>7. Stacked(s, rest, errors, events)
  <2>1. errors + Len(rest) <= events
    BY <1>1, <1>3, <1>4, <1>6
  <2> QED BY <1>3, <1>6, <2>1 DEF Stacked
<1>8. PICK u : u = [s EXCEPT !.frames = rest, !.errors = errors, !.events = events]
  OBVIOUS
<1>9. ListenersAre(u)
  BY <1>7, <1>8, StackChanges
<1> QED BY <1>5, <1>8, <1>9

(* ... and one that is marked. *)
LEMMA ThrownKeepsInv ==
  ASSUME ListenerAssumption, NEW s, ListenersAre(s), s.frames # <<>>
  PROVE  ListenersAre([s EXCEPT !.frames = <<[Head(@) EXCEPT !.thrown = TRUE]>> \o Tail(@)])
<1>1. /\ s \in ListenerValues /\ Dispatching(s) /\ s.frames \in Seq(Dispatches)
      /\ s.events \in 0..MaxEvents /\ s.errors \in 0..MaxEvents /\ MaxEvents \in Nat
  BY ListenersFields
<1>2. PICK fs \in Seq(Dispatches) : fs = s.frames /\ fs # <<>>
  BY <1>1
<1>3. PICK f \in Dispatches, rest \in Seq(Dispatches) :
        /\ f = Head(fs) /\ rest = Tail(fs) /\ 1 \in DOMAIN fs /\ f = fs[1]
        /\ Len(fs) \in Nat \ {0} /\ Len(rest) = Len(fs) - 1
        /\ \A n \in DOMAIN rest : n + 1 \in DOMAIN fs /\ rest[n] = fs[n + 1]
  <2>1. /\ Head(fs) \in Dispatches /\ 1 \in DOMAIN fs /\ Head(fs) = fs[1] /\ Len(fs) \in Nat \ {0}
        /\ Tail(fs) \in Seq(Dispatches) /\ Len(Tail(fs)) = Len(fs) - 1
        /\ \A n \in DOMAIN Tail(fs) : n + 1 \in DOMAIN fs /\ Tail(fs)[n] = fs[n + 1]
    BY <1>2, FramesPopped
  <2> QED BY <2>1, Zenon
<1>4. s.errors + Len(fs) <= s.events /\ \A n \in DOMAIN fs : Dispatched(s, fs[n])
  BY <1>1, <1>2 DEF Dispatching
<1>5. PICK g \in Dispatches : g = [f EXCEPT !.thrown = TRUE] /\ Dispatched(s, g)
  BY <1>3, <1>4, MarkedDispatchIs
<1>6. PICK frames \in Seq(Dispatches) :
        /\ frames = <<g>> \o rest /\ Len(frames) = Len(rest) + 1 /\ frames[1] = g
        /\ \A n \in DOMAIN frames : n = 1 \/ (n - 1 \in DOMAIN rest /\ frames[n] = rest[n - 1])
  <2>1. /\ <<g>> \o rest \in Seq(Dispatches) /\ Len(<<g>> \o rest) = Len(rest) + 1 /\ (<<g>> \o rest)[1] = g
        /\ \A n \in DOMAIN (<<g>> \o rest) : n = 1 \/ (n - 1 \in DOMAIN rest /\ (<<g>> \o rest)[n] = rest[n - 1])
    BY FramesPushed
  <2> QED BY <2>1, Zenon
<1>7. PICK errors \in 0..MaxEvents, events \in 0..MaxEvents : errors = s.errors /\ events = s.events
  BY <1>1
<1>8. [s EXCEPT !.frames = <<[Head(@) EXCEPT !.thrown = TRUE]>> \o Tail(@)]
        = [s EXCEPT !.frames = frames, !.errors = errors, !.events = events]
  <2>1. [s EXCEPT !.frames = <<[Head(@) EXCEPT !.thrown = TRUE]>> \o Tail(@)] = [s EXCEPT !.frames = frames]
    BY <1>2, <1>3, <1>5, <1>6
  <2>2. [s EXCEPT !.frames = frames] = [s EXCEPT !.frames = frames, !.errors = errors, !.events = events]
    BY <1>1, <1>7 DEF ListenerValues
  <2> QED BY <2>1, <2>2
<1>9. Stacked(s, frames, errors, events)
  <2>1. \A n \in DOMAIN rest : Dispatched(s, rest[n])
    BY <1>3, <1>4
  <2>2. \A n \in DOMAIN frames : Dispatched(s, frames[n])
    BY <1>5, <1>6, <2>1
  <2>3. errors + Len(frames) <= events
    BY <1>1, <1>3, <1>4, <1>6, <1>7
  <2> QED BY <2>2, <2>3 DEF Stacked
<1> QED BY <1>8, <1>9, StackChanges

(* The error is dispatched. *)
LEMMA ReportedKeepsInv ==
  ASSUME ListenerAssumption, NEW s, ListenersAre(s), s.events < MaxEvents
  PROVE  ListenersAre(Listener!Reported(s))
<1>1. "error" \in Listener!Types
  BY DEF Listener!Types
<1>2. PICK f \in Dispatches : f = Listener!Frame(s, "error", FALSE) /\ Dispatched(s, f)
  BY <1>1, FrameIs
<1>3. PICK g \in Dispatches : g = [f EXCEPT !.reports = TRUE] /\ Dispatched(s, g)
  BY <1>2, MarkedDispatchIs
<1>4. Listener!Reported(s) = Listener!Pushed(s, g)
  BY <1>2, <1>3 DEF Listener!Reported
<1> QED BY <1>3, <1>4, PushedKeepsInv

(* A call throws. *)
LEMMA HandleExceptionKeepsInv ==
  ASSUME ListenerAssumption, ListenerInv, Listener!HandleException
  PROVE  ListenerInv'
<1>1. ListenersAre(state) /\ state.frames # <<>> /\ state.events < MaxEvents
  BY DEF ListenerInv, Listener!HandleException
<1>2. /\ state \in ListenerValues /\ state.lists \in [Listener!Types -> SUBSET Listener!Records]
      /\ state.frames \in Seq(Dispatches)
  BY <1>1, ListenersFields
<1>3. PICK i : i = IF Head(state.frames).data = 0
                   THEN Listener!Following(state.lists[Head(state.frames).type], 0)
                   ELSE Head(state.frames).data
  OBVIOUS
<1>4. CASE Head(state.frames).data = 0 /\ Head(state.frames).own
  <2>1. PICK s : s = [state EXCEPT !.frames = <<[Head(@) EXCEPT !.thrown = TRUE]>> \o Tail(@)]
    OBVIOUS
  <2>2. ListenersAre(s)
    BY <1>1, <2>1, ThrownKeepsInv
  <2>3. s.events = state.events
    BY <1>2, <2>1 DEF ListenerValues
  <2>4. state' = Listener!Reported(s)
    BY <1>4, <2>1 DEF Listener!HandleException, Listener!Top
  <2>5. ListenersAre(state')
    BY <1>1, <2>2, <2>3, <2>4, ReportedKeepsInv
  <2> QED BY <2>5 DEF ListenerInv
<1>5. CASE ~(Head(state.frames).data = 0 /\ Head(state.frames).own) /\ i = 0
  <2>1. state' = [state EXCEPT !.frames = Tail(@)]
    BY <1>3, <1>5 DEF Listener!HandleException, Listener!Top
  <2>2. ListenersAre(state')
    BY <1>1, <2>1, PoppedKeepsInv
  <2> QED BY <2>2 DEF ListenerInv
<1>6. CASE ~(Head(state.frames).data = 0 /\ Head(state.frames).own) /\ i # 0 /\ i \in state.deleted
  <2>1. state' = [state EXCEPT !.spoiled = TRUE]
    BY <1>3, <1>6 DEF Listener!HandleException, Listener!Top
  <2>2. ListenersAre(state')
    BY <1>1, <2>1, SpoiledKeepsInv
  <2> QED BY <2>2 DEF ListenerInv
<1>7. CASE ~(Head(state.frames).data = 0 /\ Head(state.frames).own) /\ i # 0 /\ i \notin state.deleted
  <2>1. i \in state.lists[Head(state.frames).type]
    <3>1. CASE Head(state.frames).data = 0
      <4>1. Head(state.frames) \in Dispatches
        BY <1>1, <1>2, FramesPopped
      <4>2. Head(state.frames).type \in Listener!Types
        BY <4>1, DispatchFields
      <4>3. PICK list \in SUBSET Listener!Records : list = state.lists[Head(state.frames).type]
        BY <1>2, <4>2
      <4>4. i = Listener!Following(list, 0)
        BY <1>3, <3>1, <4>3
      <4>5. 0 \in Nat
        OBVIOUS
      <4>6. i \in list
        BY <1>7, <4>4, <4>5, FollowingIs
      <4> QED BY <4>3, <4>6
    <3>2. CASE Head(state.frames).data # 0
      BY <1>1, <1>3, <1>7, <3>2, CalledIsListed
    <3> QED BY <3>1, <3>2
  <2>2. PICK d : d = Listener!Drop(state, i)
    OBVIOUS
  <2>3. ListenersAre(d) /\ d.frames = state.frames /\ d.events = state.events
    BY <1>1, <2>1, <2>2, DropKeepsInv
  <2>4. PICK s : s = [d EXCEPT !.frames = Tail(@)]
    OBVIOUS
  <2>5. ListenersAre(s)
    BY <1>1, <2>3, <2>4, PoppedKeepsInv
  <2>6. s.events = state.events
    <3>1. d \in ListenerValues
      BY <2>3, ListenersFields
    <3> QED BY <2>3, <2>4, <3>1 DEF ListenerValues
  <2>7. state' = Listener!Reported(s)
    BY <1>3, <1>7, <2>2, <2>4 DEF Listener!HandleException, Listener!Top
  <2>8. ListenersAre(state')
    BY <1>1, <2>5, <2>6, <2>7, ReportedKeepsInv
  <2> QED BY <2>8 DEF ListenerInv
<1> QED BY <1>4, <1>5, <1>6, <1>7

(* The registry of objects for global calls. *)
LEMMA GlobalsChange ==
  ASSUME ListenerAssumption, NEW s, ListenersAre(s), NEW globals \in [Objects -> 0..2],
         NEW refs \in SUBSET (Objects \X (1..2)),
         refs = {<<o, globals[o]>> : o \in {p \in Objects : globals[p] # 0}},
         NEW u, u = [s EXCEPT !.globals = globals, !.refs = refs]
  PROVE  ListenersAre(u)
<1>1. s \in ListenerValues /\ Listing(s) /\ Dispatching(s)
  BY ListenersFields
<1>2. u \in ListenerValues
  BY <1>1, ZenonT(60) DEF ListenerValues
<1>3. /\ u.lists = s.lists /\ u.made = s.made /\ u.deleted = s.deleted /\ u.info = s.info /\ u.frames = s.frames
      /\ u.events = s.events /\ u.errors = s.errors /\ u.done = s.done /\ u.missed = s.missed
      /\ u.globals = globals /\ u.refs = refs
  BY <1>1 DEF ListenerValues
<1>4. \A n \in DOMAIN s.frames : Dispatched(s, s.frames[n]) => Dispatched(u, s.frames[n])
  BY <1>3 DEF Dispatched
<1>5. Listing(u)
  BY <1>1, <1>3 DEF Listing
<1>6. Dispatching(u)
  BY <1>1, <1>3, <1>4 DEF Dispatching
<1>7. Referring(u)
  BY <1>3 DEF Referring
<1> QED BY <1>2, <1>5, <1>6, <1>7 DEF ListenersAre

LEMMA RegisterKeepsInv ==
  ASSUME ListenerAssumption, ListenerInv, NEW o \in Objects, Listener!RegisterGlobalCallObject(o)
  PROVE  ListenerInv'
<1>1. ListenersAre(state)
  BY DEF ListenerInv
<1>2. state.globals \in [Objects -> 0..2] /\ state.refs \in SUBSET (Objects \X (1..2)) /\ Referring(state)
  BY <1>1, ListenersFields
<1>3. PICK old \in 0..2 : old = state.globals[o]
  BY <1>2
<1>4. PICK ref \in 1..2 : ref = IF old = 1 THEN 2 ELSE 1
  OBVIOUS
<1>5. PICK globals \in [Objects -> 0..2] :
        /\ globals = [state.globals EXCEPT ![o] = ref]
        /\ globals[o] = ref /\ \A p \in Objects : p # o => globals[p] = state.globals[p]
  <2>1. [state.globals EXCEPT ![o] = ref] \in [Objects -> 0..2]
    BY <1>2
  <2> QED BY <1>2, <2>1
<1>6. PICK refs : refs = (state.refs \ {<<o, old>>}) \cup {<<o, ref>>}
  OBVIOUS
<1>7. refs \in SUBSET (Objects \X (1..2))
  BY <1>2, <1>6
<1>8. refs = {<<p, globals[p]>> : p \in {q \in Objects : globals[q] # 0}}
  <2>1. \A r : r \in state.refs <=> \E p \in Objects : state.globals[p] # 0 /\ r = <<p, state.globals[p]>>
    BY <1>2 DEF Referring
  <2>2. ASSUME NEW r \in refs PROVE \E p \in Objects : globals[p] # 0 /\ r = <<p, globals[p]>>
    <3>1. CASE r = <<o, ref>>
      BY <1>5, <3>1
    <3>2. CASE r \in state.refs /\ r # <<o, old>>
      <4>1. PICK p \in Objects : state.globals[p] # 0 /\ r = <<p, state.globals[p]>>
        BY <2>1, <3>2
      <4>2. p # o
        BY <1>3, <3>2, <4>1
      <4> QED BY <1>5, <4>1, <4>2
    <3> QED BY <1>6, <3>1, <3>2
  <2>3. ASSUME NEW p \in Objects, globals[p] # 0 PROVE <<p, globals[p]>> \in refs
    <3>1. CASE p = o
      BY <1>5, <1>6, <3>1
    <3>2. CASE p # o
      <4>1. <<p, globals[p]>> \in state.refs
        BY <1>5, <2>1, <2>3, <3>2
      <4>2. <<p, globals[p]>> # <<o, old>>
        BY <3>2
      <4> QED BY <1>6, <4>1, <4>2
    <3> QED BY <3>1, <3>2
  <2> QED BY <2>2, <2>3
<1>9. state' = [state EXCEPT !.globals = globals, !.refs = refs]
  BY <1>3, <1>4, <1>5, <1>6 DEF Listener!RegisterGlobalCallObject
<1>10. ListenersAre(state')
  BY <1>1, <1>7, <1>8, <1>9, GlobalsChange
<1> QED BY <1>10 DEF ListenerInv

LEMMA UnregisterKeepsInv ==
  ASSUME ListenerAssumption, ListenerInv, NEW os, Listener!UnregisterGlobalCallObject(os)
  PROVE  ListenerInv'
<1>1. ListenersAre(state)
  BY DEF ListenerInv
<1>2. state.globals \in [Objects -> 0..2] /\ state.refs \in SUBSET (Objects \X (1..2)) /\ Referring(state)
  BY <1>1, ListenersFields
<1>3. PICK globals \in [Objects -> 0..2] :
        /\ globals = [o \in Objects |-> IF o \in os THEN 0 ELSE state.globals[o]]
        /\ \A o \in Objects : globals[o] = IF o \in os THEN 0 ELSE state.globals[o]
  <2>1. [o \in Objects |-> IF o \in os THEN 0 ELSE state.globals[o]] \in [Objects -> 0..2]
    BY <1>2
  <2> QED BY <2>1
<1>4. PICK refs : refs = {r \in state.refs : r[1] \notin os}
  OBVIOUS
<1>5. refs \in SUBSET (Objects \X (1..2))
  BY <1>2, <1>4
<1>6. refs = {<<p, globals[p]>> : p \in {q \in Objects : globals[q] # 0}}
  <2>1. \A r : r \in state.refs <=> \E p \in Objects : state.globals[p] # 0 /\ r = <<p, state.globals[p]>>
    BY <1>2 DEF Referring
  <2>2. \A r : r \in refs => \E p \in Objects : globals[p] # 0 /\ r = <<p, globals[p]>>
    BY <1>3, <1>4, <2>1
  <2>3. \A p \in Objects : globals[p] # 0 => <<p, globals[p]>> \in refs
    BY <1>3, <1>4, <2>1
  <2> QED BY <2>2, <2>3
<1>7. state' = [state EXCEPT !.globals = globals, !.refs = refs]
  BY <1>3, <1>4 DEF Listener!UnregisterGlobalCallObject
<1>8. ListenersAre(state')
  BY <1>1, <1>5, <1>6, <1>7, GlobalsChange
<1> QED BY <1>8 DEF ListenerInv

(* A step of the listeners keeps the invariant. *)
LEMMA ListenerNextKeepsInv ==
  ASSUME ListenerAssumption, ListenerInv, Listener!Next
  PROVE  ListenerInv'
<1>1. CASE \E t \in Listener!Types, cb \in Callbacks, once \in BOOLEAN : Listener!AddListener(t, cb, once)
  BY <1>1, AddListenerKeepsInv
<1>2. CASE \/ \E t \in Listener!Types, cb \in Callbacks : Listener!RemoveListener(t, cb)
           \/ \E t \in Listener!Types : Listener!RemoveListeners(t)
           \/ Listener!RemoveAllListener
  BY <1>2, RemoveKeepsInv
<1>3. CASE (\E t \in Listener!Types : Listener!DispatchEvent(t)) \/ Listener!WorkerOnMessage
  BY <1>3, DispatchEventKeepsInv
<1>4. CASE Listener!CallReturns
  BY <1>4, CallReturnsKeepsInv
<1>5. CASE Listener!HandleException
  BY <1>5, HandleExceptionKeepsInv
<1>6. CASE \E o \in Objects : Listener!RegisterGlobalCallObject(o)
  BY <1>6, RegisterKeepsInv
<1>7. CASE \E os : Listener!UnregisterGlobalCallObject(os)
  BY <1>7, UnregisterKeepsInv
<1> QED BY <1>1, <1>2, <1>3, <1>4, <1>5, <1>6, <1>7, Zenon DEF Listener!Next

(* What the invariant says of the listeners. *)
LEMMA ListenerInvImplies ==
  ASSUME ListenerAssumption, ListenerInv
  PROVE  /\ Listener!TypeOK /\ Listener!ListsAreSound /\ Listener!DispatchIsComplete
         /\ Listener!ReferencesAreExact
<1>1. ListenersAre(state)
  BY DEF ListenerInv
<1>2. /\ state \in ListenerValues /\ Listing(state) /\ Dispatching(state) /\ Referring(state)
      /\ state.lists \in [Listener!Types -> SUBSET Listener!Records] /\ state.made \in 0..MaxListeners
      /\ state.deleted \in SUBSET Listener!Records /\ state.info \in Seq([cb : Callbacks, once : BOOLEAN])
      /\ state.errors \in 0..MaxEvents /\ state.globals \in [Objects -> 0..2]
      /\ state.refs \in SUBSET (Objects \X (1..2)) /\ MaxListeners \in Nat
      /\ \A n \in DOMAIN state.frames : state.frames[n] \in Dispatches
  BY <1>1, ListenersFields
<1>3. \A f \in Listener!Range(state.frames) : f \in Dispatches /\ Dispatched(state, f)
  BY <1>2 DEF Listener!Range, Dispatching
<1>4. Listener!TypeOK
  <2>1. state.side \in Listener!Sides /\ state.spoiled \in BOOLEAN
    BY <1>2, ListenerFields
  <2>2. \A i \in 1..state.made : state.info[i] \in [cb : Callbacks, once : BOOLEAN]
    <3>1. PICK info \in Seq([cb : Callbacks, once : BOOLEAN]) : info = state.info
      BY <1>2
    <3>2. Len(info) = state.made
      BY <1>2, <3>1 DEF Listing
    <3>3. \A i \in 1..Len(info) : info[i] \in [cb : Callbacks, once : BOOLEAN]
      BY ElementOfSeq
    <3> QED BY <3>1, <3>2, <3>3
  <2>3. \A i \in 1..state.made : state.info[i].cb \in Callbacks /\ state.info[i].once \in BOOLEAN
    BY <2>2
  <2>4. \A f \in Listener!Range(state.frames) :
          f.type \in Listener!Types /\ f.data \in 0..MaxListeners /\ f.it \in 0..MaxListeners
    BY <1>3, DispatchFields
  <2> QED BY <1>2, <2>1, <2>3, <2>4 DEF Listener!TypeOK
<1>5. Listener!ListsAreSound
  BY <1>2 DEF Listing, Listener!ListsAreSound
<1>6. Listener!DispatchIsComplete
  <2>1. \A f \in Listener!Range(state.frames) : \A m, n \in DOMAIN f.called : f.called[m] = f.called[n] => m = n
    <3> SUFFICES ASSUME NEW f \in Listener!Range(state.frames), NEW m \in DOMAIN f.called, NEW n \in DOMAIN f.called,
                        f.called[m] = f.called[n]
                 PROVE  m = n
      OBVIOUS
    <3>1. f \in Dispatches /\ Dispatched(state, f)
      BY <1>3
    <3>2. PICK called \in Seq(Listener!Records) : called = f.called
      BY <3>1, DispatchFields
    <3>3. DOMAIN called = 1..Len(called) /\ Len(called) \in Nat
      BY LenProperties
    <3>4. called[m] \in Nat /\ called[n] \in Nat
      <4>1. \A k \in 1..Len(called) : called[k] \in Listener!Records
        BY ElementOfSeq
      <4> QED BY <3>2, <3>3, <4>1 DEF Listener!Records
    <3>5. ~(m < n) /\ ~(n < m)
      BY <3>1, <3>2, <3>4 DEF Dispatched
    <3> QED BY <3>2, <3>3, <3>5
  <2>2. \A i \in 1..state.made : state.info[i].once => state.done[i] <= 1
    <3>1. \A i \in 1..state.made : state.info[i].once => state.done[i] = 0 \/ state.done[i] = 1
      BY <1>2 DEF Listing
    <3> QED BY <3>1
  <2> QED BY <1>2, <2>1, <2>2 DEF Listener!DispatchIsComplete, Dispatching
<1>7. Listener!ReferencesAreExact
  BY <1>2 DEF Referring, Listener!ReferencesAreExact
<1> QED BY <1>4, <1>5, <1>6, <1>7

----------------------------------------------------------------------------
(* The timers.  A timer that can fire is in the table, or still to be      *)
(* started and in the table; the function that runs is of a timer in the   *)
(* table, or of one that was cleared.  Both need that no number is taken   *)
(* again while it is in use.                                               *)

(* What the bounds of SysTimer are. *)
TimerAssumption == Ids \in Nat \ {0} /\ MaxTimers \in Nat

TimerIds == 0..(Ids - 1)
Tables == UNION {[D -> Timer!Infos] : D \in SUBSET TimerIds}
Entries == [env : Envs \cup {"none"}, id : TimerIds, repeat : BOOLEAN]

(* The values of timers. *)
TimerValues ==
  [next : TimerIds, made : 0..MaxTimers, table : Tables, info : [Timer!Infos -> Entries],
   loop : [Timer!Infos -> {"none", "armed", "stopped", "closed"}],
   calling : [Envs -> 0..MaxTimers], starting : [Envs -> 0..MaxTimers], fired : [Timer!Infos -> Nat],
   alive : SUBSET Envs, shadowed : SUBSET Timer!Infos]

(* Only timers that have been set are known anywhere, each to its thread   *)
(* and by its number; one that is started has not fired.                   *)
Known(t) ==
  /\ \A i \in Timer!Infos : i <= t.made => t.info[i].env \in Envs
  /\ \A i \in Timer!Infos : i > t.made => t.loop[i] = "none" /\ t.fired[i] = 0
  /\ \A e \in Envs : t.calling[e] # 0 =>
       /\ t.calling[e] <= t.made /\ t.info[t.calling[e]].env = e /\ t.fired[t.calling[e]] >= 1
  /\ \A e \in Envs : t.starting[e] # 0 =>
       /\ t.starting[e] <= t.made /\ t.info[t.starting[e]].env = e /\ t.fired[t.starting[e]] = 0
  /\ \A id \in DOMAIN t.table : t.table[id] <= t.made /\ t.info[t.table[id]].id = id

(* A timer is in the table. *)
Entered(t, i) == t.info[i].id \in DOMAIN t.table /\ t.table[t.info[i].id] = i

Unshadowed(t) ==
  /\ \A i \in Timer!Infos : t.loop[i] = "armed" => Entered(t, i)
  /\ \A e \in Envs : t.starting[e] # 0 => Entered(t, t.starting[e]) /\ t.loop[t.starting[e]] = "stopped"
  /\ \A e \in Envs : t.calling[e] # 0 /\ t.info[t.calling[e]].id \in DOMAIN t.table => Entered(t, t.calling[e])
  /\ \A i \in Timer!Infos : ~t.info[i].repeat /\ t.fired[i] # 0 =>
       t.fired[i] = 1 /\ (t.calling[t.info[i].env] = i \/ t.loop[i] # "armed")
  /\ \A id \in DOMAIN t.table : t.loop[t.table[id]] # "closed" /\ t.info[t.table[id]].env \in t.alive

TimerInv == state \in TimerValues /\ Known(state) /\ (state.shadowed = {} => Unshadowed(state))

(* The fields of a value of timers. *)
LEMMA TimerFields ==
  ASSUME NEW t \in TimerValues
  PROVE  /\ t.next \in TimerIds /\ t.made \in 0..MaxTimers /\ t.table \in Tables
         /\ t.info \in [Timer!Infos -> Entries]
         /\ t.loop \in [Timer!Infos -> {"none", "armed", "stopped", "closed"}]
         /\ t.calling \in [Envs -> 0..MaxTimers] /\ t.starting \in [Envs -> 0..MaxTimers]
         /\ t.fired \in [Timer!Infos -> Nat] /\ t.alive \in SUBSET Envs /\ t.shadowed \in SUBSET Timer!Infos
BY Zenon DEF TimerValues

(* A table, what is left of it, and one with a new entry. *)
LEMMA TableIs ==
  ASSUME NEW t \in Tables
  PROVE  /\ DOMAIN t \in SUBSET TimerIds /\ \A id \in DOMAIN t : t[id] \in Timer!Infos
         /\ t \in [DOMAIN t -> Timer!Infos]
<1>1. PICK D \in SUBSET TimerIds : t \in [D -> Timer!Infos]
  BY DEF Tables
<1> QED BY <1>1

LEMMA WithoutIs ==
  ASSUME NEW t \in Tables, NEW ids
  PROVE  /\ Timer!Without(t, ids) \in Tables /\ DOMAIN Timer!Without(t, ids) = DOMAIN t \ ids
         /\ \A id \in DOMAIN t \ ids : Timer!Without(t, ids)[id] = t[id]
<1> DEFINE D == DOMAIN t \ ids
           u == [id \in D |-> t[id]]
<1>1. D \in SUBSET TimerIds /\ \A id \in D : t[id] \in Timer!Infos
  BY TableIs
<1>2. u \in [D -> Timer!Infos]
  BY <1>1
<1>3. u \in Tables
  BY <1>1, <1>2 DEF Tables
<1> QED BY <1>3 DEF Timer!Without

WithEntry(t, id, i) == [n \in DOMAIN t \cup {id} |-> IF n = id THEN i ELSE t[n]]

LEMMA WithEntryIs ==
  ASSUME NEW t \in Tables, NEW id \in TimerIds, NEW i \in Timer!Infos
  PROVE  /\ WithEntry(t, id, i) \in Tables /\ DOMAIN WithEntry(t, id, i) = DOMAIN t \cup {id}
         /\ WithEntry(t, id, i)[id] = i /\ \A n \in DOMAIN t : n # id => WithEntry(t, id, i)[n] = t[n]
<1> DEFINE D == DOMAIN t \cup {id}
           u == [n \in D |-> IF n = id THEN i ELSE t[n]]
<1>1. D \in SUBSET TimerIds /\ \A n \in DOMAIN t : t[n] \in Timer!Infos
  BY TableIs
<1>2. u \in [D -> Timer!Infos]
  BY <1>1
<1>3. u \in Tables
  BY <1>1, <1>2 DEF Tables
<1>4. DOMAIN u = D /\ u[id] = i /\ \A n \in DOMAIN t : n # id => u[n] = t[n]
  OBVIOUS
<1> QED BY <1>3, <1>4 DEF WithEntry

(* Closing timers changes nothing but their loop. *)
LEMMA DeletedIs ==
  ASSUME NEW t \in TimerValues, NEW infos
  PROVE  \E l \in [Timer!Infos -> {"none", "armed", "stopped", "closed"}] :
           /\ Timer!Deleted(t, infos) = [t EXCEPT !.loop = l]
           /\ \A i \in Timer!Infos : l[i] = IF i \in infos THEN "closed" ELSE t.loop[i]
<1> DEFINE l == [i \in Timer!Infos |-> IF i \in infos THEN "closed" ELSE t.loop[i]]
<1>1. l \in [Timer!Infos -> {"none", "armed", "stopped", "closed"}]
  BY TimerFields
<1>2. Timer!Deleted(t, infos) = [t EXCEPT !.loop = l]
  BY DEF Timer!Deleted
<1> QED BY <1>1, <1>2

(* Init establishes the invariant. *)
LEMMA TimerInitEstablishesInv ==
  ASSUME TimerAssumption, Timer!Init
  PROVE  TimerInv
<1>1. 0 \in TimerIds /\ 0 \in 0..MaxTimers
  BY DEF TimerAssumption, TimerIds
<1>2. PICK table \in Tables : table = << >> /\ DOMAIN table = {}
  <2>1. << >> \in [{} -> Timer!Infos] /\ DOMAIN << >> = {}
    OBVIOUS
  <2>2. << >> \in Tables
    BY <2>1 DEF Tables
  <2> QED BY <2>1, <2>2
<1>3. PICK info \in [Timer!Infos -> Entries] :
        /\ info = [i \in Timer!Infos |-> [env |-> "none", id |-> 0, repeat |-> FALSE]]
  BY <1>1 DEF Entries
<1>4. PICK loop \in [Timer!Infos -> {"none", "armed", "stopped", "closed"}] :
        loop = [i \in Timer!Infos |-> "none"] /\ \A i \in Timer!Infos : loop[i] = "none"
  <2>1. [i \in Timer!Infos |-> "none"] \in [Timer!Infos -> {"none", "armed", "stopped", "closed"}]
    OBVIOUS
  <2> QED BY <2>1
<1>5. PICK calling \in [Envs -> 0..MaxTimers] :
        calling = [e \in Envs |-> 0] /\ \A e \in Envs : calling[e] = 0
  <2>1. [e \in Envs |-> 0] \in [Envs -> 0..MaxTimers]
    BY <1>1
  <2> QED BY <2>1
<1>6. PICK fired \in [Timer!Infos -> Nat] :
        fired = [i \in Timer!Infos |-> 0] /\ \A i \in Timer!Infos : fired[i] = 0
  <2>1. [i \in Timer!Infos |-> 0] \in [Timer!Infos -> Nat]
    OBVIOUS
  <2> QED BY <2>1
<1>7. PICK none \in SUBSET Timer!Infos : none = {}
  OBVIOUS
<1>8. state = [next |-> 0, made |-> 0, table |-> table, info |-> info, loop |-> loop, calling |-> calling,
               starting |-> calling, fired |-> fired, alive |-> Envs, shadowed |-> none]
  BY <1>2, <1>3, <1>4, <1>5, <1>6, <1>7 DEF Timer!Init
<1>9. state \in TimerValues
  <2>1. Envs \in SUBSET Envs
    OBVIOUS
  <2> QED BY <1>1, <1>8, <2>1, ZenonT(60) DEF TimerValues
<1>10. /\ state.made = 0 /\ state.table = table /\ state.loop = loop /\ state.calling = calling
       /\ state.starting = calling /\ state.fired = fired
  BY <1>8
<1>11. Known(state)
  BY <1>2, <1>4, <1>5, <1>6, <1>10 DEF Known, Timer!Infos
<1>12. Unshadowed(state)
  BY <1>2, <1>4, <1>5, <1>6, <1>10 DEF Unshadowed
<1> QED BY <1>9, <1>11, <1>12 DEF TimerInv

(* Starting a timer. *)
LEMMA StartTimerKeepsInv ==
  ASSUME TimerAssumption, TimerInv, NEW e \in Envs, Timer!StartTimer(e)
  PROVE  TimerInv'
<1>1. state \in TimerValues /\ Known(state) /\ (state.shadowed = {} => Unshadowed(state))
  BY DEF TimerInv
<1>2. /\ state.info \in [Timer!Infos -> Entries] /\ state.starting \in [Envs -> 0..MaxTimers]
      /\ state.loop \in [Timer!Infos -> {"none", "armed", "stopped", "closed"}]
      /\ state.made \in 0..MaxTimers /\ MaxTimers \in Nat
  BY <1>1, TimerFields DEF TimerAssumption
<1>3. PICK i \in Timer!Infos : i = state.starting[e]
  BY <1>2 DEF Timer!StartTimer, Timer!Infos
<1>4. PICK starting \in [Envs -> 0..MaxTimers] :
        /\ starting = [state.starting EXCEPT ![e] = 0]
        /\ starting[e] = 0 /\ \A f \in Envs : f # e => starting[f] = state.starting[f]
  <2>1. [state.starting EXCEPT ![e] = 0] \in [Envs -> 0..MaxTimers]
    BY <1>2
  <2> QED BY <1>2, <2>1
<1>5. PICK loop \in [Timer!Infos -> {"none", "armed", "stopped", "closed"}] :
        /\ loop = [state.loop EXCEPT ![i] = "armed"]
        /\ loop[i] = "armed" /\ \A j \in Timer!Infos : j # i => loop[j] = state.loop[j]
  <2>1. [state.loop EXCEPT ![i] = "armed"] \in [Timer!Infos -> {"none", "armed", "stopped", "closed"}]
    BY <1>2
  <2> QED BY <1>2, <2>1
<1>6. state' = [state EXCEPT !.starting = starting, !.loop = loop]
  BY <1>3, <1>4, <1>5 DEF Timer!StartTimer
<1>7. state' \in TimerValues
  BY <1>1, <1>6, ZenonT(60) DEF TimerValues
<1>8. /\ state'.next = state.next /\ state'.made = state.made /\ state'.table = state.table
      /\ state'.info = state.info /\ state'.loop = loop /\ state'.calling = state.calling
      /\ state'.starting = starting /\ state'.fired = state.fired /\ state'.alive = state.alive
      /\ state'.shadowed = state.shadowed
  BY <1>1, <1>6 DEF TimerValues
<1>9. /\ i <= state.made /\ state.info[i].env = e /\ state.fired[i] = 0
      /\ \A f \in Envs : state.starting[f] = i => f = e
  BY <1>1, <1>3 DEF Known, Timer!Infos
<1>10. Known(state')
  BY <1>1, <1>2, <1>4, <1>5, <1>8, <1>9 DEF Known, Timer!Infos
<1>11. ASSUME state'.shadowed = {} PROVE Unshadowed(state')
  <2>1. Unshadowed(state)
    BY <1>1, <1>8, <1>11
  <2>2. Entered(state, i)
    BY <1>3, <2>1 DEF Unshadowed, Timer!Infos
  <2>3. \A j : Entered(state', j) <=> Entered(state, j)
    BY <1>8 DEF Entered
  <2>4. \A f \in Envs : state'.starting[f] # 0 =>
          /\ state.starting[f] # 0 /\ state'.starting[f] = state.starting[f] /\ state.starting[f] # i
          /\ state.starting[f] \in Timer!Infos
    BY <1>2, <1>4, <1>8, <1>9 DEF Timer!Infos
  <2>5. \A id \in DOMAIN state.table : state.table[id] \in Timer!Infos
    BY <1>1, TimerFields, TableIs
  <2> QED BY <1>5, <1>8, <1>9, <2>1, <2>2, <2>3, <2>4, <2>5 DEF Unshadowed
<1> QED BY <1>7, <1>10, <1>11 DEF TimerInv

(* Setting a timer. *)
LEMMA SetTimeoutKeepsInv ==
  ASSUME TimerAssumption, TimerInv, NEW e \in Envs, NEW repeat \in BOOLEAN, Timer!SetTimeout(e, repeat)
  PROVE  TimerInv'
<1>1. state \in TimerValues /\ Known(state) /\ (state.shadowed = {} => Unshadowed(state))
  BY DEF TimerInv
<1>2. /\ state.info \in [Timer!Infos -> Entries] /\ state.starting \in [Envs -> 0..MaxTimers]
      /\ state.loop \in [Timer!Infos -> {"none", "armed", "stopped", "closed"}]
      /\ state.calling \in [Envs -> 0..MaxTimers] /\ state.fired \in [Timer!Infos -> Nat]
      /\ state.made \in 0..MaxTimers /\ MaxTimers \in Nat /\ Ids \in Nat \ {0} /\ state.next \in TimerIds
      /\ state.table \in Tables /\ state.shadowed \in SUBSET Timer!Infos
  BY <1>1, TimerFields DEF TimerAssumption
<1>3. PICK i \in Timer!Infos : i = state.made + 1 /\ i \in 0..MaxTimers /\ i # 0
  BY <1>2 DEF Timer!SetTimeout, Timer!Infos
<1>4. PICK id \in TimerIds : id = state.next
  BY <1>2
<1>5. PICK next \in TimerIds : next = (state.next + 1) % Ids
  BY <1>2 DEF TimerIds
<1>6. PICK starting \in [Envs -> 0..MaxTimers] :
        /\ starting = [state.starting EXCEPT ![e] = i]
        /\ starting[e] = i /\ \A f \in Envs : f # e => starting[f] = state.starting[f]
  <2>1. [state.starting EXCEPT ![e] = i] \in [Envs -> 0..MaxTimers]
    BY <1>2, <1>3
  <2> QED BY <1>2, <2>1
<1>7. PICK entry \in Entries : entry = [env |-> e, id |-> id, repeat |-> repeat]
  BY DEF Entries
<1>8. PICK info \in [Timer!Infos -> Entries] :
        /\ info = [state.info EXCEPT ![i] = [env |-> e, id |-> id, repeat |-> repeat]]
        /\ info[i] = entry /\ \A j \in Timer!Infos : j # i => info[j] = state.info[j]
  <2>1. [state.info EXCEPT ![i] = entry] \in [Timer!Infos -> Entries]
    BY <1>2
  <2> QED BY <1>2, <1>7, <2>1
<1>9. PICK loop \in [Timer!Infos -> {"none", "armed", "stopped", "closed"}] :
        /\ loop = [state.loop EXCEPT ![i] = "stopped"]
        /\ loop[i] = "stopped" /\ \A j \in Timer!Infos : j # i => loop[j] = state.loop[j]
  <2>1. [state.loop EXCEPT ![i] = "stopped"] \in [Timer!Infos -> {"none", "armed", "stopped", "closed"}]
    BY <1>2
  <2> QED BY <1>2, <2>1
<1>10. PICK table \in Tables :
         /\ table = IF id \in DOMAIN state.table THEN state.table
                    ELSE WithEntry(state.table, id, i)
         /\ DOMAIN table = DOMAIN state.table \cup {id}
         /\ \A n \in DOMAIN state.table : table[n] = state.table[n]
         /\ id \notin DOMAIN state.table => table[id] = i
  <2>1. CASE id \in DOMAIN state.table
    BY <1>2, <2>1
  <2>2. CASE id \notin DOMAIN state.table
    <3>1. PICK t \in Tables : t = state.table
      BY <1>2
    <3>2. PICK u \in Tables : /\ u = WithEntry(t, id, i) /\ DOMAIN u = DOMAIN t \cup {id} /\ u[id] = i
                              /\ \A n \in DOMAIN t : n # id => u[n] = t[n]
      <4>1. /\ WithEntry(t, id, i) \in Tables /\ DOMAIN WithEntry(t, id, i) = DOMAIN t \cup {id}
            /\ WithEntry(t, id, i)[id] = i /\ \A n \in DOMAIN t : n # id => WithEntry(t, id, i)[n] = t[n]
        BY WithEntryIs
      <4> QED BY <4>1, Zenon
    <3>3. \A n \in DOMAIN state.table : u[n] = state.table[n]
      BY <2>2, <3>1, <3>2
    <3>4. u = IF id \in DOMAIN state.table THEN state.table
              ELSE WithEntry(state.table, id, i)
      BY <2>2, <3>1, <3>2
    <3> QED BY <3>1, <3>2, <3>3, <3>4
  <2> QED BY <2>1, <2>2
<1>11. PICK shadowed \in SUBSET Timer!Infos :
         shadowed = IF \/ id \in DOMAIN state.table
                       \/ \E f \in Envs : state.calling[f] # 0 /\ state.info[state.calling[f]].id = id
                    THEN state.shadowed \cup {i} ELSE state.shadowed
  BY <1>2
<1>12. state' = [state EXCEPT !.made = i, !.next = next, !.starting = starting, !.info = info, !.loop = loop,
                              !.table = table, !.shadowed = shadowed]
  BY <1>3, <1>4, <1>5, <1>6, <1>8, <1>9, <1>10, <1>11 DEF Timer!SetTimeout, WithEntry
<1>13. state' \in TimerValues
  BY <1>1, <1>3, <1>12, ZenonT(60) DEF TimerValues
<1>14. /\ state'.made = i /\ state'.table = table /\ state'.info = info /\ state'.loop = loop
       /\ state'.calling = state.calling /\ state'.starting = starting /\ state'.fired = state.fired
       /\ state'.alive = state.alive /\ state'.shadowed = shadowed
  BY <1>1, <1>12 DEF TimerValues
<1>15. entry.env = e /\ entry.id = id /\ entry.repeat = repeat
  BY <1>7
<1>16. /\ state.fired[i] = 0 /\ state.loop[i] = "none"
       /\ \A f \in Envs : state.calling[f] # i /\ state.starting[f] # i
       /\ \A n \in DOMAIN state.table : state.table[n] # i /\ state.table[n] \in Timer!Infos
  <2>1. \A n \in DOMAIN state.table : state.table[n] \in Timer!Infos
    BY <1>2, TableIs
  <2>2. i > state.made /\ ~(i <= state.made)
    BY <1>2, <1>3
  <2>3. state.fired[i] = 0 /\ state.loop[i] = "none"
    BY <1>1, <2>2 DEF Known
  <2>4. \A f \in Envs : state.calling[f] # i /\ state.starting[f] # i
    BY <1>1, <1>3, <2>2 DEF Known
  <2>5. \A n \in DOMAIN state.table : state.table[n] # i
    BY <1>1, <2>2 DEF Known
  <2> QED BY <2>1, <2>3, <2>4, <2>5
<1>17. \A f \in Envs : /\ state.calling[f] # 0 => state.calling[f] \in Timer!Infos \ {i}
                       /\ state.starting[f] # 0 => state.starting[f] \in Timer!Infos \ {i}
  BY <1>2, <1>16 DEF Timer!Infos
<1>18. Known(state')
  <2>1. \A j \in Timer!Infos : j <= i => info[j].env \in Envs
    BY <1>1, <1>2, <1>3, <1>8, <1>15 DEF Known, Timer!Infos
  <2>2. \A j \in Timer!Infos : j > i => loop[j] = "none" /\ state.fired[j] = 0
    BY <1>1, <1>2, <1>3, <1>9 DEF Known, Timer!Infos
  <2>3. \A f \in Envs : state.calling[f] # 0 =>
          state.calling[f] <= i /\ info[state.calling[f]].env = f /\ state.fired[state.calling[f]] >= 1
    <3> SUFFICES ASSUME NEW f \in Envs, state.calling[f] # 0
                 PROVE  /\ state.calling[f] <= i /\ info[state.calling[f]].env = f
                        /\ state.fired[state.calling[f]] >= 1
      OBVIOUS
    <3>1. PICK c \in Timer!Infos \ {i} : c = state.calling[f]
      BY <1>17
    <3>2. c <= state.made /\ state.info[c].env = f /\ state.fired[c] >= 1 /\ info[c] = state.info[c]
      BY <1>1, <1>8, <3>1 DEF Known
    <3>3. c <= i
      BY <1>2, <1>3, <3>2 DEF Timer!Infos
    <3> QED BY <3>1, <3>2, <3>3
  <2>4. \A f \in Envs : starting[f] # 0 =>
          starting[f] <= i /\ info[starting[f]].env = f /\ state.fired[starting[f]] = 0
    BY <1>1, <1>2, <1>3, <1>6, <1>8, <1>15, <1>16, <1>17 DEF Known, Timer!Infos
  <2>5. \A n \in DOMAIN table : table[n] <= i /\ info[table[n]].id = n
    <3> SUFFICES ASSUME NEW n \in DOMAIN table
                 PROVE  table[n] <= i /\ info[table[n]].id = n
      OBVIOUS
    <3>1. CASE n \in DOMAIN state.table
      <4>1. PICK c \in Timer!Infos \ {i} : c = table[n] /\ c = state.table[n]
        BY <1>10, <1>16, <3>1
      <4>2. c <= state.made /\ state.info[c].id = n /\ info[c] = state.info[c]
        BY <1>1, <1>8, <3>1, <4>1 DEF Known
      <4>3. c <= i
        BY <1>2, <1>3, <4>2 DEF Timer!Infos
      <4> QED BY <4>1, <4>2, <4>3
    <3>2. CASE n \notin DOMAIN state.table
      BY <1>2, <1>3, <1>8, <1>10, <1>15, <3>2
    <3> QED BY <3>1, <3>2
  <2> QED BY <1>14, <2>1, <2>2, <2>3, <2>4, <2>5 DEF Known
<1>19. ASSUME state'.shadowed = {} PROVE Unshadowed(state')
  <2>1. /\ id \notin DOMAIN state.table /\ state.shadowed = {}
        /\ \A f \in Envs : ~(state.calling[f] # 0 /\ state.info[state.calling[f]].id = id)
    BY <1>11, <1>14, <1>19
  <2>2. Unshadowed(state)
    BY <1>1, <2>1
  <2>3. \A j \in Timer!Infos \ {i} : Entered(state, j) => Entered(state', j)
    BY <1>8, <1>10, <1>14 DEF Entered
  <2>4. Entered(state', i)
    BY <1>8, <1>10, <1>14, <1>15, <2>1 DEF Entered
  <2>5. \A j \in Timer!Infos : loop[j] = "armed" => Entered(state', j)
    BY <1>9, <2>2, <2>3 DEF Unshadowed
  <2>6. \A f \in Envs : starting[f] # 0 => Entered(state', starting[f]) /\ loop[starting[f]] = "stopped"
    BY <1>6, <1>9, <1>17, <2>2, <2>3, <2>4 DEF Unshadowed
  <2>7. \A f \in Envs : state.calling[f] # 0 /\ info[state.calling[f]].id \in DOMAIN table => Entered(state', state.calling[f])
    BY <1>8, <1>10, <1>17, <2>1, <2>2, <2>3 DEF Unshadowed
  <2>8. \A j \in Timer!Infos : ~info[j].repeat /\ state.fired[j] # 0 =>
          state.fired[j] = 1 /\ (state.calling[info[j].env] = j \/ loop[j] # "armed")
    BY <1>8, <1>9, <1>16, <2>2 DEF Unshadowed
  <2>9. \A n \in DOMAIN table : loop[table[n]] # "closed" /\ info[table[n]].env \in state.alive
    <3>1. e \in state.alive
      BY DEF Timer!SetTimeout, Timer!IsFree
    <3> QED BY <1>8, <1>9, <1>10, <1>15, <1>16, <2>1, <2>2, <3>1 DEF Unshadowed
  <2> QED BY <1>14, <2>5, <2>6, <2>7, <2>8, <2>9 DEF Unshadowed
<1> QED BY <1>13, <1>18, <1>19 DEF TimerInv

(* Entries that may go, with their timers, when functions return or a      *)
(* thread ends.                                                            *)
Removable(ids, infos, calling, alive) ==
  /\ \A f \in Envs : calling[f] = state.calling[f] \/ calling[f] = 0
  /\ \A j \in infos : j \in Timer!Infos /\ j <= state.made
  /\ state.shadowed = {} =>
       /\ \A n \in DOMAIN state.table : state.table[n] \in infos <=> n \in ids
       /\ \A n \in DOMAIN state.table \ ids : state.info[state.table[n]].env \in alive
       /\ \A f \in Envs : state.starting[f] # 0 => state.starting[f] \notin infos
       /\ \A j \in Timer!Infos : \/ calling[state.info[j].env] = state.calling[state.info[j].env] \/ j \in infos
                                 \/ state.calling[state.info[j].env] # j

Remaining(ids, calling, alive) ==
  [state EXCEPT !.calling = calling, !.alive = alive, !.table = Timer!Without(state.table, ids)]

(* A step that takes entries out of the table and closes their timers.     *)
LEMMA Removed ==
  ASSUME TimerInv, NEW ids, NEW infos, NEW calling \in [Envs -> 0..MaxTimers], NEW alive \in SUBSET Envs,
         Removable(ids, infos, calling, alive), state' = Timer!Deleted(Remaining(ids, calling, alive), infos)
  PROVE  TimerInv'
<1> PICK t : t = Remaining(ids, calling, alive)
  OBVIOUS
<1>1. state \in TimerValues /\ Known(state) /\ (state.shadowed = {} => Unshadowed(state))
  BY DEF TimerInv
<1>12. /\ \A f \in Envs : calling[f] = state.calling[f] \/ calling[f] = 0
       /\ \A j \in infos : j \in Timer!Infos /\ j <= state.made
  BY DEF Removable
<1>13. state.shadowed = {} =>
        /\ \A n \in DOMAIN state.table : state.table[n] \in infos <=> n \in ids
        /\ \A n \in DOMAIN state.table \ ids : state.info[state.table[n]].env \in alive
        /\ \A f \in Envs : state.starting[f] # 0 => state.starting[f] \notin infos
        /\ \A j \in Timer!Infos : \/ calling[state.info[j].env] = state.calling[state.info[j].env] \/ j \in infos
                                   \/ state.calling[state.info[j].env] # j
  BY DEF Removable
<1>2. /\ state.table \in Tables /\ state.loop \in [Timer!Infos -> {"none", "armed", "stopped", "closed"}]
      /\ state.made \in 0..MaxTimers /\ state.calling \in [Envs -> 0..MaxTimers]
      /\ state.starting \in [Envs -> 0..MaxTimers]
  BY <1>1, TimerFields
<1>3. PICK table \in Tables : /\ table = Timer!Without(state.table, ids) /\ DOMAIN table = DOMAIN state.table \ ids
                              /\ \A n \in DOMAIN table : table[n] = state.table[n]
  <2>1. PICK u \in Tables : u = state.table
    BY <1>2
  <2>2. /\ Timer!Without(u, ids) \in Tables /\ DOMAIN Timer!Without(u, ids) = DOMAIN u \ ids
        /\ \A n \in DOMAIN u \ ids : Timer!Without(u, ids)[n] = u[n]
    BY WithoutIs
  <2> QED BY <2>1, <2>2
<1>4. t = [state EXCEPT !.calling = calling, !.alive = alive, !.table = table]
  BY <1>3 DEF Remaining
<1>5. t \in TimerValues
  BY <1>1, <1>4, ZenonT(60) DEF TimerValues
<1>6. /\ t.made = state.made /\ t.table = table /\ t.info = state.info /\ t.loop = state.loop
      /\ t.calling = calling /\ t.starting = state.starting /\ t.fired = state.fired
      /\ t.alive = alive /\ t.shadowed = state.shadowed
  BY <1>1, <1>4 DEF TimerValues
<1>7. PICK loop \in [Timer!Infos -> {"none", "armed", "stopped", "closed"}] :
        /\ state' = [t EXCEPT !.loop = loop]
        /\ \A i \in Timer!Infos : loop[i] = IF i \in infos THEN "closed" ELSE state.loop[i]
  <2>1. PICK l \in [Timer!Infos -> {"none", "armed", "stopped", "closed"}] :
          /\ Timer!Deleted(t, infos) = [t EXCEPT !.loop = l]
          /\ \A i \in Timer!Infos : l[i] = IF i \in infos THEN "closed" ELSE t.loop[i]
    BY <1>5, DeletedIs
  <2>2. state' = [t EXCEPT !.loop = l]
    BY <2>1
  <2>3. \A i \in Timer!Infos : l[i] = IF i \in infos THEN "closed" ELSE state.loop[i]
    BY <1>6, <2>1
  <2> QED BY <2>2, <2>3, Zenon
<1>8. state' \in TimerValues
  BY <1>5, <1>7, ZenonT(60) DEF TimerValues
<1>9. /\ state'.made = state.made /\ state'.table = table /\ state'.info = state.info /\ state'.loop = loop
      /\ state'.calling = calling /\ state'.starting = state.starting /\ state'.fired = state.fired
      /\ state'.alive = alive /\ state'.shadowed = state.shadowed
  BY <1>5, <1>6, <1>7 DEF TimerValues
<1>10. Known(state')
  <2>1. \A i \in Timer!Infos : i > state.made => loop[i] = "none"
    <3>1. \A i \in infos : ~(i > state.made)
      BY <1>2, <1>12 DEF Timer!Infos
    <3> QED BY <1>1, <1>7, <3>1 DEF Known
  <2>2. \A n \in DOMAIN table : n \in DOMAIN state.table /\ table[n] = state.table[n]
    BY <1>3
  <2> QED BY <1>1, <1>9, <1>12, <2>1, <2>2 DEF Known
<1>11. ASSUME state'.shadowed = {} PROVE Unshadowed(state')
  <2>1. Unshadowed(state) /\ state.shadowed = {}
    BY <1>1, <1>9, <1>11
  <2>2. \A j \in Timer!Infos \ infos : Entered(state, j) => Entered(state', j)
    BY <1>3, <1>9, <1>13, <2>1 DEF Entered
  <2>3. \A j \in Timer!Infos : loop[j] = "armed" => Entered(state', j)
    BY <1>7, <2>1, <2>2 DEF Unshadowed
  <2>4. \A f \in Envs : state.starting[f] # 0 => Entered(state', state.starting[f]) /\ loop[state.starting[f]] = "stopped"
    <3>1. \A f \in Envs : state.starting[f] # 0 => state.starting[f] \in Timer!Infos \ infos
      BY <1>2, <1>13, <2>1 DEF Timer!Infos
    <3> QED BY <1>7, <2>1, <2>2, <3>1 DEF Unshadowed
  <2>5. \A f \in Envs : calling[f] # 0 /\ state.info[calling[f]].id \in DOMAIN table => Entered(state', calling[f])
    <3> SUFFICES ASSUME NEW f \in Envs, calling[f] # 0, state.info[calling[f]].id \in DOMAIN table
                 PROVE  Entered(state', calling[f])
      OBVIOUS
    <3>1. calling[f] = state.calling[f] /\ calling[f] \in Timer!Infos
      BY <1>2, <1>12 DEF Timer!Infos
    <3>2. Entered(state, calling[f])
      BY <1>3, <2>1, <3>1 DEF Unshadowed
    <3> QED BY <1>3, <1>9, <3>2 DEF Entered
  <2>6. \A j \in Timer!Infos : ~state.info[j].repeat /\ state.fired[j] # 0 =>
          state.fired[j] = 1 /\ (calling[state.info[j].env] = j \/ loop[j] # "armed")
    BY <1>7, <1>13, <2>1 DEF Unshadowed
  <2>7. \A n \in DOMAIN table : loop[table[n]] # "closed" /\ state.info[table[n]].env \in alive
    <3>1. \A n \in DOMAIN state.table : state.table[n] \in Timer!Infos
      BY <1>2, TableIs
    <3> QED BY <1>3, <1>7, <1>13, <2>1, <3>1 DEF Unshadowed
  <2> QED BY <1>9, <2>3, <2>4, <2>5, <2>6, <2>7 DEF Unshadowed
<1> QED BY <1>8, <1>10, <1>11 DEF TimerInv

(* Clearing a timer, and all of a thread that ends. *)
LEMMA ClearKeepsInv ==
  ASSUME TimerAssumption, TimerInv, NEW e \in Envs,
         (\E id \in 0..(Ids - 1) : Timer!ClearTimer(e, id)) \/ Timer!TerminateWorker(e) \/ Timer!CleanUpHook(e)
  PROVE  TimerInv'
<1>1. state \in TimerValues /\ Known(state) /\ (state.shadowed = {} => Unshadowed(state))
  BY DEF TimerInv
<1>2. /\ state.table \in Tables /\ state.calling \in [Envs -> 0..MaxTimers]
      /\ state.starting \in [Envs -> 0..MaxTimers] /\ state.alive \in SUBSET Envs
      /\ state.loop \in [Timer!Infos -> {"none", "armed", "stopped", "closed"}]
      /\ state.fired \in [Timer!Infos -> Nat] /\ state.made \in 0..MaxTimers
      /\ MaxTimers \in Nat /\ Ids \in Nat \ {0} /\ state.next \in TimerIds
  BY <1>1, TimerFields DEF TimerAssumption
<1>3. \A n \in DOMAIN state.table :
        state.table[n] \in Timer!Infos /\ state.table[n] <= state.made /\ state.info[state.table[n]].id = n
  BY <1>1, <1>2, TableIs DEF Known
<1>4. \A f \in Envs : state.starting[f] # 0 =>
        state.starting[f] \in Timer!Infos /\ state.info[state.starting[f]].env = f /\ state.fired[state.starting[f]] = 0
  BY <1>1, <1>2 DEF Known, Timer!Infos
<1>5. CASE \E id \in 0..(Ids - 1) : Timer!ClearTimer(e, id)
  <2>1. PICK id : Timer!ClearTimer(e, id)
    BY <1>5
  <2>2. /\ state.starting[e] = 0 /\ id \in DOMAIN state.table /\ state.info[state.table[id]].env = e
        /\ state' = Timer!Deleted([state EXCEPT !.table = Timer!Without(@, {id})], {state.table[id]})
    BY <2>1 DEF Timer!ClearTimer, Timer!IsFree
  <2>3. PICK calling \in [Envs -> 0..MaxTimers], alive \in SUBSET Envs : calling = state.calling /\ alive = state.alive
    BY <1>2
  <2>4. [state EXCEPT !.table = Timer!Without(@, {id})] = Remaining({id}, calling, alive)
    BY <1>1, <2>3 DEF TimerValues, Remaining
  <2>5. state' = Timer!Deleted(Remaining({id}, calling, alive), {state.table[id]})
    BY <2>2, <2>4
  <2>6. \A j \in {state.table[id]} : j \in Timer!Infos /\ j <= state.made
    BY <1>3, <2>2
  <2>7. \A n \in DOMAIN state.table : state.table[n] \in {state.table[id]} <=> n \in {id}
    BY <1>3, <2>2
  <2>8. \A f \in Envs : state.starting[f] # 0 => state.starting[f] \notin {state.table[id]}
    BY <1>4, <2>2
  <2>9. state.shadowed = {} => \A n \in DOMAIN state.table : state.info[state.table[n]].env \in state.alive
    BY <1>1 DEF Unshadowed
  <2>10. Removable({id}, {state.table[id]}, calling, alive)
    BY <2>3, <2>6, <2>7, <2>8, <2>9 DEF Removable
  <2> QED BY <2>5, <2>10, Removed
<1>6. CASE Timer!TerminateWorker(e) \/ Timer!CleanUpHook(e)
  <2>1. PICK ids : ids = {id \in DOMAIN state.table : state.info[state.table[id]].env = e}
    OBVIOUS
  <2>2. PICK infos : infos = {state.table[id] : id \in ids}
    OBVIOUS
  <2>3. PICK alive \in SUBSET Envs :
          /\ alive = IF Timer!TerminateWorker(e) THEN state.alive ELSE state.alive \ {e}
          /\ \A f \in state.alive : f # e => f \in alive
    <3>1. (IF Timer!TerminateWorker(e) THEN state.alive ELSE state.alive \ {e}) \in SUBSET Envs
      BY <1>2
    <3> QED BY <3>1
  <2>4. /\ state.starting[e] = 0
        /\ state' = Timer!Deleted([state EXCEPT !.alive = alive, !.table = Timer!Without(@, ids)], infos)
    <3>1. state.starting[e] = 0
      BY <1>6 DEF Timer!TerminateWorker, Timer!CleanUpHook, Timer!IsFree
    <3>2. Timer!Cleared(e) = Timer!Deleted([state EXCEPT !.table = Timer!Without(@, ids)], infos)
      BY <2>1, <2>2 DEF Timer!Cleared
    <3>3. CASE Timer!TerminateWorker(e)
      <4>1. [state EXCEPT !.table = Timer!Without(@, ids)]
              = [state EXCEPT !.alive = alive, !.table = Timer!Without(@, ids)]
        BY <1>1, <2>3, <3>3 DEF TimerValues
      <4>2. state' = Timer!Cleared(e)
        BY <3>3 DEF Timer!TerminateWorker
      <4> QED BY <3>1, <3>2, <4>1, <4>2
    <3>4. CASE ~Timer!TerminateWorker(e)
      <4>1. state' = [Timer!Cleared(e) EXCEPT !.alive = @ \ {e}]
        BY <1>6, <3>4 DEF Timer!CleanUpHook
      <4>2. Timer!Cleared(e).alive = state.alive
        BY <1>1, <3>2 DEF TimerValues, Timer!Deleted
      <4>3. state' = [Timer!Cleared(e) EXCEPT !.alive = alive]
        BY <2>3, <3>4, <4>1, <4>2
      <4>4. [Timer!Deleted([state EXCEPT !.table = Timer!Without(@, ids)], infos) EXCEPT !.alive = alive]
              = Timer!Deleted([state EXCEPT !.alive = alive, !.table = Timer!Without(@, ids)], infos)
        BY <1>1 DEF TimerValues, Timer!Deleted
      <4> QED BY <3>1, <3>2, <4>3, <4>4
    <3> QED BY <3>3, <3>4
  <2>5. PICK calling \in [Envs -> 0..MaxTimers] : calling = state.calling
    BY <1>2
  <2>6. [state EXCEPT !.alive = alive, !.table = Timer!Without(@, ids)] = Remaining(ids, calling, alive)
    BY <1>1, <2>5 DEF TimerValues, Remaining
  <2>7. state' = Timer!Deleted(Remaining(ids, calling, alive), infos)
    BY <2>4, <2>6
  <2>8. \A j \in infos : j \in Timer!Infos /\ j <= state.made
    BY <1>3, <2>1, <2>2
  <2>9. \A n \in DOMAIN state.table : state.table[n] \in infos <=> n \in ids
    BY <1>3, <2>1, <2>2
  <2>10. \A f \in Envs : state.starting[f] # 0 => state.starting[f] \notin infos
    BY <1>4, <2>1, <2>2, <2>4
  <2>11. state.shadowed = {} => \A n \in DOMAIN state.table \ ids : state.info[state.table[n]].env \in alive
    BY <1>1, <2>1, <2>3 DEF Unshadowed
  <2>12. Removable(ids, infos, calling, alive)
    BY <2>5, <2>8, <2>9, <2>10, <2>11 DEF Removable
  <2> QED BY <2>7, <2>12, Removed
<1> QED BY <1>5, <1>6

(* The function of a timer returns. *)
LEMMA FunctionReturnsKeepsInv ==
  ASSUME TimerAssumption, TimerInv, NEW e \in Envs, NEW exception, Timer!FunctionReturns(e, exception)
  PROVE  TimerInv'
<1>1. state \in TimerValues /\ Known(state) /\ (state.shadowed = {} => Unshadowed(state))
  BY DEF TimerInv
<1>2. /\ state.table \in Tables /\ state.calling \in [Envs -> 0..MaxTimers]
      /\ state.starting \in [Envs -> 0..MaxTimers] /\ state.alive \in SUBSET Envs
      /\ state.loop \in [Timer!Infos -> {"none", "armed", "stopped", "closed"}]
      /\ state.fired \in [Timer!Infos -> Nat] /\ state.made \in 0..MaxTimers
      /\ MaxTimers \in Nat /\ Ids \in Nat \ {0} /\ state.next \in TimerIds
  BY <1>1, TimerFields DEF TimerAssumption
<1>3. \A n \in DOMAIN state.table :
        state.table[n] \in Timer!Infos /\ state.table[n] <= state.made /\ state.info[state.table[n]].id = n
  BY <1>1, <1>2, TableIs DEF Known
<1>4. \A f \in Envs : state.starting[f] # 0 =>
        state.starting[f] \in Timer!Infos /\ state.info[state.starting[f]].env = f /\ state.fired[state.starting[f]] = 0
  BY <1>1, <1>2 DEF Known, Timer!Infos
<1>5. PICK i \in Timer!Infos : i = state.calling[e]
  BY <1>2 DEF Timer!FunctionReturns, Timer!Infos
<1>6. PICK id : id = state.info[i].id
  OBVIOUS
<1>7. i <= state.made /\ state.info[i].env = e /\ state.fired[i] >= 1
  BY <1>1, <1>5 DEF Known, Timer!Infos
<1>8. PICK calling \in [Envs -> 0..MaxTimers] :
        /\ calling = [state.calling EXCEPT ![e] = 0]
        /\ calling[e] = 0 /\ \A f \in Envs : f # e => calling[f] = state.calling[f]
  <2>1. [state.calling EXCEPT ![e] = 0] \in [Envs -> 0..MaxTimers]
    BY <1>2
  <2> QED BY <1>2, <2>1
<1>9. \A f \in Envs : state.starting[f] # 0 => state.starting[f] # i
  BY <1>2, <1>4, <1>7
<1>10. state.shadowed = {} /\ id \in DOMAIN state.table => Entered(state, i)
  BY <1>1, <1>5, <1>6 DEF Unshadowed, Timer!Infos
<1>11. PICK returned : returned = [state EXCEPT !.calling = calling]
  OBVIOUS
<1>12. returned.loop = state.loop /\ returned.table = state.table
  BY <1>1, <1>11 DEF TimerValues
<1>13. CASE id \notin DOMAIN state.table /\ state' = returned
  <2>1. state' \in TimerValues
    BY <1>1, <1>11, <1>13, ZenonT(60) DEF TimerValues
  <2>2. /\ state'.made = state.made /\ state'.table = state.table /\ state'.info = state.info /\ state'.loop = state.loop
        /\ state'.calling = calling /\ state'.starting = state.starting /\ state'.fired = state.fired
        /\ state'.alive = state.alive /\ state'.shadowed = state.shadowed
    BY <1>1, <1>11, <1>13 DEF TimerValues
  <2>3. \A f \in Envs : calling[f] # 0 => calling[f] = state.calling[f]
    BY <1>8
  <2>4. Known(state')
    BY <1>1, <2>2, <2>3 DEF Known
  <2>5. ASSUME state'.shadowed = {} PROVE Unshadowed(state')
    <3>1. Unshadowed(state) /\ \A j : Entered(state', j) <=> Entered(state, j)
      BY <1>1, <2>2, <2>5 DEF Entered
    <3>2. state.loop[i] # "armed"
      BY <1>6, <1>13, <3>1 DEF Unshadowed, Entered
    <3>3. \A j \in Timer!Infos : ~state.info[j].repeat /\ state.fired[j] # 0 =>
            state.fired[j] = 1 /\ (calling[state.info[j].env] = j \/ state.loop[j] # "armed")
      <4> SUFFICES ASSUME NEW j \in Timer!Infos, ~state.info[j].repeat, state.fired[j] # 0
                   PROVE  state.fired[j] = 1 /\ (calling[state.info[j].env] = j \/ state.loop[j] # "armed")
        OBVIOUS
      <4>1. state.fired[j] = 1 /\ (state.calling[state.info[j].env] = j \/ state.loop[j] # "armed")
        BY <3>1 DEF Unshadowed
      <4>2. state.info[j].env \in Envs
        <5>1. j <= state.made
          BY <1>1, <1>2 DEF Known, Timer!Infos
        <5> QED BY <1>1, <5>1 DEF Known
      <4> QED BY <1>5, <1>8, <3>2, <4>1, <4>2
    <3> QED BY <2>2, <2>3, <3>1, <3>3 DEF Unshadowed
  <2> QED BY <2>1, <2>4, <2>5 DEF TimerInv
<1>14. CASE id \in DOMAIN state.table /\ state.info[i].repeat /\ state' = [returned EXCEPT !.loop[i] = "armed"]
  <2>1. PICK loop \in [Timer!Infos -> {"none", "armed", "stopped", "closed"}] :
          /\ loop = [state.loop EXCEPT ![i] = "armed"]
          /\ loop[i] = "armed" /\ \A j \in Timer!Infos : j # i => loop[j] = state.loop[j]
    <3>1. [state.loop EXCEPT ![i] = "armed"] \in [Timer!Infos -> {"none", "armed", "stopped", "closed"}]
      BY <1>2
    <3> QED BY <1>2, <3>1
  <2>2. state' = [state EXCEPT !.calling = calling, !.loop = loop]
    BY <1>11, <1>12, <1>14, <2>1
  <2>3. state' \in TimerValues
    BY <1>1, <2>2, ZenonT(60) DEF TimerValues
  <2>4. /\ state'.made = state.made /\ state'.table = state.table /\ state'.info = state.info /\ state'.loop = loop
        /\ state'.calling = calling /\ state'.starting = state.starting /\ state'.fired = state.fired
        /\ state'.alive = state.alive /\ state'.shadowed = state.shadowed
    BY <1>1, <2>2 DEF TimerValues
  <2>5. \A f \in Envs : calling[f] # 0 => calling[f] = state.calling[f]
    BY <1>8
  <2>6. \A j \in Timer!Infos : j > state.made => loop[j] = state.loop[j]
    BY <1>2, <1>7, <2>1 DEF Timer!Infos
  <2>7. Known(state')
    BY <1>1, <2>4, <2>5, <2>6 DEF Known
  <2>8. ASSUME state'.shadowed = {} PROVE Unshadowed(state')
    <3>1. Unshadowed(state) /\ \A j : Entered(state', j) <=> Entered(state, j)
      BY <1>1, <2>4, <2>8 DEF Entered
    <3>2. Entered(state, i)
      BY <1>10, <1>14, <2>4, <2>8
    <3>3. \A f \in Envs : state.starting[f] # 0 => loop[state.starting[f]] = "stopped"
      BY <1>4, <1>9, <2>1, <3>1 DEF Unshadowed
    <3>4. \A j \in Timer!Infos : ~state.info[j].repeat /\ state.fired[j] # 0 =>
            state.fired[j] = 1 /\ (calling[state.info[j].env] = j \/ loop[j] # "armed")
      <4> SUFFICES ASSUME NEW j \in Timer!Infos, ~state.info[j].repeat, state.fired[j] # 0
                   PROVE  state.fired[j] = 1 /\ (calling[state.info[j].env] = j \/ loop[j] # "armed")
        OBVIOUS
      <4>1. j # i /\ state.fired[j] = 1 /\ (state.calling[state.info[j].env] = j \/ state.loop[j] # "armed")
        BY <1>14, <3>1 DEF Unshadowed
      <4>2. state.info[j].env \in Envs
        <5>1. j <= state.made
          BY <1>1, <1>2 DEF Known, Timer!Infos
        <5> QED BY <1>1, <5>1 DEF Known
      <4> QED BY <1>5, <1>8, <2>1, <4>1, <4>2
    <3>5. \A n \in DOMAIN state.table : loop[state.table[n]] # "closed" /\ state.info[state.table[n]].env \in state.alive
      BY <1>3, <2>1, <3>1 DEF Unshadowed
    <3>6. \A j \in Timer!Infos : loop[j] = "armed" => Entered(state, j)
      BY <2>1, <3>1, <3>2 DEF Unshadowed
    <3> QED BY <2>4, <2>5, <3>1, <3>3, <3>4, <3>5, <3>6 DEF Unshadowed
  <2> QED BY <2>3, <2>7, <2>8 DEF TimerInv
<1>15. CASE id \in DOMAIN state.table /\ state' = Timer!Deleted([returned EXCEPT !.table = Timer!Without(@, {id})], {i})
  <2>1. PICK alive \in SUBSET Envs : alive = state.alive
    BY <1>2
  <2>2. [returned EXCEPT !.table = Timer!Without(@, {id})] = Remaining({id}, calling, alive)
    BY <1>1, <1>11, <2>1 DEF TimerValues, Remaining
  <2>3. state' = Timer!Deleted(Remaining({id}, calling, alive), {i})
    BY <1>15, <2>2
  <2>4. \A f \in Envs : calling[f] = state.calling[f] \/ calling[f] = 0
    BY <1>8
  <2>5. \A j \in {i} : j \in Timer!Infos /\ j <= state.made
    BY <1>7
  <2>6. state.shadowed = {} => \A n \in DOMAIN state.table : state.table[n] \in {i} <=> n \in {id}
    BY <1>3, <1>6, <1>10, <1>15 DEF Entered
  <2>7. state.shadowed = {} => \A n \in DOMAIN state.table \ {id} : state.info[state.table[n]].env \in state.alive
    BY <1>1 DEF Unshadowed
  <2>8. \A f \in Envs : state.starting[f] # 0 => state.starting[f] \notin {i}
    BY <1>9
  <2>9. \A j \in Timer!Infos : \/ calling[state.info[j].env] = state.calling[state.info[j].env] \/ j \in {i}
                               \/ state.calling[state.info[j].env] # j
    BY <1>2, <1>5, <1>8
  <2>10. Removable({id}, {i}, calling, alive)
    BY <2>1, <2>4, <2>5, <2>6, <2>7, <2>8, <2>9 DEF Removable
  <2> QED BY <2>3, <2>10, Removed
<1> QED BY <1>5, <1>6, <1>8, <1>11, <1>12, <1>13, <1>14, <1>15 DEF Timer!FunctionReturns

(* The function of a timer is called. *)
LEMMA TimerCallbackKeepsInv ==
  ASSUME TimerAssumption, TimerInv, NEW e \in Envs, NEW i \in Timer!Infos, state.info[i].env = e,
         Timer!TimerCallback(i)
  PROVE  TimerInv'
<1>1. state \in TimerValues /\ Known(state) /\ (state.shadowed = {} => Unshadowed(state))
  BY DEF TimerInv
<1>2. /\ state.table \in Tables /\ state.calling \in [Envs -> 0..MaxTimers]
      /\ state.starting \in [Envs -> 0..MaxTimers] /\ state.alive \in SUBSET Envs
      /\ state.loop \in [Timer!Infos -> {"none", "armed", "stopped", "closed"}]
      /\ state.fired \in [Timer!Infos -> Nat] /\ state.made \in 0..MaxTimers
      /\ MaxTimers \in Nat /\ Ids \in Nat \ {0} /\ state.next \in TimerIds
  BY <1>1, TimerFields DEF TimerAssumption
<1>3. \A n \in DOMAIN state.table :
        state.table[n] \in Timer!Infos /\ state.table[n] <= state.made /\ state.info[state.table[n]].id = n
  BY <1>1, <1>2, TableIs DEF Known
<1>4. \A f \in Envs : state.starting[f] # 0 =>
        state.starting[f] \in Timer!Infos /\ state.info[state.starting[f]].env = f /\ state.fired[state.starting[f]] = 0
  BY <1>1, <1>2 DEF Known, Timer!Infos
<1>5. state.loop[i] = "armed" /\ state.starting[e] = 0 /\ state.calling[e] = 0
  BY DEF Timer!TimerCallback, Timer!IsFree
<1>6. PICK calling \in [Envs -> 0..MaxTimers] :
        /\ calling = [state.calling EXCEPT ![e] = i]
        /\ calling[e] = i /\ \A f \in Envs : f # e => calling[f] = state.calling[f]
  <2>1. i \in 0..MaxTimers
    BY <1>2 DEF Timer!Infos
  <2>2. [state.calling EXCEPT ![e] = i] \in [Envs -> 0..MaxTimers]
    BY <1>2, <2>1
  <2> QED BY <1>2, <2>2
<1>7. PICK fired \in [Timer!Infos -> Nat] :
        /\ fired = [state.fired EXCEPT ![i] = @ + (IF @ < 2 THEN 1 ELSE 0)]
        /\ fired[i] = state.fired[i] + (IF state.fired[i] < 2 THEN 1 ELSE 0)
        /\ \A j \in Timer!Infos : j # i => fired[j] = state.fired[j]
  <2>1. [state.fired EXCEPT ![i] = @ + (IF @ < 2 THEN 1 ELSE 0)] \in [Timer!Infos -> Nat]
    BY <1>2
  <2> QED BY <1>2, <2>1
<1>8. state' = [state EXCEPT !.calling = calling, !.fired = fired]
  BY <1>6, <1>7 DEF Timer!TimerCallback
<1>9. state' \in TimerValues
  BY <1>1, <1>8, ZenonT(60) DEF TimerValues
<1>10. /\ state'.made = state.made /\ state'.table = state.table /\ state'.info = state.info /\ state'.loop = state.loop
       /\ state'.calling = calling /\ state'.starting = state.starting /\ state'.fired = fired
       /\ state'.alive = state.alive /\ state'.shadowed = state.shadowed
  BY <1>1, <1>8 DEF TimerValues
<1>11. i <= state.made
  <2>1. ~(i > state.made)
    BY <1>1, <1>5 DEF Known
  <2> QED BY <1>2, <2>1 DEF Timer!Infos
<1>12. fired[i] >= 1
  BY <1>2, <1>7
<1>13. \A f \in Envs : state.starting[f] # 0 => state.starting[f] # i
  BY <1>4, <1>5
<1>14. Known(state')
  <2>1. ASSUME NEW j \in Timer!Infos, j > state.made PROVE fired[j] = 0
    <3>1. j # i
      BY <1>2, <1>11, <2>1 DEF Timer!Infos
    <3>2. state.fired[j] = 0
      BY <1>1, <2>1 DEF Known
    <3> QED BY <1>7, <3>1, <3>2
  <2>2. \A f \in Envs : calling[f] # 0 =>
          calling[f] <= state.made /\ state.info[calling[f]].env = f /\ fired[calling[f]] >= 1
    <3> SUFFICES ASSUME NEW f \in Envs, calling[f] # 0
                 PROVE  calling[f] <= state.made /\ state.info[calling[f]].env = f /\ fired[calling[f]] >= 1
      OBVIOUS
    <3>1. CASE f = e
      BY <1>6, <1>11, <1>12, <3>1
    <3>2. CASE f # e
      <4>1. calling[f] = state.calling[f] /\ calling[f] \in Timer!Infos
        BY <1>2, <1>6, <3>2 DEF Timer!Infos
      <4>2. calling[f] <= state.made /\ state.info[calling[f]].env = f /\ state.fired[calling[f]] >= 1
        BY <1>1, <4>1 DEF Known
      <4> QED BY <1>7, <1>12, <4>1, <4>2
    <3> QED BY <3>1, <3>2
  <2>3. \A f \in Envs : state.starting[f] # 0 =>
          /\ state.starting[f] <= state.made /\ state.info[state.starting[f]].env = f
          /\ fired[state.starting[f]] = 0
    BY <1>1, <1>4, <1>7, <1>13 DEF Known
  <2> QED BY <1>1, <1>10, <2>1, <2>2, <2>3 DEF Known
<1>15. ASSUME state'.shadowed = {} PROVE Unshadowed(state')
  <2>1. Unshadowed(state) /\ \A j : Entered(state', j) <=> Entered(state, j)
    BY <1>1, <1>10, <1>15 DEF Entered
  <2>2. Entered(state, i)
    BY <1>5, <2>1 DEF Unshadowed
  <2>3. \A f \in Envs : calling[f] # 0 /\ state.info[calling[f]].id \in DOMAIN state.table => Entered(state, calling[f])
    BY <1>6, <2>1, <2>2 DEF Unshadowed
  <2>4. \A j \in Timer!Infos : ~state.info[j].repeat /\ fired[j] # 0 =>
          fired[j] = 1 /\ (calling[state.info[j].env] = j \/ state.loop[j] # "armed")
    <3> SUFFICES ASSUME NEW j \in Timer!Infos, ~state.info[j].repeat, fired[j] # 0
                 PROVE  fired[j] = 1 /\ (calling[state.info[j].env] = j \/ state.loop[j] # "armed")
      OBVIOUS
    <3>1. state.fired[j] # 0 =>
            state.fired[j] = 1 /\ (state.calling[state.info[j].env] = j \/ state.loop[j] # "armed")
      BY <2>1 DEF Unshadowed
    <3>2. i # 0 /\ j # 0
      BY DEF Timer!Infos
    <3>3. CASE j = i
      <4>1. state.fired[i] = 0
        BY <1>5, <3>1, <3>2, <3>3
      <4> QED BY <1>6, <1>7, <3>3, <4>1
    <3>4. CASE j # i
      <4>1. state.fired[j] = 1 /\ fired[j] = 1 /\ j <= state.made
        <5>1. fired[j] = state.fired[j]
          BY <1>7, <3>4
        <5>2. state.fired[j] = 1
          BY <3>1, <5>1
        <5>3. ~(j > state.made)
          BY <1>1, <5>2 DEF Known
        <5>4. j <= state.made
          BY <1>2, <5>3 DEF Timer!Infos
        <5> QED BY <5>1, <5>2, <5>4
      <4>2. state.info[j].env \in Envs
        BY <1>1, <4>1 DEF Known
      <4> QED BY <1>5, <1>6, <3>1, <3>2, <3>4, <4>1, <4>2
    <3> QED BY <3>3, <3>4
  <2> QED BY <1>10, <2>1, <2>3, <2>4 DEF Unshadowed
<1> QED BY <1>9, <1>14, <1>15 DEF TimerInv

(* A timer set after the end of the thread is only counted. *)
LEMMA SetTimeOutFakerKeepsInv ==
  ASSUME TimerAssumption, TimerInv, NEW e, Timer!SetTimeOutFaker(e)
  PROVE  TimerInv'
<1>1. state \in TimerValues /\ Known(state) /\ (state.shadowed = {} => Unshadowed(state))
  BY DEF TimerInv
<1>2. PICK next \in TimerIds : next = (state.next + 1) % Ids
  <2>1. state.next \in TimerIds /\ Ids \in Nat \ {0}
    BY <1>1, TimerFields DEF TimerAssumption
  <2> QED BY <2>1 DEF TimerIds
<1>3. state' = [state EXCEPT !.next = next]
  BY <1>2 DEF Timer!SetTimeOutFaker
<1>4. state' \in TimerValues
  BY <1>1, <1>3, ZenonT(60) DEF TimerValues
<1>5. /\ state'.made = state.made /\ state'.table = state.table /\ state'.info = state.info /\ state'.loop = state.loop
      /\ state'.calling = state.calling /\ state'.starting = state.starting /\ state'.fired = state.fired
      /\ state'.alive = state.alive /\ state'.shadowed = state.shadowed
  BY <1>1, <1>3 DEF TimerValues
<1>6. Known(state')
  BY <1>1, <1>5 DEF Known
<1>7. ASSUME state'.shadowed = {} PROVE Unshadowed(state')
  <2>1. Unshadowed(state) /\ \A j : Entered(state', j) <=> Entered(state, j)
    BY <1>1, <1>5, <1>7 DEF Entered
  <2> QED BY <1>5, <2>1 DEF Unshadowed
<1> QED BY <1>4, <1>6, <1>7 DEF TimerInv

(* A step of the timers keeps the invariant. *)
LEMMA TimerNextKeepsInv ==
  ASSUME TimerAssumption, TimerInv, Timer!Next
  PROVE  TimerInv'
<1>1. PICK e \in Envs :
        \/ \E repeat \in BOOLEAN : Timer!SetTimeout(e, repeat)
        \/ Timer!StartTimer(e) \/ Timer!TerminateWorker(e) \/ Timer!CleanUpHook(e) \/ Timer!SetTimeOutFaker(e)
        \/ \E id \in 0..(Ids - 1) : Timer!ClearTimer(e, id)
        \/ \E i \in Timer!Infos : state.info[i].env = e /\ Timer!TimerCallback(i)
        \/ \E exception \in BOOLEAN : Timer!FunctionReturns(e, exception)
  BY Zenon DEF Timer!Next
<1>2. CASE \E repeat \in BOOLEAN : Timer!SetTimeout(e, repeat)
  BY <1>2, SetTimeoutKeepsInv
<1>3. CASE Timer!StartTimer(e)
  BY <1>3, StartTimerKeepsInv
<1>4. CASE Timer!TerminateWorker(e) \/ Timer!CleanUpHook(e) \/ \E id \in 0..(Ids - 1) : Timer!ClearTimer(e, id)
  BY <1>4, ClearKeepsInv
<1>5. CASE Timer!SetTimeOutFaker(e)
  BY <1>5, SetTimeOutFakerKeepsInv
<1>6. CASE \E i \in Timer!Infos : state.info[i].env = e /\ Timer!TimerCallback(i)
  BY <1>6, TimerCallbackKeepsInv
<1>7. CASE \E exception \in BOOLEAN : Timer!FunctionReturns(e, exception)
  BY <1>7, FunctionReturnsKeepsInv
<1> QED BY <1>1, <1>2, <1>3, <1>4, <1>5, <1>6, <1>7

(* What the invariant says of the timers. *)
LEMMA TimerInvImplies ==
  ASSUME TimerAssumption, TimerInv
  PROVE  Timer!TypeOK /\ Timer!TimersAreCleared
<1>1. state \in TimerValues /\ Known(state) /\ (state.shadowed = {} => Unshadowed(state))
  BY DEF TimerInv
<1>2. /\ state.table \in Tables /\ state.calling \in [Envs -> 0..MaxTimers]
      /\ state.starting \in [Envs -> 0..MaxTimers] /\ state.alive \in SUBSET Envs
      /\ state.loop \in [Timer!Infos -> {"none", "armed", "stopped", "closed"}]
      /\ state.fired \in [Timer!Infos -> Nat] /\ state.made \in 0..MaxTimers
      /\ MaxTimers \in Nat /\ Ids \in Nat \ {0} /\ state.next \in TimerIds
  BY <1>1, TimerFields DEF TimerAssumption
<1>3. \A n \in DOMAIN state.table :
        state.table[n] \in Timer!Infos /\ state.table[n] <= state.made /\ state.info[state.table[n]].id = n
  BY <1>1, <1>2, TableIs DEF Known
<1>4. \A f \in Envs : state.starting[f] # 0 =>
        state.starting[f] \in Timer!Infos /\ state.info[state.starting[f]].env = f /\ state.fired[state.starting[f]] = 0
  BY <1>1, <1>2 DEF Known, Timer!Infos
<1>5. Timer!Range(state.table) = {state.table[n] : n \in DOMAIN state.table}
  BY DEF Timer!Range
<1>6. Timer!TypeOK
  <2>1. DOMAIN state.table \subseteq 0..(Ids - 1)
    BY <1>2, TableIs DEF TimerIds
  <2>2. Timer!Range(state.table) \subseteq Timer!Infos
    BY <1>3, <1>5
  <2>3. \A j \in 1..state.made : state.info[j].env \in Envs
    BY <1>1, <1>2 DEF Known, Timer!Infos
  <2>4. state.shadowed \subseteq Timer!Infos
    BY <1>1, TimerFields
  <2> QED BY <1>2, <2>1, <2>2, <2>3, <2>4 DEF Timer!TypeOK, TimerIds
<1>7. Timer!TimersAreCleared
  <2> SUFFICES ASSUME state.shadowed = {}
               PROVE  /\ \A i \in Timer!Infos :
                           LET entry == state.info[i] IN
                           /\ state.loop[i] = "armed" => entry.id \in DOMAIN state.table /\ state.table[entry.id] = i
                           /\ ~entry.repeat => state.fired[i] <= 1
                           /\ state.loop[i] = "closed" => i \notin Timer!Range(state.table)
                           /\ state.loop[i] = "closed" /\ state.fired[i] = 0 => state.calling[entry.env] # i
                      /\ \A n \in DOMAIN state.table :
                           state.loop[state.table[n]] # "closed" /\ state.info[state.table[n]].env \in state.alive
    BY DEF Timer!TimersAreCleared
  <2>1. Unshadowed(state)
    BY <1>1
  <2>2. ASSUME NEW i \in Timer!Infos
        PROVE  /\ state.loop[i] = "armed" => state.info[i].id \in DOMAIN state.table /\ state.table[state.info[i].id] = i
               /\ ~state.info[i].repeat => state.fired[i] <= 1
               /\ state.loop[i] = "closed" => i \notin Timer!Range(state.table)
               /\ state.loop[i] = "closed" /\ state.fired[i] = 0 => state.calling[state.info[i].env] # i
    <3>1. state.loop[i] = "armed" => state.info[i].id \in DOMAIN state.table /\ state.table[state.info[i].id] = i
      BY <2>1 DEF Unshadowed, Entered
    <3>2. ~state.info[i].repeat => state.fired[i] <= 1
      BY <1>2, <2>1 DEF Unshadowed
    <3>3. state.loop[i] = "closed" => i \notin Timer!Range(state.table)
      BY <1>5, <2>1 DEF Unshadowed
    <3>4. state.loop[i] = "closed" /\ state.fired[i] = 0 => state.calling[state.info[i].env] # i
      <4>1. state.loop[i] = "closed" => state.info[i].env \in Envs
        <5> SUFFICES ASSUME state.loop[i] = "closed" PROVE state.info[i].env \in Envs
          OBVIOUS
        <5>1. ~(i > state.made)
          BY <1>1 DEF Known
        <5>2. i <= state.made
          BY <1>2, <5>1 DEF Timer!Infos
        <5> QED BY <1>1, <5>2 DEF Known
      <4>2. \A f \in Envs : state.calling[f] # 0 => state.fired[state.calling[f]] >= 1
        BY <1>1 DEF Known
      <4>3. i # 0 /\ ~(0 >= 1)
        BY DEF Timer!Infos
      <4> QED BY <4>1, <4>2, <4>3
    <3> QED BY <3>1, <3>2, <3>3, <3>4
  <2>3. \A n \in DOMAIN state.table :
          state.loop[state.table[n]] # "closed" /\ state.info[state.table[n]].env \in state.alive
    BY <2>1 DEF Unshadowed
  <2> QED BY <2>2, <2>3
<1> QED BY <1>6, <1>7
=============================================================================
