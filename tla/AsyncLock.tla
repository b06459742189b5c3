----------------------------- MODULE AsyncLock -----------------------------
(***************************************************************************)
(* One AsyncLock of @arkts.utils and the LockRequests that threads make    *)
(* on it: js_concurrent_module/utils/locks/async_lock.cpp and              *)
(* lock_request.cpp.                                                       *)
(*                                                                         *)
(* Every thread runs one engine (napi_env) and one event loop.  The lock   *)
(* is shared by the threads and its two lists are guarded by               *)
(* asyncLockMutex_.  An action is one critical section of that mutex, or   *)
(* one piece of code between two of them.  ProcessLockRequest drops the    *)
(* mutex in the middle of ProcessPendingLockRequestUnsafe to run or to     *)
(* post the callback of the request it granted; what a thread still has    *)
(* to do after that is on its stack (the top of the stack is its head).    *)
(*                                                                         *)
(* Requests are the addresses of LockRequest objects.  A deleted request   *)
(* frees its address, which a later `new' may return again.                *)
(***************************************************************************)
EXTENDS Naturals, Sequences, FiniteSets

CONSTANTS
  Threads,    \* threads that share the lock, one engine each
  Requests,   \* addresses at which LockRequest objects are allocated
  Modes,      \* lock modes the clients ask for
  Mortal,     \* threads whose engine may be destroyed
  Uses,       \* what the clients make use of: options, nested calls
  None        \* no request, the null pointer

Features == {"timeout", "signal", "isAvailable", "nested"}

ASSUME ConstantsAssumption ==
  /\ Modes \subseteq {"shared", "exclusive"}
  /\ Mortal \subseteq Threads
  /\ Uses \subseteq Features
  /\ None \notin Requests

VARIABLES
  env,          \* is the engine of a thread alive, running its cleanup, dead
  req,          \* the LockRequest objects
  promise,      \* the promise of the request last created at an address
  pendingList,  \* AsyncLock::pendingList_
  heldList,     \* AsyncLock::heldList_; its order is not used by the lock
  lockStatus,   \* AsyncLock::lockStatus_
  queued,       \* requests whose async work is queued on their engine
  attached,     \* requests whose FinallyCallback is attached to a promise
  stack         \* what each thread is in the middle of

lockVars == <<pendingList, heldList, lockStatus>>
vars == <<env, req, promise, pendingList, heldList, lockStatus, queued,
          attached, stack>>

Request == [owner : Threads, mode : Modes, timer : BOOLEAN,
            signal : BOOLEAN, hook : BOOLEAN, invalid : BOOLEAN]

ASSUME NoneIsNoObject == None \notin Request

(* Frames of a thread's stack. *)
Enqueue(r)   == [op |-> "enqueue", req |-> r]    \* LockAsync, request created
Process      == [op |-> "process", req |-> None] \* ProcessPendingLockRequest
Batch(sync)  == [op |-> "batch", req |-> sync]   \* loop over shared requests
Deliver(r)   == [op |-> "deliver", req |-> r]    \* LockRequest::CallCallbackAsync
Call(r)      == [op |-> "call", req |-> r]       \* LockRequest::CallCallback
Callback(r)  == [op |-> "callback", req |-> r]   \* the client's callback
Complete(r)  == [op |-> "complete", req |-> r]   \* CleanUpLockRequestOnCompletion

Frame == [op : {"enqueue", "process", "batch", "deliver", "call", "callback",
                "complete"},
          req : Requests \cup {None}]

Live(r) == req[r] # None
Idle(t) == stack[t] = <<>>
Top(t, op, r) == stack[t] # <<>> /\ Head(stack[t]) = [op |-> op, req |-> r]
Below(t) == Tail(stack[t])
Replace(t, frames) == stack' = [stack EXCEPT ![t] = frames \o Below(t)]

(* Settling a deferred a second time is a use of freed memory. *)
Settle(r) == promise' = [promise EXCEPT ![r] =
                           IF @ = "open" THEN "settled" ELSE "settledTwice"]

----------------------------------------------------------------------------
(* The lock, under asyncLockMutex_. *)

\* Mutant: a request is compatible with the holders when its mode is theirs.
CanAcquireInSameMode(mode, held, status) == held = {} \/ mode = status \/ status = "unlock"

\* AsyncLock::CanAcquireLockUnsafe
CanAcquire(mode, held, status) ==
  \/ held = {}
  \/ mode = "shared" /\ status = "shared"
  \/ status = "unlock"

\* Mutant: the callback is always called in place.
GrantInPlace(t, pend, held, sync, rest) ==
  /\ heldList' = held \cup {Head(pend)}
  /\ pendingList' = Tail(pend)
  /\ stack' = [stack EXCEPT ![t] = <<Call(Head(pend)), Batch(sync)>> \o rest]

(* ProcessLockRequest for the front of pend: the request changes lists,    *)
(* then the mutex is dropped.  Only a shared request that the caller       *)
(* itself is making gets its callback called in place.                     *)
Grant(t, pend, held, sync, rest) ==
  LET r == Head(pend) IN
  /\ heldList' = held \cup {r}
  /\ pendingList' = Tail(pend)
  /\ stack' = [stack EXCEPT ![t] =
       IF req[r].mode = "shared"
       THEN <<IF r = sync THEN Call(r) ELSE Deliver(r), Batch(sync)>> \o rest
       ELSE <<Deliver(r)>> \o rest]

(* ProcessPendingLockRequestUnsafe up to the first drop of the mutex;      *)
(* `rest' is what the thread goes on with.                                 *)
ProcessPendingUnsafe(t, pend, held, status, sync, rest) ==
  LET mode == req[Head(pend)].mode IN
  \/ /\ CanAcquire(mode, held, status)
     /\ lockStatus' = mode
     /\ Grant(t, pend, held, sync, rest)
  \/ /\ ~CanAcquire(mode, held, status)
     /\ pendingList' = pend /\ heldList' = held /\ lockStatus' = status
     /\ stack' = [stack EXCEPT ![t] = rest]

\* Mutant: the queue is not looked at.
ProcessNothing(t, pend, held, status, rest) ==
  /\ pendingList' = pend /\ heldList' = held /\ lockStatus' = status
  /\ stack' = [stack EXCEPT ![t] = rest]

(* The callers that first look whether there is anything to process.  The  *)
(* branch refCount_ == 0 of the code is never taken: see AsyncLockManager. *)
ProcessPendingIfAny(t, pend, held, status, rest) ==
  \/ /\ pend # <<>>
     /\ ProcessPendingUnsafe(t, pend, held, status, None, rest)
  \/ /\ pend = <<>>
     /\ pendingList' = pend /\ heldList' = held /\ lockStatus' = status
     /\ stack' = [stack EXCEPT ![t] = rest]

\* Mutant: the status is reset although other requests hold the lock.
CleanUpAlwaysUnlocks(t, r, rest) ==
  /\ r \in heldList
  /\ req' = [req EXCEPT ![r] = None]
  /\ ProcessPendingIfAny(t, pendingList, heldList \ {r}, "unlock", rest)

(* CleanUpLockRequestOnCompletion: leave the held list, delete the request *)
(* and let the next ones in.                                               *)
CleanUpOnCompletion(t, r, rest) ==
  LET held == heldList \ {r} IN
  /\ r \in heldList
  /\ req' = [req EXCEPT ![r] = None]
  /\ ProcessPendingIfAny(t, pendingList, held,
                         IF held = {} THEN "unlock" ELSE lockStatus, rest)

\* LockRequest::Release: the timer is closed
Release(r) == req' = [req EXCEPT ![r].timer = FALSE]

Position(r) == CHOOSE i \in DOMAIN pendingList : pendingList[i] = r
IsPending(r) == \E i \in DOMAIN pendingList : pendingList[i] = r

\* Mutant: the entry is cleared, not erased.
RemovePendingLeavesHole(r) ==
  /\ IsPending(r)
  /\ pendingList' = [pendingList EXCEPT ![Position(r)] = None]
  /\ UNCHANGED <<heldList, lockStatus>>

\* AsyncLock::CleanUpLockRequest, when it wins the race
RemovePending(r) ==
  /\ IsPending(r)
  /\ pendingList' = SubSeq(pendingList, 1, Position(r) - 1)
                    \o SubSeq(pendingList, Position(r) + 1, Len(pendingList))
  /\ UNCHANGED <<heldList, lockStatus>>

----------------------------------------------------------------------------
(* What a thread does. *)

Init ==
  /\ env = [t \in Threads |-> "alive"]
  /\ req = [r \in Requests |-> None]
  /\ promise = [r \in Requests |-> "settled"]
  /\ pendingList = <<>> /\ heldList = {} /\ lockStatus = "unlock"
  /\ queued = {} /\ attached = {}
  /\ stack = [t \in Threads |-> <<>>]

(* The client calls lockAsync from a task of its own, or from inside a     *)
(* callback that it runs under this very lock.                             *)
MayCallLockAsync(t) ==
  \/ Idle(t) /\ env[t] = "alive"
  \/ "nested" \in Uses /\ env[t] # "dead" /\ \E r \in Requests : Top(t, "callback", r)

(* LockAsync up to the creation of the request.  Whether the lock is       *)
(* available is looked at here, in a critical section of its own.          *)
LockAsync(t, r, mode, options) ==
  /\ MayCallLockAsync(t)
  /\ ~Live(r)
  /\ ~("isAvailable" \in options /\ ~CanAcquire(mode, heldList, lockStatus))
  /\ req' = [req EXCEPT ![r] =
               [owner |-> t, mode |-> mode, timer |-> "timeout" \in options,
                signal |-> "signal" \in options, hook |-> TRUE, invalid |-> FALSE]]
  /\ promise' = [promise EXCEPT ![r] = "open"]
  /\ stack' = [stack EXCEPT ![t] = <<Enqueue(r)>> \o @]
  /\ UNCHANGED <<env, lockVars, queued, attached>>

\* Mutant: a request that is made goes before those that wait.
PushFront(t, r) ==
  /\ Top(t, "enqueue", r)
  /\ ProcessPendingUnsafe(t, <<r>> \o pendingList, heldList, lockStatus, r, Below(t))
  /\ UNCHANGED <<env, req, promise, queued, attached>>

(* The rest of LockAsync: queue the request and serve the front of the     *)
(* queue, whoever that is.                                                 *)
PushBack(t, r) ==
  /\ Top(t, "enqueue", r)
  /\ ProcessPendingUnsafe(t, Append(pendingList, r), heldList, lockStatus, r, Below(t))
  /\ UNCHANGED <<env, req, promise, queued, attached>>

FrontIsShared == pendingList # <<>> /\ req[Head(pendingList)].mode = "shared"

(* ProcessLockRequest takes the mutex again and the loop over the shared   *)
(* requests goes on with the front of the queue as it is now.              *)
NextInBatch(t, sync) ==
  /\ Top(t, "batch", sync)
  /\ \/ /\ FrontIsShared
        /\ Grant(t, pendingList, heldList, sync, Below(t))
        /\ UNCHANGED lockStatus
     \/ /\ ~FrontIsShared
        /\ Replace(t, <<>>)
        /\ UNCHANGED lockVars
  /\ UNCHANGED <<env, req, promise, queued, attached>>

(* CallCallbackAsync: post the callback to the engine of the request, or   *)
(* drop the request if that engine is gone.                                *)
CallCallbackAsync(t, r) ==
  /\ Top(t, "deliver", r)
  /\ \/ /\ env[req[r].owner] # "dead"
        /\ queued' = queued \cup {r}
        /\ Replace(t, <<>>)
        /\ UNCHANGED <<req, lockVars>>
     \/ /\ env[req[r].owner] = "dead"
        /\ CleanUpOnCompletion(t, r, Below(t))
        /\ UNCHANGED queued
  /\ UNCHANGED <<env, promise, attached>>

(* AsyncAfterWorkCallback, on the loop of the request's engine.  While the *)
(* engine is destroyed its loop still completes the queued works.          *)
AsyncAfterWorkCallback(r) ==
  LET t == req[r].owner IN
  /\ r \in queued
  /\ Idle(t) /\ env[t] # "dead"
  /\ queued' = queued \ {r}
  /\ \/ /\ ~req[r].invalid
        /\ stack' = [stack EXCEPT ![t] = <<Call(r)>>]
        /\ UNCHANGED req
     \/ /\ req[r].invalid
        /\ stack' = [stack EXCEPT ![t] = <<Complete(r)>>]
        /\ Release(r)
  /\ UNCHANGED <<env, promise, lockVars, attached>>

(* CallCallback up to the call of the client's callback, which does not    *)
(* happen when the abort signal is set.                                    *)
CallCallback(t, r) ==
  /\ Top(t, "call", r)
  /\ \/ /\ req' = [req EXCEPT ![r].hook = FALSE]
        /\ Replace(t, <<Callback(r)>>)
        /\ UNCHANGED promise
     \/ /\ req[r].signal
        /\ req' = [req EXCEPT ![r].hook = FALSE, ![r].timer = FALSE]
        /\ Settle(r)
        /\ Replace(t, <<Complete(r)>>)
  /\ UNCHANGED <<env, lockVars, queued, attached>>

(* The callback returned a value or threw: the promise is settled and the  *)
(* request released.                                                       *)
CallbackReturns(t, r) ==
  /\ Top(t, "callback", r)
  /\ Settle(r)
  /\ Replace(t, <<Complete(r)>>)
  /\ Release(r)
  /\ UNCHANGED <<env, lockVars, queued, attached>>

\* Mutant: the return after attaching FinallyCallback is forgotten.
CallbackReturnsPromiseAndGoesOn(t, r) ==
  /\ Top(t, "callback", r)
  /\ Settle(r)
  /\ Replace(t, <<Complete(r)>>)
  /\ attached' = attached \cup {r}
  /\ UNCHANGED <<env, req, lockVars, queued>>

(* The callback returned a promise: the request stays held until that one  *)
(* settles.                                                                *)
CallbackReturnsPromise(t, r) ==
  /\ Top(t, "callback", r)
  /\ Settle(r)
  /\ Replace(t, <<>>)
  /\ attached' = attached \cup {r}
  /\ UNCHANGED <<env, req, lockVars, queued>>

FinallyCallback(r) ==
  LET t == req[r].owner IN
  /\ r \in attached
  /\ Idle(t) /\ env[t] # "dead"
  /\ attached' = attached \ {r}
  /\ CleanUpOnCompletion(t, r, <<>>)
  /\ UNCHANGED <<env, promise, queued>>

Completion(t, r) ==
  /\ Top(t, "complete", r)
  /\ CleanUpOnCompletion(t, r, Below(t))
  /\ UNCHANGED <<env, promise, queued, attached>>

\* Mutant: after the timeout the queue is not served.
TimeoutWithoutProcessing(r) ==
  /\ Live(r) /\ req[r].timer
  /\ Idle(req[r].owner) /\ env[req[r].owner] # "dead"
  /\ RemovePending(r) /\ Settle(r)
  /\ req' = [req EXCEPT ![r] = None]
  /\ UNCHANGED <<env, queued, attached, stack>>

\* Mutant: the promise is not rejected.
TimeoutWithoutReject(r) ==
  /\ Live(r) /\ req[r].timer
  /\ Idle(req[r].owner) /\ env[req[r].owner] # "dead"
  /\ RemovePending(r)
  /\ req' = [req EXCEPT ![r] = None]
  /\ stack' = [stack EXCEPT ![req[r].owner] = <<Process>>]
  /\ UNCHANGED <<env, promise, queued, attached>>

\* Mutant: a request that has been granted meanwhile is deleted all the same.
TimeoutWithoutRaceCheck(r) ==
  /\ Live(r) /\ req[r].timer
  /\ Idle(req[r].owner) /\ env[req[r].owner] # "dead"
  /\ pendingList' = SelectSeq(pendingList, LAMBDA q : q # r)
  /\ Settle(r)
  /\ req' = [req EXCEPT ![r] = None]
  /\ stack' = [stack EXCEPT ![req[r].owner] = <<Process>>]
  /\ UNCHANGED <<env, heldList, lockStatus, queued, attached>>

(* TimeoutCallback, on the loop of the request's engine.  It does nothing  *)
(* to a request that has been granted in the meantime.                     *)
TimeoutCallback(r) ==
  /\ Live(r) /\ req[r].timer
  /\ LET t == req[r].owner IN
     /\ Idle(t) /\ env[t] # "dead"
     /\ \/ /\ RemovePending(r)
           /\ Settle(r)
           /\ req' = [req EXCEPT ![r] = None]
           /\ stack' = [stack EXCEPT ![t] = <<Process>>]
        \/ /\ ~IsPending(r)
           /\ req' = [req EXCEPT ![r].timer = FALSE]
           /\ UNCHANGED <<lockVars, promise, stack>>
  /\ UNCHANGED <<env, queued, attached>>

ProcessPendingLockRequest(t) ==
  /\ Top(t, "process", None)
  /\ ProcessPendingIfAny(t, pendingList, heldList, lockStatus, Below(t))
  /\ UNCHANGED <<env, req, promise, queued, attached>>

(* The engine of t is destroyed: its cleanup hooks run, its loop completes *)
(* the works queued on it, then it is no longer alive.                     *)
DestroyEngine(t) ==
  /\ t \in Mortal /\ Idle(t) /\ env[t] = "alive"
  /\ env' = [env EXCEPT ![t] = "closing"]
  /\ UNCHANGED <<req, promise, lockVars, queued, attached, stack>>

\* Mutant: the request is marked, but left in the queue.
EnvCleanupOnlyMarks(r) ==
  /\ Live(r) /\ req[r].hook
  /\ Idle(req[r].owner) /\ env[req[r].owner] = "closing"
  /\ req' = [req EXCEPT ![r].hook = FALSE, ![r].invalid = TRUE]
  /\ UNCHANGED <<env, promise, lockVars, queued, attached, stack>>

EnvCleanup(r) ==
  /\ Live(r) /\ req[r].hook
  /\ LET t == req[r].owner IN
     /\ Idle(t) /\ env[t] = "closing"
     /\ \/ /\ RemovePending(r)
           /\ req' = [req EXCEPT ![r] = None]
           /\ stack' = [stack EXCEPT ![t] = <<Process>>]
        \/ /\ ~IsPending(r)
           /\ req' = [req EXCEPT ![r].hook = FALSE, ![r].invalid = TRUE]
           /\ UNCHANGED <<lockVars, stack>>
  /\ UNCHANGED <<env, promise, queued, attached>>

EngineDestroyed(t) ==
  /\ Idle(t) /\ env[t] = "closing"
  /\ \A r \in Requests : Live(r) /\ req[r].owner = t => ~req[r].hook /\ r \notin queued
  /\ env' = [env EXCEPT ![t] = "dead"]
  /\ UNCHANGED <<req, promise, lockVars, queued, attached, stack>>

(* What a thread does next when it is in the middle of something. *)
Step(t) ==
  \/ \E r \in Requests : \/ PushBack(t, r)
                         \/ CallCallbackAsync(t, r)
                         \/ CallCallback(t, r)
                         \/ CallbackReturns(t, r)
                         \/ CallbackReturnsPromise(t, r)
                         \/ Completion(t, r)
  \/ \E sync \in Requests \cup {None} : NextInBatch(t, sync)
  \/ ProcessPendingLockRequest(t)

Next ==
  \/ \E t \in Threads : \/ Step(t)
                        \/ DestroyEngine(t)
                        \/ EngineDestroyed(t)
  \/ \E t \in Threads, r \in Requests, mode \in Modes,
        options \in SUBSET (Uses \ {"nested"}) : LockAsync(t, r, mode, options)
  \/ \E r \in Requests : \/ AsyncAfterWorkCallback(r)
                         \/ FinallyCallback(r)
                         \/ TimeoutCallback(r)
                         \/ EnvCleanup(r)

Spec == Init /\ [][Next]_vars

(* Threads run what they have begun, their loops complete what is queued,  *)
(* and the clients' callbacks and promises end.                            *)
Fairness ==
  /\ \A t \in Threads : WF_vars(Step(t))
  /\ \A r \in Requests : SF_vars(AsyncAfterWorkCallback(r)) /\ SF_vars(FinallyCallback(r))

FairSpec == Spec /\ Fairness

----------------------------------------------------------------------------
(* What must hold. *)

TypeOK ==
  /\ env \in [Threads -> {"alive", "closing", "dead"}]
  /\ req \in [Requests -> Request \cup {None}]
  /\ promise \in [Requests -> {"open", "settled", "settledTwice"}]
  /\ pendingList \in Seq(Requests)
  /\ heldList \subseteq Requests
  /\ lockStatus \in {"unlock", "shared", "exclusive"}
  /\ queued \subseteq Requests /\ attached \subseteq Requests
  /\ stack \in [Threads -> Seq(Frame)]

Shared(r) == req[r].mode = "shared"
Frames(t) == {stack[t][i] : i \in DOMAIN stack[t]}

(* A request that holds the lock shares it only with shared requests, and  *)
(* only if it is itself shared: the point of LOCK_MODE_EXCLUSIVE.          *)
MutualExclusion ==
  \A r, s \in heldList : r # s => Shared(r) /\ Shared(s)

(* Two exclusive requests never hold the lock together, however the        *)
(* shared ones got in: ProcessPendingLockRequestUnsafe lets an exclusive   *)
(* request in only when nobody holds the lock.                             *)
AtMostOneExclusive ==
  \A r, s \in heldList : ~Shared(r) /\ ~Shared(s) => r = s

(* Nobody waits for a lock that nobody holds: each critical section that   *)
(* may leave heldList empty has looked at the queue.                       *)
NobodyWaitsInVain == pendingList # <<>> => heldList # {}

(* A front request that could be let in is about to be: the thread that    *)
(* took the one before it out of the queue has still to look at the queue. *)
NoLostWakeup ==
  pendingList # <<>> /\ CanAcquire(req[Head(pendingList)].mode, heldList, lockStatus)
  => \E t \in Threads : \E f \in Frames(t) : f.op \in {"batch", "process"}

(* The lists, the queued works, the promises and the code that is running  *)
(* refer to requests that are allocated; a request waits once or is held.  *)
NoUseAfterDelete ==
  /\ \A i \in DOMAIN pendingList : Live(pendingList[i]) /\ pendingList[i] \notin heldList
  /\ \A i, j \in DOMAIN pendingList : pendingList[i] = pendingList[j] => i = j
  /\ \A r \in heldList \cup queued \cup attached : Live(r)
  /\ \A t \in Threads : \A f \in Frames(t) :
       f.op \notin {"batch", "process"} => Live(f.req)

(* Whoever completes a request finds it in heldList (the code logs a fatal *)
(* error otherwise), and a held request is completed exactly once: it is   *)
(* carried by one frame of one thread, or by its work, or by its promise.  *)
Carriers(r) ==
  UNION {{<<t, i>> : i \in {j \in DOMAIN stack[t] : stack[t][j].req = r
            /\ stack[t][j].op \in {"deliver", "call", "callback", "complete"}}}
         : t \in Threads}

CompletedOnce ==
  \A r \in Requests :
    Cardinality(Carriers(r)) + (IF r \in queued THEN 1 ELSE 0)
                             + (IF r \in attached THEN 1 ELSE 0)
    = IF r \in heldList THEN 1 ELSE 0

(* An engine that is gone left no request behind in the queue, and in      *)
(* heldList only those whose callback has returned a promise or that some  *)
(* other thread is just handing over or completing.                        *)
NoRequestOfDeadEngine ==
  \A r \in Requests : Live(r) /\ env[req[r].owner] = "dead" =>
    /\ ~IsPending(r)
    /\ r \in attached \/ \E t \in Threads : \E f \in Frames(t) : f.req = r

(* No request of a live engine disappears unless its promise has been      *)
(* settled, exactly once, whether its time ran out, its callback ended or  *)
(* its signal was aborted.                                                 *)
NoSilentDrop ==
  [][\A r \in Requests : Live(r) /\ env[req[r].owner] = "alive" /\ ~Live(r)'
       => promise'[r] = "settled"]_vars

(* The callback of a request runs on the thread that made the request,     *)
(* whoever serves the queue: in place on another thread only where the     *)
(* request has the address of the one that thread itself has made, which   *)
(* has been deleted while the loop over shared requests goes on.           *)
CallbackOnOwnThread ==
  \A t \in Threads, r \in Requests :
    Callback(r) \in Frames(t) => req[r].owner = t \/ Batch(r) \in Frames(t)

(* Every promise lockAsync returned is settled in the end. *)
EveryPromiseSettles ==
  \A r \in Requests : promise[r] = "open" ~> promise[r] = "settled"

(* The lock seen by its clients: with the modes of the requests in its     *)
(* lists, it is a first-come first-served shared/exclusive lock.           *)
Ticket(r) == [id |-> r, mode |-> req[r].mode]
Abstract == INSTANCE SharedExclusiveLock
              WITH Ids <- Requests, LockModes <- Modes,
                   queue <- [i \in DOMAIN pendingList |-> Ticket(pendingList[i])],
                   holders <- {Ticket(r) : r \in heldList}

(* The implementation relation, as a property of the lock's steps. *)
ImplementsSharedExclusiveLock == Abstract!SharedExclusiveSpec
=============================================================================
