# commonlibrary_ets_utils in TLA+

The repository implements the ArkTS base library in C++ and TypeScript: the concurrency
modules (`@arkts.utils` locks and conditions, task pool, worker), the system modules (timers,
processes, console) and the API and utility modules (URL, XML, buffers, containers, streams).
This project models the parts whose correctness depends on the order in which threads,
event loops and callbacks run, and those of the library where a long sequence of calls or a cut of the data
in an odd place may go wrong. It checks them with TLC on small instances and proves the most
important invariants of the shared parts with TLAPS for every value of the constants.

Paths below are relative to `src/`.

## 1. The system

Every JS thread has one engine (`napi_env`) and one libuv event loop. Native objects (locks,
conditions, tasks) are shared by the threads; JS callbacks run only on the thread that owns
them, and other threads reach them through posted works, posted events or `uv_async_send`.

| Component | State | Operations | Interacts with |
|---|---|---|---|
| **AsyncLock, LockRequest** `js_concurrent_module/utils/locks` | `pendingList_`, `heldList_`, `lockStatus_`; per request its timer, abort signal, cleanup hook, validity flag and promise | `lockAsync`, completion of a callback or of the promise it returned, timeout, abort, engine cleanup | engines of all threads (async works), timers, deadlock detector |
| **Lock registry** `async_lock_manager` | `lockMap`, reference counts | `request`, `query`, `queryAll` | locks |
| **Deadlock detector** `deadlock_helpers`, `graph.h` | none: a function of the lists of all locks | called when a `lockAsync` times out | registry |
| **ConditionVariable** `utils/condition` | name registry, reference count, queue of waiting tasks, timers | `request`, `wait`, `waitFor`, `notifyOne`, `notifyAll`, garbage collection of handles, engine cleanup | events posted to engines |
| **Task dependencies and cancellation** `taskpool/task*.cpp`, `task_manager.cpp` | `dependTaskInfos_`, `dependentTaskInfos_`, `pendingTaskInfos_`, `taskState_`, `hasDependency_`, the queues | `addDependency`, `removeDependency`, `execute`, `cancel`, results, release of a Task | workers, host threads |
| **Worker pool** `taskpool/worker.cpp`, `task_manager.cpp` | workers, idle set, time-out set, `expandingCount_`, priority queues, `runningCount_` per worker | create, expand, shrink, release, perform, notify | tasks, timers of the manager thread |
| **Runners** `sequence_runner`, `async_runner`, `base_runner_manager` | current task, waiting queue, running count, global registry with counts | `execute`, trigger the next task, discard, cancel, destruct | tasks |
| **Task groups** `task_group*` | members, results, the promise | `addTask`, `execute`, `cancel`, result | tasks |
| **Worker** `worker/worker.cpp`, `message_queue` | runner state, host state, two message queues, handles of two loops | `postMessage`, `terminate`, `close`, sync calls to global objects | two threads and their loops |
| **System timers** `js_sys_module/timer` | timer table shared by engines, 32-bit id | set, clear, callback, engine cleanup | event loop |
| **Process, ChildProcess** `js_sys_module/process` | options, flags, outputs and pipes of a child | `runCmd`, `wait`, `close`, `kill`, `getOutput`, timeout, collection | operating system, works of libuv |
| **Console, dfx** | counters, timers, groups | print | none |
| **URL, URI** `js_api_module/url`, `uri` | native record, fields of the script object, parameter lists | parse, get and set each part, resolve, normalize, print | none |
| **XML, convertxml** | parser and serializer state | parse, serialize | none |
| **Buffer, Blob, util, containers, streams, JSON** | byte pools, caches, trees, tables, deques, stream watermarks | the usual ones | none, streams: event loop |
| **base_sdk, platform, tools** | conversion table; none | register, call; system calls | other kits; OS |

What is hard: two critical sections where one is needed; requests and tasks that a timer, a
cancellation, a completion and the end of an engine compete for; callbacks that call back into
the object that calls them; wake-ups that must not be lost; numbers that wrap. `PROJECT.json`
lists each such place with its line under `hazards`.

What makes each component correct:

- lock: exclusive requests exclude, first come first served, each request completed once by
  exactly one party, none touched after its deletion, none left behind, every promise settled;
- detector: a warning exactly when there is a cycle of waiting threads;
- condition: exact reference count, each waiter woken once by notification, timer or cleanup,
  a name stands for one condition;
- dependencies: no task is performed before those it waits for, none is lost or performed
  twice, no circle, a cancellation finds all tables that mention the task;
- worker pool: a queued task is performed eventually, a released worker has nothing to do, a
  worker is released at most once, counts are exact, low priorities are served;
- runners: serial order, capacity never exceeded, a runner with waiting tasks has one running;
- groups: settled once with all results, or rejected once;
- worker: handles closed once, no message after termination, nobody waits for a dead peer;
- timers: a record is deleted once, a cleared timer does not fire, ids of live timers differ;
- child processes: waited for once and not left behind, read from while they run, status and output as they were;
- URLs and URIs: what is printed is read back as the same, their views agree after every change;
- pure parts: equal to a reference definition.

## 2. Modules

The first group models the parts in which threads share objects. Each has a specification, an MC module with
the values TLC uses, and runs of its own.

| Module | Models | State and actions against the code |
|---|---|---|
| `SharedExclusiveLock` | what a lock promises (abstract) | a queue and a set of holders; a step may join, leave, withdraw or serve, and let the front request in |
| `AsyncLock` | `async_lock.cpp`, `lock_request.cpp` | `pendingList`, `heldList`, `lockStatus` are the members of the same name; `req` the request objects by address; `env` the engines; `queued` the async works, `attached` the `finally` handlers; `stack` what a thread has still to do when it drops `asyncLockMutex_` inside a function. One action per critical section or callback. `SharedExclusiveLock` is refined with `queue <- pendingList`, `holders <- heldList` |
| `DeadlockDetector` | `CollectLockDependencies`, `Graph`, `CheckDeadlocks` | operators that follow the depth-first search step by step; the reference is reachability; the MC module enumerates lock tables |
| `ConditionVariable` | `utils/condition/*` | `cond` the objects with `refCount` and task queue, `condMap` the registry, `events` posted notifications by thread, `removing` the gap between the two critical sections of `TryRemoveCondition` |
| `TaskDependency` | dependency tables, queue, pending tasks, cancel | the members of `TaskManager` and `Task` of the same names; `worker` and `host` are what the threads are in the middle of, `cancelMessage` the cancellation posted to the host thread |
| `Runners` | `base_runner*`, `sequence_runner*`, `async_runner*` and the tasks of runners in `task.cpp`, `task_manager.cpp`, `taskpool.cpp`, `worker.cpp` | `refCount`, `tasks`, `currentTaskId`, `runningCount` are the members of the runner, `alive` its entry in `runners_`, `handles` the JS objects that wrap it; a task is in `tasks`, `taskQueue`, `performing`, `results` or a signal to its owner; `job` is what a thread has still to do between two critical sections |

The modules of the second group have one record variable each, named for the module. They share no state in the
code either: a `Base64Helper` knows nothing of a `Deque`. `ConcurrencyMC` (with `Parts`, which declares that variable) and `LibraryMC` choose one of them in the
initial state (`part`) and run it alone on the variable they have in common; a state of a run is a state of one module.
The four modules of the task pool in `ConcurrencyMC` look at one system from four sides. What one side decides the others leave open
(a worker of `TaskLife` may dequeue at any time, `WorkerPool` only counts tasks), so that each covers what the others may do to it.

| Module | Models | State and actions against the code |
|---|---|---|
| `WorkerPool` (in `ConcurrencyMC`) | `worker.cpp` and the worker management of `task_manager.cpp` | `workers`, `idle`, `timeout` are `workers_`, `idleWorkers_`, `timeoutWorkers_`, `expanding` is `expandingCount_`; per worker its thread, state and `runningCount_`; `signals` are the `uv_async_send`s that have not arrived. Steps of the monitor thread, of workers and of the host interleave; the number to create is computed in one critical section and each worker is added in another |
| `TaskQueues` (in `ConcurrencyMC`) | `task_queue.cpp`, `EnqueueTaskId` to `GetTaskByPriority` | lengths of the queues, turns taken by each, the two counters, the flag that one idle task runs, and what `IsChooseIdle` told a worker before the queues were locked |
| `TaskLife` (in `ConcurrencyMC`) | `task.cpp`, `taskpool.cpp` for one Task object | its state, `currentTaskInfo_`, `pendingTaskInfos_`, timers, reference count; execute, executeDelayed, executePeriodically, timeout, cancel on both threads, and the worker |
| `TaskGroup` (in `ConcurrencyMC`) | `task_group*.cpp` | executions behind each other, finished tasks, cancel of the group or of one task, timeout, `onRejectResultSignal_` |
| `JsWorker` (in `ConcurrencyMC`) | `worker/worker.cpp`, `message_queue` | `runnerState_`, `hostState_`, the queues of both directions, handles, the lock a synchronous call keeps, and who deletes the object |
| `WorkerListeners` (in `ConcurrencyMC`) | listeners and global-call objects of `worker.cpp` | the listeners by the order of their making, the lists by event as sets of them (a list is in that order, since listeners are only appended and removed), the dispatches in progress, innermost first, references; a listener may add, remove and dispatch |
| `ChildProcess` (in `ConcurrencyMC`) | `process/js_childprocess.cpp` | the object with its flags, what the thread of the script is blocked in (`js`), the two readers and the timeout as works of the thread pool, and outside the code the process, its status and its pipes. A record that was deleted while its pointer is kept is read as whatever is there |
| `SysTimer` (in `ConcurrencyMC`) | `timer/sys_timer.cpp` | the table of all threads, the loops, the callbacks being run, the counter modulo `Ids` |
| `Streams` (in `LibraryMC`) | `stream/src/stream_js.ts` | buffers, flags and jobs of a Readable, a Writable and a pipe; the program answers at once or later |
| `Lists`, `Maps` (in `LibraryMC`) | `js_util_module/container` | the arrays, rings, nodes, trees and tables of each kind, beside the sequence or function it stands for |
| `Buffers` (in `LibraryMC`) | `buffer/src/js_buffer.ts`, `js_buffer.cpp`, `js_blob.cpp` | memory blocks, buffers as offset and length on them, the pool |
| `Base64`, `TextCodecs` (in `LibraryMC`) | `js_base64.cpp`, `util_js.ts`, `converter.cpp`, `js_textdecoder.cpp`, `util_helper.cpp` | the codes as functions on sequences of small digits or of code points, cut into chunks; the asynchronous jobs |
| `UrlText`, `UrlParser`, `Urls` (in `LibraryMC`) | `url/js_url.cpp`, `native_module_url.cpp`, `src/js_url.ts` | texts as sequences of tokens and what both parsers do with them; the parser of a URL as it is, with addresses, dots and relative references; a URL as native record, fields of the script object and the two parameter lists, changed by its setters |
| `Uris` (in `LibraryMC`) | `uri/js_uri.cpp`, `native_module_uri.cpp`, `src/js_uri.ts` | the parser step by step, each with the rest of the text (`data_`) it leaves; the record, its printed form, and the operations of the script that make a new URI of an old one |
| `UrlInputs`, `UriInputs` | none | the texts with which the two are tried |
| `Utilities`, `Console` (in `LibraryMC`) | `util/src/util_js.ts`, `console/console.cpp` | LRU cache with its callbacks, rationals, scopes, aspects, promise wrappers; counters, timers, groups, formats and tables |
| `AsyncLockProofs`, `ConditionVariableProofs`, `TaskDependencyProofs`, `RunnersProofs`, `WorkerPoolProofs`, `TaskProofs`, `WorkerProofs`, `ConcurrencyProofs` | theorems | see section 5; `TaskProofs` is about `TaskQueues`, `TaskLife` and `TaskGroup`, `WorkerProofs` about `JsWorker`, `WorkerListeners` and `SysTimer`, and the last one about `ChildProcess`; it carries what all of them and `WorkerPoolProofs` show over to what `ConcurrencyMC` composes |

Definitions headed "Mutant:" are variants of the definition that follows them, with the mistake
the comment names; `PROJECT.json` pairs each with the property that notices it.

Simplifications worth knowing:

- *AsyncLock*: allocation is a choice of a free address, so an address may be used again.
  A callback is called, may call `lockAsync` on the same lock (`"nested"`), and returns a value, throws or
  returns a promise; the last two only differ in when the request leaves. The timer of a request
  and the abort signal may act at any time. The order of `heldList_` is not used by the code, so
  it is a set. `refCount_` is never decremented (`DecRefCount` has no caller), so the branch for a
  lock without references is unreachable. Whether the owner of a request is alive is asked in one step with the queueing of its work
  (`lock_request.cpp:87-92`). An engine may be destroyed between the two, and the work is then queued on memory that is freed; that is left out.
- *ConditionVariable*: null is no object (`NoneIsNoObject`); a handle may be collected on any thread; `Releasers` are the threads
  whose handles and waiting tasks drop references. Notifications to an engine that is being
  destroyed are dropped, and their tasks leak, as in the code. The empty name may be one of `Names`; an entry that leads to a deleted
  condition (finding 10) gives the next handle freed memory. The run `condition` and the theorems have no empty name, since what follows is undefined.
- *TaskDependency*: one host thread, one priority, each task executed at most once, no delay,
  timeout or long task. `Uses` lists what the clients do: `"again"` (addDependency on a task that
  already has some), `"cancel"`, `"release"`, `"remove"`. `ReleaseTaskData` erases whole waiter sets and a
  cancellation abandons the promises of the tasks it drops from the queue (`promise = "abandoned"`), as in
  the code. A task that has been dequeued holds `taskQueuesMutex_` until it is parked.
- *Runners*: every thread already holds a handle of the runner (the search by name is not modelled),
  a task is executed once and by its owner, and the error exits of `PerformTask` are left out. While an engine is
  closing, a step may find each of its tasks valid or not. A thread that goes on with a deleted runner
  reads freed memory in the code (`async_runner_manager.cpp:112-116`); in the model it finds nothing in it.
- *WorkerPool*: tasks are a number, and a new worker gets the first name that is free, since names mean nothing; durations are left open, so a timer may fire, a running worker be found to have run too long,
  and an idle one long enough idle, at any time. A worker found to have run too long may have a long task, or wait in its loop for a request. When the step by which
  the pool shrinks is 0 the count never meets it, and any number of idle workers may be released. The FFRT scheduler and the garbage collection of idle workers are left out.
- *TaskQueues*: a queue is its length, since the order within a queue is that of `TaskDependency`.
- *TaskLife, TaskGroup*: a task without dependencies and outside runners; what a function returns is left out. `finishedTaskNum`
  is counted in one step, while the code increments it on two threads without a lock (`task_group_manager.cpp:143`, `taskpool.cpp:588`), so an increment that gets lost is
  not in the model. Where the code looks at a state and sets it later without a lock, a cancellation may come in between: in `UpdateGroupState` the two are
  steps of their own, and `TriggerCancelWithin` is a cancellation within `DelayTask`. A Task that cannot be serialized is an exception in `execute`, before
  anything has changed; when the timer of a delayed execution fires, it rejects the promise and leaves the state (`DelayTaskFails`).
- *JsWorker*: one Worker, no worker within it; messages have no content but their kind; errors of the script are left out. A synchronous call is queued
  before the lock is taken, and the end of the host's engine looks for the Worker before it takes the lock; both are two steps.
- *WorkerListeners*: when the `on<type>` function for a message of the worker's own throws, the error is dispatched and the listeners follow. In `dispatchEvent` the
  exception stays pending, so that the call of the first listener fails. A listener that throws ends its dispatch.
- *SysTimer*: a worker may close within the function of a timer, which clears its timers; its engine ends only when no function runs.
- *Lists, Maps, Utilities, Buffers*: single threaded, so what is checked is long sequences of calls. Where the code is known
  to leave its contract (section 4) the module notes it in `gap` and stops there, so that everything before it is still checked.
- *Base64, Buffers, Console*: digits are smaller than in the code (a byte of four bits and a symbol of three, so that three
  bytes are still four symbols; bytes below `ByteBase`; units of `UnitBase`); the arithmetic that cuts and joins them is the code's.
- *ChildProcess*: one object, and no other child of the program, so that `waitpid(0)` finds none; the command has no children of its own that keep
  its pipes open. The look at the flag for the limit and that of the loop are one, since nothing blocks between them. Appending to `stdData` is one step, while
  `getOutput` may read it in the middle. `killSignal` is chosen when it is used.
- *UrlText, Urls, Uris*: a text is a sequence of tokens: a word, a number in one of its spellings, a percent code, a separator. Zone ids, characters beyond ASCII and
  `fixUSVString`, `origin`, parameter lists made of objects or iterables, and `getBooleanQueryValue` are left out; what `encodeURI` and its like do is modelled on tokens.
- *TextCodecs*: the converter of ICU is external; it is what keeps an incomplete character between two calls.

## 3. Runs

| Run | Instance | Question and answer |
|---|---|---|
| `asynclock_mixed` | 2 threads, one mortal, 3 request addresses, both modes, timeouts, nested calls | no request is lost, completed twice, used after deletion or left behind by a dead engine; at most one exclusive holder; callbacks run on their own threads, unless an address has been used again |
| `asynclock_exclusive` | 2 threads, 3 requests, exclusive mode, abort signals, `isAvailable`, nested calls; deadlock checked | implements `SharedExclusiveLock`, one holder at a time, every promise settles |
| `asynclock_batch` | 1 thread, 3 requests | **violation** of `MutualExclusion`: the batch loop over shared requests does not ask again whether it may grant |
| `deadlock_warning` | 3 threads, 2 locks, up to 2 holders and 2 waiters | **violation** of `WarnsOnlyOfDeadlocks`: all vertices get index 0, every wait looks like a loop |
| `condition` | 2 threads, one mortal, a name and anonymous conditions, 2 conditions, 2 tasks, 2 handles | exact reference counts, one fate per task, waiters are woken |
| `condition_registry` | the same, no engine dies | **violation** of `RegisteredWhileReferenced`: two threads drop the last reference around a new request |
| `task_dependency` | 3 tasks, 2 workers, cancel, release, remove | prerequisites first, each task in one place, no circle, flags cover edges |
| `task_dependency_race` | 2 tasks, 2 workers | **violation** of `PendingOnlyIfDependent`: a task is parked after its last prerequisite has told its waiters |
| `runners` | 2 threads, one mortal, 1 worker, 3 tasks; a sequence runner, an async runner of capacity 1 that lets 1 wait, one of capacity 2 | capacity is kept, no task is lost, started or settled twice, the runner outlives what needs it, promises settle unless `Stranded` |
| `task_dependency_cycle` | 3 tasks, `"again"` | **violation** of `Acyclic`: the second addDependency checks the old set |
| `concurrency` | a pool of at most 2 workers that may fail to start, with 2 tasks; 6 queues with 2 tasks and 2 turns each; a Task executed 3 times; a group of 2 tasks executed twice; a Worker with 2 messages and 2 synchronous calls; 2 functions, 2 listeners and 2 nested events; 2 threads with 2 timers and ids modulo 2; a child process with 2 units of output and a limit of 1 | workers are counted, found only while they run, and released only when they have nothing to do; each promise is settled once and something is under way that will; queued tasks are performed, low priorities have their turn; a Worker ends and is deleted last, and its host does not wait for it for ever; listeners are called each once and in order; cleared timers do not fire; a child process is waited for and read from |
| `library` | streams of 3 units and watermark 1; containers of up to 4 to 6 members; 3 buffers; texts of 3 characters; and so on, see `Library.cfg` | streams keep order, containers answer what was put into them, bytes, texts, URLs and URIs survive their conversions |

Why the bounds suffice. Two threads give every interleaving of a party inside a function with
another one; three requests give a holder, a front waiter and one behind it, or two shared
requests and an exclusive one between them; with addresses that are used again, a run is not limited
to three calls. Two conditions are the old and the new one of a name; two tasks are a notified
and a waiting one. Three tasks form a chain, a fork, a join and a circle; two workers let one
park while the other finishes. Three tasks fill an async runner of capacity 1 with one that
waits and discard it for the third, and let one task of a sequence runner wait behind a cancelled one. The violations each need fewer.

In `concurrency`, two workers are one that performs and one that is created, blocked or released meanwhile. With a maximum of 2,
the size of the pool cannot exceed its bound there; the part of `PoolIsSound` about the size rests on the theorem
`PoolOfWorkersIsSound`, which holds for any bounds (instances of 3 workers were checked too, but they take too long to be a run).
Three executions of a task are one that runs, one that waits behind it and one after a cancellation; two executions of a group
are one that ends and one that is started by that end. In the queues, two tasks and two turns let every queue be served, skipped and reset.

Two listeners are one that is called and one that it adds or removes; ids modulo 2 come round to a timer that is still there; two calls are
one that has ended and one that may take its answer. A child process that writes two units at a limit of one, of which one may be a NUL, exceeds its limit, has its output cut and leaves a gap; its second
output is read, but stays empty.

In `library`, three units with a watermark of one fill a buffer, exceed it and leave one more. Hash tables of capacity 4 grow once and
turn a chain of 2 into a tree; trees of 6 keys meet every case of insertion and removal; containers of capacity 2 grow once with the ring wrapped.
Two changes of a URL or URI are enough for one that depends on what another has left behind; the texts of `UrlInputs` and `UriInputs`
have each way of writing a part that the code tells apart, and those in which two parts meet.
Texts of 3 characters from the first and last code point of each length, cut anywhere, put the cut into every place of a character.
`ValuesAreSound` and `CollectionsAreSound` are tried on all inputs within these bounds.

Deadlock is not checked where the system may stop: an engine that dies can leave a lock held for
ever, a bounded number of tasks runs out (also in `runners` and `concurrency`), the programs of `library` end, the detector reports once, and in `asynclock_batch` and the
condition runs the clients are free to do nothing more.

### Fairness

Fairness is stated in `AsyncLock`, `ConditionVariable`, `Runners`, `WorkerPool` and `JsWorker`, and for the last two repeated in `ConcurrencyMC` for the time that part runs. A thread that is in
the middle of a function goes on (`WF`: nothing in it waits except for a mutex that is always
released). An event loop runs what is queued on it; such a step is enabled only while its thread is
idle, which JS code may interrupt again and again, so it needs `SF`: libuv serves its queues in order.
Callbacks of clients end, and the promises they return settle: no lock can promise progress
otherwise. Timers go off. In `Runners` each task is executed once, so a thread is busy only finitely often and `WF` of
what a thread or a worker does next is enough. In `WorkerPool`, the thread that queues a task finishes its notification, the monitor thread runs
its callbacks and its balance timer fires again and again, and each worker goes on (`WF`); nothing is assumed of promises of tasks, which may never be settled, nor of
workers being found blocked. In `JsWorker` the loops of the two threads go on. Nothing is assumed about clients starting operations, about
garbage collection or about engines being destroyed.

## 4. Findings

1. `async_lock.cpp:142`: the loop over waiting shared requests grants without asking again whether the
   lock is free for them; a shared and an exclusive request may hold it together.
2. `graph.h:70`: every vertex gets index 0, so any wait is reported as a deadlock.
3. `condition_variable.cpp:83`: dropping the last reference takes two critical sections; a live condition can
   lose its name, and a freed one is touched.
4. `task_manager.cpp:1015`: a worker parks a task after the host thread has dealt with its last
   prerequisite; the task is never performed.
5. `task_manager.cpp:1289`: addDependency on a task that has dependencies already accepts a circle.

The first five have a run each, which shows the interleaving or sequence of calls that is needed. The following five are visible in one or two calls and have no run; they are disagreements of the
code with a documentation, comment or test, and no property says otherwise: what they are about is left out of the properties by name.

6. `js_childprocess.cpp:151`: the exit code shown is the low byte of the wait status, which is 0 after every normal exit; the documentation says
   that `wait()` and `exitCode` give the exit code of the child (`src/README.md:4633, 4650`). `StatusIsKept` says nothing about it.
7. `js_buffer.ts:876`: 2^63 passes as a signed number of 64 bits, and is read back as -2^63; the comments above give 2^63 - 1 as the largest (875, 898).
   An exception of `NumbersAreRead`.
8. `js_buffer.ts:803-810, 860`: `writeIntLE` is dispatched to the unsigned functions for every length, `writeIntBE` for 3, 5 and 6 bytes, so
   that negative numbers are refused; both are documented as signed (`src/README.md:296-297`). The other exception of `NumbersAreRead`.
9. `converter.cpp:413-457`: the search of `indexOf` and `includes` skips by the larger of two distances, of which that for a good suffix may be too
   large; a text that repeats its last character may be passed over, although
   it is there (0 0 0 is not found in 1 0 0 0); documented is the first place, and -1 only if there is none (`src/README.md:248-249`). `FoundIsThere` asks for that for the other texts.
10. `condition_variable.cpp:74`: a condition requested by the empty name is registered under it, but dropped as an anonymous one, so
    that the registry leads to a deleted condition (`test_condition.cpp:392-393` expects the name to be gone). The runs and proofs
    have no empty name (`NamesAreNotEmpty`).

Weaknesses the models contain and the properties are worded to admit: a lock stays held when an
engine dies while the promise returned by a callback is pending; the loop over shared requests compares
`syncLockRequest` (`async_lock.cpp:129-133`) with requests of other threads after the callback it called in place has
deleted that request, and a request that got its address is then called in place on a thread that did not make it; notifications to an engine that
dies leak their task; cancelling a task leaves the promises of dropped dependents unsettled;
releasing a Task erases the waiter sets others rely on. In the runners: `SequenceRunner::Execute` asks whether the runner is
busy in one critical section and adds the task in another, so the task may be left in an idle runner (`Stranded`);
`TriggerTask` and `TriggerWaitingTask` overwrite a cancellation with WAITING; tasks counted out in the cancel loop may bring
`refCount_` to 0 without the runner being destroyed; and when the engine of a running async task dies, its place is given
back but nobody starts the tasks of other threads that wait for it.

The properties of the second group are worded for the code as it is; each of the following is a name in its module, with the
lines where it happens.

- `WorkerPool`: a task queued while the manager starts may be left to the next one (`Forgotten`: `needChecking_` is set after the monitor has
  looked at it); in low memory the last worker may be released with a signal under way (`Abandoned`); when every worker is blocked nothing
  expands the pool again (`Exhausted`); an engine that cannot be created leaves `expandingCount_` too high.
- `TaskLife`: execute of a delayed task (`executedDelayed`), a cancel message that arrives after another execution (`lateCancel`), a
  flag of an earlier cancel (`staleDone`), an early return of `PerformTask` (`lost`). `TaskGroup`: execution after a cancel
  (`executedCanceled`), cancel of the last task (`taskCanceled`), a function that has lost its information (`spoilt`).
- `JsWorker`: `parentPort.cancelTasks` may throw a termination away (`Deaf`); the host compares the number of a call with the current one in one critical section and queues the
  answer in another, so when the call ends in between (by its timeout, or because an earlier call that had timed out fails and the failure is taken for its own) the next call takes the answer (`late`). `WorkerListeners`: a
  listener that is removed while it is called is used afterwards (`worker.cpp:2478-2493`, `2839-2853`); adding one twice leaks the
  first. `SysTimer`: an id that comes round to a live timer shadows it.
- `Streams` (`stream_js.ts`): a push beyond the watermark is never emitted (655-659); END overtakes what is buffered in a paused stream (672-683);
  resume emits nothing that is buffered (383-393); uncork starts a chunk without `writing` (1020-1045); what is buffered while `doWritev`
  works is dropped (1029); a chunk given to `end` while corked is lost (1130-1133); FINISH comes early or never (1047-1091); unpipe
  does not find the listeners of pipe (523-534).
- `Lists`: `removeByIndex(0)` of an empty list, `Vector.setLength` beyond the end, `Vector.subVector` without its last member, `Queue.add`
  after a pop, `Deque` when a wrapped ring grows (`js_deque.ts:121`), `LinkedList` with one member, `List.equal` and `List.sort`.
- `Maps`: a removed node leaves its parent to its child (`js_struct.ts:376-385`); the dictionary removes the pair after the
  one it is asked for (951); replacing a value in a tree bucket throws; keys of equal hash are one key in `LightWeightMap`, whose
  `removeAt` counts twice; `PlainArray.removeAt` out of range counts down.
- `Buffers`: a subarray or a pooled buffer does not keep its memory alive (`js_buffer.ts:1634`, `2005-2007`); fill with an empty array does
  not end. What finding 7 and 8 are about is left out of `NumbersAreRead` by name, and `FoundIsThere` asks that `FindIndex` finds the first place only
  where the last character of a text occurs in it once, or the text has two characters (finding 9); `FindLastIndex` finds the last place of all texts tried.
- `Base64`: a text of exactly one MIME line is lost; the asynchronous decoder gives data for invalid characters; incomplete groups are
  dropped. `TextCodecs`: `ignoreBOM` drops a mark in every call; an empty last chunk does not flush.
- `ChildProcess` (`js_childprocess.cpp`): the record of the options is deleted when the timeout is over, at once if there is none (112-116), and `kill`, `wait`,
  `close`, `pid` and the destructor go on to read the number of the process from it (`astray`); those of the readers likewise (320, 355), which `getOutput` reads, and the flag
  itself after the destructor (505). A process that cannot be started has the number 0, so that `kill` reaches the whole group. `close` takes the status of a process that
  has just ended without noting it (405), and a later `wait` shows an uninitialized one (`late`). After a signal that the command survives nobody reads its outputs and `wait` may block for
  ever (`defied`); `wait` itself stops the readers, perhaps before the last of the output (146). `StatusIsKept` speaks of the
  status the object has, not of the exit code it shows (finding 6). What follows a NUL in one read is lost (299). Arguments that are refused are run nevertheless (`native_module_process.cpp:86-91`).
- `Urls`: setters leave `host`, after `hostname` or `port`, and `href` as they were (`Stale`); `file` is compared without its colon, so credentials stay when the protocol
  becomes `file:`; an error in a port is taken back by an address that is right (`RemovalIpv4`); large numbers wrap in `int`; `delete` takes its
  name for a regular expression (`js_url.ts:139`); only one of the two parameter lists is told of a change; some records cannot be read back (`Unread`), and a few
  references do not resolve behind the base (`ResolvesBehind` says which).
- `Uris`: an error of a setter is not reported and stays, so that a later one stops half way; an opaque URI loses its text when a query is set; the specific part of a
  relative URI lacks its path (`js_uri.cpp:108-112`), also when it gets a scheme; a relative path with `:` loses its query; a path is written with `/` if it had none, and `//p` is read back as an authority; a path that was
  not checked cannot be read back behind an authority; a host in brackets is never recognized after `encodeURI`; `addSegment` on an empty URI reads behind
  the text; `getQueryValue` takes `+` for a space and `getQueryValues` does not; empty items are counted twice.
- `Utilities`: `afterRemoval` that puts the key again evicts another one unreported (`util_js.ts:1103-1104`); negative numerators give negative
  denominators. `Console`: an empty argument shifts the placeholders (141-143); milliseconds wrap at 2^32.

The items of this list are what was met while the models were written. Where a sentence of the repository was found to say the opposite,
it is listed as one of the findings 1 to 10; of the others it is not claimed that no
comment, test or page of the documentation contradicts them.

## 5. Proofs

Checked by TLAPS for every value of the constants that satisfies the assumption named; sets are arbitrary, finite or not, unless it says finite.

**`AsyncLockProofs`**, from `ConstantsAssumption` and `NoneIsNoObject` (null is no request and no object;
modes are the two the code knows). The invariant is

    IInv == TypeOK /\ LockOK /\ NobodyWaitsInVain /\ EnqueueOK /\ OneCarrier

`AtMostOneExclusive` alone is not inductive: whether a grant is right depends on `lockStatus` agreeing with the holders,
which is a part of `LockOK` (lists without repetition, disjoint, of allocated requests; status and holders agree), and that
depends on a completion removing a request that really is held. `OneCarrier` says just that: a granted request is carried by one frame
of one thread, or by one queued work, or by one promise. `EnqueueOK` says that a request on its way
into the queue is in no list yet. Every action falls into one of few kinds (it moves a carrier, serves the queue,
removes a waiting request, or touches engines only), and each kind has a lemma. Results:
`InductiveInvariant`, `TypeCorrectness`, `ExclusiveRequestsExclude` (`AtMostOneExclusive`), `ExclusiveModeExcludes`
(`MutualExclusion` if only the exclusive mode is used; finding 1 shows that this is needed),
`RequestsAreNotUsedAfterDelete`, `NobodyWaitsForAFreeLock`. The rest of the module builds on this invariant.

- Wakeups: `NoWakeupIsLost` (`NoLostWakeup`). By `NobodyWaitsInVain` the front request could be let
  in only if it is shared and the lock is in shared mode. Each step that makes the front request acceptable, or takes away a frame that would look at the queue, either has let the front one in, with
  the rest of the loop still to come, or has looked and found it unacceptable.
- The fate of requests: `FateInv` says for each request what becomes of it: a held one has a work, a promise or a frame (`DoneFor`);
  any other one waits or is about to, with its cleanup hook registered and its promise open; a promise is open until the callback has ended and settled afterwards; one
  whose engine is gone is held and not queued on it. `IInv` gives "at most one carrier", `FateInv` "at least one", hence
  `RequestsAreCompletedOnce` (`CompletedOnce`). The part about promises gives `NoRequestIsDropped` (`NoSilentDrop`), the part about engines
  `DeadEnginesLeaveNoRequest` (`NoRequestOfDeadEngine`). `CallbacksRunInPlace` (`CallbackOnOwnThread`) has an invariant of
  its own: a frame that calls a callback is on the owner's stack, or right above the loop that carries the same address.
- Refinement: `ExclusiveModeImplementsLock`. If only the exclusive mode is used, `AsyncLock` implements
  `SharedExclusiveLock`: a list of requests maps to the list of their tickets; queueing is `Join`, a completion `Leave`, a timeout or cleanup
  `Withdraw`, serving the queue `Serve`, and in each of them at most the front request gets in; everything else is not seen. In mixed modes it does not hold (finding 1).

**`ConditionVariableProofs`**, from `ConditionConstants` (mortal threads and releasers are threads; null is nothing else),
`NamesAreNotEmpty` (no name is empty, since finding 10 refutes what follows otherwise) and `NoneIsNoObject`. The invariant is

    IInv == TypeOK /\ CountsOK /\ MapOK /\ PlacesOK /\ FinishedOnce

`RefCountIsExact` says that a condition is counted for its handles and its tasks. It is preserved by the end of a task only if
that task was counted, and it is the places that tell: the tasks in the queue of a condition and among the events of an
engine are live ones that point back to that condition and that engine (`QueuesOK`, `EventsOK`), each once, and none is in both (`WaysOK`).
`CountsOK` adds that what is counted is finite, which is not assumed of the constants. `MapOK`: what a name leads to is an object of that name; the converse is what finding 3
refutes. Results: `ConditionsAreSound` (`[]IInv`), `ConditionTypes`, `ReferencesAreCounted` (`RefCountIsExact`), `TasksHaveOneFate` (`OneFate`), `TasksFinishOnce` (`FinishedOnce`).

`RegistryOfOneReleaser` shows how narrow finding 3 is: if references are dropped on one thread only (`Releasers \subseteq {r}`), every condition with a handle is
registered under its name, although other threads request it between the two critical sections of the release. Its invariant
(`RegistryInv`) is that whatever a thread is about to remove from the registry is still an object of that name.

**`TaskDependencyProofs`**, from `TaskConstants` (0 is no task). The invariant is

    IInv == TypeOK /\ BusyOK /\ ExecutedOK /\ FlagCoversEdges /\ PerformedAfterPrerequisites

`PerformedAfterPrerequisites` needs to know that a task a worker holds is one that has been executed (`ExecutedOK`), because
addDependency refuses those, and that a worker that is busy holds a task at all (`BusyOK`). Results:
`InductiveInvariant`, `TypeCorrectness`, `PrerequisitesComeFirst`, `FlagsCoverEdges`.

- `ExecutionsAreAtOnePlace` (`OnePlace`) has a second invariant on top, `PlacesInv`: no task is queued twice or held by two workers (`HandedOutOK`), the places are
  disjoint (`ApartOK`), and a promise is open exactly while its task has one of them (`OpenOK`). A cancellation looks for the task in one critical section and
  drops it in a later one, so the rest says what it relies on in between: a task that no worker performs yet has its information and is
  waiting or cancelled (`WaitingOK`), what the host thread has found belongs to the cancel message it deals with (`FoundOK`), and only an executed task has such a message (`StateOK`).
- `NoTaskWaitsForItself` (`Acyclic`), if no task gets dependencies twice (`"again" \notin Uses`; finding 5 is what happens otherwise). A circle is a set of
  tasks that wait for each other, so the argument is about sets that are closed under waiting: a new task with its prerequisites can close a
  circle only if one of them waits for it already, which the code looks for.

**`RunnersProofs`**, from `RunnerConstants` (finitely many threads, none of them a worker; null is no task; a sequence runner runs one task and has no waiting limit). The invariant is

    IInv == TypeOK /\ JobOK /\ PlacesOK /\ ExecutedOK /\ SequenceOK /\ CountOK

`WithinCapacity` counts the tasks that are queued, performed or about to be reported. To know that starting a task keeps the bound one
has to know that it is counted nowhere else (`PlacesOK`: a task is in at most one place, and nowhere before it is executed, `ExecutedOK`), that a sequence runner has
nothing in flight but `currentTaskId`, and nothing at all while a thread is about to start the next (`SequenceOK`), and that
`runningCount` of an async runner is between the number in flight and the capacity (`CountOK`).
`JobOK` ties what a thread is in the middle of to the kind of runner and to its task. Results: `InductiveInvariant`, `TypeCorrectness`, `CapacityIsKept` (`WithinCapacity`).

"At most one place" becomes "exactly one" with a second invariant, `RInv`: a task of a live engine has an open promise exactly as long as it is somewhere (`OpenOK`), a
task that one thread discards is on no other's way (`DiscardOK`), and one whose owner is still to hear of its cancellation is nowhere else (`SignalOK`). With it the
tasks that hold a reference are known, and every step that counts one up or down moves exactly one of them (`CountedOK`). Results:
`ReferencesAreExact` (`RefCountIsExact`) and `TasksAreAtOnePlace` (`OnePlace`).

**`WorkerPoolProofs`**, from `PoolAssumption` (finitely many workers, bounds that are natural numbers, at least one worker allowed). The invariant is
`IInv == Sound(pool)`, with

    Sound(p) == p \in Pools /\ Fits(p) /\ CountsStarting(p) /\ AddsOne(p) /\ LoopsOK(p)

`Fits`: those known, the one being added and those still to be created are together within the bound; the second and third are needed because
the number to create is computed under `workersMutex_` and the workers come later, one by one. `AddsOne`: the
one being added is not known yet, so that adding it does not count it twice. `CountsStarting`: `expandingCount_` covers the threads that have not reached their loop. `LoopsOK`: only a worker in its loop is in
a set from which the pool takes workers, or is asked to go. Results: `InductiveInvariant`, `TypeCorrectness`, `PoolStaysBounded`, `ReleaseIsSafe`, `ExpandingCountIsExact`.

**`TaskProofs`** has lemmas about the other three modules of the task pool, **`WorkerProofs`** those about `JsWorker`, `WorkerListeners` and `SysTimer`. Both work on the
variable the parts share, and show for each part that its invariant holds initially, is kept by every step and implies what the run checks.

- *TaskQueues*, from `QueuesAssumption` (turns and bound are natural numbers).
  `QueuesInv` is that the counters are the sums of the lengths, that the flag for idle tasks stands for one worker that performs one, and that a worker that is about to dequeue
  performs nothing (`AskedAreFree`, without which the flag could be reset while a second one is performed). For the turns
  the lemma `TurnsAdvance` takes `Turns` as a number to the base `PriorityTaskCount + 1` with one digit for each weighted queue: a dequeue adds one to the digit of the
  queue it takes from, may only reset less significant digits, and no digit exceeds its base, so the number grows; it is bounded, so a waiting task of low priority
  is reached.
- *TaskLife*, from `LifeAssumption` (a natural bound on the executions). The invariant is `LifeInv == LifeSound(state)`, with

      LifeSound(l) == l \in Lives /\ TaskPlaces(l) /\ TaskModes(l) /\ (l.gaps = {} => Follows(l) /\ Referenced(l))

  `TaskPlaces`: an execution is current, has a timer, waits behind the current one or is over, and one of these only; the open promises are among the first
  three. `TaskModes`: what is known of a task that is new, periodic or has a timeout; those with a timeout have one execution, which is why
  the timer and the result never compete for another one's promise. `Follows`: the state of the task follows its current execution, so that a worker that finds
  RUNNING finds its information. It and `Referenced` (there are at least as many references as executions not over) hold until the task meets one of the
  gaps of section 4, and only then.
- *TaskGroup*, from `GroupAssumption` (finitely many tasks, a natural bound on the executions of the group). `GroupInv == GroupSound(state)`, with

      GroupSound(g) == g \in Groups /\ Promises(g) /\ GroupModes(g) /\ GroupPlaces(g) /\ Counts(g) /\ Behind(g)

  `Promises`: the open promises are those of the current execution and of the waiting ones. `Counts`: what is finished and what is under
  way are together never more than the members while an execution is current, and exactly the members in a group without a gap, so that the last result finds
  the count complete and no earlier one does; this needs `GroupPlaces` (a task is queued, with a worker, or has a result on its way, and one of these only). `Behind`:
  executions wait only behind a current one.
- *JsWorker*, from `WorkerAssumption` (a natural bound on the calls). The invariant is

      WorkerInv == state \in WorkerValues /\ WorkerEndings(state) /\ WorkerCalls(state)

  The two threads may end in either order. `WorkerEndings` says of each end what it has left: a host that has stopped or is gone has no handles, wraps nothing and is in
  no step that would use the Worker; `over` (the thread has told the host of its end) only when it has ended. So whoever deletes the Worker is the last.
  `WorkerCalls`: the number of a call is given out once, so neither a queued call nor the one the host serves has the number of a later one; and unless an answer
  was late, what the host answers and what is queued for the thread belong to the call that waits. `AnswersMatch` without its exception is
  not an invariant: an attempt to prove it found, with three calls, the second way of section 4 in which an answer comes late.
- *WorkerListeners*, from `ListenerAssumption` (natural bounds on listeners and events; any sets of functions and objects). The invariant is

      ListenersAre(s) == s \in ListenerValues /\ Listing(s) /\ Dispatching(s) /\ Referring(s)

  `Listing`: what is listed was made and is not deleted, is in one list, once for a function. `Dispatching` says of every dispatch in progress, of
  interrupted ones too: it has called the listeners behind it in order and none twice, and each one that was listed when it began and still is (`due`) has been called or
  comes at or behind the iterator, unless that one was deleted. Listeners are deleted for good and leave a list in no other way, so whatever an inner dispatch,
  an addition or a removal does keeps this for the outer ones (`DispatchedLater`), and only a step of the innermost loop needs an argument of its own. An error
  dispatched in place of what a listener threw ends that dispatch, one for the `on<type>` function only goes on top of it, and errors with dispatches are never more than the events, which bounds them.
- *SysTimer*, from `TimerAssumption` (a positive number of ids, a natural bound on timers; any set of threads). The invariant is

      TimerInv == state \in TimerValues /\ Known(state) /\ (state.shadowed = {} => Unshadowed(state))

  `Known`: only timers that were set are started, run or are in the table, each on its thread and under its number. `Unshadowed`: a timer that is armed or still
  to be started is in the table, and so is one whose function runs, if anything has its number; what is in the table is not closed, and its thread lives. This needs that no number is
  taken again while it is in use: otherwise the new timer is in no table (section 4), and nothing is claimed.

- *ChildProcess*, in `ConcurrencyProofs`, from `ProcessAssumption` (a signal fits in the low byte of a status, an exit code in the one above; natural limits and sizes). The invariant is

      ProcessInv == state \in ProcessValues /\ Scripted(state) /\ (~state.astray => Awaited(state)) /\ \A o : Kept(state, o)

  `Awaited`: only the thread of the script takes the status of the process, so it is known of every place of that thread whether the process is still there: it is gone when
  `isWait_` was reset by a call that has returned, and the status which that call has taken is the one noted. A process that runs with the flag reset has survived a signal.
  None of this holds any more once a number went astray (section 4); what `Scripted` and `Kept` say holds nevertheless. `Kept` says how far each output was read: the
  pipe holds the end of what was written (`Traced`), and everything before it is in the text, but what follows a NUL (`Gapless`). A reader that has cut its text at the
  limit breaks this, so the invariant says that it never reads again: it has reset the flag first, and looks at it before it reads. In the same way a text beyond the limit is either about
  to be cut or no longer read, unless the process was gone when it was to be killed.

**`ConcurrencyProofs`** also carries all this over to the specification that the run checks: one part runs, and keeps its invariant. Results: `PoolOfWorkersIsSound` (`PoolIsSound`),
`LowPriorityHasItsTurn` (`PrioritiesAreServed`, an action property), `PromisesAreSettled` (`ExecutionsAreSettled`), `WorkerIsDeletedLast` (`WorkerIsSound`),
`CallbacksAreCalledOnce` (`CallbacksAreSound`), `ProcessIsReaped` (`ProcessIsSound`) and `TypesAreKept` (`TypeOK`, all eight parts).

Only model-checked: liveness (`EveryPromiseSettles`, `WaitersAreWoken`, `PromisesSettle`, `NobodyWaitsForEver`; temporal reasoning with fairness is out of
the prover's reach), and the modules of `LibraryMC`. `DeadlockDetector`, `Maps`, `Utilities`, `Console`, `TextCodecs`, `UrlText`, `UrlParser`, `Urls` and `Uris`
use recursive operators, so no theorem can be stated about them or about `LibraryMC`, which instantiates them. What they compute would need induction over
data, which is out of the prover's reach as well.

## 6. Not modelled, and why

- *Lock registry* (`request`, `query`, `queryAll`): references are never dropped, so the map only grows.
- *Runners by name*: two threads race for a runner before `runnerId_` is stored; `Runners` starts when each thread has its handle.
- *Task pool*: the FFRT scheduler, `sendData` and its table of callbacks, `terminateTask`, listeners of tasks, `getTaskPoolInfo`,
  garbage collection of idle workers, quality of service.
- *Worker*: errors of scripts, transfer and serialization of messages, workers within workers.
- *Process* beyond ChildProcess: system calls, and a list of event listeners that nothing calls.
- *XML*: parsing and printing of single characters by recursive functions, without interleavings or state kept between calls
  that would go beyond a unit test. *JSON, ASON*: the engine's.
- *StringDecoder*: its converter is ICU's; only `js_stringdecoder.cpp:65`, which keeps a pointer into the array of the caller, is a hazard of the code.
  *FastBuffer*: the operations of Buffer on memory of the engine. *Blob* beyond slices, *types*, *UUIDs*, *transcode*.
- *Duplex, Transform*: the two halves that `Streams` models, joined by functions of the program.
- *Containers*: index syntax through Proxy handlers, clone, conversion to arrays.
- Bindings and module registration (no behaviour), formatting and logging, the platform layer, conversion tables, generated and vendored code.

What could be added next: proofs about `Streams`, the registry of named
runners, and the composition of `TaskLife` with `TaskDependency` for tasks that are executed more than once.
