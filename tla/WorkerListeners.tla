---------------------------- MODULE WorkerListeners ----------------------------
(***************************************************************************)
(* The listeners of a Worker and the objects registered for global calls:  *)
(* worker/worker.cpp.  side = "host": the lists of the Worker object, "port": *)
(* those of the parentPort in the worker's thread.  All is done on one     *)
(* thread, but a listener that is being called may add and remove          *)
(* listeners and dispatch events itself.  side = "globals" is the registry *)
(* of objects for global calls, which has nothing to do with the lists.    *)
(***************************************************************************)
EXTENDS Naturals, Sequences, FiniteSetsExt, Functions

CONSTANTS
  Callbacks,    \* functions of the program
  Objects,      \* names for global calls
  MaxListeners, \* bound: WorkerListener objects that are ever made
  MaxEvents     \* bound: dispatches

VARIABLE listeners

Types == {"message", "error"}
Records == 1..MaxListeners
Sides == {"host", "port", "globals"}

(* lists: eventListeners_ or parentPortEventListeners_, by type; the       *)
(*   listeners of a list are in the order of their numbers, as each is made *)
(*   and put at the end in one step                                        *)
(* frames: the dispatches in progress, innermost first: data, the listener *)
(*   being called (0: the on<type> function), it, the iterator (0: the     *)
(*   end); due: what was listed at the start, called: what was called;     *)
(*   own: an event of the Worker itself, thrown: its on<type> function has *)
(*   thrown and the error is being dispatched on top of it                 *)
(* done: how often the call of a listener has ended                        *)
(* spoiled: deleted memory was used; the run stops there                   *)
(* refs: the live references to global call objects                        *)
TypeOK ==
  /\ listeners.side \in Sides /\ listeners.lists \in [Types -> SUBSET Records]
  /\ listeners.made \in 0..MaxListeners /\ listeners.deleted \subseteq Records
  /\ \A i \in 1..listeners.made : listeners.info[i].cb \in Callbacks /\ listeners.info[i].once \in BOOLEAN
  /\ \A f \in Range(listeners.frames) : f.type \in Types /\ f.data \in 0..MaxListeners /\ f.it \in 0..MaxListeners
  /\ listeners.globals \in [Objects -> 0..2] /\ listeners.refs \subseteq Objects \X (1..2)
  /\ listeners.errors \in 0..MaxEvents /\ listeners.spoiled \in BOOLEAN

Init ==
  \E side \in Sides :
    listeners = [side |-> side, lists |-> [t \in Types |-> {}], made |-> 0, deleted |-> {},
                 info |-> <<>>, frames |-> <<>>, events |-> 0, errors |-> 0,
                 done |-> [i \in Records |-> 0], missed |-> {}, spoiled |-> FALSE,
                 globals |-> [o \in Objects |-> 0], refs |-> {}]

----------------------------------------------------------------------------
Listed(t, cb) == {i \in listeners.lists[t] : listeners.info[i].cb = cb}
Top == Head(listeners.frames)

(* AddListener, AddListenerInner: on is permanent, once is not, and so is  *)
(* addEventListener unless its options say once: false.  A function that   *)
(* is listed is not listed again, so that nothing changes.                 *)
AddListener(t, cb, once) ==
  /\ listeners.made < MaxListeners /\ Listed(t, cb) = {}
  /\ listeners' = [listeners EXCEPT !.made = @ + 1, !.info = Append(@, [cb |-> cb, once |-> once]),
                                    !.lists[t] = @ \cup {listeners.made + 1}]

(* RemoveListener with a function, and without one *)
RemoveListener(t, cb) ==
  \E i \in Listed(t, cb) :
    listeners' = [listeners EXCEPT !.lists[t] = @ \ {i}, !.deleted = @ \cup {i}]

RemoveListeners(t) ==
  /\ listeners.lists[t] # {}
  /\ listeners' = [listeners EXCEPT !.lists[t] = {}, !.deleted = @ \cup listeners.lists[t]]

RemoveAllListener ==
  /\ \E t \in Types : listeners.lists[t] # {}
  /\ listeners' = [listeners EXCEPT !.lists = [t \in Types |-> {}],
                                    !.deleted = @ \cup UNION {listeners.lists[t] : t \in Types}]

----------------------------------------------------------------------------
(* HandleEventListeners, ParentPortHandleEventListeners *)

Frame(s, t, caught) == [type |-> t, data |-> 0, it |-> 0, caught |-> caught, reports |-> FALSE,
                        own |-> FALSE, thrown |-> FALSE, due |-> s.lists[t], called |-> <<>>]

Pushed(s, f) == [s EXCEPT !.events = @ + 1, !.frames = <<f>> \o @]

(* DispatchEvent: the on<type> function comes first.                       *)
DispatchEvent(t) ==
  /\ listeners.events < MaxEvents
  /\ listeners' = Pushed(listeners, Frame(listeners, t, listeners.side = "port"))

(* WorkerOnMessageInner: a message for the thread of the worker. *)
WorkerOnMessage ==
  /\ listeners.side = "port" /\ listeners.frames = <<>> /\ listeners.events < MaxEvents
  /\ listeners' = Pushed(listeners, [Frame(listeners, "message", TRUE) EXCEPT !.own = TRUE])

(* The iterator of a list after listener i, 0 for its begin. *)
Following(list, i) ==
  LET later == {j \in list : j > i} IN IF later = {} THEN 0 ELSE Min(later)

(* The loop goes on with listener i, or ends: then what was due and has    *)
(* not been removed was called.                                            *)
Iterate(s, i) ==
  LET f == Head(s.frames) IN
  IF i = 0
  THEN [s EXCEPT !.frames = Tail(@), !.errors = IF f.reports THEN @ + 1 ELSE @,
                 !.missed = @ \cup ((f.due \ s.deleted) \ Range(f.called))]
  ELSE [s EXCEPT !.frames =
          <<[f EXCEPT !.data = i, !.it = Following(s.lists[f.type], i), !.called = Append(@, i),
                      !.thrown = FALSE]>> \o Tail(@)]

(* After the call, a listener for one call is taken out and deleted. *)
Drop(s, i) ==
  IF s.info[i].once
  THEN [s EXCEPT !.done[i] = @ + 1, !.deleted = @ \cup {i}, !.lists[Head(s.frames).type] = @ \ {i}]
  ELSE [s EXCEPT !.done[i] = @ + 1]

(* What the loop does with its iterator, which was moved before the call. *)
Continue(s) ==
  LET f == Head(s.frames) IN
  IF f.data = 0 THEN Iterate(s, Following(s.lists[f.type], 0))
  ELSE IF f.it \in s.deleted THEN [s EXCEPT !.spoiled = TRUE] ELSE Iterate(s, f.it)

(* An error has been dispatched, and the message that had to wait for it,  *)
(* as its on<type> function has thrown, goes to its listeners.             *)
Resumed(s) == IF s.frames # <<>> /\ Head(s.frames).thrown THEN Continue(s) ELSE s

(* The called function returns. *)
CallReturns ==
  /\ listeners.frames # <<>>
  /\ listeners' = Resumed(IF Top.data = 0 THEN Continue(listeners)
                          ELSE IF Top.data \in listeners.deleted THEN [listeners EXCEPT !.spoiled = TRUE]
                          ELSE Continue(Drop(listeners, Top.data)))

(* The exception becomes an error event of the parentPort, and then of the *)
(* host.                                                                   *)
Reported(s) == Pushed(s, [Frame(s, "error", FALSE) EXCEPT !.reports = TRUE])

(* HandleException: the called function throws in the worker's thread.     *)
(* After the on<type> function for a message, CallWorkerFunction handles   *)
(* this and the listeners follow.  In dispatchEvent the exception is left  *)
(* pending, so that it is the call of the first listener that fails, or    *)
(* without listeners that of dispatchEvent.  A listener that throws, or    *)
(* cannot be called, is the last.  A function for errors is not guarded.   *)
HandleException ==
  /\ listeners.frames # <<>> /\ listeners.side = "port" /\ Top.caught
  /\ listeners.events < MaxEvents
  /\ LET i == IF Top.data = 0 THEN Following(listeners.lists[Top.type], 0) ELSE Top.data
     IN listeners' =
          IF Top.data = 0 /\ Top.own
          THEN Reported([listeners EXCEPT !.frames = <<[Head(@) EXCEPT !.thrown = TRUE]>> \o Tail(@)])
          ELSE IF i = 0 THEN [listeners EXCEPT !.frames = Tail(@)]
          ELSE IF i \in listeners.deleted THEN [listeners EXCEPT !.spoiled = TRUE]
          ELSE Reported([Drop(listeners, i) EXCEPT !.frames = Tail(@)])

----------------------------------------------------------------------------
(* The objects for global calls; a name is of its last registration. *)

RegisterGlobalCallObject(o) ==
  LET old == listeners.globals[o]
      ref == IF old = 1 THEN 2 ELSE 1
  IN listeners' = [listeners EXCEPT !.globals[o] = ref, !.refs = (@ \ {<<o, old>>}) \cup {<<o, ref>>}]

UnregisterGlobalCallObject(os) ==
  /\ \E o \in os : listeners.globals[o] # 0
  /\ listeners' = [listeners EXCEPT !.globals = [o \in Objects |-> IF o \in os THEN 0 ELSE @[o]],
                                    !.refs = {r \in @ : r[1] \notin os}]

Next ==
  \/ /\ ~listeners.spoiled /\ listeners.side # "globals"
     /\ \/ \E t \in Types, cb \in Callbacks :
             (\E once \in BOOLEAN : AddListener(t, cb, once)) \/ RemoveListener(t, cb)
        \/ \E t \in Types : RemoveListeners(t) \/ DispatchEvent(t)
        \/ RemoveAllListener \/ WorkerOnMessage \/ CallReturns \/ HandleException
  \/ /\ listeners.side = "globals"
     /\ \/ \E o \in Objects : RegisterGlobalCallObject(o) \/ UnregisterGlobalCallObject({o})
        \/ UnregisterGlobalCallObject(Objects)

----------------------------------------------------------------------------
(* A function is listed once for a type, and no list holds a deleted       *)
(* listener.                                                               *)
ListsAreSound ==
  \A t \in Types :
    /\ \A i, j \in listeners.lists[t] : listeners.info[i].cb = listeners.info[j].cb => i = j
    /\ listeners.lists[t] \cap listeners.deleted = {}

(* Whatever the functions add, remove and dispatch while they are called,  *)
(* a dispatch that runs to its end has called every listener that was      *)
(* there at its start and is there still, each once, and a listener for    *)
(* one call has returned from one call at most.                            *)
DispatchIsComplete ==
  /\ listeners.missed = {}
  /\ \A f \in Range(listeners.frames) : \A m, n \in DOMAIN f.called : f.called[m] = f.called[n] => m = n
  /\ \A i \in 1..listeners.made : listeners.info[i].once => listeners.done[i] <= 1

(* A registered name has a live reference, and no other reference is kept. *)
ReferencesAreExact ==
  listeners.refs = {<<o, listeners.globals[o]>> : o \in {p \in Objects : listeners.globals[p] # 0}}

=============================================================================
