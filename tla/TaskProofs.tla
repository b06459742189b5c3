----------------------------- MODULE TaskProofs -----------------------------
(***************************************************************************)
(* Lemmas about TaskQueues, TaskLife and TaskGroup, each with the          *)
(* invariant that a step keeps: for any number of workers, tasks and       *)
(* executions.                                                             *)
(***************************************************************************)
EXTENDS Parts, SequenceTheorems, FiniteSetTheorems, WellFoundedInduction, TLAPS

CONSTANTS
  Workers, PriorityTaskCount, MaxQueued,     \* TaskQueues
  MaxExecutions,                             \* TaskLife
  Tasks, MaxGroupExecutions                  \* TaskGroup

Queues == INSTANCE TaskQueues WITH queues <- state
Life == INSTANCE TaskLife WITH life <- state
Group == INSTANCE TaskGroup WITH group <- state, MaxExecutions <- MaxGroupExecutions

----------------------------------------------------------------------------
(* The queues.  For a task of low priority to have its turn, the turns     *)
(* taken, read as a number with one digit for each weighted priority, must *)
(* grow with every dequeue that takes another task: a queue that is passed *)
(* over may get new turns only if a more significant one has used up one.  *)

(* What the bounds of TaskQueues are. *)
QueuesAssumption == PriorityTaskCount \in Nat /\ MaxQueued \in Nat

(* The values of queues. *)
QueueValues ==
  [system : BOOLEAN,
   length : [Queues!Priorities -> 0..MaxQueued], executed : [Queues!Weighted -> 0..PriorityTaskCount],
   total : Nat, nonIdle : Nat, performIdle : BOOLEAN,
   asked : [Workers -> {"no", "choose", "skip"}], performs : [Workers -> Queues!Priorities \cup {"none"}]]

(* The counters are those of the queues. *)
CountersAreExact(q) == q.total = Queues!Queued(q.length) /\ q.nonIdle = Queues!NonIdle(q.length)

(* A worker that goes on to dequeue performs nothing; one task of idle     *)
(* priority is performed at a time, and the flag says so.                  *)
AskedAreFree(q) == \A w \in Workers : q.asked[w] # "no" => q.performs[w] = "none"

OneIdle(q) ==
  /\ q.performIdle <=> \E w \in Workers : q.performs[w] = "idle"
  /\ \A v, w \in Workers : q.performs[v] = "idle" /\ q.performs[w] = "idle" => v = w

QueuesInv ==
  state \in QueueValues /\ CountersAreExact(state) /\ AskedAreFree(state) /\ OneIdle(state)

(* The fields. *)
LEMMA QueueFields ==
  ASSUME NEW q \in QueueValues
  PROVE  /\ q.system \in BOOLEAN /\ q.length \in [Queues!Priorities -> 0..MaxQueued]
         /\ q.executed \in [Queues!Weighted -> 0..PriorityTaskCount]
         /\ q.total \in Nat /\ q.nonIdle \in Nat /\ q.performIdle \in BOOLEAN
         /\ q.asked \in [Workers -> {"no", "choose", "skip"}]
         /\ q.performs \in [Workers -> Queues!Priorities \cup {"none"}]
BY Zenon DEF QueueValues

(* The length of a queue counts. *)
LEMMA LengthsAre ==
  ASSUME QueuesAssumption, NEW q \in QueueValues
  PROVE  q.length \in [Queues!Priorities -> Nat] /\ \A p \in Queues!Priorities : q.length[p] <= MaxQueued
<1>1. q.length \in [Queues!Priorities -> 0..MaxQueued]
  BY QueueFields
<1> QED BY <1>1 DEF QueuesAssumption

(* A task more in a queue is one more in the sums. *)
LEMMA OneMore ==
  ASSUME NEW l \in [Queues!Priorities -> Nat], NEW p \in Queues!Priorities, NEW m \in [Queues!Priorities -> Nat],
         m[p] = l[p] + 1, \A q \in Queues!Priorities : q # p => m[q] = l[q]
  PROVE  /\ Queues!Queued(l) \in Nat /\ Queues!NonIdle(l) \in Nat
         /\ Queues!Queued(m) = Queues!Queued(l) + 1 /\ Queues!NonIdle(m) = Queues!NonIdle(l) + Queues!Counts(p)
         /\ l[p] <= Queues!Queued(l) /\ Queues!Counts(p) \in Nat
<1>1. /\ "userInteraction" \in Queues!Priorities /\ "deadline" \in Queues!Priorities /\ "high" \in Queues!Priorities
      /\ "medium" \in Queues!Priorities /\ "low" \in Queues!Priorities /\ "idle" \in Queues!Priorities
  BY DEF Queues!Priorities, Queues!Weighted
<1>2. \A q \in Queues!Priorities : l[q] \in Nat /\ m[q] \in Nat
  OBVIOUS
<1>3. PICK a1 \in Nat, a2 \in Nat, a3 \in Nat, a4 \in Nat, a5 \in Nat, a6 \in Nat :
        /\ a1 = l["userInteraction"] /\ a2 = l["deadline"] /\ a3 = l["high"]
        /\ a4 = l["medium"] /\ a5 = l["low"] /\ a6 = l["idle"]
  BY <1>1, <1>2
<1>4. PICK b1 \in Nat, b2 \in Nat, b3 \in Nat, b4 \in Nat, b5 \in Nat, b6 \in Nat :
        /\ b1 = m["userInteraction"] /\ b2 = m["deadline"] /\ b3 = m["high"]
        /\ b4 = m["medium"] /\ b5 = m["low"] /\ b6 = m["idle"]
  BY <1>1, <1>2
<1>5. /\ Queues!NonIdle(l) = a1 + a2 + a3 + a4 + a5 /\ Queues!NonIdle(m) = b1 + b2 + b3 + b4 + b5
      /\ Queues!Queued(l) = a1 + a2 + a3 + a4 + a5 + a6 /\ Queues!Queued(m) = b1 + b2 + b3 + b4 + b5 + b6
  BY <1>3, <1>4 DEF Queues!NonIdle, Queues!Queued
<1>6. /\ b1 = a1 + (IF p = "userInteraction" THEN 1 ELSE 0)
      /\ b2 = a2 + (IF p = "deadline" THEN 1 ELSE 0)
      /\ b3 = a3 + (IF p = "high" THEN 1 ELSE 0)
      /\ b4 = a4 + (IF p = "medium" THEN 1 ELSE 0)
      /\ b5 = a5 + (IF p = "low" THEN 1 ELSE 0)
      /\ b6 = a6 + (IF p = "idle" THEN 1 ELSE 0)
  BY <1>1, <1>3, <1>4
<1>7. p \in {"userInteraction", "deadline", "high", "medium", "low", "idle"}
  BY DEF Queues!Priorities, Queues!Weighted
<1>8. /\ b1 + b2 + b3 + b4 + b5 + b6 = (a1 + a2 + a3 + a4 + a5 + a6) + 1
      /\ b1 + b2 + b3 + b4 + b5 = (a1 + a2 + a3 + a4 + a5) + Queues!Counts(p)
  BY <1>6, <1>7 DEF Queues!Counts
<1>9. l[p] <= a1 + a2 + a3 + a4 + a5 + a6
  BY <1>3, <1>7
<1> QED BY <1>5, <1>8, <1>9 DEF Queues!Counts

(* A step that leaves the workers alone and changes the queues and their   *)
(* counters together keeps the invariant.                                  *)
LEMMA QueuesChange ==
  ASSUME QueuesAssumption, QueuesInv, NEW m \in [Queues!Priorities -> 0..MaxQueued],
         state' = [state EXCEPT !.length = m, !.total = Queues!Queued(m), !.nonIdle = Queues!NonIdle(m)],
         Queues!Queued(m) \in Nat, Queues!NonIdle(m) \in Nat
  PROVE  QueuesInv'
<1>1. state \in QueueValues /\ CountersAreExact(state) /\ AskedAreFree(state) /\ OneIdle(state)
  BY DEF QueuesInv
<1>2. state' \in QueueValues
  BY <1>1, Zenon DEF QueueValues
<1>3. /\ state'.length = m /\ state'.total = Queues!Queued(m) /\ state'.nonIdle = Queues!NonIdle(m)
      /\ state'.performIdle = state.performIdle /\ state'.asked = state.asked
      /\ state'.performs = state.performs
  BY <1>1 DEF QueueValues
<1>4. CountersAreExact(state')
  BY <1>3 DEF CountersAreExact
<1>5. AskedAreFree(state') /\ OneIdle(state')
  BY <1>1, <1>3 DEF AskedAreFree, OneIdle
<1> QED BY <1>2, <1>4, <1>5 DEF QueuesInv

(* Enqueueing keeps the invariant. *)
LEMMA EnqueueKeepsInv ==
  ASSUME QueuesAssumption, QueuesInv, NEW p \in Queues!Priorities, Queues!EnqueueTaskId(p)
  PROVE  QueuesInv'
<1>1. state \in QueueValues /\ CountersAreExact(state)
  BY DEF QueuesInv
<1>2. PICK l : l = state.length
  OBVIOUS
<1>3. PICK m : m = [state.length EXCEPT ![p] = @ + 1]
  OBVIOUS
<1>4. l \in [Queues!Priorities -> Nat] /\ \A q \in Queues!Priorities : l[q] <= MaxQueued
  BY <1>1, <1>2, LengthsAre
<1>5. m \in [Queues!Priorities -> Nat] /\ m[p] = l[p] + 1 /\ \A q \in Queues!Priorities : q # p => m[q] = l[q]
  BY <1>2, <1>3, <1>4
<1>6. /\ Queues!Queued(l) \in Nat /\ Queues!NonIdle(l) \in Nat
      /\ Queues!Queued(m) = Queues!Queued(l) + 1 /\ Queues!NonIdle(m) = Queues!NonIdle(l) + Queues!Counts(p)
      /\ l[p] <= Queues!Queued(l) /\ Queues!Counts(p) \in Nat
  BY <1>4, <1>5, OneMore
<1>7. m \in [Queues!Priorities -> 0..MaxQueued]
  <2>1. Queues!Queued(l) < MaxQueued /\ MaxQueued \in Nat
    BY <1>2 DEF Queues!EnqueueTaskId, QueuesAssumption
  <2>2. m[p] <= MaxQueued
    BY <1>4, <1>5, <1>6, <2>1
  <2>3. \A q \in Queues!Priorities : m[q] \in 0..MaxQueued
    BY <1>4, <1>5, <2>1, <2>2
  <2> QED BY <1>5, <2>3
<1>8. state' = [state EXCEPT !.length = m, !.total = Queues!Queued(m), !.nonIdle = Queues!NonIdle(m)]
  <2>1. state' = [state EXCEPT !.length = m, !.total = state.total + 1, !.nonIdle = state.nonIdle + Queues!Counts(p)]
    BY <1>3 DEF Queues!EnqueueTaskId
  <2>2. state.total + 1 = Queues!Queued(m) /\ state.nonIdle + Queues!Counts(p) = Queues!NonIdle(m)
    BY <1>1, <1>2, <1>6 DEF CountersAreExact
  <2> QED BY <2>1, <2>2
<1>9. Queues!Queued(m) \in Nat /\ Queues!NonIdle(m) \in Nat
  BY <1>6
<1> QED BY <1>7, <1>8, <1>9, QueuesChange

(* What a task less in a queue does to the counters. *)
LEMMA OneLess ==
  ASSUME QueuesAssumption, QueuesInv, NEW p \in Queues!Priorities, ~Queues!IsEmpty(p), NEW m,
         m = [state.length EXCEPT ![p] = @ - 1]
  PROVE  /\ m \in [Queues!Priorities -> 0..MaxQueued] /\ m[p] < state.length[p]
         /\ state.total - 1 = Queues!Queued(m) /\ state.nonIdle - Queues!Counts(p) = Queues!NonIdle(m)
         /\ Queues!Queued(m) \in Nat /\ Queues!NonIdle(m) \in Nat
<1>1. state \in QueueValues /\ CountersAreExact(state)
  BY DEF QueuesInv
<1>2. PICK l : l = state.length
  OBVIOUS
<1>3. l \in [Queues!Priorities -> Nat] /\ \A q \in Queues!Priorities : l[q] <= MaxQueued
  BY <1>1, <1>2, LengthsAre
<1>4. l[p] \in Nat /\ l[p] # 0 /\ MaxQueued \in Nat
  BY <1>2, <1>3 DEF Queues!IsEmpty, QueuesAssumption
<1>5. m[p] = l[p] - 1 /\ \A q \in Queues!Priorities : q # p => m[q] = l[q]
  BY <1>2, <1>3
<1>6. l[p] - 1 \in Nat /\ l[p] = (l[p] - 1) + 1 /\ l[p] - 1 < l[p] /\ (l[p] <= MaxQueued => l[p] - 1 <= MaxQueued)
  BY <1>4
<1>7. m \in [Queues!Priorities -> Nat] /\ l[p] = m[p] + 1 /\ \A q \in Queues!Priorities : q # p => l[q] = m[q]
  BY <1>2, <1>3, <1>5, <1>6
<1>8. /\ Queues!Queued(m) \in Nat /\ Queues!NonIdle(m) \in Nat
      /\ Queues!Queued(l) = Queues!Queued(m) + 1 /\ Queues!NonIdle(l) = Queues!NonIdle(m) + Queues!Counts(p) /\ Queues!Counts(p) \in Nat
  BY <1>3, <1>7, OneMore
<1>9. m \in [Queues!Priorities -> 0..MaxQueued]
  <2>1. \A q \in Queues!Priorities : m[q] \in Nat /\ m[q] <= MaxQueued
    BY <1>3, <1>5, <1>6, <1>7
  <2> QED BY <1>4, <1>7, <2>1
<1>10. state.total - 1 = Queues!Queued(m) /\ state.nonIdle - Queues!Counts(p) = Queues!NonIdle(m)
  <2>1. state.total = Queues!Queued(m) + 1 /\ state.nonIdle = Queues!NonIdle(m) + Queues!Counts(p)
    BY <1>1, <1>2, <1>8 DEF CountersAreExact
  <2>2. PICK x \in Nat, y \in Nat, c \in Nat : x = Queues!Queued(m) /\ y = Queues!NonIdle(m) /\ c = Queues!Counts(p)
    BY <1>8
  <2>3. (x + 1) - 1 = x /\ (y + c) - c = y
    OBVIOUS
  <2> QED BY <2>1, <2>2, <2>3
<1> QED BY <1>2, <1>5, <1>6, <1>8, <1>9, <1>10

(* Erasing a waiting task keeps the invariant. *)
LEMMA EraseKeepsInv ==
  ASSUME QueuesAssumption, QueuesInv, NEW p \in Queues!Priorities, Queues!EraseWaitingTaskId(p)
  PROVE  QueuesInv'
<1>1. PICK m : m = [state.length EXCEPT ![p] = @ - 1]
  OBVIOUS
<1>2. /\ m \in [Queues!Priorities -> 0..MaxQueued]
      /\ state.total - 1 = Queues!Queued(m) /\ state.nonIdle - Queues!Counts(p) = Queues!NonIdle(m)
      /\ Queues!Queued(m) \in Nat /\ Queues!NonIdle(m) \in Nat
  BY <1>1, OneLess DEF Queues!EraseWaitingTaskId
<1>3. state' = [state EXCEPT !.length = m, !.total = state.total - 1, !.nonIdle = state.nonIdle - Queues!Counts(p)]
  BY <1>1 DEF Queues!EraseWaitingTaskId
<1>4. state' = [state EXCEPT !.length = m, !.total = Queues!Queued(m), !.nonIdle = Queues!NonIdle(m)]
  BY <1>2, <1>3
<1> QED BY <1>2, <1>4, QueuesChange

(* IsChooseIdle keeps the invariant. *)
LEMMA IsChooseIdleKeepsInv ==
  ASSUME QueuesAssumption, QueuesInv, NEW w \in Workers, Queues!IsChooseIdle(w)
  PROVE  QueuesInv'
<1>1. state \in QueueValues /\ CountersAreExact(state) /\ AskedAreFree(state) /\ OneIdle(state)
  BY DEF QueuesInv
<1>2. PICK c \in {"choose", "skip"} : c = IF \A v \in Workers : state.performs[v] = "none" THEN "choose" ELSE "skip"
  OBVIOUS
<1>3. PICK a : a = [state.asked EXCEPT ![w] = c]
  OBVIOUS
<1>4. state' = [state EXCEPT !.asked = a] /\ state.performs[w] = "none"
  BY <1>2, <1>3 DEF Queues!IsChooseIdle
<1>5. /\ a \in [Workers -> {"no", "choose", "skip"}]
      /\ \A v \in Workers : v # w => a[v] = state.asked[v]
  BY <1>1, <1>2, <1>3, QueueFields
<1>6. state' \in QueueValues
  BY <1>1, <1>4, <1>5, Zenon DEF QueueValues
<1>7. /\ state'.length = state.length /\ state'.total = state.total /\ state'.nonIdle = state.nonIdle
      /\ state'.performIdle = state.performIdle /\ state'.asked = a /\ state'.performs = state.performs
  BY <1>1, <1>4 DEF QueueValues
<1>8. CountersAreExact(state') /\ OneIdle(state')
  BY <1>1, <1>7 DEF CountersAreExact, OneIdle
<1>9. AskedAreFree(state')
  BY <1>1, <1>4, <1>5, <1>7 DEF AskedAreFree
<1> QED BY <1>6, <1>8, <1>9 DEF QueuesInv

(* The end of a task keeps the invariant. *)
LEMMA TaskPerformedKeepsInv ==
  ASSUME QueuesAssumption, QueuesInv, NEW w \in Workers, Queues!TaskPerformed(w)
  PROVE  QueuesInv'
<1>1. state \in QueueValues /\ CountersAreExact(state) /\ AskedAreFree(state) /\ OneIdle(state)
  BY DEF QueuesInv
<1>2. PICK r : r = [state.performs EXCEPT ![w] = "none"]
  OBVIOUS
<1>3. PICK i \in BOOLEAN : i = (state.performIdle /\ state.performs[w] # "idle")
  OBVIOUS
<1>4. state' = [state EXCEPT !.performs = r, !.performIdle = i]
  BY <1>2, <1>3 DEF Queues!TaskPerformed
<1>5. /\ r \in [Workers -> Queues!Priorities \cup {"none"}] /\ r[w] = "none"
      /\ \A v \in Workers : v # w => r[v] = state.performs[v]
  BY <1>1, <1>2, QueueFields
<1>6. state' \in QueueValues
  BY <1>1, <1>4, <1>5, Zenon DEF QueueValues
<1>7. /\ state'.length = state.length /\ state'.total = state.total /\ state'.nonIdle = state.nonIdle
      /\ state'.performIdle = i /\ state'.asked = state.asked /\ state'.performs = r
  BY <1>1, <1>4 DEF QueueValues
<1>8. CountersAreExact(state')
  BY <1>1, <1>7 DEF CountersAreExact
<1>9. AskedAreFree(state')
  BY <1>1, <1>5, <1>7 DEF AskedAreFree
<1>10. OneIdle(state')
  <2>1. CASE state.performs[w] = "idle"
    <3>1. i = FALSE
      BY <1>3, <2>1
    <3>2. \A v \in Workers : r[v] # "idle"
      BY <1>1, <1>5, <2>1 DEF OneIdle
    <3> QED BY <1>7, <3>1, <3>2 DEF OneIdle
  <2>2. CASE state.performs[w] # "idle"
    <3>1. i <=> state.performIdle
      BY <1>3, <2>2
    <3>2. \A v \in Workers : r[v] = "idle" <=> state.performs[v] = "idle"
      BY <1>5, <2>2
    <3> QED BY <1>1, <1>7, <3>1, <3>2 DEF OneIdle
  <2> QED BY <2>1, <2>2
<1> QED BY <1>6, <1>8, <1>9, <1>10 DEF QueuesInv

(* To take a task out of a queue keeps the invariant; the queue is one     *)
(* shorter, and the turns are those given.                                 *)
LEMMA GetTaskKeepsInv ==
  ASSUME QueuesAssumption, QueuesInv, NEW w \in Workers, NEW p \in Queues!Priorities,
         NEW e \in [Queues!Weighted -> 0..PriorityTaskCount],
         ~Queues!IsEmpty(p), p = "idle" => ~state.performIdle, state.asked[w] # "no",
         Queues!GetTaskByPriority(w, p, e)
  PROVE  QueuesInv' /\ state'.length[p] < state.length[p] /\ state'.executed = e
<1>1. /\ state \in QueueValues /\ CountersAreExact(state) /\ AskedAreFree(state) /\ OneIdle(state)
      /\ state.performs[w] = "none"
  BY DEF QueuesInv, AskedAreFree
<1>2. PICK m : m = [state.length EXCEPT ![p] = @ - 1]
  OBVIOUS
<1>3. /\ m \in [Queues!Priorities -> 0..MaxQueued] /\ m[p] < state.length[p]
      /\ state.total - 1 = Queues!Queued(m) /\ state.nonIdle - Queues!Counts(p) = Queues!NonIdle(m)
      /\ Queues!Queued(m) \in Nat /\ Queues!NonIdle(m) \in Nat
  BY <1>2, OneLess
<1>4. PICK dependent \in BOOLEAN :
        state' = [state EXCEPT
          !.length[p] = @ - 1, !.total = @ - 1, !.nonIdle = @ - Queues!Counts(p),
          !.executed = e, !.asked[w] = "no",
          !.performIdle = @ \/ (p = "idle" /\ ~dependent),
          !.performs[w] = IF dependent THEN "none" ELSE p]
  BY DEF Queues!GetTaskByPriority
<1>5. PICK a : a = [state.asked EXCEPT ![w] = "no"]
  OBVIOUS
<1>6. PICK r : r = [state.performs EXCEPT ![w] = IF dependent THEN "none" ELSE p]
  OBVIOUS
<1>7. PICK i \in BOOLEAN : i = (state.performIdle \/ (p = "idle" /\ ~dependent))
  OBVIOUS
<1>8. state' = [state EXCEPT !.length = m, !.total = Queues!Queued(m), !.nonIdle = Queues!NonIdle(m), !.executed = e,
                               !.asked = a, !.performIdle = i, !.performs = r]
  <2>1. state' = [state EXCEPT !.length = m, !.total = state.total - 1, !.nonIdle = state.nonIdle - Queues!Counts(p),
                               !.executed = e, !.asked = a, !.performIdle = i, !.performs = r]
    BY <1>2, <1>4, <1>5, <1>6, <1>7
  <2> QED BY <1>3, <2>1
<1>9. /\ r \in [Workers -> Queues!Priorities \cup {"none"}] /\ r[w] = IF dependent THEN "none" ELSE p
      /\ \A v \in Workers : v # w => r[v] = state.performs[v]
  BY <1>1, <1>6, QueueFields
<1>10. /\ a \in [Workers -> {"no", "choose", "skip"}] /\ a[w] = "no"
       /\ \A v \in Workers : v # w => a[v] = state.asked[v]
  BY <1>1, <1>5, QueueFields
<1>11. state' \in QueueValues
  <2>1. PICK k : k = [state EXCEPT !.length = m, !.total = Queues!Queued(m), !.nonIdle = Queues!NonIdle(m), !.executed = e]
    OBVIOUS
  <2>2. k \in QueueValues
    BY <1>1, <1>3, <2>1, Zenon DEF QueueValues
  <2>3. [k EXCEPT !.asked = a, !.performIdle = i, !.performs = r] \in QueueValues
    BY <1>7, <1>9, <1>10, <2>2, Zenon DEF QueueValues
  <2>4. state' = [k EXCEPT !.asked = a, !.performIdle = i, !.performs = r]
    BY <1>1, <1>8, <2>1 DEF QueueValues
  <2> QED BY <2>3, <2>4
<1>12. /\ state'.length = m /\ state'.total = Queues!Queued(m) /\ state'.nonIdle = Queues!NonIdle(m) /\ state'.executed = e
       /\ state'.performIdle = i /\ state'.asked = a /\ state'.performs = r
  BY <1>1, <1>8 DEF QueueValues
<1>13. CountersAreExact(state')
  BY <1>12 DEF CountersAreExact
<1>14. AskedAreFree(state')
  BY <1>1, <1>9, <1>10, <1>12 DEF AskedAreFree
<1>15. OneIdle(state')
  <2>1. CASE p = "idle" /\ ~dependent
    <3>1. i = TRUE /\ r[w] = "idle" /\ ~state.performIdle
      BY <1>7, <1>9, <2>1
    <3>2. \A v \in Workers : v # w => r[v] # "idle"
      BY <1>1, <1>9, <3>1 DEF OneIdle
    <3> QED BY <1>12, <3>1, <3>2 DEF OneIdle
  <2>2. CASE ~(p = "idle" /\ ~dependent)
    <3>1. i <=> state.performIdle
      BY <1>7, <2>2
    <3>2. r[w] # "idle" /\ state.performs[w] # "idle"
      BY <1>1, <1>9, <2>2
    <3>3. \A v \in Workers : r[v] = "idle" <=> state.performs[v] = "idle"
      BY <1>9, <3>2
    <3> QED BY <1>1, <1>12, <3>1, <3>3 DEF OneIdle
  <2> QED BY <2>1, <2>2
<1> QED BY <1>3, <1>11, <1>12, <1>13, <1>14, <1>15 DEF QueuesInv

(* The turns that a dequeue gives are within the bound. *)
LEMMA TurnsAreBounded ==
  ASSUME QueuesAssumption, QueuesInv, NEW p, NEW before,
         p \in Queues!Weighted /\ p \notin before => ~Queues!Skipped(p)
  PROVE  /\ Queues!Turn(p, before) \in [Queues!Weighted -> 0..PriorityTaskCount]
         /\ state.executed \in [Queues!Weighted -> 0..PriorityTaskCount]
         /\ \A q \in before \cap Queues!Weighted : Queues!Turn(p, before)[q] = 0
         /\ \A q \in Queues!Weighted \ before : q # p => Queues!Turn(p, before)[q] = state.executed[q]
         /\ p \in Queues!Weighted \ before => Queues!Turn(p, before)[p] = state.executed[p] + 1
<1>1. state.executed \in [Queues!Weighted -> 0..PriorityTaskCount] /\ PriorityTaskCount \in Nat
  BY QueueFields DEF QueuesInv, QueuesAssumption
<1>2. PICK t : t = Queues!Turn(p, before)
  OBVIOUS
<1>3. /\ t = [q \in Queues!Weighted |-> t[q]]
      /\ \A q \in Queues!Weighted : t[q] = IF q \in before THEN 0 ELSE state.executed[q] + (IF q = p THEN 1 ELSE 0)
  BY <1>2 DEF Queues!Turn
<1>4. ASSUME NEW q \in Queues!Weighted
      PROVE  t[q] \in 0..PriorityTaskCount
  <2>1. state.executed[q] \in 0..PriorityTaskCount
    BY <1>1
  <2>2. CASE q \in before
    BY <1>1, <1>3, <2>2
  <2>3. CASE q \notin before /\ q = p
    <3>1. ~(state.executed[q] >= PriorityTaskCount)
      BY <2>3 DEF Queues!Skipped
    <3> QED BY <1>1, <1>3, <2>1, <2>3, <3>1
  <2>4. CASE q \notin before /\ q # p
    <3>1. t[q] = state.executed[q] + 0
      BY <1>3, <2>4
    <3> QED BY <1>1, <2>1, <3>1
  <2> QED BY <2>2, <2>3, <2>4
<1>5. t \in [Queues!Weighted -> 0..PriorityTaskCount]
  BY <1>3, <1>4
<1>6. \A q \in Queues!Weighted \ before : q # p => t[q] = state.executed[q]
  <2> SUFFICES ASSUME NEW q \in Queues!Weighted \ before, q # p
               PROVE  t[q] = state.executed[q]
    OBVIOUS
  <2>1. t[q] = state.executed[q] + 0 /\ state.executed[q] \in Nat
    BY <1>1, <1>3
  <2> QED BY <2>1
<1> QED BY <1>1, <1>2, <1>3, <1>5, <1>6

(* A digit more in a higher place outweighs all lower ones. *)
LEMMA Carries ==
  ASSUME NEW n \in Nat, NEW a \in Nat, NEW b \in Nat, a < b,
         NEW x \in Nat, x < n, NEW y \in Nat
  PROVE  a * n + x < b * n + y
<1>1. PICK d \in Nat : b = a + 1 + d
  <2>1. b - a - 1 \in Nat /\ b = a + 1 + (b - a - 1)
    OBVIOUS
  <2> QED BY <2>1
<1>2. b * n = a * n + n + d * n
  BY <1>1
<1>3. d * n \in Nat /\ a * n \in Nat
  OBVIOUS
<1>4. PICK c \in Nat, k \in Nat, l \in Nat : c = a * n /\ k = d * n /\ l = b * n
  BY <1>1, <1>2, <1>3
<1>5. l = c + n + k
  BY <1>2, <1>4
<1>6. c + x < l + y
  BY <1>5
<1> QED BY <1>4, <1>6

(* When a weighted queue has its turn the turns have advanced: those that  *)
(* start again are worth less than the one that is taken.                  *)
LEMMA TurnsAdvance ==
  ASSUME QueuesAssumption, NEW s \in [Queues!Weighted -> 0..PriorityTaskCount],
         NEW t \in [Queues!Weighted -> 0..PriorityTaskCount],
         \/ t["medium"] = s["medium"] + 1
         \/ t["medium"] = s["medium"] /\ t["high"] = s["high"] + 1
         \/ /\ t["medium"] = s["medium"] /\ t["high"] = s["high"] /\ t["deadline"] = s["deadline"] + 1
         \/ /\ t["medium"] = s["medium"] /\ t["high"] = s["high"] /\ t["deadline"] = s["deadline"]
            /\ t["userInteraction"] = s["userInteraction"] + 1
  PROVE  Queues!Turns(t) > Queues!Turns(s)
<1> PICK n : n = PriorityTaskCount + 1
  OBVIOUS
<1>1. n \in Nat /\ PriorityTaskCount \in Nat
  BY DEF QueuesAssumption
<1>2. \A q \in Queues!Weighted : s[q] \in Nat /\ s[q] < n /\ t[q] \in Nat
  BY <1>1
<1>3. /\ "userInteraction" \in Queues!Weighted /\ "deadline" \in Queues!Weighted /\ "high" \in Queues!Weighted /\ "medium" \in Queues!Weighted
  BY DEF Queues!Weighted
<1>4. PICK m \in Nat, h \in Nat, d \in Nat, u \in Nat :
        m = s["medium"] /\ h = s["high"] /\ d = s["deadline"] /\ u = s["userInteraction"]
  BY <1>2, <1>3
<1>5. PICK m2 \in Nat, h2 \in Nat, d2 \in Nat, u2 \in Nat :
        m2 = t["medium"] /\ h2 = t["high"] /\ d2 = t["deadline"] /\ u2 = t["userInteraction"]
  BY <1>2, <1>3
<1>6. h < n /\ d < n /\ u < n
  BY <1>2, <1>3, <1>4
<1>7. PICK x \in Nat, x2 \in Nat : x = m * n + h /\ x2 = m2 * n + h2
  BY <1>1
<1>8. PICK y \in Nat, y2 \in Nat : y = x * n + d /\ y2 = x2 * n + d2
  BY <1>1
<1>9. PICK z \in Nat, z2 \in Nat : z = y * n + u /\ z2 = y2 * n + u2
  BY <1>1
<1>10. Queues!Turns(s) = z /\ Queues!Turns(t) = z2
  BY <1>4, <1>5, <1>7, <1>8, <1>9 DEF Queues!Turns
<1>11. m < m2 => x < x2
  BY <1>1, <1>6, <1>7, Carries
<1>12. x < x2 => y < y2
  BY <1>1, <1>6, <1>8, Carries
<1>13. y < y2 => z < z2
  BY <1>1, <1>6, <1>9, Carries
<1>14. CASE m2 = m + 1
  <2>1. m < m2
    BY <1>14
  <2> QED BY <1>10, <1>11, <1>12, <1>13, <2>1
<1>15. CASE m2 = m /\ h2 = h + 1
  <2>1. m2 * n = m * n /\ m * n \in Nat
    BY <1>1, <1>15
  <2>2. PICK c \in Nat : c = m * n
    BY <2>1
  <2>3. x = c + h /\ x2 = c + h2
    BY <1>7, <2>1, <2>2
  <2>4. x < x2
    BY <1>15, <2>3
  <2> QED BY <1>10, <1>12, <1>13, <2>4
<1>16. CASE m2 = m /\ h2 = h /\ d2 = d + 1
  <2>1. x2 = x
    BY <1>7, <1>16
  <2>2. PICK c \in Nat : c = x * n
    BY <1>1
  <2>3. y = c + d /\ y2 = c + d2
    BY <1>8, <2>1, <2>2
  <2>4. y < y2
    BY <1>16, <2>3
  <2> QED BY <1>10, <1>13, <2>4
<1>17. CASE m2 = m /\ h2 = h /\ d2 = d /\ u2 = u + 1
  <2>1. x2 = x
    BY <1>7, <1>17
  <2>2. y2 = y
    BY <1>8, <1>17, <2>1
  <2>3. PICK c \in Nat : c = y * n
    BY <1>1
  <2>4. z = c + u /\ z2 = c + u2
    BY <1>9, <2>2, <2>3
  <2>5. z < z2
    BY <1>17, <2>4
  <2> QED BY <1>10, <2>5
<1> QED BY <1>4, <1>5, <1>14, <1>15, <1>16, <1>17

(* A weighted queue has its turn. *)
LEMMA DequeueWeightedIs ==
  ASSUME QueuesAssumption, QueuesInv, NEW w \in Workers, state.asked[w] # "no",
         NEW p \in Queues!Weighted, NEW before \in SUBSET Queues!Weighted, p \notin before, Queues!DequeueWeighted(w, p, before)
  PROVE  /\ QueuesInv' /\ state'.executed = Queues!Turn(p, before)
         /\ Queues!Turn(p, before) \in [Queues!Weighted -> 0..PriorityTaskCount]
         /\ state.executed \in [Queues!Weighted -> 0..PriorityTaskCount]
         /\ Queues!Turn(p, before)[p] = state.executed[p] + 1
         /\ \A q \in Queues!Weighted \ before : q # p => Queues!Turn(p, before)[q] = state.executed[q]
<1>1. ~Queues!Skipped(p) /\ Queues!GetTaskByPriority(w, p, Queues!Turn(p, before))
  BY DEF Queues!DequeueWeighted
<1>2. /\ Queues!Turn(p, before) \in [Queues!Weighted -> 0..PriorityTaskCount]
      /\ state.executed \in [Queues!Weighted -> 0..PriorityTaskCount]
      /\ \A q \in Queues!Weighted \ before : q # p => Queues!Turn(p, before)[q] = state.executed[q]
      /\ p \in Queues!Weighted \ before => Queues!Turn(p, before)[p] = state.executed[p] + 1
  BY <1>1, TurnsAreBounded
<1>3. p \in Queues!Priorities /\ p # "idle" /\ ~Queues!IsEmpty(p)
  BY <1>1 DEF Queues!Priorities, Queues!Weighted, Queues!Skipped
<1>4. PICK e \in [Queues!Weighted -> 0..PriorityTaskCount] : e = Queues!Turn(p, before)
  BY <1>2
<1>5. QueuesInv' /\ state'.executed = e
  BY <1>1, <1>3, <1>4, GetTaskKeepsInv
<1> QED BY <1>2, <1>4, <1>5

(* DequeueTaskId keeps the invariant, and brings the turn of a task of low *)
(* priority nearer.                                                        *)
LEMMA DequeueTaskIdIs ==
  ASSUME QueuesAssumption, QueuesInv, NEW w \in Workers, Queues!DequeueTaskId(w)
  PROVE  /\ QueuesInv'
         /\ ~Queues!IsEmpty("low") => \/ state'.length["low"] < state.length["low"]
                               \/ Queues!Turns(state'.executed) > Queues!Turns(state.executed)
<1>1. state \in QueueValues /\ CountersAreExact(state) /\ AskedAreFree(state) /\ OneIdle(state)
  BY DEF QueuesInv
<1>2. state.asked[w] # "no"
  BY DEF Queues!DequeueTaskId
<1>3. PICK above : above = IF state.system THEN Queues!SystemOnly ELSE {}
  OBVIOUS
<1>4. PICK all : all = above \cup {"high", "medium"}
  OBVIOUS
<1>5. above \in SUBSET {"userInteraction", "deadline"}
  BY <1>3 DEF Queues!SystemOnly
<1>6. Queues!Weighted = {"userInteraction", "deadline", "high", "medium"}
  BY DEF Queues!Weighted
<1>7. CASE Queues!DequeueWeighted(w, "userInteraction", {})
  <2>1. "userInteraction" \in Queues!Weighted /\ {} \in SUBSET Queues!Weighted /\ "userInteraction" \notin {}
    BY <1>6
  <2>2. PICK t : t = Queues!Turn("userInteraction", {})
    OBVIOUS
  <2>3. /\ QueuesInv' /\ state'.executed = t
        /\ t \in [Queues!Weighted -> 0..PriorityTaskCount]
        /\ state.executed \in [Queues!Weighted -> 0..PriorityTaskCount]
        /\ t["userInteraction"] = state.executed["userInteraction"] + 1
        /\ \A q \in Queues!Weighted \ {} : q # "userInteraction" => t[q] = state.executed[q]
    BY <1>2, <1>7, <2>1, <2>2, DequeueWeightedIs
  <2>4. /\ t["medium"] = state.executed["medium"] /\ t["high"] = state.executed["high"]
        /\ t["deadline"] = state.executed["deadline"]
    BY <1>6, <2>3
  <2>5. Queues!Turns(t) > Queues!Turns(state.executed)
    BY <2>3, <2>4, TurnsAdvance
  <2> QED BY <2>3, <2>5
<1>8. CASE Queues!DequeueWeighted(w, "deadline", {"userInteraction"})
  <2>1. "deadline" \in Queues!Weighted /\ {"userInteraction"} \in SUBSET Queues!Weighted /\ "deadline" \notin {"userInteraction"}
    BY <1>6
  <2>2. PICK t : t = Queues!Turn("deadline", {"userInteraction"})
    OBVIOUS
  <2>3. /\ QueuesInv' /\ state'.executed = t
        /\ t \in [Queues!Weighted -> 0..PriorityTaskCount]
        /\ state.executed \in [Queues!Weighted -> 0..PriorityTaskCount]
        /\ t["deadline"] = state.executed["deadline"] + 1
        /\ \A q \in Queues!Weighted \ {"userInteraction"} : q # "deadline" => t[q] = state.executed[q]
    BY <1>2, <1>8, <2>1, <2>2, DequeueWeightedIs
  <2>4. t["medium"] = state.executed["medium"] /\ t["high"] = state.executed["high"]
    BY <1>6, <2>3
  <2>5. Queues!Turns(t) > Queues!Turns(state.executed)
    BY <2>3, <2>4, TurnsAdvance
  <2> QED BY <2>3, <2>5
<1>9. CASE Queues!DequeueWeighted(w, "high", above)
  <2>1. "high" \in Queues!Weighted /\ above \in SUBSET Queues!Weighted /\ "high" \notin above
    BY <1>5, <1>6
  <2>2. PICK t : t = Queues!Turn("high", above)
    OBVIOUS
  <2>3. /\ QueuesInv' /\ state'.executed = t
        /\ t \in [Queues!Weighted -> 0..PriorityTaskCount]
        /\ state.executed \in [Queues!Weighted -> 0..PriorityTaskCount]
        /\ t["high"] = state.executed["high"] + 1
        /\ \A q \in Queues!Weighted \ above : q # "high" => t[q] = state.executed[q]
    BY <1>2, <1>9, <2>1, <2>2, DequeueWeightedIs
  <2>4. t["medium"] = state.executed["medium"]
    BY <1>5, <1>6, <2>3
  <2>5. Queues!Turns(t) > Queues!Turns(state.executed)
    BY <2>3, <2>4, TurnsAdvance
  <2> QED BY <2>3, <2>5
<1>10. CASE Queues!DequeueWeighted(w, "medium", above \cup {"high"})
  <2>1. PICK before : before = above \cup {"high"}
    OBVIOUS
  <2>2. "medium" \in Queues!Weighted /\ before \in SUBSET Queues!Weighted /\ "medium" \notin before
    <3>1. \A x \in before : x = "userInteraction" \/ x = "deadline" \/ x = "high"
      BY <1>5, <2>1
    <3>2. \A x \in before : x \in Queues!Weighted
      BY <1>6, <3>1, Zenon
    <3>3. "medium" \notin before
      BY <3>1
    <3>4. "medium" \in Queues!Weighted
      BY <1>6
    <3> QED BY <3>2, <3>3, <3>4, Zenon
  <2>3. Queues!DequeueWeighted(w, "medium", before)
    BY <1>10, <2>1
  <2>4. PICK t : t = Queues!Turn("medium", before)
    OBVIOUS
  <2>5. /\ QueuesInv' /\ state'.executed = t
        /\ t \in [Queues!Weighted -> 0..PriorityTaskCount]
        /\ state.executed \in [Queues!Weighted -> 0..PriorityTaskCount]
        /\ t["medium"] = state.executed["medium"] + 1
    BY <1>2, <2>2, <2>3, <2>4, DequeueWeightedIs
  <2>6. Queues!Turns(t) > Queues!Turns(state.executed)
    BY <2>5, TurnsAdvance
  <2> QED BY <2>5, <2>6
<1>11. /\ Queues!Turn("low", all) \in [Queues!Weighted -> 0..PriorityTaskCount]
       /\ Queues!Turn("idle", all) \in [Queues!Weighted -> 0..PriorityTaskCount]
       /\ Queues!Turn("none", all) \in [Queues!Weighted -> 0..PriorityTaskCount]
  <2>1. "low" \notin Queues!Weighted /\ "idle" \notin Queues!Weighted /\ "none" \notin Queues!Weighted
    BY <1>6
  <2> QED BY <2>1, TurnsAreBounded
<1>12. CASE ~Queues!IsEmpty("low") /\ Queues!GetTaskByPriority(w, "low", Queues!Turn("low", all))
  <2>1. "low" \in Queues!Priorities /\ "low" # "idle"
    BY DEF Queues!Priorities
  <2>2. QueuesInv' /\ state'.length["low"] < state.length["low"]
    BY <1>2, <1>11, <1>12, <2>1, GetTaskKeepsInv
  <2> QED BY <2>2
<1>13. CASE Queues!IsEmpty("low") /\ Queues!TakesIdle(w) /\ Queues!GetTaskByPriority(w, "idle", Queues!Turn("idle", all))
  <2>1. "idle" \in Queues!Priorities /\ ~Queues!IsEmpty("idle") /\ ~state.performIdle
    BY <1>13 DEF Queues!Priorities, Queues!TakesIdle
  <2>2. QueuesInv'
    BY <1>2, <1>11, <1>13, <2>1, GetTaskKeepsInv
  <2> QED BY <1>13, <2>2
<1>14. CASE Queues!IsEmpty("low") /\ state' = [state EXCEPT !.executed = Queues!Turn("none", all), !.asked[w] = "no"]
  <2>1. PICK e \in [Queues!Weighted -> 0..PriorityTaskCount] : e = Queues!Turn("none", all)
    BY <1>11
  <2>2. PICK a : a = [state.asked EXCEPT ![w] = "no"]
    OBVIOUS
  <2>3. /\ a \in [Workers -> {"no", "choose", "skip"}]
        /\ \A v \in Workers : v # w => a[v] = state.asked[v]
        /\ a[w] = "no"
    BY <1>1, <2>2, QueueFields
  <2>4. state' = [state EXCEPT !.executed = e, !.asked = a]
    BY <1>14, <2>1, <2>2
  <2>5. state' \in QueueValues
    BY <1>1, <2>3, <2>4, Zenon DEF QueueValues
  <2>6. /\ state'.length = state.length /\ state'.total = state.total /\ state'.nonIdle = state.nonIdle
        /\ state'.performIdle = state.performIdle /\ state'.asked = a /\ state'.performs = state.performs
    BY <1>1, <2>4 DEF QueueValues
  <2>7. CountersAreExact(state') /\ OneIdle(state')
    BY <1>1, <2>6 DEF CountersAreExact, OneIdle
  <2>8. AskedAreFree(state')
    BY <1>1, <2>3, <2>6 DEF AskedAreFree
  <2> QED BY <1>14, <2>5, <2>7, <2>8 DEF QueuesInv
<1>15. \/ Queues!DequeueWeighted(w, "userInteraction", {})
       \/ Queues!DequeueWeighted(w, "deadline", {"userInteraction"})
       \/ Queues!DequeueWeighted(w, "high", above)
       \/ Queues!DequeueWeighted(w, "medium", above \cup {"high"})
       \/ ~Queues!IsEmpty("low") /\ Queues!GetTaskByPriority(w, "low", Queues!Turn("low", all))
       \/ Queues!IsEmpty("low") /\ Queues!TakesIdle(w) /\ Queues!GetTaskByPriority(w, "idle", Queues!Turn("idle", all))
       \/ Queues!IsEmpty("low") /\ state' = [state EXCEPT !.executed = Queues!Turn("none", all), !.asked[w] = "no"]
  BY <1>3, <1>4, Zenon DEF Queues!DequeueTaskId
<1> QED BY <1>7, <1>8, <1>9, <1>10, <1>12, <1>13, <1>14, <1>15

(* Init establishes the invariant. *)
LEMMA QueuesInitEstablishesInv ==
  ASSUME QueuesAssumption, Queues!Init
  PROVE  QueuesInv
<1>1. PICK system \in BOOLEAN :
        state = [system |-> system,
              length |-> [p \in Queues!Priorities |-> 0],
              executed |-> [p \in Queues!Weighted |-> 0],
              total |-> 0, nonIdle |-> 0, performIdle |-> FALSE,
              asked |-> [w \in Workers |-> "no"],
              performs |-> [w \in Workers |-> "none"]]
  BY DEF Queues!Init
<1>2. state \in QueueValues
  BY <1>1 DEF QueueValues, QueuesAssumption
<1>3. CountersAreExact(state)
  <2>1. /\ "userInteraction" \in Queues!Priorities /\ "deadline" \in Queues!Priorities /\ "high" \in Queues!Priorities
        /\ "medium" \in Queues!Priorities /\ "low" \in Queues!Priorities /\ "idle" \in Queues!Priorities
    BY DEF Queues!Priorities, Queues!Weighted
  <2> QED BY <1>1, <2>1 DEF CountersAreExact, Queues!Queued, Queues!NonIdle
<1>4. AskedAreFree(state) /\ OneIdle(state)
  BY <1>1 DEF AskedAreFree, OneIdle
<1> QED BY <1>2, <1>3, <1>4 DEF QueuesInv

(* Every step keeps the invariant, and lets a task of low priority come    *)
(* nearer to its turn.                                                     *)
LEMMA QueuesNextKeepsInv ==
  ASSUME QueuesAssumption, QueuesInv, Queues!Next
  PROVE  QueuesInv' /\ Queues!LowHasItsTurn
<1>1. state \in QueueValues
  BY DEF QueuesInv
<1>2. ASSUME NEW p \in Queues!Priorities, Queues!EnqueueTaskId(p)
      PROVE  QueuesInv' /\ state'.asked = state.asked
  BY <1>1, <1>2, EnqueueKeepsInv DEF Queues!EnqueueTaskId, QueueValues
<1>3. ASSUME NEW p \in Queues!Priorities, Queues!EraseWaitingTaskId(p)
      PROVE  QueuesInv' /\ state'.asked = state.asked
  BY <1>1, <1>3, EraseKeepsInv DEF Queues!EraseWaitingTaskId, QueueValues
<1>4. ASSUME NEW w \in Workers, Queues!IsChooseIdle(w)
      PROVE  QueuesInv' /\ \A v \in Workers : state.asked[v] # "no" => state'.asked[v] # "no"
  <2>1. QueuesInv'
    BY <1>4, IsChooseIdleKeepsInv
  <2>2. PICK c \in {"choose", "skip"} : state' = [state EXCEPT !.asked[w] = c]
    BY <1>4 DEF Queues!IsChooseIdle
  <2>3. state'.asked = [state.asked EXCEPT ![w] = c]
    BY <1>1, <2>2 DEF QueueValues
  <2>4. \A v \in Workers : state.asked[v] # "no" => state'.asked[v] # "no"
    BY <1>1, <2>3, QueueFields
  <2> QED BY <2>1, <2>4
<1>5. ASSUME NEW w \in Workers, Queues!TaskPerformed(w)
      PROVE  QueuesInv' /\ state'.asked = state.asked
  BY <1>1, <1>5, TaskPerformedKeepsInv DEF Queues!TaskPerformed, QueueValues
<1>6. ASSUME NEW w \in Workers, Queues!DequeueTaskId(w)
      PROVE  QueuesInv' /\ Queues!LowHasItsTurn
  BY <1>6, DequeueTaskIdIs DEF Queues!LowHasItsTurn
<1> QED BY <1>2, <1>3, <1>4, <1>5, <1>6 DEF Queues!Next, Queues!LowHasItsTurn

(* The invariant implies the types and that the counters are consistent.   *)
LEMMA QueuesInvImplies ==
  ASSUME QueuesInv
  PROVE  Queues!TypeOK /\ Queues!Consistent
<1>1. state \in QueueValues /\ CountersAreExact(state) /\ OneIdle(state)
  BY DEF QueuesInv
<1>2. Queues!TypeOK
  BY <1>1, QueueFields DEF Queues!TypeOK
<1>3. Queues!Consistent
  BY <1>1 DEF Queues!Consistent, CountersAreExact, OneIdle
<1> QED BY <1>2, <1>3

----------------------------------------------------------------------------
(* A task and its executions: the invariant that a step keeps, and what    *)
(* follows from it.                                                        *)

(* What is assumed of the bound. *)
LifeAssumption == MaxExecutions \in Nat

(* The modules mean the same number of elements. *)
LEMMA SameCardinality ==
  ASSUME NEW S
  PROVE  Life!Cardinality(S) = Cardinality(S) /\ Group!Cardinality(S) = Cardinality(S)
BY DEF Life!Cardinality, Group!Cardinality, Cardinality

(* The members of a sequence, and one that has none of them twice.         *)
Elements(s) == {s[k] : k \in 1..Len(s)}
Injective(s) == \A j, k \in 1..Len(s) : s[j] = s[k] => j = k

(* The values of life.  Nothing sets the state to ENDING here.             *)
Lives ==
  [state : Life!ExecuteState \ {"ending"}, message : Life!ExecuteState \cup {"none"},
   executed : BOOLEAN, long : BOOLEAN, isPeriodic : BOOLEAN, done : BOOLEAN, timer : BOOLEAN,
   limited : BOOLEAN, clock : BOOLEAN, result : BOOLEAN,
   promise : [Life!Executions -> {"none", "open", "settled"}],
   made : 0..MaxExecutions, current : 0..MaxExecutions,
   pending : Seq(Life!Executions), delayed : SUBSET Life!Executions,
   queued : Nat, worker : {"none", "dequeued", "performing"},
   halves : SUBSET {"function", "callback"}, refs : Nat,
   gaps : SUBSET {"executedDelayed", "lateCancel", "staleDone", "lost"}]

(* The executions under way, from the queue to the result.                 *)
Busy(l) == l.queued + (IF l.worker = "none" THEN 0 ELSE 1) + (IF l.result THEN 1 ELSE 0)

(* An execution that has been made is current, has a timer, waits behind   *)
(* the current one, or is over; only one of these, and a promise is open   *)
(* until it is over, or, in a task that has timed out, settled while the   *)
(* execution is still current.                                             *)
TaskPlaces(l) ==
  /\ \A i \in {l.current} \cup l.delayed \cup Elements(l.pending) : i <= l.made
  /\ \A i \in Life!Executions : l.promise[i] = "settled" => i <= l.made
  /\ \A i \in l.delayed \cup Elements(l.pending) : l.promise[i] # "settled" /\ i # l.current
  /\ l.delayed \cap Elements(l.pending) = {}
  /\ Injective(l.pending)
  /\ l.current # 0 => l.promise[l.current] # (IF l.state = "timeout" THEN "open" ELSE "settled")
  /\ \A i \in Life!Executions :
       l.promise[i] = "open" => i \in {l.current} \cup l.delayed \cup Elements(l.pending)

(* What is known of a task that is new, periodic, or has a timeout.        *)
TaskModes(l) ==
  /\ l.state = "notFound" =>
       l.made = 0 /\ Busy(l) = 0 /\ l.message = "none" /\ (l.isPeriodic \/ ~l.executed)
  /\ ~l.executed => l.state = "notFound" /\ ~l.isPeriodic /\ ~l.limited
  /\ l.clock => l.isPeriodic
  /\ l.isPeriodic => /\ l.delayed = {} /\ ~l.limited /\ l.message = "none"
                     /\ l.executed /\ l.state # "delayed"
  /\ ~l.limited => ~l.timer /\ l.state # "timeout"
  /\ l.limited =>
       /\ l.delayed = {} /\ l.pending = <<>> /\ Busy(l) <= 1
       /\ l.message # "none" => l.state \in {"canceled", "finished"}
       /\ l.state = "finished" => Busy(l) = 0

(* The state of the task follows its current execution. *)
Tracks(l) ==
  /\ Busy(l) = IF l.current = 0 THEN 0 ELSE 1
  /\ l.state \in {"notFound", "finished", "delayed"} => l.current = 0
  /\ l.current = 0 => l.state \notin {"waiting", "running"}
  /\ l.worker = "performing" \/ l.result => l.state \in {"running", "canceled", "timeout"}
  /\ l.pending # <<>> => l.current # 0 \/ (l.isPeriodic /\ l.state = "canceled")

(* Moreover, one that is cancelled between two executions is periodic, has *)
(* done what was to do, or waits for its cancel message.                   *)
Follows(l) ==
  /\ Tracks(l)
  /\ l.current = 0 /\ l.state = "canceled" => l.isPeriodic \/ l.done \/ l.message = "delayed"

(* Every execution that is not over has a reference to the task.           *)
Needed(l) == Cardinality(l.delayed) + Len(l.pending) + (IF l.current = 0 THEN 0 ELSE 1)
Referenced(l) == ~l.isPeriodic => l.refs >= Needed(l)

(* The invariant; a task that has met a gap may have lost track.           *)
LifeSound(l) ==
  /\ l \in Lives /\ TaskPlaces(l) /\ TaskModes(l)
  /\ l.gaps = {} => Follows(l) /\ Referenced(l)

LifeInv == LifeSound(state)

----------------------------------------------------------------------------
(* Sequences. *)

(* The empty sequence. *)
LEMMA EmptyIs ==
  ASSUME NEW S
  PROVE  <<>> \in Seq(S) /\ Len(<<>>) = 0 /\ Elements(<<>>) = {} /\ Injective(<<>>)
BY DEF Elements, Injective

(* What Append does to length, elements and injectivity. *)
LEMMA AppendedIs ==
  ASSUME NEW S, NEW s \in Seq(S), NEW x \in S, x \notin Elements(s), Injective(s)
  PROVE  /\ Append(s, x) \in Seq(S) /\ Len(Append(s, x)) = Len(s) + 1
         /\ Append(s, x) # <<>>
         /\ Elements(Append(s, x)) = Elements(s) \cup {x}
         /\ Injective(Append(s, x))
<1>1. /\ Append(s, x) \in Seq(S) /\ Len(Append(s, x)) = Len(s) + 1
      /\ Append(s, x) # <<>>
      /\ Append(s, x)[Len(s) + 1] = x
      /\ \A k \in 1..Len(s) : Append(s, x)[k] = s[k]
  BY AppendProperties
<1> DEFINE a == Append(s, x)
<1>2. Len(s) \in Nat
  BY LenProperties
<1> HIDE DEF a
<1>3. \A k \in 1..Len(a) : k \in 1..Len(s) \/ k = Len(s) + 1
  BY <1>1, <1>2 DEF a
<1>4. \A k \in 1..Len(s) : k \in 1..Len(a)
  BY <1>1, <1>2 DEF a
<1>5. Len(s) + 1 \in 1..Len(a)
  BY <1>1, <1>2 DEF a
<1>6. /\ a[Len(s) + 1] = x
      /\ \A k \in 1..Len(s) : a[k] = s[k] /\ s[k] # x
  BY <1>1 DEF a, Elements
<1>7. Elements(a) = Elements(s) \cup {x}
  <2>1. ASSUME NEW y \in Elements(a)
        PROVE  y \in Elements(s) \cup {x}
    <3>1. PICK k \in 1..Len(a) : y = a[k]
      BY DEF Elements
    <3> QED BY <1>3, <1>6, <3>1 DEF Elements
  <2>2. ASSUME NEW y \in Elements(s) \cup {x}
        PROVE  y \in Elements(a)
    <3>1. CASE y = x
      BY <1>5, <1>6, <3>1 DEF Elements
    <3>2. CASE y \in Elements(s)
      <4>1. PICK k \in 1..Len(s) : y = s[k]
        BY <3>2 DEF Elements
      <4> QED BY <1>4, <1>6, <4>1 DEF Elements
    <3> QED BY <3>1, <3>2
  <2> QED BY <2>1, <2>2
<1>8. Injective(a)
  BY <1>3, <1>6 DEF Injective
<1> QED BY <1>1, <1>7, <1>8 DEF a

(* What Head and Tail take from a sequence. *)
LEMMA TailIs ==
  ASSUME NEW S, NEW s \in Seq(S), s # <<>>, Injective(s)
  PROVE  /\ Head(s) \in S /\ Tail(s) \in Seq(S)
         /\ Len(s) \in Nat /\ Len(Tail(s)) \in Nat /\ Len(s) = Len(Tail(s)) + 1
         /\ Elements(s) = Elements(Tail(s)) \cup {Head(s)}
         /\ Head(s) \notin Elements(Tail(s))
         /\ Injective(Tail(s))
<1> DEFINE t == Tail(s)
<1>1. /\ Head(s) = s[1] /\ t \in Seq(S) /\ Len(t) = Len(s) - 1
      /\ \A k \in 1..Len(t) : t[k] = s[k + 1]
  BY HeadTailProperties
<1>2. Len(s) \in Nat /\ Len(s) # 0 /\ Len(t) \in Nat
  BY <1>1, LenProperties, EmptySeq
<1>3. s[1] \in S
  BY <1>2, ElementOfSeq
<1> HIDE DEF t
<1>4. \A k \in 1..Len(s) : k = 1 \/ k - 1 \in 1..Len(t)
  BY <1>1, <1>2
<1>5. \A k \in 1..Len(t) : k + 1 \in 1..Len(s) /\ k + 1 # 1
  BY <1>1, <1>2
<1>6. 1 \in 1..Len(s)
  BY <1>2
<1>7. Elements(s) = Elements(t) \cup {Head(s)}
  <2>1. ASSUME NEW y \in Elements(s)
        PROVE  y \in Elements(t) \cup {Head(s)}
    <3>1. PICK k \in 1..Len(s) : y = s[k]
      BY DEF Elements
    <3>2. CASE k = 1
      BY <1>1, <3>1, <3>2
    <3>3. CASE k - 1 \in 1..Len(t)
      <4>1. t[k - 1] = s[(k - 1) + 1] /\ (k - 1) + 1 = k
        BY <1>1, <1>2, <3>3
      <4> QED BY <3>1, <3>3, <4>1 DEF Elements
    <3> QED BY <1>4, <3>2, <3>3
  <2>2. ASSUME NEW y \in Elements(t) \cup {Head(s)}
        PROVE  y \in Elements(s)
    <3>1. CASE y = Head(s)
      BY <1>1, <1>6, <3>1 DEF Elements
    <3>2. CASE y \in Elements(t)
      <4>1. PICK k \in 1..Len(t) : y = t[k]
        BY <3>2 DEF Elements
      <4> QED BY <1>1, <1>5, <4>1 DEF Elements
    <3> QED BY <3>1, <3>2
  <2> QED BY <2>1, <2>2
<1>8. Head(s) \notin Elements(t)
  BY <1>1, <1>5, <1>6 DEF Elements, Injective
<1>9. Injective(t)
  <2> SUFFICES ASSUME NEW j \in 1..Len(t), NEW k \in 1..Len(t), t[j] = t[k]
               PROVE  j = k
    BY DEF Injective
  <2>1. s[j + 1] = s[k + 1] /\ j + 1 \in 1..Len(s) /\ k + 1 \in 1..Len(s)
    BY <1>1, <1>5
  <2>2. j + 1 = k + 1
    BY <2>1 DEF Injective
  <2> QED BY <1>2, <2>2
<1>10. Len(s) = Len(t) + 1
  BY <1>1, <1>2
<1> QED BY <1>1, <1>2, <1>3, <1>7, <1>8, <1>9, <1>10 DEF t

----------------------------------------------------------------------------
(* Helpers of TaskLife. *)

(* The sets of executions are finite. *)
LEMMA DelayedIsFinite ==
  ASSUME LifeAssumption, NEW D \in SUBSET Life!Executions
  PROVE  IsFiniteSet(D) /\ Cardinality(D) \in Nat
<1>1. IsFiniteSet(Life!Executions)
  BY FS_Interval DEF Life!Executions, LifeAssumption
<1> QED BY <1>1, FS_Subset, FS_CardinalityType

(* Settled settles what is open in S, and leaves all else alone.           *)
LEMMA TaskSettledIs ==
  ASSUME NEW l \in Lives, NEW S, \A i \in Life!Executions : i \in S => l.promise[i] # "settled"
  PROVE  \E q \in [Life!Executions -> {"none", "open", "settled"}] :
           /\ Life!Settled(l, S) = [l EXCEPT !.promise = q]
           /\ \A i \in Life!Executions : i \notin S => q[i] = l.promise[i]
           /\ \A i \in Life!Executions : i \in S => q[i] # "open"
           /\ \A i \in Life!Executions : q[i] = "settled" => i \in S \/ l.promise[i] = "settled"
           /\ \A i \in Life!Executions : q[i] = "open" => l.promise[i] = "open"
           /\ \A i \in Life!Executions : i \in S /\ l.promise[i] = "open" => q[i] = "settled"
<1> DEFINE q == [i \in Life!Executions |->
                   IF i \notin S \/ l.promise[i] = "none" THEN l.promise[i]
                   ELSE IF l.promise[i] = "open" THEN "settled" ELSE "twice"]
<1>1. Life!Settled(l, S) = [l EXCEPT !.promise = q]
  BY DEF Life!Settled
<1>2. l.promise \in [Life!Executions -> {"none", "open", "settled"}]
  BY DEF Lives
<1>3. q \in [Life!Executions -> {"none", "open", "settled"}]
  BY <1>2
<1>4. \A i \in Life!Executions : q[i] = IF i \notin S \/ l.promise[i] = "none" THEN l.promise[i] ELSE "settled"
  BY <1>2
<1> HIDE DEF q
<1> QED BY <1>1, <1>2, <1>3, <1>4

(* Unref takes n references away, if there are so many.                    *)
LEMMA UnrefIs ==
  ASSUME NEW l \in Lives, NEW n \in Nat
  PROVE  \E r \in Nat : /\ Life!Unref(l, n) = [l EXCEPT !.refs = r]
                        /\ \A k \in Nat : l.refs >= k + n => r >= k
<1> DEFINE r == IF l.refs > n THEN l.refs - n ELSE 0
<1>1. Life!Unref(l, n) = [l EXCEPT !.refs = r]
  BY DEF Life!Unref
<1>2. l.refs \in Nat
  BY DEF Lives
<1>3. r \in Nat /\ \A k \in Nat : l.refs >= k + n => r >= k
  BY <1>2
<1> HIDE DEF r
<1> QED BY <1>1, <1>3

(* A step that leaves the executions where they are keeps their places, as *)
(* long as it does not make the task time out.                             *)
LEMMA TaskPlacesKept ==
  ASSUME NEW l, NEW m, TaskPlaces(l),
         m.made = l.made, m.current = l.current, m.delayed = l.delayed, m.pending = l.pending,
         m.promise = l.promise, m.state = "timeout" <=> l.state = "timeout"
  PROVE  TaskPlaces(m)
BY DEF TaskPlaces

(* The references stay enough when what they are counted against stays.    *)
LEMMA ReferencedKept ==
  ASSUME NEW l, NEW m, Referenced(l),
         m.isPeriodic = l.isPeriodic, m.current = l.current, m.delayed = l.delayed, m.pending = l.pending,
         m.refs = l.refs
  PROVE  Referenced(m)
BY DEF Referenced, Needed

----------------------------------------------------------------------------
(* The host. *)

(* The fields of a value of life. *)
LEMMA LifeFields ==
  ASSUME NEW l \in Lives
  PROVE  /\ l.state \in Life!ExecuteState \ {"ending"} /\ l.message \in Life!ExecuteState \cup {"none"}
         /\ l.executed \in BOOLEAN /\ l.long \in BOOLEAN /\ l.isPeriodic \in BOOLEAN
         /\ l.done \in BOOLEAN /\ l.timer \in BOOLEAN /\ l.limited \in BOOLEAN
         /\ l.clock \in BOOLEAN /\ l.result \in BOOLEAN
         /\ l.promise \in [Life!Executions -> {"none", "open", "settled"}]
         /\ l.made \in 0..MaxExecutions /\ l.current \in 0..MaxExecutions
         /\ l.pending \in Seq(Life!Executions) /\ l.delayed \in SUBSET Life!Executions
         /\ l.queued \in Nat /\ l.worker \in {"none", "dequeued", "performing"}
         /\ l.halves \in SUBSET {"function", "callback"} /\ l.refs \in Nat
         /\ l.gaps \in SUBSET {"executedDelayed", "lateCancel", "staleDone", "lost"}
BY Zenon DEF Lives

(* Init establishes the invariant. *)
LEMMA LifeInitEstablishesInv ==
  ASSUME LifeAssumption, Life!Init
  PROVE  LifeInv
<1>1. PICK long \in BOOLEAN :
        state = [state |-> "notFound", executed |-> FALSE, long |-> long, isPeriodic |-> FALSE, done |-> FALSE,
                promise |-> [i \in Life!Executions |-> "none"], made |-> 0, current |-> 0, pending |-> <<>>,
                delayed |-> {}, timer |-> FALSE, limited |-> FALSE, clock |-> FALSE, queued |-> 0,
                worker |-> "none", halves |-> {}, result |-> FALSE, message |-> "none", refs |-> 0, gaps |-> {}]
  BY DEF Life!Init
<1>2. <<>> \in Seq(Life!Executions) /\ Len(<<>>) = 0 /\ Elements(<<>>) = {} /\ Injective(<<>>)
  BY EmptyIs
<1>3. state \in Lives
  BY <1>1, <1>2 DEF Lives, Life!ExecuteState, LifeAssumption
<1>4. TaskPlaces(state)
  BY <1>1, <1>2 DEF TaskPlaces
<1>5. TaskModes(state)
  BY <1>1 DEF TaskModes, Busy
<1>6. Follows(state) /\ Referenced(state)
  BY <1>1, <1>2, FS_EmptySet DEF Follows, Tracks, Referenced, Needed, Busy
<1> QED BY <1>3, <1>4, <1>5, <1>6 DEF LifeInv, LifeSound

(* A task that has not been executed has no execution anywhere.            *)
LEMMA NewTaskIsBlank ==
  ASSUME NEW l \in Lives, TaskPlaces(l), TaskModes(l), l.state = "notFound"
  PROVE  /\ l.made = 0 /\ Busy(l) = 0 /\ l.current = 0
         /\ l.delayed = {} /\ l.pending = <<>> /\ l.message = "none"
<1>1. l.made = 0 /\ Busy(l) = 0 /\ l.message = "none"
  BY DEF TaskModes
<1>2. l.current <= 0 /\ \A j \in l.delayed \cup Elements(l.pending) : j <= 0
  BY <1>1 DEF TaskPlaces
<1>3. l.current \in 0..MaxExecutions /\ l.delayed \in SUBSET Life!Executions /\ l.pending \in Seq(Life!Executions)
  BY LifeFields
<1>4. l.current = 0 /\ l.delayed = {}
  BY <1>2, <1>3 DEF Life!Executions
<1>5. l.pending = <<>>
  <2> SUFFICES ASSUME l.pending # <<>>
               PROVE  FALSE
    OBVIOUS
  <2>1. Head(l.pending) \in Life!Executions /\ Head(l.pending) \in Elements(l.pending)
    BY <1>3, TailIs DEF TaskPlaces
  <2> QED BY <1>2, <2>1 DEF Life!Executions
<1> QED BY <1>1, <1>4, <1>5

(* Execute: the new execution is current, or waits. *)
LEMMA ExecuteKeepsInv ==
  ASSUME LifeAssumption, LifeInv, NEW timeout \in BOOLEAN, Life!Execute(timeout)
  PROVE  LifeInv'
<1> DEFINE i == state.made + 1
<1>1. /\ state \in Lives /\ TaskPlaces(state) /\ TaskModes(state)
      /\ state.gaps = {} => Follows(state) /\ Referenced(state)
  BY DEF LifeInv, LifeSound
<1>2. /\ i \in Life!Executions /\ i > state.made /\ state.made \in Nat /\ i # 0
      /\ i \in 0..MaxExecutions /\ state.current \in 0..MaxExecutions
  BY <1>1 DEF Lives, Life!Execute, Life!CanExecuteAgain, Life!Executions, LifeAssumption
<1>3. /\ state.current # i /\ i \notin state.delayed /\ i \notin Elements(state.pending)
  BY <1>1, <1>2 DEF TaskPlaces
<1>4. PICK s : s = IF state.current = 0 THEN state.pending ELSE Append(state.pending, i)
  OBVIOUS
<1>5. /\ s \in Seq(Life!Executions) /\ Injective(s)
      /\ Elements(s) = Elements(state.pending) \cup (IF state.current = 0 THEN {} ELSE {i})
      /\ state.current = 0 => s = state.pending
      /\ Len(s) \in Nat /\ Len(state.pending) \in Nat
      /\ Len(s) = Len(state.pending) + (IF state.current = 0 THEN 0 ELSE 1)
  <2>1. state.pending \in Seq(Life!Executions) /\ Injective(state.pending)
    BY <1>1 DEF Lives, TaskPlaces
  <2>2. Len(state.pending) \in Nat
    BY <2>1, LenProperties
  <2>3. CASE state.current = 0
    BY <1>4, <2>1, <2>2, <2>3
  <2>4. CASE state.current # 0
    <3>1. s = Append(state.pending, i)
      BY <1>4, <2>4
    <3>2. /\ Append(state.pending, i) \in Seq(Life!Executions)
          /\ Len(Append(state.pending, i)) = Len(state.pending) + 1
          /\ Elements(Append(state.pending, i)) = Elements(state.pending) \cup {i}
          /\ Injective(Append(state.pending, i))
      BY <1>2, <1>3, <2>1, AppendedIs
    <3> QED BY <2>2, <2>4, <3>1, <3>2
  <2> QED BY <2>3, <2>4
<1>6. PICK q : q = [state.promise EXCEPT ![i] = "open"]
  OBVIOUS
<1>7. /\ q \in [Life!Executions -> {"none", "open", "settled"}] /\ q[i] = "open"
      /\ \A j \in Life!Executions : j # i => q[j] = state.promise[j]
  BY <1>1, <1>2, <1>6 DEF Lives
<1>8. PICK c : c = IF state.current = 0 THEN i ELSE state.current
  OBVIOUS
<1>9. Life!GetTaskInfo(Life!NewPromise(state), i) = [state EXCEPT !.made = i, !.promise = q, !.current = c, !.pending = s]
  BY <1>1, <1>4, <1>6, <1>8, ZenonT(30) DEF Life!GetTaskInfo, Life!NewPromise, Life!NewExecution, Lives
<1>10. PICK gap : gap = IF state.state = "delayed" THEN {"executedDelayed"}
                        ELSE IF state.message = "delayed" /\ state.current = 0 THEN {"lateCancel"} ELSE Life!RestartGap
  OBVIOUS
<1>11. /\ gap \in SUBSET {"executedDelayed", "lateCancel", "staleDone"}
       /\ gap = {} => /\ state.state # "delayed"
                      /\ ~(state.message = "delayed" /\ state.current = 0)
                      /\ ~(Life!IsRealyCanceled(state) /\ state.current # 0)
  BY <1>10 DEF Life!RestartGap
<1>12. /\ ~(state.executed /\ state.long) /\ ~state.isPeriodic /\ ~state.limited
       /\ timeout => state.state = "notFound"
  BY DEF Life!Execute, Life!CanExecuteAgain
<1>13. /\ state.made + 1 \in 0..MaxExecutions /\ c \in 0..MaxExecutions /\ state.refs + 1 \in Nat
       /\ state.queued \in Nat /\ state.queued + 1 \in Nat
  BY <1>1, <1>2, <1>8, LifeFields
<1>14. state.gaps \cup gap \in SUBSET {"executedDelayed", "lateCancel", "staleDone", "lost"}
  BY <1>1, <1>11, LifeFields
<1>15. PICK t : t = [state EXCEPT !.made = i, !.promise = q, !.current = c, !.pending = s]
  OBVIOUS
<1>16. t \in Lives
  BY <1>1, <1>2, <1>5, <1>7, <1>8, <1>15, Zenon DEF Lives
<1>17. PICK z : z = [Life!Typed(t) EXCEPT !.limited = timeout]
  OBVIOUS
<1>18. /\ z = [t EXCEPT !.executed = TRUE, !.refs = state.refs + 1, !.limited = timeout]
       /\ z \in Lives /\ z.queued = state.queued /\ z.gaps = state.gaps
  <2>1. t.refs = state.refs
    BY <1>1, <1>15 DEF Lives
  <2>2. z = [t EXCEPT !.executed = TRUE, !.refs = state.refs + 1, !.limited = timeout]
    BY <1>16, <1>17, <2>1 DEF Life!Typed, Lives
  <2>3. z \in Lives
    BY <1>13, <1>16, <2>2, Zenon DEF Lives
  <2>4. z.queued = state.queued /\ z.gaps = state.gaps
    BY <1>1, <1>15, <2>2 DEF Lives
  <2> QED BY <2>2, <2>3, <2>4
<1>19. PICK u : u = [z EXCEPT !.gaps = state.gaps \cup gap]
  OBVIOUS
<1>20. PICK v : v = [z EXCEPT !.state = "waiting", !.queued = state.queued + 1, !.done = FALSE,
                              !.timer = timeout, !.gaps = state.gaps \cup gap]
  OBVIOUS
<1>21. u \in Lives /\ v \in Lives
  <2>1. "waiting" \in Life!ExecuteState \ {"ending"}
    BY DEF Life!ExecuteState
  <2>2. z \in Lives
    BY <1>18
  <2>3. u \in Lives
    BY <1>14, <1>19, <2>2, Zenon DEF Lives
  <2>4. state.queued + 1 \in Nat
    BY <1>13
  <2>5. v \in Lives
    BY <1>14, <1>20, <2>1, <2>2, <2>4, Zenon DEF Lives
  <2> QED BY <2>3, <2>5
<1>22. state' = IF Life!MayWait(state) THEN v ELSE u
  <2>1. Life!GetTaskInfo(Life!NewPromise(state), state.made + 1) = t
    BY <1>9, <1>15
  <2>2. state' = IF Life!MayWait(state)
                THEN [Life!Waiting(z) EXCEPT !.done = FALSE, !.timer = timeout, !.gaps = @ \cup gap]
                ELSE [z EXCEPT !.gaps = @ \cup gap]
    BY <1>10, <1>17, <2>1 DEF Life!Execute
  <2>3. z \in Lives /\ z.queued = state.queued /\ z.gaps = state.gaps
    BY <1>18
  <2>4. [z EXCEPT !.gaps = @ \cup gap] = u
    BY <1>19, <2>3
  <2>5. PICK w : w = Life!Waiting(z)
    OBVIOUS
  <2>6. w = [z EXCEPT !.state = "waiting", !.queued = state.queued + 1]
    BY <2>3, <2>5 DEF Life!Waiting
  <2>7. w.gaps = state.gaps
    BY <2>3, <2>6 DEF Lives
  <2>8. [w EXCEPT !.done = FALSE, !.timer = timeout, !.gaps = @ \cup gap]
          = [w EXCEPT !.done = FALSE, !.timer = timeout, !.gaps = state.gaps \cup gap]
    BY <2>7
  <2>9. [w EXCEPT !.done = FALSE, !.timer = timeout, !.gaps = state.gaps \cup gap] = v
    BY <1>20, <2>3, <2>6 DEF Lives
  <2> QED BY <2>2, <2>4, <2>5, <2>8, <2>9
<1>23. state' \in Lives
  BY <1>21, <1>22
<1>24. /\ u.made = i /\ u.promise = q /\ u.current = c /\ u.pending = s
       /\ u.executed /\ u.refs = state.refs + 1 /\ u.limited = timeout
       /\ u.gaps = state.gaps \cup gap /\ u.isPeriodic = state.isPeriodic /\ u.clock = state.clock
       /\ u.delayed = state.delayed /\ u.message = state.message
       /\ u.worker = state.worker /\ u.result = state.result
       /\ u.state = state.state /\ u.queued = state.queued
       /\ u.timer = state.timer /\ u.done = state.done
  BY <1>1, <1>15, <1>18, <1>19 DEF Lives
<1>25. /\ v.made = i /\ v.promise = q /\ v.current = c /\ v.pending = s
       /\ v.executed /\ v.refs = state.refs + 1 /\ v.limited = timeout
       /\ v.gaps = state.gaps \cup gap /\ v.isPeriodic = state.isPeriodic /\ v.clock = state.clock
       /\ v.delayed = state.delayed /\ v.message = state.message
       /\ v.worker = state.worker /\ v.result = state.result
       /\ v.state = "waiting" /\ v.queued = state.queued + 1
       /\ v.timer = timeout
  BY <1>1, <1>15, <1>18, <1>20 DEF Lives
<1>26. /\ state'.made = i /\ state'.promise = q /\ state'.current = c /\ state'.pending = s
       /\ state'.executed /\ state'.refs = state.refs + 1 /\ state'.limited = timeout
       /\ state'.gaps = state.gaps \cup gap /\ ~state'.isPeriodic /\ ~state'.clock
       /\ state'.delayed = state.delayed /\ state'.message = state.message
       /\ state'.worker = state.worker /\ state'.result = state.result
       /\ Life!MayWait(state) => state'.state = "waiting" /\ state'.queued = state.queued + 1 /\ state'.timer = timeout
       /\ ~Life!MayWait(state) => /\ state'.state = state.state /\ state'.queued = state.queued
                            /\ ~state'.timer /\ state'.done = state.done
  <2>1. ~state.isPeriodic /\ ~state.clock /\ ~state.timer
    BY <1>1, <1>12 DEF TaskModes
  <2>2. CASE Life!MayWait(state)
    BY <1>22, <1>25, <2>1, <2>2
  <2>3. CASE ~Life!MayWait(state)
    BY <1>22, <1>24, <2>1, <2>3
  <2> QED BY <2>2, <2>3
<1>27. state.state # "timeout" /\ state'.state # "timeout"
  BY <1>1, <1>12, <1>26 DEF TaskModes
<1>28. TaskPlaces(state')
  <2>1. /\ \A j \in {state.current} \cup state.delayed \cup Elements(state.pending) : j <= state.made
        /\ \A j \in state.delayed \cup Elements(state.pending) : state.promise[j] # "settled" /\ j # state.current
        /\ state.delayed \cap Elements(state.pending) = {}
        /\ state.current # 0 => state.promise[state.current] # "settled"
        /\ \A j \in Life!Executions :
             state.promise[j] = "open" => j \in {state.current} \cup state.delayed \cup Elements(state.pending)
    BY <1>1, <1>27 DEF TaskPlaces
  <2>2. state.delayed \subseteq Life!Executions /\ Elements(state.pending) \subseteq Life!Executions
    <3>1. state.pending \in Seq(Life!Executions)
      BY <1>1, LifeFields
    <3> QED BY <1>1, <3>1, LifeFields, ElementOfSeq DEF Elements
  <2>3. state.current # 0 => state.current \in Life!Executions
    BY <1>2 DEF Life!Executions
  <2>4. Life!Executions \subseteq Nat /\ 0 \notin Life!Executions /\ i > state.made /\ state.made \in Nat
    BY <1>2 DEF Life!Executions
  <2>5. \A j \in {c} \cup state.delayed \cup Elements(s) : j <= i
    <3>1. \A j \in Life!Executions : j <= state.made => j <= i
      BY <2>4
    <3> QED BY <1>5, <1>8, <2>1, <2>2, <2>3, <2>4, <3>1
  <2> HIDE DEF i
  <2>6. \A j \in state.delayed \cup Elements(s) : q[j] # "settled" /\ j # c
    BY <1>3, <1>5, <1>7, <1>8, <2>1, <2>2
  <2>7. state.delayed \cap Elements(s) = {}
    BY <1>3, <1>5, <2>1
  <2>8. c # 0 => q[c] # "settled"
    BY <1>7, <1>8, <2>1, <2>3
  <2>9. \A j \in Life!Executions : q[j] = "open" => j \in {c} \cup state.delayed \cup Elements(s)
    BY <1>5, <1>7, <1>8, <2>1, <2>4
  <2>10. \A j \in Life!Executions : q[j] = "settled" => j <= i
    <3>1. \A j \in Life!Executions : j <= state.made => j <= i
      BY <1>2 DEF Life!Executions
    <3>2. \A j \in Life!Executions : q[j] = "settled" => j # i
      BY <1>7
    <3> QED BY <1>1, <1>7, <3>1, <3>2 DEF TaskPlaces
  <2> QED BY <1>5, <1>26, <1>27, <2>5, <2>6, <2>7, <2>8, <2>9, <2>10 DEF TaskPlaces
<1>29. Busy(state') = Busy(state) + (IF Life!MayWait(state) THEN 1 ELSE 0) /\ Busy(state) \in Nat
  BY <1>1, <1>13, <1>26, LifeFields DEF Busy
<1>30. TaskModes(state')
  <2>1. state.state = "notFound" =>
          /\ state.made = 0 /\ Busy(state) = 0 /\ state.current = 0
          /\ state.delayed = {} /\ state.pending = <<>> /\ state.message = "none"
    BY <1>1, NewTaskIsBlank
  <2>2. state'.state # "notFound"
    BY <1>26 DEF Life!MayWait
  <2>3. timeout => /\ state'.delayed = {} /\ state'.pending = <<>> /\ Busy(state') <= 1 /\ state'.message = "none"
                   /\ state'.state # "finished"
    <3> HAVE timeout
    <3>1. state.state = "notFound"
      BY <1>12
    <3>2. Life!MayWait(state)
      BY <3>1 DEF Life!MayWait
    <3>3. Busy(state') <= 1
      BY <1>29, <2>1, <3>1, <3>2
    <3>4. state'.delayed = {} /\ state'.message = "none" /\ state'.state # "finished"
      BY <1>26, <2>1, <3>1, <3>2
    <3>5. state'.pending = <<>>
      BY <1>5, <1>26, <2>1, <3>1
    <3> QED BY <3>3, <3>4, <3>5
  <2> QED BY <1>26, <1>27, <2>2, <2>3 DEF TaskModes
<1>31. ASSUME state'.gaps = {}
       PROVE  Follows(state') /\ Referenced(state')
  <2>1. state.gaps = {} /\ gap = {}
    BY <1>26, <1>31
  <2>2. Follows(state) /\ state.refs >= Needed(state)
    BY <1>1, <1>12, <2>1 DEF Referenced
  <2>3. state.state # "delayed" /\ ~(state.message = "delayed" /\ state.current = 0)
        /\ ~(Life!IsRealyCanceled(state) /\ state.current # 0)
    BY <1>11, <2>1
  <2>4. Life!MayWait(state) <=> state.current = 0
    <3>1. CASE state.current = 0
      <4>1. state.state \in {"notFound", "finished", "canceled"}
        BY <1>1, <1>27, <2>2, <2>3, <3>1, LifeFields DEF Follows, Tracks, Life!ExecuteState
      <4>2. state.state = "canceled" => state.done
        BY <1>12, <2>2, <2>3, <3>1 DEF Follows, Tracks
      <4> QED BY <1>12, <3>1, <4>1, <4>2 DEF Life!MayWait, Life!IsRealyCanceled
    <3>2. CASE state.current # 0
      BY <2>2, <2>3, <3>2 DEF Life!MayWait, Follows, Tracks
    <3> QED BY <3>1, <3>2
  <2>5. c # 0 /\ (state.current # 0 => state'.state = state.state) /\ (state.current = 0 => state'.state = "waiting")
    BY <1>2, <1>8, <1>26, <2>4
  <2>6. Busy(state') = 1
    BY <1>29, <2>2, <2>4 DEF Follows, Tracks
  <2>7. state'.state \notin {"notFound", "finished", "delayed"}
    BY <2>2, <2>5 DEF Follows, Tracks
  <2>8. state'.worker = "performing" \/ state'.result => state'.state \in {"running", "canceled", "timeout"}
    <3>1. CASE state.current = 0
      <4>1. Busy(state) = 0
        BY <2>2, <3>1 DEF Follows, Tracks
      <4>2. state.worker = "none" /\ ~state.result
        BY <1>1, <1>13, <4>1 DEF Busy
      <4> QED BY <1>26, <4>2
    <3>2. CASE state.current # 0
      BY <1>26, <2>2, <2>5, <3>2 DEF Follows, Tracks
    <3> QED BY <3>1, <3>2
  <2>9. Follows(state')
    BY <1>26, <2>5, <2>6, <2>7, <2>8 DEF Follows, Tracks
  <2>10. state'.refs >= Needed(state')
    <3>1. Cardinality(state.delayed) \in Nat
      BY <1>1, LifeFields, DelayedIsFinite
    <3>2. state.refs \in Nat
      BY <1>1, LifeFields
    <3>3. Needed(state) = Cardinality(state.delayed) + Len(state.pending) + (IF state.current = 0 THEN 0 ELSE 1)
      BY DEF Needed
    <3>4. Needed(state') = Cardinality(state.delayed) + Len(s) + 1
      BY <1>26, <2>5 DEF Needed
    <3>5. Needed(state') = Needed(state) + 1 /\ Needed(state) \in Nat
      <4>1. PICK d, a, b : d = Cardinality(state.delayed) /\ a = Len(state.pending) /\ b = Len(s)
        OBVIOUS
      <4>2. d \in Nat /\ a \in Nat /\ b \in Nat /\ b = a + (IF state.current = 0 THEN 0 ELSE 1)
        BY <1>5, <3>1, <4>1
      <4>3. Needed(state) = d + a + (IF state.current = 0 THEN 0 ELSE 1) /\ Needed(state') = d + b + 1
        BY <3>3, <3>4, <4>1
      <4> QED BY <4>2, <4>3
    <3>6. state'.refs = state.refs + 1
      BY <1>26
    <3> QED BY <2>2, <3>2, <3>5, <3>6
  <2> QED BY <2>9, <2>10 DEF Referenced
<1> QED BY <1>23, <1>28, <1>30, <1>31 DEF LifeInv, LifeSound

----------------------------------------------------------------------------
(* The worker. *)

(* Dequeue: the task goes from the queue to the worker. *)
LEMMA LifeDequeueKeepsInv ==
  ASSUME LifeInv, Life!Dequeue
  PROVE  LifeInv'
<1>1. /\ state \in Lives /\ TaskPlaces(state) /\ TaskModes(state)
      /\ state.gaps = {} => Follows(state) /\ Referenced(state)
  BY DEF LifeInv, LifeSound
<1>2. state.queued \in Nat /\ state.queued > 0 /\ state.worker = "none"
  BY <1>1, LifeFields DEF Life!Dequeue
<1>3. PICK n : n = state.queued - 1
  OBVIOUS
<1>4. n \in Nat /\ state' = [state EXCEPT !.queued = n, !.worker = "dequeued"]
  BY <1>2, <1>3 DEF Life!Dequeue
<1>5. state' \in Lives
  BY <1>1, <1>4, Zenon DEF Lives
<1>6. /\ state'.made = state.made /\ state'.current = state.current /\ state'.delayed = state.delayed
      /\ state'.pending = state.pending /\ state'.promise = state.promise /\ state'.state = state.state
      /\ state'.executed = state.executed /\ state'.isPeriodic = state.isPeriodic /\ state'.limited = state.limited
      /\ state'.clock = state.clock /\ state'.timer = state.timer /\ state'.message = state.message
      /\ state'.result = state.result /\ state'.done = state.done /\ state'.refs = state.refs
      /\ state'.gaps = state.gaps /\ state'.worker = "dequeued" /\ state'.queued = n
  BY <1>1, <1>4 DEF Lives
<1>7. Busy(state') = Busy(state)
  BY <1>2, <1>3, <1>6 DEF Busy
<1>8. TaskPlaces(state')
  BY <1>1, <1>6, TaskPlacesKept
<1>9. TaskModes(state')
  BY <1>1, <1>6, <1>7 DEF TaskModes
<1>10. state'.gaps = {} => Follows(state') /\ Referenced(state')
  BY <1>1, <1>6, <1>7, ReferencedKept DEF Follows, Tracks
<1> QED BY <1>5, <1>8, <1>9, <1>10 DEF LifeInv, LifeSound

(* UpdateTask: the task runs, unless it has been canceled or has timed out. *)
LEMMA LifeUpdateTaskKeepsInv ==
  ASSUME LifeInv, Life!UpdateTask
  PROVE  LifeInv'
<1>1. /\ state \in Lives /\ TaskPlaces(state) /\ TaskModes(state)
      /\ state.gaps = {} => Follows(state) /\ Referenced(state)
  BY DEF LifeInv, LifeSound
<1>2. state.worker = "dequeued"
  BY DEF Life!UpdateTask
<1>3. PICK st : st = IF state.state \in {"timeout", "canceled"} THEN state.state ELSE "running"
  OBVIOUS
<1>4. state' = [state EXCEPT !.worker = "performing", !.state = st]
  BY <1>3 DEF Life!UpdateTask
<1>5. st \in Life!ExecuteState \ {"ending"}
  BY <1>3 DEF Life!ExecuteState
<1>6. state' \in Lives
  BY <1>1, <1>4, <1>5, Zenon DEF Lives
<1>7. /\ state'.made = state.made /\ state'.current = state.current /\ state'.delayed = state.delayed
      /\ state'.pending = state.pending /\ state'.promise = state.promise /\ state'.state = st
      /\ state'.executed = state.executed /\ state'.isPeriodic = state.isPeriodic /\ state'.limited = state.limited
      /\ state'.clock = state.clock /\ state'.timer = state.timer /\ state'.message = state.message
      /\ state'.result = state.result /\ state'.done = state.done /\ state'.refs = state.refs
      /\ state'.gaps = state.gaps /\ state'.worker = "performing" /\ state'.queued = state.queued
  BY <1>1, <1>4 DEF Lives
<1>8. Busy(state') = Busy(state) /\ Busy(state) \in Nat /\ Busy(state) # 0
  BY <1>1, <1>2, <1>7, LifeFields DEF Busy
<1>9. TaskPlaces(state')
  BY <1>1, <1>3, <1>7, TaskPlacesKept
<1>10. TaskModes(state')
  BY <1>1, <1>3, <1>7, <1>8 DEF TaskModes
<1>11. state'.gaps = {} => Follows(state') /\ Referenced(state')
  <2>1. state.gaps = {} => Follows(state')
    BY <1>1, <1>3, <1>7, <1>8 DEF Follows, Tracks
  <2> QED BY <1>1, <1>7, <2>1, ReferencedKept
<1> QED BY <1>6, <1>9, <1>10, <1>11 DEF LifeInv, LifeSound

(* The worker has done with the task, and the result is under way. *)
ResultSent ==
  state.worker = "performing" /\ state' = [state EXCEPT !.halves = {}, !.worker = "none", !.result = TRUE]

(* That keeps the invariant. *)
LEMMA ResultSentKeepsInv ==
  ASSUME LifeInv, ResultSent
  PROVE  LifeInv'
<1>1. /\ state \in Lives /\ TaskPlaces(state) /\ TaskModes(state)
      /\ state.gaps = {} => Follows(state) /\ Referenced(state)
  BY DEF LifeInv, LifeSound
<1>2. state' \in Lives
  BY <1>1, Zenon DEF ResultSent, Lives
<1>3. /\ state'.made = state.made /\ state'.current = state.current /\ state'.delayed = state.delayed
      /\ state'.pending = state.pending /\ state'.promise = state.promise /\ state'.state = state.state
      /\ state'.executed = state.executed /\ state'.isPeriodic = state.isPeriodic /\ state'.limited = state.limited
      /\ state'.clock = state.clock /\ state'.timer = state.timer /\ state'.message = state.message
      /\ state'.result /\ state'.done = state.done /\ state'.refs = state.refs
      /\ state'.gaps = state.gaps /\ state'.worker = "none" /\ state'.queued = state.queued
  BY <1>1 DEF ResultSent, Lives
<1>4. Busy(state') \in Nat /\ Busy(state) \in Nat /\ Busy(state) # 0 /\ Busy(state') <= Busy(state) /\ Busy(state') # 0
  BY <1>1, <1>3, LifeFields DEF Busy, ResultSent
<1>5. TaskPlaces(state')
  BY <1>1, <1>3, TaskPlacesKept
<1>6. TaskModes(state')
  <2>1. state.state # "notFound" /\ ~(state.limited /\ state.state = "finished")
    BY <1>1, <1>4 DEF TaskModes
  <2>2. state.limited => Busy(state') <= 1
    BY <1>1, <1>4 DEF TaskModes
  <2> QED BY <1>1, <1>3, <2>1, <2>2 DEF TaskModes
<1>7. state'.gaps = {} => Follows(state') /\ Referenced(state')
  <2>1. state.gaps = {} => Busy(state') = Busy(state)
    BY <1>1, <1>4 DEF Follows, Tracks
  <2>2. state.gaps = {} => state.state \in {"running", "canceled", "timeout"}
    BY <1>1 DEF Follows, Tracks, ResultSent
  <2>3. state.gaps = {} => Follows(state')
    BY <1>1, <1>3, <2>1, <2>2 DEF Follows, Tracks
  <2> QED BY <1>1, <1>3, <2>3, ReferencedKept
<1> QED BY <1>2, <1>5, <1>6, <1>7 DEF LifeInv, LifeSound

(* HalfDone: the result goes to the host when both halves are there. *)
LEMMA HalfDoneKeepsInv ==
  ASSUME LifeInv, NEW half \in {"function", "callback"}, Life!HalfDone(half)
  PROVE  LifeInv'
<1>1. /\ state \in Lives /\ TaskPlaces(state) /\ TaskModes(state)
      /\ state.gaps = {} => Follows(state) /\ Referenced(state)
  BY DEF LifeInv, LifeSound
<1>2. state.worker = "performing"
  BY DEF Life!HalfDone
<1>3. CASE state' = [state EXCEPT !.halves = {half}]
  <2>1. {half} \in SUBSET {"function", "callback"}
    OBVIOUS
  <2>2. state' \in Lives
    BY <1>1, <1>3, <2>1, Zenon DEF Lives
  <2>3. /\ state'.made = state.made /\ state'.current = state.current /\ state'.delayed = state.delayed
        /\ state'.pending = state.pending /\ state'.promise = state.promise /\ state'.state = state.state
        /\ state'.executed = state.executed /\ state'.isPeriodic = state.isPeriodic /\ state'.limited = state.limited
        /\ state'.clock = state.clock /\ state'.timer = state.timer /\ state'.message = state.message
        /\ state'.result = state.result /\ state'.done = state.done /\ state'.refs = state.refs
        /\ state'.gaps = state.gaps /\ state'.worker = state.worker /\ state'.queued = state.queued
    BY <1>1, <1>3 DEF Lives
  <2>4. Busy(state') = Busy(state)
    BY <2>3 DEF Busy
  <2>5. TaskPlaces(state')
    BY <1>1, <2>3, TaskPlacesKept
  <2>6. TaskModes(state')
    BY <1>1, <2>3, <2>4 DEF TaskModes
  <2>7. state'.gaps = {} => Follows(state') /\ Referenced(state')
    BY <1>1, <2>3, <2>4, ReferencedKept DEF Follows, Tracks
  <2> QED BY <2>2, <2>5, <2>6, <2>7 DEF LifeInv, LifeSound
<1>4. CASE state' = [state EXCEPT !.halves = {}, !.worker = "none", !.result = TRUE]
  BY <1>2, <1>4, ResultSentKeepsInv DEF ResultSent
<1> QED BY <1>3, <1>4 DEF Life!HalfDone

(* PerformFails: there is an error for a result, or none. *)
LEMMA PerformFailsKeepsInv ==
  ASSUME LifeInv, Life!PerformFails
  PROVE  LifeInv'
<1>1. /\ state \in Lives /\ TaskPlaces(state) /\ TaskModes(state)
      /\ state.gaps = {} => Follows(state) /\ Referenced(state)
  BY DEF LifeInv, LifeSound
<1>2. state.worker = "performing" /\ state.halves = {}
  BY DEF Life!PerformFails
<1>3. CASE state' = [state EXCEPT !.worker = "none", !.result = TRUE]
  <2>1. state' = [state EXCEPT !.halves = {}, !.worker = "none", !.result = TRUE]
    BY <1>1, <1>2, <1>3 DEF Lives
  <2> QED BY <1>2, <2>1, ResultSentKeepsInv DEF ResultSent
<1>4. CASE state' = [state EXCEPT !.worker = "none", !.gaps = @ \cup {"lost"}]
  <2>1. PICK g : g = state.gaps \cup {"lost"}
    OBVIOUS
  <2>2. g \in SUBSET {"executedDelayed", "lateCancel", "staleDone", "lost"} /\ g # {}
    BY <1>1, <2>1, LifeFields
  <2>3. state' = [state EXCEPT !.worker = "none", !.gaps = g]
    BY <1>4, <2>1
  <2>4. state' \in Lives
    BY <1>1, <2>2, <2>3, Zenon DEF Lives
  <2>5. /\ state'.made = state.made /\ state'.current = state.current /\ state'.delayed = state.delayed
        /\ state'.pending = state.pending /\ state'.promise = state.promise /\ state'.state = state.state
        /\ state'.executed = state.executed /\ state'.isPeriodic = state.isPeriodic /\ state'.limited = state.limited
        /\ state'.clock = state.clock /\ state'.timer = state.timer /\ state'.message = state.message
        /\ state'.result = state.result /\ state'.gaps = g /\ state'.worker = "none" /\ state'.queued = state.queued
    BY <1>1, <2>3 DEF Lives
  <2>6. Busy(state') = Busy(state) - 1 /\ Busy(state) \in Nat /\ Busy(state) # 0
    BY <1>1, <1>2, <2>5, LifeFields DEF Busy
  <2>7. TaskPlaces(state')
    BY <1>1, <2>5, TaskPlacesKept
  <2>8. TaskModes(state')
    BY <1>1, <2>5, <2>6 DEF TaskModes
  <2> QED BY <2>2, <2>4, <2>5, <2>7, <2>8 DEF LifeInv, LifeSound
<1> QED BY <1>3, <1>4 DEF Life!PerformFails

----------------------------------------------------------------------------
(* The timers of the host. *)

(* GetTaskInfo makes the execution current, or lets it wait. *)
LEMMA GetTaskInfoIs ==
  ASSUME LifeAssumption, NEW l \in Lives, NEW i \in Life!Executions,
         i \notin Elements(l.pending), Injective(l.pending)
  PROVE  \E c \in 1..MaxExecutions, s \in Seq(Life!Executions) :
           /\ Life!GetTaskInfo(l, i) = [l EXCEPT !.current = c, !.pending = s]
           /\ Injective(s)
           /\ l.current = 0 => c = i /\ s = l.pending
           /\ l.current # 0 => c = l.current /\ Elements(s) = Elements(l.pending) \cup {i}
           /\ Len(l.pending) \in Nat /\ Len(s) \in Nat
           /\ Len(s) + 1 = Len(l.pending) + 1 + (IF l.current = 0 THEN 0 ELSE 1)
<1>1. l.pending \in Seq(Life!Executions) /\ l.current \in 0..MaxExecutions
  BY LifeFields
<1>2. Len(l.pending) \in Nat
  BY <1>1, LenProperties
<1>3. CASE l.current = 0
  <2>1. Life!GetTaskInfo(l, i) = [l EXCEPT !.current = i, !.pending = l.pending]
    BY <1>3 DEF Life!GetTaskInfo, Lives
  <2>2. i \in 1..MaxExecutions
    BY DEF Life!Executions
  <2>3. l.pending \in Seq(Life!Executions)
    BY <1>1
  <2> WITNESS i \in 1..MaxExecutions, l.pending \in Seq(Life!Executions)
  <2> QED BY <1>2, <1>3, <2>1
<1>4. CASE l.current # 0
  <2>1. PICK s : s = Append(l.pending, i)
    OBVIOUS
  <2>2. /\ Append(l.pending, i) \in Seq(Life!Executions)
        /\ Len(Append(l.pending, i)) = Len(l.pending) + 1
        /\ Elements(Append(l.pending, i)) = Elements(l.pending) \cup {i}
        /\ Injective(Append(l.pending, i))
    BY <1>1, AppendedIs
  <2>3. Life!GetTaskInfo(l, i) = [l EXCEPT !.current = l.current, !.pending = s]
    BY <1>4, <2>1 DEF Life!GetTaskInfo, Lives
  <2>4. l.current \in 1..MaxExecutions
    BY <1>1, <1>4 DEF LifeAssumption
  <2>5. s \in Seq(Life!Executions)
    BY <2>1, <2>2
  <2> WITNESS l.current \in 1..MaxExecutions, s \in Seq(Life!Executions)
  <2> QED BY <1>2, <1>4, <2>1, <2>2, <2>3
<1> QED BY <1>3, <1>4

(* The executions that wait are executions. *)
LEMMA ElementsAre ==
  ASSUME NEW s \in Seq(Life!Executions)
  PROVE  Elements(s) \subseteq Life!Executions /\ Len(s) \in Nat
BY ElementOfSeq, LenProperties DEF Elements

(* An execution whose timer has fired: what is known of it, and of the     *)
(* value f of life without it among the delayed ones, D.                   *)
FiredTo(i, f, D) ==
  /\ ~state.isPeriodic /\ ~state.limited /\ ~state.timer /\ ~state.clock
  /\ state.state # "timeout" /\ state.state # "notFound" /\ state.executed
  /\ D = state.delayed \ {i} /\ D \in SUBSET Life!Executions
  /\ Cardinality(state.delayed) = Cardinality(D) + 1 /\ Cardinality(D) \in Nat
  /\ f = Life!Fired(i) /\ f \in Lives
  /\ f.made = state.made /\ f.current = state.current /\ f.delayed = D
  /\ f.pending = state.pending /\ f.promise = state.promise /\ f.state = state.state
  /\ f.executed = state.executed /\ f.isPeriodic = state.isPeriodic /\ f.limited = state.limited
  /\ f.clock = state.clock /\ f.timer = state.timer /\ f.message = state.message
  /\ f.result = state.result /\ f.done = state.done /\ f.refs = state.refs
  /\ f.gaps = state.gaps /\ f.worker = state.worker /\ f.queued = state.queued
  /\ state.promise[i] # "settled" /\ i # state.current
  /\ i \notin Elements(state.pending) /\ Injective(state.pending) /\ i <= state.made

(* The timer of an execution fires. *)
LEMMA FiredIs ==
  ASSUME LifeAssumption, LifeInv, NEW i \in Life!Executions, i \in state.delayed
  PROVE  \E D, f : FiredTo(i, f, D)
<1>1. /\ state \in Lives /\ TaskPlaces(state) /\ TaskModes(state)
      /\ state.gaps = {} => Follows(state) /\ Referenced(state)
  BY DEF LifeInv, LifeSound
<1>2. i \in state.delayed
  OBVIOUS
<1>3. /\ ~state.isPeriodic /\ ~state.limited /\ ~state.timer /\ ~state.clock
      /\ state.state # "timeout" /\ state.state # "notFound" /\ state.executed
  <2>1. state.delayed # {}
    BY <1>2
  <2> QED BY <1>1, <2>1, NewTaskIsBlank DEF TaskModes
<1>4. PICK D : D = state.delayed \ {i}
  OBVIOUS
<1>5. D \in SUBSET Life!Executions /\ Cardinality(state.delayed) = Cardinality(D) + 1
      /\ Cardinality(D) \in Nat
  <2>1. state.delayed \in SUBSET Life!Executions
    BY <1>1, LifeFields
  <2>2. IsFiniteSet(state.delayed) /\ Cardinality(state.delayed) \in Nat
    BY <2>1, DelayedIsFinite
  <2>3. D \in SUBSET Life!Executions
    BY <1>4, <2>1
  <2>4. Cardinality(D) \in Nat
    BY <2>3, DelayedIsFinite
  <2>5. Cardinality(state.delayed \ {i}) = Cardinality(state.delayed) - 1
    BY <1>2, <2>2, FS_RemoveElement
  <2> QED BY <1>4, <2>2, <2>3, <2>4, <2>5
<1>6. PICK f : f = [state EXCEPT !.delayed = D]
  OBVIOUS
<1>7. f \in Lives
  BY <1>1, <1>5, <1>6, Zenon DEF Lives
<1>8. /\ f.made = state.made /\ f.current = state.current /\ f.delayed = D
      /\ f.pending = state.pending /\ f.promise = state.promise /\ f.state = state.state
      /\ f.executed = state.executed /\ f.isPeriodic = state.isPeriodic /\ f.limited = state.limited
      /\ f.clock = state.clock /\ f.timer = state.timer /\ f.message = state.message
      /\ f.result = state.result /\ f.done = state.done /\ f.refs = state.refs
      /\ f.gaps = state.gaps /\ f.worker = state.worker /\ f.queued = state.queued
  BY <1>1, <1>6 DEF Lives
<1>9. f = Life!Fired(i)
  BY <1>4, <1>6 DEF Life!Fired
<1>10. /\ i \in Life!Executions /\ state.promise[i] # "settled" /\ i # state.current
       /\ i \notin Elements(state.pending) /\ Injective(state.pending) /\ i <= state.made
  BY <1>1, <1>2 DEF TaskPlaces
<1> QED BY <1>3, <1>4, <1>5, <1>7, <1>8, <1>9, <1>10 DEF FiredTo

(* It is rejected: the task was canceled, or cannot be serialized.         *)
LEMMA DelayedRejectedKeepsInv ==
  ASSUME LifeAssumption, LifeInv, NEW i \in Life!Executions, i \in state.delayed,
         state' = Life!Settled(Life!Fired(i), {i})
  PROVE  LifeInv'
<1>1. /\ state \in Lives /\ TaskPlaces(state) /\ TaskModes(state)
      /\ state.gaps = {} => Follows(state) /\ Referenced(state)
  BY DEF LifeInv, LifeSound
<1>2. PICK D, f : FiredTo(i, f, D)
  BY FiredIs
<1>3. /\ ~state.isPeriodic /\ ~state.limited /\ ~state.timer /\ ~state.clock
      /\ state.state # "timeout" /\ state.state # "notFound" /\ state.executed
  BY <1>2 DEF FiredTo
<1>4. D = state.delayed \ {i} /\ f = Life!Fired(i)
  BY <1>2 DEF FiredTo
<1>5. D \in SUBSET Life!Executions /\ Cardinality(state.delayed) = Cardinality(D) + 1
      /\ Cardinality(D) \in Nat
  BY <1>2 DEF FiredTo
<1>7. f \in Lives
  BY <1>2 DEF FiredTo
<1>8. /\ f.made = state.made /\ f.current = state.current /\ f.delayed = D
      /\ f.pending = state.pending /\ f.promise = state.promise /\ f.state = state.state
      /\ f.executed = state.executed /\ f.isPeriodic = state.isPeriodic /\ f.limited = state.limited
      /\ f.clock = state.clock /\ f.timer = state.timer /\ f.message = state.message
      /\ f.result = state.result /\ f.done = state.done /\ f.refs = state.refs
      /\ f.gaps = state.gaps /\ f.worker = state.worker /\ f.queued = state.queued
  BY <1>2 DEF FiredTo
<1>10. /\ i \in Life!Executions /\ state.promise[i] # "settled" /\ i # state.current
       /\ i \notin Elements(state.pending) /\ Injective(state.pending) /\ i <= state.made
  BY <1>2 DEF FiredTo
<1>11. PICK q \in [Life!Executions -> {"none", "open", "settled"}] :
         /\ Life!Settled(f, {i}) = [f EXCEPT !.promise = q]
         /\ \A j \in Life!Executions : j \notin {i} => q[j] = f.promise[j]
         /\ \A j \in Life!Executions : j \in {i} => q[j] # "open"
         /\ \A j \in Life!Executions : q[j] = "settled" => j \in {i} \/ f.promise[j] = "settled"
         /\ \A j \in Life!Executions : q[j] = "open" => f.promise[j] = "open"
         /\ \A j \in Life!Executions : j \in {i} /\ f.promise[j] = "open" => q[j] = "settled"
  <2>1. \A j \in Life!Executions : j \in {i} => f.promise[j] # "settled"
    BY <1>8, <1>10
  <2> QED BY <1>7, <2>1, TaskSettledIs
<1>12. state' = [f EXCEPT !.promise = q]
  BY <1>4, <1>11
<1>13. state' \in Lives
  <2>1. PICK m : m = [f EXCEPT !.promise = q]
    OBVIOUS
  <2>2. m \in Lives
    BY <1>7, <2>1, Zenon DEF Lives
  <2> QED BY <1>12, <2>1, <2>2
<1>14. /\ state'.made = state.made /\ state'.current = state.current /\ state'.delayed = D
       /\ state'.pending = state.pending /\ state'.promise = q /\ state'.state = state.state
       /\ state'.executed = state.executed /\ state'.isPeriodic = state.isPeriodic /\ state'.limited = state.limited
       /\ state'.clock = state.clock /\ state'.timer = state.timer /\ state'.message = state.message
       /\ state'.result = state.result /\ state'.done = state.done /\ state'.refs = state.refs
       /\ state'.gaps = state.gaps /\ state'.worker = state.worker /\ state'.queued = state.queued
  BY <1>7, <1>8, <1>12 DEF Lives
<1>15. Busy(state') = Busy(state)
  BY <1>14 DEF Busy
<1>16. /\ state.pending \in Seq(Life!Executions) /\ Elements(state.pending) \subseteq Life!Executions
       /\ state.current \in 0..MaxExecutions /\ state.delayed \subseteq Life!Executions
  BY <1>1, LifeFields, ElementsAre
<1>17. TaskPlaces(state')
  <2>1. state.current # 0 => state.current \in Life!Executions
    BY <1>16 DEF Life!Executions
  <2>2. \A j \in Life!Executions : j # i => q[j] = state.promise[j]
    BY <1>8, <1>11
  <2>3. q[i] # "open" /\ state.state # "timeout"
    BY <1>3, <1>11
  <2>4. \A j \in {state.current} \cup D \cup Elements(state.pending) : j <= state.made
    BY <1>1, <1>4 DEF TaskPlaces
  <2>5. \A j \in Life!Executions : q[j] = "settled" => j <= state.made
    BY <1>1, <1>10, <2>2 DEF TaskPlaces
  <2>6. \A j \in D \cup Elements(state.pending) : j \in Life!Executions /\ j # i
    BY <1>4, <1>10, <1>16
  <2>7. \A j \in D \cup Elements(state.pending) : q[j] # "settled" /\ j # state.current
    BY <1>1, <1>4, <2>2, <2>6 DEF TaskPlaces
  <2>8. D \cap Elements(state.pending) = {}
    BY <1>1, <1>4 DEF TaskPlaces
  <2>9. state.current # 0 => q[state.current] # "settled"
    BY <1>1, <1>10, <2>1, <2>2, <2>3 DEF TaskPlaces
  <2>10. \A j \in Life!Executions :
           q[j] = "open" => j \in {state.current} \cup D \cup Elements(state.pending)
    BY <1>1, <1>4, <2>2, <2>3 DEF TaskPlaces
  <2> QED BY <1>10, <1>14, <2>3, <2>4, <2>5, <2>7, <2>8, <2>9, <2>10 DEF TaskPlaces
<1>18. TaskModes(state')
  BY <1>1, <1>3, <1>14, <1>15 DEF TaskModes
<1>19. state'.gaps = {} => Follows(state')
  BY <1>1, <1>14, <1>15 DEF Follows, Tracks
<1>20. state'.gaps = {} => Referenced(state')
  <2> HAVE state'.gaps = {}
  <2>1. state.refs >= Needed(state)
    BY <1>1, <1>3, <1>14 DEF Referenced
  <2>2. PICK a : a = Len(state.pending)
    OBVIOUS
  <2>3. a \in Nat /\ state.refs \in Nat
    BY <1>1, <1>16, <2>2, LifeFields, ElementsAre
  <2>4. PICK d : d = Cardinality(D)
    OBVIOUS
  <2>5. Needed(state) = (d + 1) + a + (IF state.current = 0 THEN 0 ELSE 1) /\ d \in Nat
    BY <1>5, <2>2, <2>4 DEF Needed
  <2>6. Needed(state') = d + a + (IF state.current = 0 THEN 0 ELSE 1)
    BY <1>14, <2>2, <2>4 DEF Needed
  <2>7. state'.refs >= Needed(state')
    BY <1>14, <2>1, <2>3, <2>5, <2>6
  <2> QED BY <2>7 DEF Referenced
<1> QED BY <1>13, <1>17, <1>18, <1>19, <1>20 DEF LifeInv, LifeSound

(* It takes its place: it is current, or waits behind the current one.     *)
StartedTo(g, c, s, D) ==
  /\ c \in 1..MaxExecutions /\ s \in Seq(Life!Executions) /\ Len(s) \in Nat
  /\ Len(s) + 1 = Len(state.pending) + 1 + (IF state.current = 0 THEN 0 ELSE 1)
  /\ g \in Lives /\ TaskPlaces(g)
  /\ g.made = state.made /\ g.current = c /\ g.delayed = D
  /\ g.pending = s /\ g.promise = state.promise /\ g.state = state.state
  /\ g.executed = state.executed /\ g.isPeriodic = state.isPeriodic /\ g.limited = state.limited
  /\ g.clock = state.clock /\ g.timer = state.timer /\ g.message = state.message
  /\ g.result = state.result /\ g.done = state.done /\ g.refs = state.refs
  /\ g.gaps = state.gaps /\ g.worker = state.worker /\ g.queued = state.queued

LEMMA StartedIs ==
  ASSUME LifeAssumption, LifeInv, NEW i \in Life!Executions, NEW D, NEW f,
         i \in state.delayed, FiredTo(i, f, D)
  PROVE  \E c, s : StartedTo(Life!GetTaskInfo(Life!Fired(i), i), c, s, D)
<1>1. /\ state \in Lives /\ TaskPlaces(state) /\ TaskModes(state)
  BY DEF LifeInv, LifeSound
<1>2. i \in state.delayed
  OBVIOUS
<1>3. /\ ~state.isPeriodic /\ ~state.limited /\ ~state.timer /\ ~state.clock
      /\ state.state # "timeout" /\ state.state # "notFound" /\ state.executed
  BY DEF FiredTo
<1>4. D = state.delayed \ {i} /\ f = Life!Fired(i)
  BY DEF FiredTo
<1>5. D \in SUBSET Life!Executions /\ Cardinality(state.delayed) = Cardinality(D) + 1
      /\ Cardinality(D) \in Nat
  BY DEF FiredTo
<1>7. f \in Lives
  BY DEF FiredTo
<1>8. /\ f.made = state.made /\ f.current = state.current /\ f.delayed = D
      /\ f.pending = state.pending /\ f.promise = state.promise /\ f.state = state.state
      /\ f.executed = state.executed /\ f.isPeriodic = state.isPeriodic /\ f.limited = state.limited
      /\ f.clock = state.clock /\ f.timer = state.timer /\ f.message = state.message
      /\ f.result = state.result /\ f.done = state.done /\ f.refs = state.refs
      /\ f.gaps = state.gaps /\ f.worker = state.worker /\ f.queued = state.queued
  BY DEF FiredTo
<1>10. /\ i \in Life!Executions /\ state.promise[i] # "settled" /\ i # state.current
       /\ i \notin Elements(state.pending) /\ Injective(state.pending) /\ i <= state.made
  BY DEF FiredTo
<1>11. PICK c \in 1..MaxExecutions, s \in Seq(Life!Executions) :
         /\ Life!GetTaskInfo(f, i) = [f EXCEPT !.current = c, !.pending = s]
         /\ Injective(s)
         /\ f.current = 0 => c = i /\ s = f.pending
         /\ f.current # 0 => c = f.current /\ Elements(s) = Elements(f.pending) \cup {i}
         /\ Len(f.pending) \in Nat /\ Len(s) \in Nat
         /\ Len(s) + 1 = Len(f.pending) + 1 + (IF f.current = 0 THEN 0 ELSE 1)
  <2>1. i \notin Elements(f.pending) /\ Injective(f.pending)
    BY <1>8, <1>10
  <2> QED BY <1>7, <2>1, GetTaskInfoIs
<1>12. /\ state.current = 0 => c = i /\ s = state.pending
       /\ state.current # 0 => c = state.current /\ Elements(s) = Elements(state.pending) \cup {i}
  BY <1>8, <1>11
<1>13. PICK g : g = [f EXCEPT !.current = c, !.pending = s]
  OBVIOUS
<1>14. c \in 0..MaxExecutions /\ c # 0 /\ c \in Life!Executions
  BY DEF Life!Executions, LifeAssumption
<1>15. g \in Lives
  BY <1>7, <1>13, <1>14, Zenon DEF Lives
<1>16. Life!GetTaskInfo(f, i) = g
  BY <1>11, <1>13
<1>17. /\ g.made = state.made /\ g.current = c /\ g.delayed = D
       /\ g.pending = s /\ g.promise = state.promise /\ g.state = state.state
       /\ g.executed = state.executed /\ g.isPeriodic = state.isPeriodic /\ g.limited = state.limited
       /\ g.clock = state.clock /\ g.timer = state.timer /\ g.message = state.message
       /\ g.result = state.result /\ g.done = state.done /\ g.refs = state.refs
       /\ g.gaps = state.gaps /\ g.worker = state.worker /\ g.queued = state.queued
  BY <1>7, <1>8, <1>13 DEF Lives
<1>18. TaskPlaces(g)
  <2>1. /\ \A j \in {state.current} \cup state.delayed \cup Elements(state.pending) : j <= state.made
        /\ \A j \in state.delayed \cup Elements(state.pending) : state.promise[j] # "settled" /\ j # state.current
        /\ state.delayed \cap Elements(state.pending) = {}
        /\ state.current # 0 => state.promise[state.current] # "settled"
        /\ \A j \in Life!Executions :
             state.promise[j] = "open" => j \in {state.current} \cup state.delayed \cup Elements(state.pending)
    BY <1>1, <1>3 DEF TaskPlaces
  <2>2. g.state # "timeout"
    BY <1>3, <1>17
  <2>3. 0 \notin Life!Executions
    BY DEF Life!Executions
  <2>4. \A j \in {c} \cup D \cup Elements(s) : j <= state.made
    BY <1>4, <1>10, <1>12, <2>1
  <2>5. \A j \in D \cup Elements(s) : state.promise[j] # "settled" /\ j # c
    BY <1>2, <1>4, <1>10, <1>12, <2>1
  <2>6. D \cap Elements(s) = {}
    BY <1>2, <1>4, <1>12, <2>1
  <2>7. \A j \in Life!Executions : state.promise[j] = "open" => j \in {c} \cup D \cup Elements(s)
    BY <1>4, <1>12, <2>1, <2>3
  <2>8. state.promise[c] # "settled"
    BY <1>10, <1>12, <2>1
  <2>9. \A j \in Life!Executions : state.promise[j] = "settled" => j <= state.made
    BY <1>1 DEF TaskPlaces
  <2> QED BY <1>11, <1>17, <2>2, <2>4, <2>5, <2>6, <2>7, <2>8, <2>9 DEF TaskPlaces
<1> QED BY <1>4, <1>8, <1>11, <1>14, <1>15, <1>16, <1>17, <1>18 DEF StartedTo

(* DelayTask: the execution takes its place, or is rejected. *)
LEMMA DelayTaskKeepsInv ==
  ASSUME LifeAssumption, LifeInv, NEW i \in Life!Executions, Life!DelayTask(i)
  PROVE  LifeInv'
<1>1. /\ state \in Lives /\ TaskPlaces(state) /\ TaskModes(state)
      /\ state.gaps = {} => Follows(state) /\ Referenced(state)
  BY DEF LifeInv, LifeSound
<1>0. i \in state.delayed
  BY DEF Life!DelayTask
<1>2. PICK D, f : FiredTo(i, f, D)
  BY <1>0, FiredIs
<1>3. /\ ~state.isPeriodic /\ ~state.limited /\ ~state.timer /\ ~state.clock
      /\ state.state # "timeout" /\ state.state # "notFound" /\ state.executed
  BY <1>2 DEF FiredTo
<1>4. D = state.delayed \ {i} /\ f = Life!Fired(i)
  BY <1>2 DEF FiredTo
<1>5. D \in SUBSET Life!Executions /\ Cardinality(state.delayed) = Cardinality(D) + 1
      /\ Cardinality(D) \in Nat
  BY <1>2 DEF FiredTo
<1>7. f \in Lives
  BY <1>2 DEF FiredTo
<1>8. /\ f.made = state.made /\ f.current = state.current /\ f.delayed = D
      /\ f.pending = state.pending /\ f.promise = state.promise /\ f.state = state.state
      /\ f.executed = state.executed /\ f.isPeriodic = state.isPeriodic /\ f.limited = state.limited
      /\ f.clock = state.clock /\ f.timer = state.timer /\ f.message = state.message
      /\ f.result = state.result /\ f.done = state.done /\ f.refs = state.refs
      /\ f.gaps = state.gaps /\ f.worker = state.worker /\ f.queued = state.queued
  BY <1>2 DEF FiredTo
<1>10. /\ i \in Life!Executions /\ state.promise[i] # "settled" /\ i # state.current
       /\ i \notin Elements(state.pending) /\ Injective(state.pending) /\ i <= state.made
  BY <1>2 DEF FiredTo
<1>9. state' = IF state.state = "canceled" THEN Life!Settled(f, {i})
              ELSE IF state.state \in {"delayed", "finished"} THEN Life!Waiting(Life!GetTaskInfo(f, i))
              ELSE Life!GetTaskInfo(f, i)
  BY <1>4 DEF Life!DelayTask
<1>11. CASE state.state = "canceled"
  BY <1>0, <1>4, <1>9, <1>11, DelayedRejectedKeepsInv
<1>12. CASE state.state # "canceled"
  <2>1. PICK c, s : StartedTo(Life!GetTaskInfo(Life!Fired(i), i), c, s, D)
    BY <1>0, <1>2, StartedIs
  <2>2. PICK g : g = Life!GetTaskInfo(Life!Fired(i), i)
    OBVIOUS
  <2>3. Life!GetTaskInfo(f, i) = g
    BY <1>4, <2>2
  <2>4. /\ c \in 0..MaxExecutions /\ c # 0
        /\ Len(s) \in Nat /\ Len(state.pending) \in Nat
        /\ Len(s) + 1 = Len(state.pending) + 1 + (IF state.current = 0 THEN 0 ELSE 1)
    <3>1. Len(state.pending) \in Nat
      BY <1>1, LifeFields, ElementsAre
    <3>2. /\ c \in 1..MaxExecutions /\ Len(s) \in Nat
          /\ Len(s) + 1 = Len(state.pending) + 1 + (IF state.current = 0 THEN 0 ELSE 1)
      BY <2>1, Zenon DEF StartedTo
    <3>3. c \in 0..MaxExecutions /\ c # 0
      BY <3>2 DEF LifeAssumption
    <3> QED BY <3>1, <3>2, <3>3
  <2>5. g \in Lives
    BY <2>1, <2>2 DEF StartedTo
  <2>12. /\ g.made = state.made /\ g.current = c /\ g.delayed = D
         /\ g.pending = s /\ g.promise = state.promise /\ g.state = state.state
         /\ g.executed = state.executed /\ g.isPeriodic = state.isPeriodic /\ g.limited = state.limited
         /\ g.clock = state.clock /\ g.timer = state.timer /\ g.message = state.message
         /\ g.result = state.result /\ g.done = state.done /\ g.refs = state.refs
         /\ g.gaps = state.gaps /\ g.worker = state.worker /\ g.queued = state.queued
    BY <2>1, <2>2 DEF StartedTo
  <2>7. PICK n : n = state.queued + 1
    OBVIOUS
  <2>8. state.queued \in Nat /\ n \in Nat
    BY <1>1, <2>7, LifeFields
  <2>9. state.state \in {"delayed", "finished"} => state' = [g EXCEPT !.state = "waiting", !.queued = n]
    <3> HAVE state.state \in {"delayed", "finished"}
    <3>1. state' = Life!Waiting(g)
      BY <1>9, <1>12, <2>3
    <3>2. g.queued = state.queued
      BY <2>12
    <3> QED BY <2>5, <2>7, <3>1, <3>2 DEF Life!Waiting, Lives
  <2>10. state.state \notin {"delayed", "finished"} => state' = g
    BY <1>9, <1>12, <2>3
  <2>11. state' \in Lives
    <3>1. "waiting" \in Life!ExecuteState \ {"ending"}
      BY DEF Life!ExecuteState
    <3>2. CASE state.state \in {"delayed", "finished"}
      <4>1. state' = [g EXCEPT !.state = "waiting", !.queued = n]
        BY <2>9, <3>2
      <4> QED BY <2>5, <2>8, <3>1, <4>1, Zenon DEF Lives
    <3>3. CASE state.state \notin {"delayed", "finished"}
      BY <2>5, <2>10, <3>3
    <3> QED BY <3>2, <3>3
  <2>13. /\ state'.made = state.made /\ state'.current = c /\ state'.delayed = D
         /\ state'.pending = s /\ state'.promise = state.promise
         /\ state'.executed = state.executed /\ state'.isPeriodic = state.isPeriodic /\ state'.limited = state.limited
         /\ state'.clock = state.clock /\ state'.timer = state.timer /\ state'.message = state.message
         /\ state'.result = state.result /\ state'.done = state.done /\ state'.refs = state.refs
         /\ state'.gaps = state.gaps /\ state'.worker = state.worker
         /\ state.state \in {"delayed", "finished"} => state'.state = "waiting" /\ state'.queued = n
         /\ state.state \notin {"delayed", "finished"} => state'.state = state.state /\ state'.queued = state.queued
    <3>1. CASE state.state \in {"delayed", "finished"}
      <4>1. state' = [g EXCEPT !.state = "waiting", !.queued = n]
        BY <2>9, <3>1
      <4>2. /\ state'.made = g.made /\ state'.current = g.current /\ state'.delayed = g.delayed
            /\ state'.pending = g.pending /\ state'.promise = g.promise
            /\ state'.executed = g.executed /\ state'.isPeriodic = g.isPeriodic /\ state'.limited = g.limited
            /\ state'.clock = g.clock /\ state'.timer = g.timer /\ state'.message = g.message
            /\ state'.result = g.result /\ state'.done = g.done /\ state'.refs = g.refs
            /\ state'.gaps = g.gaps /\ state'.worker = g.worker
            /\ state'.state = "waiting" /\ state'.queued = n
        BY <2>5, <4>1 DEF Lives
      <4> QED BY <2>12, <3>1, <4>2
    <3>2. CASE state.state \notin {"delayed", "finished"}
      BY <2>10, <2>12, <3>2
    <3> QED BY <3>1, <3>2
  <2>14. Busy(state') = Busy(state) + (IF state.state \in {"delayed", "finished"} THEN 1 ELSE 0) /\ Busy(state) \in Nat
    BY <1>1, <2>7, <2>8, <2>13, LifeFields DEF Busy
  <2>15. TaskPlaces(state')
    <3>1. state'.state # "timeout" /\ g.state # "timeout"
      BY <1>3, <2>12, <2>13
    <3> QED BY <2>1, <2>2, <2>12, <2>13, <3>1, TaskPlacesKept DEF StartedTo
  <2>16. TaskModes(state')
    BY <1>1, <1>3, <2>13 DEF TaskModes
  <2>17. state'.gaps = {} => Follows(state')
    <3> HAVE state'.gaps = {}
    <3>1. Follows(state)
      BY <1>1, <2>13
    <3>2. state.state \in {"delayed", "finished"} <=> state.current = 0
      BY <1>1, <1>3, <1>12, <3>1, LifeFields DEF Follows, Tracks, Life!ExecuteState
    <3>3. Busy(state') = 1
      BY <2>14, <3>1, <3>2 DEF Follows, Tracks
    <3>4. state'.worker = "performing" \/ state'.result => state'.state \in {"running", "canceled", "timeout"}
      BY <2>13, <3>1 DEF Follows, Tracks
    <3>5. state'.state \notin {"notFound", "finished", "delayed"}
      BY <1>3, <2>13
    <3> QED BY <2>4, <2>13, <3>3, <3>4, <3>5 DEF Follows, Tracks
  <2>18. state'.gaps = {} => Referenced(state')
    <3> HAVE state'.gaps = {}
    <3>1. state.refs >= Needed(state)
      BY <1>1, <1>3, <2>13 DEF Referenced
    <3>2. PICK a, b, d : a = Len(state.pending) /\ b = Len(s) /\ d = Cardinality(D)
      OBVIOUS
    <3>3. a \in Nat /\ b \in Nat /\ d \in Nat /\ b + 1 = a + 1 + (IF state.current = 0 THEN 0 ELSE 1)
      BY <1>5, <2>4, <3>2
    <3>4. Needed(state) = (d + 1) + a + (IF state.current = 0 THEN 0 ELSE 1)
      BY <1>5, <3>2 DEF Needed
    <3>5. Needed(state') = d + b + 1
      BY <2>4, <2>13, <3>2 DEF Needed
    <3>6. Needed(state') = Needed(state)
      BY <3>3, <3>4, <3>5
    <3> QED BY <2>13, <3>1, <3>6 DEF Referenced
  <2> QED BY <2>11, <2>15, <2>16, <2>17, <2>18 DEF LifeInv, LifeSound
<1> QED BY <1>11, <1>12

(* DelayTask of a task that cannot be serialized. *)
LEMMA DelayTaskFailsKeepsInv ==
  ASSUME LifeAssumption, LifeInv, NEW i \in Life!Executions, Life!DelayTaskFails(i)
  PROVE  LifeInv'
BY DelayedRejectedKeepsInv DEF Life!DelayTaskFails

(* A cancel that comes while DelayTask runs. *)
LEMMA TriggerCancelWithinKeepsInv ==
  ASSUME LifeAssumption, LifeInv, NEW i \in Life!Executions, Life!TriggerCancelWithin(i)
  PROVE  LifeInv'
<1>1. state \in Lives /\ TaskModes(state) /\ i \in state.delayed
  BY DEF LifeInv, LifeSound, Life!TriggerCancelWithin
<1>2. PICK D, f : FiredTo(i, f, D)
  BY <1>1, FiredIs
<1>3. /\ ~state.isPeriodic /\ ~state.limited /\ ~state.timer /\ ~state.clock
      /\ state.state # "timeout" /\ state.executed
  BY <1>2 DEF FiredTo
<1>4. PICK c, s : StartedTo(Life!GetTaskInfo(Life!Fired(i), i), c, s, D)
  BY <1>1, <1>2, StartedIs
<1>5. PICK g : g = Life!GetTaskInfo(Life!Fired(i), i)
  OBVIOUS
<1>6. g \in Lives /\ TaskPlaces(g) /\ g.state = state.state
      /\ g.executed /\ ~g.isPeriodic /\ ~g.limited /\ ~g.clock /\ ~g.timer
  BY <1>3, <1>4, <1>5 DEF StartedTo
<1>7. PICK n, m : n = g.queued + 1 /\ m = g.gaps \cup {"lateCancel"}
  OBVIOUS
<1>8. /\ n \in Nat /\ m \in SUBSET {"executedDelayed", "lateCancel", "staleDone", "lost"}
      /\ "lateCancel" \in m
  BY <1>6, <1>7, LifeFields
<1>9. PICK h : h = [g EXCEPT !.message = "delayed", !.gaps = m]
  OBVIOUS
<1>10. h \in Lives
  <2>1. "delayed" \in Life!ExecuteState \cup {"none"}
    BY DEF Life!ExecuteState
  <2> QED BY <1>6, <1>8, <1>9, <2>1, Zenon DEF Lives
<1>11. state' = [h EXCEPT !.state = "canceled"] \/ state' = [h EXCEPT !.state = "waiting", !.queued = n]
  <2>1. h = [Life!GetTaskInfo(Life!Fired(i), i) EXCEPT
               !.message = "delayed", !.gaps = Life!GetTaskInfo(Life!Fired(i), i).gaps \cup {"lateCancel"}]
    BY <1>5, <1>7, <1>9
  <2>2. h.queued = g.queued
    BY <1>6, <1>9 DEF Lives
  <2> QED BY <1>7, <2>1, <2>2 DEF Life!TriggerCancelWithin, Life!Waiting
<1>12. state' \in Lives
  <2>1. "canceled" \in Life!ExecuteState \ {"ending"} /\ "waiting" \in Life!ExecuteState \ {"ending"}
    BY DEF Life!ExecuteState
  <2>2. CASE state' = [h EXCEPT !.state = "canceled"]
    BY <1>10, <2>1, <2>2, Zenon DEF Lives
  <2>3. CASE state' = [h EXCEPT !.state = "waiting", !.queued = n]
    BY <1>8, <1>10, <2>1, <2>3, Zenon DEF Lives
  <2> QED BY <1>11, <2>2, <2>3
<1>13. /\ h.made = g.made /\ h.current = g.current /\ h.delayed = g.delayed
       /\ h.pending = g.pending /\ h.promise = g.promise
       /\ h.executed = g.executed /\ h.isPeriodic = g.isPeriodic /\ h.limited = g.limited
       /\ h.clock = g.clock /\ h.timer = g.timer /\ h.gaps = m
  BY <1>6, <1>9 DEF Lives
<1>14. /\ state'.made = g.made /\ state'.current = g.current /\ state'.delayed = g.delayed
       /\ state'.pending = g.pending /\ state'.promise = g.promise
       /\ state'.state \in {"canceled", "waiting"}
       /\ state'.executed = g.executed /\ state'.isPeriodic = g.isPeriodic /\ state'.limited = g.limited
       /\ state'.clock = g.clock /\ state'.timer = g.timer /\ state'.gaps = m
  <2>1. CASE state' = [h EXCEPT !.state = "canceled"]
    BY <1>10, <1>13, <2>1 DEF Lives
  <2>2. CASE state' = [h EXCEPT !.state = "waiting", !.queued = n]
    BY <1>10, <1>13, <2>2 DEF Lives
  <2> QED BY <1>11, <2>1, <2>2
<1>15. TaskPlaces(state')
  <2>1. state'.state # "timeout" /\ g.state # "timeout"
    BY <1>3, <1>6, <1>14
  <2> QED BY <1>6, <1>14, <2>1, TaskPlacesKept
<1>16. TaskModes(state')
  BY <1>6, <1>14 DEF TaskModes
<1> QED BY <1>8, <1>12, <1>14, <1>15, <1>16 DEF LifeInv, LifeSound

(* ExecutePeriodically: the first execution is made by the clock. *)
LEMMA ExecutePeriodicallyKeepsInv ==
  ASSUME LifeInv, Life!ExecutePeriodically
  PROVE  LifeInv'
<1>1. /\ state \in Lives /\ TaskPlaces(state) /\ TaskModes(state)
      /\ state.gaps = {} => Follows(state) /\ Referenced(state)
  BY DEF LifeInv, LifeSound
<1>2. /\ ~state.executed /\ ~state.isPeriodic /\ ~state.limited /\ state.state = "notFound"
      /\ state.made = 0 /\ Busy(state) = 0 /\ state.current = 0
      /\ state.delayed = {} /\ state.pending = <<>> /\ state.message = "none"
  <2>1. ~state.executed /\ ~state.isPeriodic /\ ~state.limited
    BY DEF Life!ExecutePeriodically
  <2>2. state.state = "notFound"
    BY <1>1, <2>1 DEF TaskModes
  <2> QED BY <1>1, <2>1, <2>2, NewTaskIsBlank
<1>3. PICK r : r = state.refs + 1
  OBVIOUS
<1>4. r \in Nat
  BY <1>1, <1>3, LifeFields
<1>5. PICK t : t = [state EXCEPT !.executed = TRUE, !.refs = r, !.isPeriodic = TRUE]
  OBVIOUS
<1>6. t \in Lives
  BY <1>1, <1>4, <1>5, Zenon DEF Lives
<1>7. state' = t \/ state' = [t EXCEPT !.clock = TRUE]
  BY <1>1, <1>3, <1>5 DEF Life!ExecutePeriodically, Life!Typed, Lives
<1>8. state' \in Lives
  <2>1. [t EXCEPT !.clock = TRUE] \in Lives
    BY <1>6, Zenon DEF Lives
  <2> QED BY <1>6, <1>7, <2>1
<1>9. /\ t.made = state.made /\ t.current = state.current /\ t.delayed = state.delayed
      /\ t.pending = state.pending /\ t.promise = state.promise /\ t.state = state.state
      /\ t.executed /\ t.isPeriodic /\ t.limited = state.limited
      /\ t.timer = state.timer /\ t.message = state.message
      /\ t.result = state.result /\ t.gaps = state.gaps /\ t.worker = state.worker /\ t.queued = state.queued
  BY <1>1, <1>5 DEF Lives
<1>10. /\ state'.made = state.made /\ state'.current = state.current /\ state'.delayed = state.delayed
       /\ state'.pending = state.pending /\ state'.promise = state.promise /\ state'.state = state.state
       /\ state'.executed /\ state'.isPeriodic /\ state'.limited = state.limited
       /\ state'.timer = state.timer /\ state'.message = state.message
       /\ state'.result = state.result /\ state'.gaps = state.gaps /\ state'.worker = state.worker
       /\ state'.queued = state.queued
  <2>1. CASE state' = t
    BY <1>9, <2>1
  <2>2. CASE state' = [t EXCEPT !.clock = TRUE]
    BY <1>6, <1>9, <2>2 DEF Lives
  <2> QED BY <1>7, <2>1, <2>2
<1>11. Busy(state') = Busy(state)
  BY <1>10 DEF Busy
<1>12. TaskPlaces(state')
  BY <1>1, <1>10, TaskPlacesKept
<1>13. TaskModes(state')
  BY <1>1, <1>2, <1>10, <1>11 DEF TaskModes
<1>14. state'.gaps = {} => Follows(state') /\ Referenced(state')
  BY <1>1, <1>2, <1>10, <1>11 DEF Follows, Tracks, Referenced
<1> QED BY <1>8, <1>12, <1>13, <1>14 DEF LifeInv, LifeSound

(* ExecuteDelayed: the execution waits for its timer. *)
LEMMA ExecuteDelayedKeepsInv ==
  ASSUME LifeAssumption, LifeInv, Life!ExecuteDelayed
  PROVE  LifeInv'
<1>1. /\ state \in Lives /\ TaskPlaces(state) /\ TaskModes(state)
      /\ state.gaps = {} => Follows(state) /\ Referenced(state)
  BY DEF LifeInv, LifeSound
<1>2. PICK i : i = state.made + 1
  OBVIOUS
<1>3. /\ i \in Life!Executions /\ i > state.made /\ state.made \in Nat /\ i # 0
      /\ i \in 0..MaxExecutions /\ state.current \in 0..MaxExecutions
  BY <1>1, <1>2 DEF Lives, Life!ExecuteDelayed, Life!CanExecuteAgain, Life!Executions, LifeAssumption
<1>4. state.current # i /\ i \notin state.delayed /\ i \notin Elements(state.pending)
  BY <1>1, <1>3 DEF TaskPlaces
<1>5. PICK q : q = [state.promise EXCEPT ![i] = "open"]
  OBVIOUS
<1>6. /\ q \in [Life!Executions -> {"none", "open", "settled"}] /\ q[i] = "open"
      /\ \A j \in Life!Executions : j # i => q[j] = state.promise[j]
  BY <1>1, <1>3, <1>5 DEF Lives
<1>7. PICK r, D, g, st :
        /\ r = state.refs + 1 /\ D = state.delayed \cup {i} /\ g = state.gaps \cup Life!RestartGap
        /\ st = IF ~state.executed \/ Life!IsRealyCanceled(state) \/ state.state = "finished" THEN "delayed" ELSE state.state
  OBVIOUS
<1>8. /\ r \in Nat /\ D \in SUBSET Life!Executions /\ st \in Life!ExecuteState \ {"ending"}
      /\ g \in SUBSET {"executedDelayed", "lateCancel", "staleDone", "lost"}
  <2>1. state.refs \in Nat /\ state.delayed \in SUBSET Life!Executions
    BY <1>1, LifeFields
  <2>2. state.state \in Life!ExecuteState \ {"ending"}
    BY <1>1, LifeFields
  <2>3. state.gaps \in SUBSET {"executedDelayed", "lateCancel", "staleDone", "lost"}
    BY <1>1, LifeFields
  <2> QED BY <1>3, <1>7, <2>1, <2>2, <2>3 DEF Life!ExecuteState, Life!RestartGap
<1>9. PICK t : t = [state EXCEPT !.made = i, !.promise = q, !.executed = TRUE, !.refs = r]
  OBVIOUS
<1>10. t \in Lives
  BY <1>1, <1>3, <1>6, <1>8, <1>9, Zenon DEF Lives
<1>11. /\ t.made = i /\ t.current = state.current /\ t.delayed = state.delayed
       /\ t.pending = state.pending /\ t.promise = q /\ t.state = state.state
       /\ t.executed /\ t.isPeriodic = state.isPeriodic /\ t.limited = state.limited
       /\ t.clock = state.clock /\ t.timer = state.timer /\ t.message = state.message
       /\ t.result = state.result /\ t.done = state.done /\ t.refs = r
       /\ t.gaps = state.gaps /\ t.worker = state.worker /\ t.queued = state.queued
  BY <1>1, <1>9 DEF Lives
<1>12. Life!Typed(Life!NewPromise(state)) = t
  BY <1>1, <1>2, <1>5, <1>7, <1>9 DEF Life!Typed, Life!NewPromise, Life!NewExecution, Lives
<1>13. state' = [t EXCEPT !.delayed = D, !.gaps = g, !.state = st]
  <2>1. state' = [t EXCEPT !.delayed = @ \cup {i}, !.gaps = @ \cup Life!RestartGap,
                          !.state = IF ~state.executed \/ Life!IsRealyCanceled(state) \/ state.state = "finished"
                                    THEN "delayed" ELSE @]
    BY <1>2, <1>12 DEF Life!ExecuteDelayed
  <2> QED BY <1>7, <1>10, <1>11, <2>1
<1>14. state' \in Lives
  BY <1>8, <1>10, <1>13, Zenon DEF Lives
<1>15. /\ state'.made = i /\ state'.current = state.current /\ state'.delayed = D
       /\ state'.pending = state.pending /\ state'.promise = q /\ state'.state = st
       /\ state'.executed /\ state'.isPeriodic = state.isPeriodic /\ state'.limited = state.limited
       /\ state'.clock = state.clock /\ state'.timer = state.timer /\ state'.message = state.message
       /\ state'.result = state.result /\ state'.done = state.done /\ state'.refs = r
       /\ state'.gaps = g /\ state'.worker = state.worker /\ state'.queued = state.queued
  BY <1>10, <1>11, <1>13 DEF Lives
<1>16. /\ ~state.isPeriodic /\ ~state.limited /\ ~state.timer /\ ~state.clock
       /\ state.state # "timeout" /\ st # "timeout" /\ st # "notFound"
  BY <1>1, <1>7 DEF Life!ExecuteDelayed, Life!CanExecuteAgain, TaskModes
<1>17. Busy(state') = Busy(state) /\ Busy(state) \in Nat
  BY <1>1, <1>15, LifeFields DEF Busy
<1>18. TaskPlaces(state')
  <2>1. /\ \A j \in {state.current} \cup state.delayed \cup Elements(state.pending) : j <= state.made
        /\ \A j \in state.delayed \cup Elements(state.pending) : state.promise[j] # "settled" /\ j # state.current
        /\ state.delayed \cap Elements(state.pending) = {} /\ Injective(state.pending)
        /\ state.current # 0 => state.promise[state.current] # "settled"
        /\ \A j \in Life!Executions :
             state.promise[j] = "open" => j \in {state.current} \cup state.delayed \cup Elements(state.pending)
    BY <1>1, <1>16 DEF TaskPlaces
  <2>2. state.delayed \subseteq Life!Executions /\ Elements(state.pending) \subseteq Life!Executions
    BY <1>1, LifeFields, ElementsAre
  <2>3. state.current # 0 => state.current \in Life!Executions
    BY <1>3 DEF Life!Executions
  <2>4. \A j \in {state.current} \cup D \cup Elements(state.pending) : j <= i
    <3>1. \A j \in Life!Executions \cup {0} : j <= state.made => j <= i
      BY <1>3 DEF Life!Executions
    <3>2. i <= i
      BY <1>3 DEF Life!Executions
    <3> QED BY <1>7, <2>1, <2>2, <2>3, <3>1, <3>2
  <2>5. \A j \in D \cup Elements(state.pending) : q[j] # "settled" /\ j # state.current
    BY <1>4, <1>6, <1>7, <2>1, <2>2
  <2>6. D \cap Elements(state.pending) = {}
    BY <1>4, <1>7, <2>1
  <2>7. state.current # 0 => q[state.current] # "settled"
    BY <1>4, <1>6, <2>1, <2>3
  <2>8. \A j \in Life!Executions : q[j] = "open" => j \in {state.current} \cup D \cup Elements(state.pending)
    BY <1>6, <1>7, <2>1
  <2>9. \A j \in Life!Executions : q[j] = "settled" => j <= i
    <3>1. \A j \in Life!Executions : j <= state.made => j <= i
      BY <1>3 DEF Life!Executions
    <3>2. \A j \in Life!Executions : q[j] = "settled" => j # i
      BY <1>6
    <3> QED BY <1>1, <1>6, <3>1, <3>2 DEF TaskPlaces
  <2> QED BY <1>15, <1>16, <2>1, <2>4, <2>5, <2>6, <2>7, <2>8, <2>9 DEF TaskPlaces
<1>19. TaskModes(state')
  BY <1>15, <1>16 DEF TaskModes
<1>20. ASSUME state'.gaps = {}
       PROVE  Follows(state') /\ Referenced(state')
  <2>1. state.gaps = {} /\ Life!RestartGap = {}
    BY <1>7, <1>15, <1>20
  <2>2. Follows(state) /\ state.refs >= Needed(state)
    BY <1>1, <1>16, <2>1 DEF Referenced
  <2>3. st # state.state => st = "delayed" /\ state.current = 0
    <3> HAVE st # state.state
    <3>1. st = "delayed" /\ (~state.executed \/ Life!IsRealyCanceled(state) \/ state.state = "finished")
      BY <1>7
    <3>2. ~state.executed => state.current = 0
      BY <1>1, NewTaskIsBlank DEF TaskModes
    <3>3. Life!IsRealyCanceled(state) => state.current = 0
      BY <2>1 DEF Life!RestartGap
    <3> QED BY <2>2, <3>1, <3>2, <3>3 DEF Follows, Tracks
  <2>4. Follows(state')
    <3>1. CASE st = state.state
      BY <1>15, <1>17, <2>2, <3>1 DEF Follows, Tracks
    <3>2. CASE st # state.state
      <4>1. Busy(state) = 0
        BY <2>2, <2>3, <3>2 DEF Follows, Tracks
      <4>2. state.worker = "none" /\ ~state.result
        BY <1>1, <4>1, LifeFields DEF Busy
      <4>3. /\ state'.current = 0 /\ state'.state = "delayed" /\ Busy(state') = 0 /\ state'.worker = "none"
            /\ ~state'.result
        BY <1>15, <1>17, <2>3, <3>2, <4>1, <4>2
      <4>4. state'.pending = <<>>
        BY <1>15, <1>16, <2>2, <2>3, <3>2 DEF Follows, Tracks
      <4> QED BY <4>3, <4>4 DEF Follows, Tracks
    <3> QED BY <3>1, <3>2
  <2>5. state'.refs >= Needed(state')
    <3>1. PICK a, d, e : a = Len(state.pending) /\ d = Cardinality(state.delayed) /\ e = Cardinality(D)
      OBVIOUS
    <3>2. a \in Nat
      BY <1>1, <3>1, LifeFields, ElementsAre
    <3>3. e = d + 1 /\ d \in Nat
      <4>1. IsFiniteSet(state.delayed) /\ Cardinality(state.delayed) \in Nat
        BY <1>1, LifeFields, DelayedIsFinite
      <4>2. Cardinality(state.delayed \cup {i}) = Cardinality(state.delayed) + 1
        BY <1>4, <4>1, FS_AddElement
      <4> QED BY <1>7, <3>1, <4>1, <4>2
    <3>4. Needed(state) = d + a + (IF state.current = 0 THEN 0 ELSE 1)
      BY <3>1 DEF Needed
    <3>5. Needed(state') = e + a + (IF state.current = 0 THEN 0 ELSE 1)
      BY <1>15, <3>1 DEF Needed
    <3>6. Needed(state') = Needed(state) + 1 /\ Needed(state) \in Nat
      BY <3>2, <3>3, <3>4, <3>5
    <3>7. state.refs \in Nat /\ state'.refs = state.refs + 1
      BY <1>1, <1>7, <1>15, LifeFields
    <3> QED BY <2>2, <3>6, <3>7
  <2> QED BY <2>4, <2>5 DEF Referenced
<1> QED BY <1>14, <1>18, <1>19, <1>20 DEF LifeInv, LifeSound

----------------------------------------------------------------------------
(* cancel, and the clock of a periodic task. *)

(* What is settled in q of the promises of l are those of S.               *)
TaskSettles(l, q, S) ==
  /\ q \in [Life!Executions -> {"none", "open", "settled"}]
  /\ \A i \in Life!Executions : i \notin S => q[i] = l.promise[i]
  /\ \A i \in Life!Executions : i \in S => q[i] # "open"
  /\ \A i \in Life!Executions : q[i] = "settled" => i \in S \/ l.promise[i] = "settled"

(* r is what is left of the references of l without n of them.             *)
Leaves(l, r, n) == r \in Nat /\ \A k \in Nat : l.refs >= k + n => r >= k

(* Settled, in these terms. *)
LEMMA SettledSettles ==
  ASSUME NEW l \in Lives, NEW S, \A i \in Life!Executions : i \in S => l.promise[i] # "settled"
  PROVE  \E q : TaskSettles(l, q, S) /\ Life!Settled(l, S) = [l EXCEPT !.promise = q]
<1>1. PICK q \in [Life!Executions -> {"none", "open", "settled"}] :
           /\ Life!Settled(l, S) = [l EXCEPT !.promise = q]
           /\ \A i \in Life!Executions : i \notin S => q[i] = l.promise[i]
           /\ \A i \in Life!Executions : i \in S => q[i] # "open"
           /\ \A i \in Life!Executions : q[i] = "settled" => i \in S \/ l.promise[i] = "settled"
           /\ \A i \in Life!Executions : q[i] = "open" => l.promise[i] = "open"
           /\ \A i \in Life!Executions : i \in S /\ l.promise[i] = "open" => q[i] = "settled"
  BY TaskSettledIs
<1> QED BY <1>1 DEF TaskSettles

(* CancelPendingTask rejects what waits, and gives up its references. *)
LEMMA PendingCanceledIs ==
  ASSUME NEW l \in Lives, \A i \in Life!Executions : i \in Elements(l.pending) => l.promise[i] # "settled"
  PROVE  \E q, r : /\ TaskSettles(l, q, Elements(l.pending)) /\ Leaves(l, r, Len(l.pending))
                  /\ Life!PendingCanceled(l) = [l EXCEPT !.pending = <<>>, !.promise = q, !.refs = r]
<1>1. Len(l.pending) \in Nat
  BY LifeFields, ElementsAre
<1>2. PICK m : m = [l EXCEPT !.pending = <<>>]
  OBVIOUS
<1>3. <<>> \in Seq(Life!Executions)
  BY EmptyIs
<1>4. m \in Lives
  BY <1>2, <1>3, Zenon DEF Lives
<1>5. m.promise = l.promise /\ m.refs = l.refs
  BY <1>2 DEF Lives
<1>6. PICK q : TaskSettles(m, q, Elements(l.pending)) /\ Life!Settled(m, Elements(l.pending)) = [m EXCEPT !.promise = q]
  <2>1. \A i \in Life!Executions : i \in Elements(l.pending) => m.promise[i] # "settled"
    BY <1>5
  <2> QED BY <1>4, <2>1, SettledSettles
<1>7. PICK n : n = [m EXCEPT !.promise = q]
  OBVIOUS
<1>8. n \in Lives
  <2>1. q \in [Life!Executions -> {"none", "open", "settled"}]
    BY <1>6 DEF TaskSettles
  <2> QED BY <1>4, <1>7, <2>1, Zenon DEF Lives
<1>9. n.refs = l.refs
  BY <1>4, <1>5, <1>7 DEF Lives
<1>10. PICK r \in Nat : /\ Life!Unref(n, Len(l.pending)) = [n EXCEPT !.refs = r]
                       /\ \A k \in Nat : n.refs >= k + Len(l.pending) => r >= k
  BY <1>1, <1>8, UnrefIs
<1>11. Life!PendingCanceled(l) = Life!Unref(n, Len(l.pending))
  BY <1>2, <1>6, <1>7 DEF Life!PendingCanceled, Elements
<1>12. Life!PendingCanceled(l) = [l EXCEPT !.pending = <<>>, !.promise = q, !.refs = r]
  BY <1>2, <1>7, <1>10, <1>11
<1>13. TaskSettles(l, q, Elements(l.pending))
  BY <1>5, <1>6 DEF TaskSettles
<1>14. Leaves(l, r, Len(l.pending))
  BY <1>9, <1>10 DEF Leaves
<1> QED BY <1>12, <1>13, <1>14

(* ClearDelayedTimers does the same to the executions that have a timer. *)
LEMMA DelayedClearedIs ==
  ASSUME LifeAssumption, NEW l \in Lives,
         \A i \in Life!Executions : i \in l.delayed => l.promise[i] # "settled"
  PROVE  \E q, r : /\ TaskSettles(l, q, l.delayed) /\ Leaves(l, r, Cardinality(l.delayed))
                  /\ Life!DelayedCleared(l) = [l EXCEPT !.delayed = {}, !.promise = q, !.refs = r]
<1>1. Cardinality(l.delayed) \in Nat
  BY LifeFields, DelayedIsFinite
<1>2. PICK m : m = [l EXCEPT !.delayed = {}]
  OBVIOUS
<1>3. {} \in SUBSET Life!Executions
  OBVIOUS
<1>4. m \in Lives
  BY <1>2, <1>3, Zenon DEF Lives
<1>5. m.promise = l.promise /\ m.refs = l.refs
  BY <1>2 DEF Lives
<1>6. PICK q : TaskSettles(m, q, l.delayed) /\ Life!Settled(m, l.delayed) = [m EXCEPT !.promise = q]
  <2>1. \A i \in Life!Executions : i \in l.delayed => m.promise[i] # "settled"
    BY <1>5
  <2> QED BY <1>4, <2>1, SettledSettles
<1>7. PICK n : n = [m EXCEPT !.promise = q]
  OBVIOUS
<1>8. n \in Lives
  <2>1. q \in [Life!Executions -> {"none", "open", "settled"}]
    BY <1>6 DEF TaskSettles
  <2> QED BY <1>4, <1>7, <2>1, Zenon DEF Lives
<1>9. n.refs = l.refs
  BY <1>4, <1>5, <1>7 DEF Lives
<1>10. PICK r \in Nat : /\ Life!Unref(n, Cardinality(l.delayed)) = [n EXCEPT !.refs = r]
                       /\ \A k \in Nat : n.refs >= k + Cardinality(l.delayed) => r >= k
  BY <1>1, <1>8, UnrefIs
<1>11. Life!DelayedCleared(l) = Life!Unref(n, Cardinality(l.delayed))
  BY <1>2, <1>6, <1>7, SameCardinality DEF Life!DelayedCleared
<1>12. Life!DelayedCleared(l) = [l EXCEPT !.delayed = {}, !.promise = q, !.refs = r]
  BY <1>2, <1>7, <1>10, <1>11
<1>13. TaskSettles(l, q, l.delayed)
  BY <1>5, <1>6 DEF TaskSettles
<1>14. Leaves(l, r, Cardinality(l.delayed))
  BY <1>9, <1>10 DEF Leaves
<1> QED BY <1>12, <1>13, <1>14

(* All that waits, for its turn or for its time, is rejected. *)
LEMMA AllCanceledIs ==
  ASSUME LifeAssumption, NEW l \in Lives, TaskPlaces(l)
  PROVE  \E q, r : /\ TaskSettles(l, q, l.delayed \cup Elements(l.pending))
                  /\ Leaves(l, r, Cardinality(l.delayed) + Len(l.pending))
                  /\ Life!PendingCanceled(Life!DelayedCleared(l)) =
                       [l EXCEPT !.delayed = {}, !.pending = <<>>, !.promise = q, !.refs = r]
<1>1. /\ \A i \in Life!Executions : i \in l.delayed => l.promise[i] # "settled"
      /\ \A i \in Life!Executions : i \in Elements(l.pending) => l.promise[i] # "settled" /\ i \notin l.delayed
  BY DEF TaskPlaces
<1>2. PICK p, s : /\ TaskSettles(l, p, l.delayed) /\ Leaves(l, s, Cardinality(l.delayed))
                  /\ Life!DelayedCleared(l) = [l EXCEPT !.delayed = {}, !.promise = p, !.refs = s]
  BY <1>1, DelayedClearedIs
<1>3. PICK m : m = Life!DelayedCleared(l)
  OBVIOUS
<1>4. m = [l EXCEPT !.delayed = {}, !.promise = p, !.refs = s]
  BY <1>2, <1>3
<1>5. m \in Lives
  <2>1. {} \in SUBSET Life!Executions /\ p \in [Life!Executions -> {"none", "open", "settled"}] /\ s \in Nat
    BY <1>2 DEF TaskSettles, Leaves
  <2> QED BY <1>4, <2>1, Zenon DEF Lives
<1>6. m.promise = p /\ m.refs = s /\ m.pending = l.pending
  BY <1>4 DEF Lives
<1>7. PICK q, r : /\ TaskSettles(m, q, Elements(l.pending)) /\ Leaves(m, r, Len(l.pending))
                  /\ Life!PendingCanceled(m) = [m EXCEPT !.pending = <<>>, !.promise = q, !.refs = r]
  <2>1. \A i \in Life!Executions : i \in Elements(m.pending) => m.promise[i] # "settled"
    BY <1>1, <1>2, <1>6 DEF TaskSettles
  <2> QED BY <1>5, <1>6, <2>1, PendingCanceledIs
<1>8. TaskSettles(l, q, l.delayed \cup Elements(l.pending))
  BY <1>1, <1>2, <1>6, <1>7 DEF TaskSettles
<1>9. Leaves(l, r, Cardinality(l.delayed) + Len(l.pending))
  <2>1. PICK d, a : d = Cardinality(l.delayed) /\ a = Len(l.pending)
    OBVIOUS
  <2>2. d \in Nat /\ a \in Nat /\ l.refs \in Nat
    BY <2>1, LifeFields, ElementsAre, DelayedIsFinite
  <2>3. /\ \A k \in Nat : l.refs >= k + d => s >= k
        /\ r \in Nat /\ \A k \in Nat : s >= k + a => r >= k
    BY <1>2, <1>6, <1>7, <2>1 DEF Leaves
  <2>4. \A k \in Nat : l.refs >= k + (d + a) => r >= k
    <3> SUFFICES ASSUME NEW k \in Nat, l.refs >= k + (d + a)
                 PROVE  r >= k
      OBVIOUS
    <3>1. k + a \in Nat /\ l.refs >= (k + a) + d
      BY <2>2
    <3> QED BY <2>3, <3>1
  <2> QED BY <2>1, <2>3, <2>4 DEF Leaves
<1>10. Life!PendingCanceled(Life!DelayedCleared(l)) =
         [l EXCEPT !.delayed = {}, !.pending = <<>>, !.promise = q, !.refs = r]
  BY <1>3, <1>4, <1>7
<1> QED BY <1>8, <1>9, <1>10

(* What a cancel on this task may still owe to its flag isCancelToFinish_. *)
Owes(l, b) == l.current = 0 /\ l.state = "canceled" => l.isPeriodic \/ l.done \/ b

(* CancelInner: with the state that was read first. *)
LEMMA CancelInnerIsSound ==
  ASSUME LifeAssumption, NEW l \in Lives, NEW st,
         TaskPlaces(l), TaskModes(l), l.state # "timeout", ~l.isPeriodic,
         l.gaps = {} => Tracks(l) /\ Referenced(l) /\ Owes(l, st = "delayed"),
         NEW m, m = Life!CancelInner(l, st)
  PROVE  /\ m \in Lives /\ TaskPlaces(m) /\ TaskModes(m) /\ m.message = l.message /\ m.state = l.state
         /\ m.gaps = {} => Tracks(m) /\ Referenced(m) /\ Owes(m, FALSE)
<1>1. PICK q, r : /\ TaskSettles(l, q, l.delayed \cup Elements(l.pending))
                  /\ Leaves(l, r, Cardinality(l.delayed) + Len(l.pending))
                  /\ Life!PendingCanceled(Life!DelayedCleared(l)) =
                       [l EXCEPT !.delayed = {}, !.pending = <<>>, !.promise = q, !.refs = r]
  BY AllCanceledIs
<1>2. PICK c : c = [Life!PendingCanceled(Life!DelayedCleared(l)) EXCEPT !.timer = @ /\ l.state = "timeout"]
  OBVIOUS
<1>3. c = [l EXCEPT !.delayed = {}, !.pending = <<>>, !.promise = q, !.refs = r, !.timer = FALSE]
  BY <1>1, <1>2
<1>4. {} \in SUBSET Life!Executions /\ q \in [Life!Executions -> {"none", "open", "settled"}] /\ r \in Nat
      /\ <<>> \in Seq(Life!Executions) /\ FALSE \in BOOLEAN /\ TRUE \in BOOLEAN
  BY <1>1, EmptyIs DEF TaskSettles, Leaves
<1>5. c \in Lives
  BY <1>3, <1>4, Zenon DEF Lives
<1>6. /\ c.made = l.made /\ c.current = l.current /\ c.delayed = {}
      /\ c.pending = <<>> /\ c.promise = q /\ c.state = l.state
      /\ c.executed = l.executed /\ c.isPeriodic = l.isPeriodic /\ c.limited = l.limited
      /\ c.clock = l.clock /\ ~c.timer /\ c.message = l.message
      /\ c.result = l.result /\ c.done = l.done /\ c.refs = r
      /\ c.gaps = l.gaps /\ c.worker = l.worker /\ c.queued = l.queued
  BY <1>3 DEF Lives
<1>7. /\ \A i \in Life!Executions : q[i] = "open" => i = l.current
      /\ l.current # 0 => l.current \in Life!Executions /\ q[l.current] # "settled"
      /\ l.current <= l.made /\ l.current \in 0..MaxExecutions
      /\ \A i \in Life!Executions : q[i] = "settled" => i <= l.made
  <2>1. l.current \in 0..MaxExecutions
    BY LifeFields
  <2>2. l.current # 0 => l.current \in Life!Executions
    BY <2>1 DEF Life!Executions, LifeAssumption
  <2>3. l.current <= l.made
    BY DEF TaskPlaces
  <2>4. \A i \in Life!Executions : q[i] = "open" => i = l.current
    BY <1>1 DEF TaskSettles, TaskPlaces
  <2>5. l.current # 0 => q[l.current] # "settled"
    BY <1>1, <2>2 DEF TaskSettles, TaskPlaces
  <2>6. \A i \in Life!Executions : q[i] = "settled" => i <= l.made
    BY <1>1 DEF TaskSettles, TaskPlaces
  <2> QED BY <2>1, <2>2, <2>3, <2>4, <2>5, <2>6
<1>8. CASE st = "waiting" /\ l.current # 0 /\ l.queued > 0
  <2>1. PICK n, g : n = l.queued - 1 /\ g = (IF l.state = "canceled" THEN l.gaps ELSE l.gaps \cup {"lateCancel"})
    OBVIOUS
  <2>2. n \in Nat /\ l.queued = n + 1
    BY <1>8, <2>1, LifeFields
  <2>3. /\ g \in SUBSET {"executedDelayed", "lateCancel", "staleDone", "lost"}
        /\ g = {} => l.gaps = {} /\ l.state = "canceled"
    <3>1. l.gaps \in SUBSET {"executedDelayed", "lateCancel", "staleDone", "lost"}
      BY LifeFields
    <3> QED BY <2>1, <3>1
  <2>4. PICK e : e = [c EXCEPT !.queued = n, !.current = 0, !.done = TRUE, !.gaps = g]
    OBVIOUS
  <2>5. 0 \in 0..MaxExecutions
    BY DEF LifeAssumption
  <2>6. e \in Lives
    BY <1>4, <1>5, <2>2, <2>3, <2>4, <2>5, Zenon DEF Lives
  <2>7. /\ e.made = l.made /\ e.current = 0 /\ e.delayed = {}
        /\ e.pending = <<>> /\ e.promise = q /\ e.state = l.state
        /\ e.executed = l.executed /\ e.isPeriodic = l.isPeriodic /\ e.limited = l.limited
        /\ e.clock = l.clock /\ ~e.timer /\ e.message = l.message
        /\ e.result = l.result /\ e.done /\ e.refs = r
        /\ e.gaps = g /\ e.worker = l.worker /\ e.queued = n
    BY <1>5, <1>6, <2>4 DEF Lives
  <2>8. PICK p : TaskSettles(e, p, {l.current}) /\ Life!Settled(e, {l.current}) = [e EXCEPT !.promise = p]
    <3>1. \A i \in Life!Executions : i \in {l.current} => e.promise[i] # "settled"
      BY <1>7, <1>8, <2>7
    <3> QED BY <2>6, <3>1, SettledSettles
  <2>9. PICK f : f = [e EXCEPT !.promise = p]
    OBVIOUS
  <2>10. f \in Lives
    <3>1. p \in [Life!Executions -> {"none", "open", "settled"}]
      BY <2>8 DEF TaskSettles
    <3> QED BY <2>6, <2>9, <3>1, Zenon DEF Lives
  <2>11. PICK s \in Nat : Life!Unref(f, 1) = [f EXCEPT !.refs = s]
    BY <2>10, UnrefIs
  <2>12. m = [f EXCEPT !.refs = s]
    <3>1. c.queued = l.queued /\ c.gaps = l.gaps
      BY <1>6
    <3>2. [c EXCEPT !.queued = @ - 1, !.current = 0, !.done = TRUE,
                    !.gaps = IF l.state = "canceled" THEN @ ELSE @ \cup {"lateCancel"}] = e
      BY <1>5, <2>1, <2>4, <3>1 DEF Lives
    <3>3. m = Life!Unref(Life!Settled(e, {l.current}), 1)
      BY <1>2, <1>8, <3>2 DEF Life!CancelInner
    <3> QED BY <2>8, <2>9, <2>11, <3>3
  <2>13. m \in Lives
    <3>1. [f EXCEPT !.refs = s] \in Lives
      BY <2>10, <2>11, Zenon DEF Lives
    <3> QED BY <2>12, <3>1
  <2>14. /\ m.made = l.made /\ m.current = 0 /\ m.delayed = {}
         /\ m.pending = <<>> /\ m.promise = p /\ m.state = l.state
         /\ m.executed = l.executed /\ m.isPeriodic = l.isPeriodic /\ m.limited = l.limited
         /\ m.clock = l.clock /\ ~m.timer /\ m.message = l.message
         /\ m.result = l.result /\ m.done /\ m.refs = s
         /\ m.gaps = g /\ m.worker = l.worker /\ m.queued = n
    BY <2>6, <2>7, <2>9, <2>12 DEF Lives
  <2>15. Busy(l) = Busy(m) + 1 /\ Busy(m) \in Nat
    BY <2>2, <2>14, LifeFields DEF Busy
  <2>16. TaskPlaces(m)
    <3>1. \A i \in Life!Executions : p[i] # "open"
      BY <1>7, <2>7, <2>8 DEF TaskSettles
    <3>2. Elements(<<>>) = {} /\ Injective(<<>>)
      BY EmptyIs
    <3>3. 0 <= l.made
      BY LifeFields DEF LifeAssumption
    <3>4. \A i \in Life!Executions : p[i] = "settled" => i <= l.made
      BY <1>7, <2>7, <2>8 DEF TaskSettles
    <3> QED BY <2>14, <3>1, <3>2, <3>3, <3>4 DEF TaskPlaces
  <2>17. TaskModes(m)
    <3>1. l.state # "notFound" /\ ~(l.limited /\ l.state = "finished")
      BY <2>15 DEF TaskModes
    <3>2. l.limited => Busy(m) <= 1
      BY <2>15 DEF TaskModes
    <3> QED BY <2>14, <3>1, <3>2 DEF TaskModes
  <2>18. ASSUME m.gaps = {}
         PROVE  Tracks(m) /\ Referenced(m) /\ Owes(m, FALSE)
    <3>1. l.gaps = {} /\ l.state = "canceled"
      BY <2>3, <2>14, <2>18
    <3>2. Busy(m) = 0
      BY <1>8, <2>15, <3>1 DEF Tracks
    <3>3. Tracks(m)
      BY <2>14, <3>1, <3>2 DEF Tracks
    <3>4. Needed(m) = 0
      BY <2>14, FS_EmptySet, EmptyIs DEF Needed
    <3>5. Referenced(m)
      BY <2>11, <2>14, <3>4 DEF Referenced
    <3> QED BY <2>14, <3>3, <3>5 DEF Owes
  <2> QED BY <2>13, <2>14, <2>16, <2>17, <2>18
<1>9. CASE ~(st = "waiting" /\ l.current # 0 /\ l.queued > 0)
  <2>1. PICK d, g : /\ d = (c.done \/ st = "delayed")
                    /\ g = IF st = "delayed" /\ l.state # "canceled" THEN l.gaps \cup {"lateCancel"} ELSE l.gaps
    OBVIOUS
  <2>2. /\ d \in BOOLEAN
        /\ g \in SUBSET {"executedDelayed", "lateCancel", "staleDone", "lost"}
        /\ g = {} => l.gaps = {}
    <3>1. l.gaps \in SUBSET {"executedDelayed", "lateCancel", "staleDone", "lost"}
      BY LifeFields
    <3> QED BY <2>1, <3>1
  <2>3. m = [c EXCEPT !.done = d, !.gaps = g]
    <3>1. m = [c EXCEPT !.done = @ \/ st = "delayed",
                        !.gaps = IF st = "delayed" /\ l.state # "canceled" THEN @ \cup {"lateCancel"} ELSE @]
      BY <1>2, <1>9 DEF Life!CancelInner
    <3> QED BY <1>6, <2>1, <3>1
  <2>4. m \in Lives
    <3>1. [c EXCEPT !.done = d, !.gaps = g] \in Lives
      BY <1>5, <2>2, Zenon DEF Lives
    <3> QED BY <2>3, <3>1
  <2>5. /\ m.made = l.made /\ m.current = l.current /\ m.delayed = {}
        /\ m.pending = <<>> /\ m.promise = q /\ m.state = l.state
        /\ m.executed = l.executed /\ m.isPeriodic = l.isPeriodic /\ m.limited = l.limited
        /\ m.clock = l.clock /\ ~m.timer /\ m.message = l.message
        /\ m.result = l.result /\ m.refs = r
        /\ m.gaps = g /\ m.worker = l.worker /\ m.queued = l.queued
    BY <1>5, <1>6, <2>3 DEF Lives
  <2>6. l.done \/ st = "delayed" => m.done
    BY <1>5, <1>6, <2>1, <2>3 DEF Lives
  <2>7. Busy(m) = Busy(l)
    BY <2>5 DEF Busy
  <2>8. TaskPlaces(m)
    <3>1. Elements(<<>>) = {} /\ Injective(<<>>)
      BY EmptyIs
    <3> QED BY <1>7, <2>5, <3>1 DEF TaskPlaces
  <2>9. TaskModes(m)
    BY <2>5, <2>7 DEF TaskModes
  <2>10. ASSUME m.gaps = {}
         PROVE  Tracks(m) /\ Referenced(m) /\ Owes(m, FALSE)
    <3>1. l.gaps = {} /\ Tracks(l) /\ Referenced(l) /\ Owes(l, st = "delayed")
      BY <2>2, <2>5, <2>10
    <3>2. Tracks(m)
      BY <2>5, <2>7, <3>1 DEF Tracks
    <3>3. Owes(m, FALSE)
      BY <2>5, <2>6, <3>1 DEF Owes
    <3>4. Needed(m) = IF l.current = 0 THEN 0 ELSE 1
      BY <2>5, FS_EmptySet, EmptyIs DEF Needed
    <3>5. r >= Needed(m)
      <4>1. PICK a, e, k : a = Len(l.pending) /\ e = Cardinality(l.delayed)
                           /\ k = IF l.current = 0 THEN 0 ELSE 1
        OBVIOUS
      <4>2. a \in Nat /\ e \in Nat /\ k \in Nat
        BY <4>1, LifeFields, ElementsAre, DelayedIsFinite
      <4>3. l.refs >= e + a + k
        BY <3>1, <4>1 DEF Referenced, Needed
      <4>4. l.refs >= k + (e + a)
        BY <4>2, <4>3
      <4>5. \A j \in Nat : l.refs >= j + (e + a) => r >= j
        BY <1>1, <4>1 DEF Leaves
      <4> QED BY <3>4, <4>1, <4>2, <4>4, <4>5
    <3> QED BY <2>5, <3>2, <3>3, <3>5 DEF Referenced
  <2> QED BY <2>4, <2>5, <2>8, <2>9, <2>10
<1> QED BY <1>8, <1>9

(* The task is marked as canceled. *)
LEMMA MarkedIs ==
  ASSUME LifeInv, Life!Cancellable, NEW l, l = [state EXCEPT !.state = "canceled"]
  PROVE  /\ l \in Lives /\ TaskPlaces(l) /\ TaskModes(l)
         /\ l.isPeriodic = state.isPeriodic /\ l.state = "canceled" /\ l.message = state.message
         /\ l.gaps = {} => /\ Tracks(l) /\ Referenced(l)
                           /\ ~l.isPeriodic => Owes(l, state.state = "delayed")
<1>1. /\ state \in Lives /\ TaskPlaces(state) /\ TaskModes(state)
      /\ state.gaps = {} => Follows(state) /\ Referenced(state)
  BY DEF LifeInv, LifeSound
<1>2. "canceled" \in Life!ExecuteState \ {"ending"}
  BY DEF Life!ExecuteState
<1>3. l \in Lives
  <2>1. [state EXCEPT !.state = "canceled"] \in Lives
    BY <1>1, <1>2, Zenon DEF Lives
  <2> QED BY <2>1
<1>4. /\ l.made = state.made /\ l.current = state.current /\ l.delayed = state.delayed
      /\ l.pending = state.pending /\ l.promise = state.promise /\ l.state = "canceled"
      /\ l.executed = state.executed /\ l.isPeriodic = state.isPeriodic /\ l.limited = state.limited
      /\ l.clock = state.clock /\ l.timer = state.timer /\ l.message = state.message
      /\ l.result = state.result /\ l.done = state.done /\ l.refs = state.refs
      /\ l.gaps = state.gaps /\ l.worker = state.worker /\ l.queued = state.queued
  BY <1>1 DEF Lives
<1>5. state.state # "timeout" /\ (state.isPeriodic \/ state.state \notin {"notFound", "finished"})
  BY DEF Life!Cancellable
<1>6. Busy(l) = Busy(state)
  BY <1>4 DEF Busy
<1>7. TaskPlaces(l)
  BY <1>1, <1>4, <1>5, TaskPlacesKept
<1>8. TaskModes(l)
  <2>1. state.executed
    BY <1>1, <1>5 DEF TaskModes
  <2> QED BY <1>1, <1>4, <1>5, <1>6, <2>1 DEF TaskModes
<1>9. l.gaps = {} => Referenced(l)
  BY <1>1, <1>4, ReferencedKept
<1>10. l.gaps = {} => Tracks(l)
  BY <1>1, <1>4, <1>5, <1>6 DEF Follows, Tracks
<1>11. ASSUME l.gaps = {}, ~l.isPeriodic
       PROVE  Owes(l, state.state = "delayed")
  <2>1. state.current = 0 => state.state = "delayed"
    BY <1>4, <1>5, <1>11 DEF Life!Cancellable
  <2> QED BY <1>4, <2>1 DEF Owes
<1> QED BY <1>3, <1>4, <1>7, <1>8, <1>9, <1>10, <1>11

(* Cancel on the host of the task. *)
LEMMA CancelKeepsInv ==
  ASSUME LifeAssumption, LifeInv, Life!Cancel
  PROVE  LifeInv'
<1>1. PICK l : l = [state EXCEPT !.state = "canceled"]
  OBVIOUS
<1>2. state' = IF state.isPeriodic THEN l ELSE Life!CancelInner(l, state.state)
  BY <1>1 DEF Life!Cancel
<1>3. /\ l \in Lives /\ TaskPlaces(l) /\ TaskModes(l)
      /\ l.isPeriodic = state.isPeriodic /\ l.state = "canceled"
      /\ l.gaps = {} => /\ Tracks(l) /\ Referenced(l)
                        /\ ~l.isPeriodic => Owes(l, state.state = "delayed")
  BY <1>1, MarkedIs DEF Life!Cancel
<1>4. CASE state.isPeriodic
  <2>1. state' = l
    BY <1>2, <1>4
  <2>2. l.gaps = {} => Follows(l)
    BY <1>3, <1>4 DEF Follows
  <2> QED BY <1>3, <2>1, <2>2 DEF LifeInv, LifeSound
<1>5. CASE ~state.isPeriodic
  <2>1. state' = Life!CancelInner(l, state.state)
    BY <1>2, <1>5
  <2>2. l.state # "timeout" /\ ~l.isPeriodic
        /\ (l.gaps = {} => Tracks(l) /\ Referenced(l) /\ Owes(l, state.state = "delayed"))
    BY <1>3, <1>5
  <2>3. /\ state' \in Lives /\ TaskPlaces(state') /\ TaskModes(state')
        /\ state'.gaps = {} => Tracks(state') /\ Referenced(state') /\ Owes(state', FALSE)
    BY <1>3, <2>1, <2>2, CancelInnerIsSound
  <2> QED BY <2>3 DEF LifeInv, LifeSound, Follows, Owes
<1> QED BY <1>4, <1>5

(* Cancel on another thread marks the task and sends an event. *)
LEMMA TriggerCancelKeepsInv ==
  ASSUME LifeInv, Life!TriggerCancel
  PROVE  LifeInv'
<1>1. PICK l : l = [state EXCEPT !.state = "canceled"]
  OBVIOUS
<1>2. ~state.isPeriodic /\ state' = [l EXCEPT !.message = state.state]
  BY <1>1 DEF Life!TriggerCancel
<1>3. /\ l \in Lives /\ TaskPlaces(l) /\ TaskModes(l)
      /\ l.isPeriodic = state.isPeriodic /\ l.state = "canceled"
      /\ l.gaps = {} => /\ Tracks(l) /\ Referenced(l)
                        /\ ~l.isPeriodic => Owes(l, state.state = "delayed")
  BY <1>1, MarkedIs DEF Life!TriggerCancel
<1>4. state.state \in Life!ExecuteState \cup {"none"}
  BY LifeFields DEF LifeInv, LifeSound
<1>5. state' \in Lives
  BY <1>2, <1>3, <1>4, Zenon DEF Lives
<1>6. /\ state'.made = l.made /\ state'.current = l.current /\ state'.delayed = l.delayed
      /\ state'.pending = l.pending /\ state'.promise = l.promise /\ state'.state = l.state
      /\ state'.executed = l.executed /\ state'.isPeriodic = l.isPeriodic /\ state'.limited = l.limited
      /\ state'.clock = l.clock /\ state'.timer = l.timer /\ state'.message = state.state
      /\ state'.result = l.result /\ state'.done = l.done /\ state'.refs = l.refs
      /\ state'.gaps = l.gaps /\ state'.worker = l.worker /\ state'.queued = l.queued
  BY <1>2, <1>3 DEF Lives
<1>7. Busy(state') = Busy(l)
  BY <1>6 DEF Busy
<1>8. TaskPlaces(state')
  BY <1>3, <1>6, TaskPlacesKept
<1>9. TaskModes(state')
  BY <1>2, <1>3, <1>6, <1>7 DEF TaskModes
<1>10. ASSUME state'.gaps = {}
       PROVE  Follows(state') /\ Referenced(state')
  <2>1. Tracks(l) /\ Referenced(l) /\ Owes(l, state.state = "delayed")
    BY <1>2, <1>3, <1>6, <1>10
  <2>2. Tracks(state')
    BY <1>6, <1>7, <2>1 DEF Tracks
  <2>3. Referenced(state')
    BY <1>6, <2>1, ReferencedKept
  <2>4. state'.current = 0 /\ state'.state = "canceled" => state'.isPeriodic \/ state'.done \/ state'.message = "delayed"
    BY <1>6, <2>1 DEF Owes
  <2> QED BY <2>2, <2>3, <2>4 DEF Follows
<1> QED BY <1>5, <1>8, <1>9, <1>10 DEF LifeInv, LifeSound

(* The event of such a cancel. *)
LEMMA CancelOnHostKeepsInv ==
  ASSUME LifeAssumption, LifeInv, Life!CancelOnHost
  PROVE  LifeInv'
<1>1. /\ state \in Lives /\ TaskPlaces(state) /\ TaskModes(state)
      /\ state.gaps = {} => Follows(state) /\ Referenced(state)
  BY DEF LifeInv, LifeSound
<1>2. PICK m : m = Life!CancelInner(state, state.message)
  OBVIOUS
<1>3. state.message # "none" /\ state' = [m EXCEPT !.message = "none"]
  BY <1>2 DEF Life!CancelOnHost
<1>4. ~state.isPeriodic /\ state.state # "timeout"
  BY <1>1, <1>3 DEF TaskModes
<1>5. state.gaps = {} => Tracks(state) /\ Referenced(state) /\ Owes(state, state.message = "delayed")
  BY <1>1 DEF Follows, Owes
<1>6. /\ m \in Lives /\ TaskPlaces(m) /\ TaskModes(m)
      /\ m.gaps = {} => Tracks(m) /\ Referenced(m) /\ Owes(m, FALSE)
  BY <1>1, <1>2, <1>4, <1>5, CancelInnerIsSound
<1>7. state' \in Lives
  <2>1. "none" \in Life!ExecuteState \cup {"none"}
    OBVIOUS
  <2> QED BY <1>3, <1>6, <2>1, Zenon DEF Lives
<1>8. /\ state'.made = m.made /\ state'.current = m.current /\ state'.delayed = m.delayed
      /\ state'.pending = m.pending /\ state'.promise = m.promise /\ state'.state = m.state
      /\ state'.executed = m.executed /\ state'.isPeriodic = m.isPeriodic /\ state'.limited = m.limited
      /\ state'.clock = m.clock /\ state'.timer = m.timer /\ state'.message = "none"
      /\ state'.result = m.result /\ state'.done = m.done /\ state'.refs = m.refs
      /\ state'.gaps = m.gaps /\ state'.worker = m.worker /\ state'.queued = m.queued
  BY <1>3, <1>6 DEF Lives
<1>9. Busy(state') = Busy(m)
  BY <1>8 DEF Busy
<1>10. TaskPlaces(state')
  BY <1>6, <1>8, TaskPlacesKept
<1>11. TaskModes(state')
  BY <1>6, <1>8, <1>9 DEF TaskModes
<1>12. ASSUME state'.gaps = {}
       PROVE  Follows(state') /\ Referenced(state')
  <2>1. Tracks(m) /\ Referenced(m) /\ Owes(m, FALSE)
    BY <1>6, <1>8, <1>12
  <2>2. Tracks(state')
    BY <1>8, <1>9, <2>1 DEF Tracks
  <2>3. Referenced(state')
    BY <1>8, <2>1, ReferencedKept
  <2>4. state'.current = 0 /\ state'.state = "canceled" => state'.isPeriodic \/ state'.done
    BY <1>8, <2>1 DEF Owes
  <2> QED BY <2>2, <2>3, <2>4 DEF Follows
<1> QED BY <1>7, <1>10, <1>11, <1>12 DEF LifeInv, LifeSound

(* The clock of a periodic task, which makes an execution or stops. *)
LEMMA PeriodicTaskCallbackKeepsInv ==
  ASSUME LifeAssumption, LifeInv, Life!PeriodicTaskCallback
  PROVE  LifeInv'
<1>1. /\ state \in Lives /\ TaskPlaces(state) /\ TaskModes(state)
      /\ state.gaps = {} => Follows(state) /\ Referenced(state)
  BY DEF LifeInv, LifeSound
<1>2. /\ state.isPeriodic /\ state.executed /\ ~state.limited /\ ~state.timer /\ state.delayed = {}
      /\ state.message = "none" /\ state.state \notin {"timeout", "delayed"}
  BY <1>1 DEF Life!PeriodicTaskCallback, TaskModes
<1>3. CASE state.state = "canceled"
  <2>1. PICK l : l = Life!Unref(state, 1)
    OBVIOUS
  <2>2. PICK s \in Nat : l = [state EXCEPT !.refs = s]
    BY <1>1, <2>1, UnrefIs
  <2>3. l \in Lives
    BY <1>1, <2>2, Zenon DEF Lives
  <2>4. /\ l.made = state.made /\ l.current = state.current /\ l.delayed = state.delayed
        /\ l.pending = state.pending /\ l.promise = state.promise /\ l.state = state.state
        /\ l.executed = state.executed /\ l.isPeriodic = state.isPeriodic /\ l.limited = state.limited
        /\ l.timer = state.timer /\ l.message = state.message /\ l.result = state.result
        /\ l.gaps = state.gaps /\ l.worker = state.worker /\ l.queued = state.queued
    BY <1>1, <2>2 DEF Lives
  <2>5. PICK q, r : /\ TaskSettles(l, q, Elements(l.pending)) /\ Leaves(l, r, Len(l.pending))
                    /\ Life!PendingCanceled(l) = [l EXCEPT !.pending = <<>>, !.promise = q, !.refs = r]
    <3>1. \A i \in Life!Executions : i \in Elements(l.pending) => l.promise[i] # "settled"
      BY <1>1, <2>4 DEF TaskPlaces
    <3> QED BY <2>3, <3>1, PendingCanceledIs
  <2>6. state.current = 0 /\ state' = [Life!PendingCanceled(l) EXCEPT !.clock = FALSE]
    BY <1>3, <2>1 DEF Life!PeriodicTaskCallback
  <2>7. state' = [l EXCEPT !.pending = <<>>, !.promise = q, !.refs = r, !.clock = FALSE]
    BY <2>5, <2>6
  <2>8. state' \in Lives
    <3>1. q \in [Life!Executions -> {"none", "open", "settled"}] /\ r \in Nat /\ <<>> \in Seq(Life!Executions)
      BY <2>5, EmptyIs DEF TaskSettles, Leaves
    <3> QED BY <2>3, <2>7, <3>1, Zenon DEF Lives
  <2>9. /\ state'.made = state.made /\ state'.current = state.current /\ state'.delayed = state.delayed
        /\ state'.pending = <<>> /\ state'.promise = q /\ state'.state = state.state
        /\ state'.executed = state.executed /\ state'.isPeriodic = state.isPeriodic /\ state'.limited = state.limited
        /\ state'.timer = state.timer /\ state'.message = state.message /\ state'.result = state.result
        /\ state'.gaps = state.gaps /\ state'.worker = state.worker /\ state'.queued = state.queued
    BY <2>3, <2>4, <2>7 DEF Lives
  <2>10. Busy(state') = Busy(state)
    BY <2>9 DEF Busy
  <2>11. TaskPlaces(state')
    <3>1. Elements(<<>>) = {} /\ Injective(<<>>)
      BY EmptyIs
    <3>2. \A i \in Life!Executions : q[i] # "open"
      <4>1. 0 \notin Life!Executions
        BY DEF Life!Executions
      <4>2. \A i \in Life!Executions : state.promise[i] = "open" => i \in Elements(state.pending)
        BY <1>1, <1>2, <2>6, <4>1 DEF TaskPlaces
      <4> QED BY <2>4, <2>5, <4>2 DEF TaskSettles
    <3>3. state.current <= state.made
      BY <1>1 DEF TaskPlaces
    <3>4. \A i \in Life!Executions : q[i] = "settled" => i <= state.made
      BY <1>1, <2>4, <2>5 DEF TaskPlaces, TaskSettles
    <3> QED BY <1>2, <2>6, <2>9, <3>1, <3>2, <3>3, <3>4 DEF TaskPlaces
  <2>12. TaskModes(state')
    BY <1>2, <1>3, <2>9 DEF TaskModes
  <2>13. state'.gaps = {} => Follows(state') /\ Referenced(state')
    BY <1>1, <1>2, <2>9, <2>10 DEF Follows, Tracks, Referenced
  <2> QED BY <2>8, <2>11, <2>12, <2>13 DEF LifeInv, LifeSound
<1>4. CASE state.state # "canceled"
  <2>1. PICK i : i = state.made + 1
    OBVIOUS
  <2>2. /\ i \in Life!Executions /\ i > state.made /\ state.made \in Nat /\ i # 0
        /\ i \in 0..MaxExecutions /\ state.current \in 0..MaxExecutions
    BY <1>1, <1>4, <2>1 DEF Lives, Life!PeriodicTaskCallback, Life!Executions, LifeAssumption
  <2>3. state.current # i /\ i \notin state.delayed /\ i \notin Elements(state.pending)
    BY <1>1, <2>2 DEF TaskPlaces
  <2>4. PICK f : f = [state EXCEPT !.made = i]
    OBVIOUS
  <2>5. f \in Lives
    BY <1>1, <2>2, <2>4, Zenon DEF Lives
  <2>6. Life!NewExecution(state) = f
    BY <1>1, <2>1, <2>4 DEF Life!NewExecution, Lives
  <2>7. f.pending = state.pending /\ f.current = state.current
    BY <1>1, <2>4 DEF Lives
  <2>8. PICK c \in 1..MaxExecutions, s \in Seq(Life!Executions) :
           /\ Life!GetTaskInfo(f, i) = [f EXCEPT !.current = c, !.pending = s]
           /\ Injective(s)
           /\ f.current = 0 => c = i /\ s = f.pending
           /\ f.current # 0 => c = f.current /\ Elements(s) = Elements(f.pending) \cup {i}
           /\ Len(f.pending) \in Nat /\ Len(s) \in Nat
           /\ Len(s) + 1 = Len(f.pending) + 1 + (IF f.current = 0 THEN 0 ELSE 1)
    <3>1. i \notin Elements(f.pending) /\ Injective(f.pending)
      BY <1>1, <2>3, <2>7 DEF TaskPlaces
    <3> QED BY <2>2, <2>5, <3>1, GetTaskInfoIs
  <2>9. /\ state.current = 0 => c = i /\ s = state.pending
        /\ state.current # 0 => c = state.current /\ Elements(s) = Elements(state.pending) \cup {i}
        /\ c \in 0..MaxExecutions /\ c # 0 /\ c \in Life!Executions
    BY <2>7, <2>8 DEF Life!Executions, LifeAssumption
  <2>10. PICK g : g = [f EXCEPT !.current = c, !.pending = s]
    OBVIOUS
  <2>11. g \in Lives
    BY <2>5, <2>9, <2>10, Zenon DEF Lives
  <2>12. /\ g.made = i /\ g.current = c /\ g.delayed = state.delayed
         /\ g.pending = s /\ g.promise = state.promise /\ g.state = state.state
         /\ g.executed = state.executed /\ g.isPeriodic = state.isPeriodic /\ g.limited = state.limited
         /\ g.timer = state.timer /\ g.message = state.message /\ g.result = state.result
         /\ g.gaps = state.gaps /\ g.worker = state.worker /\ g.queued = state.queued
    BY <1>1, <2>4, <2>5, <2>10 DEF Lives
  <2>13. PICK n : n = state.queued + 1
    OBVIOUS
  <2>14. state.queued \in Nat /\ n \in Nat
    BY <1>1, <2>13, LifeFields
  <2>15. PICK w : w = [g EXCEPT !.state = "waiting", !.queued = n]
    OBVIOUS
  <2>16. w \in Lives
    <3>1. "waiting" \in Life!ExecuteState \ {"ending"}
      BY DEF Life!ExecuteState
    <3> QED BY <2>11, <2>14, <2>15, <3>1, Zenon DEF Lives
  <2>17. /\ w.made = i /\ w.current = c /\ w.delayed = state.delayed
         /\ w.pending = s /\ w.promise = state.promise /\ w.state = "waiting"
         /\ w.executed = state.executed /\ w.isPeriodic = state.isPeriodic /\ w.limited = state.limited
         /\ w.timer = state.timer /\ w.message = state.message /\ w.result = state.result
         /\ w.gaps = state.gaps /\ w.worker = state.worker /\ w.queued = n
    BY <2>11, <2>12, <2>15 DEF Lives
  <2>18. Life!Waiting(g) = w
    BY <2>11, <2>12, <2>13, <2>15 DEF Life!Waiting
  <2>19. /\ state.state \in {"notFound", "finished"} => state' = w
         /\ state.state \notin {"notFound", "finished"} => state' = g
    <3>1. state' = IF Life!MayWait(state) THEN Life!Waiting(g) ELSE g
      BY <1>4, <2>1, <2>6, <2>8, <2>10 DEF Life!PeriodicTaskCallback
    <3>2. Life!MayWait(state) <=> state.state \in {"notFound", "finished"}
      BY <1>2 DEF Life!MayWait
    <3> QED BY <2>18, <3>1, <3>2
  <2>20. /\ state' \in Lives /\ state'.made = i /\ state'.current = c /\ state'.delayed = state.delayed
         /\ state'.pending = s /\ state'.promise = state.promise
         /\ state'.executed = state.executed /\ state'.isPeriodic = state.isPeriodic /\ state'.limited = state.limited
         /\ state'.timer = state.timer /\ state'.message = state.message /\ state'.result = state.result
         /\ state'.gaps = state.gaps /\ state'.worker = state.worker
         /\ state.state \in {"notFound", "finished"} => state'.state = "waiting" /\ state'.queued = n
         /\ state.state \notin {"notFound", "finished"} => state'.state = state.state /\ state'.queued = state.queued
    <3>1. CASE state.state \in {"notFound", "finished"}
      <4>1. state' = w
        BY <2>19, <3>1
      <4> QED BY <2>16, <2>17, <3>1, <4>1
    <3>2. CASE state.state \notin {"notFound", "finished"}
      <4>1. state' = g
        BY <2>19, <3>2
      <4> QED BY <2>11, <2>12, <3>2, <4>1
    <3> QED BY <3>1, <3>2
  <2>21. Busy(state') = Busy(state) + (IF state.state \in {"notFound", "finished"} THEN 1 ELSE 0) /\ Busy(state) \in Nat
    BY <1>1, <2>13, <2>14, <2>20, LifeFields DEF Busy
  <2>22. state'.state \notin {"notFound", "finished", "timeout", "delayed", "canceled"}
    BY <1>2, <1>4, <2>20
  <2>23. TaskPlaces(state')
    <3>1. /\ \A j \in {state.current} \cup Elements(state.pending) : j <= state.made
          /\ \A j \in Elements(state.pending) : state.promise[j] # "settled" /\ j # state.current
          /\ state.current # 0 => state.promise[state.current] # "settled"
          /\ \A j \in Life!Executions :
               state.promise[j] = "open" => j \in {state.current} \cup Elements(state.pending)
      BY <1>1, <1>2 DEF TaskPlaces
    <3>2. 0 \notin Life!Executions /\ Elements(state.pending) \subseteq Life!Executions
      BY <1>1, LifeFields, ElementsAre DEF Life!Executions
    <3>3. state.promise[i] # "settled"
      <4>1. ~(i <= state.made)
        BY <2>2
      <4> QED BY <1>1, <2>2, <4>1 DEF TaskPlaces
    <3>4. \A j \in {c} \cup Elements(s) : j <= i
      <4>1. \A j \in Life!Executions : j <= state.made => j <= i
        BY <2>2 DEF Life!Executions
      <4>2. i <= i
        BY <2>2
      <4> QED BY <2>9, <3>1, <3>2, <4>1, <4>2
    <3>5. \A j \in Elements(s) : state.promise[j] # "settled" /\ j # c
      BY <2>3, <2>9, <3>1, <3>3
    <3>6. \A j \in Life!Executions : state.promise[j] = "open" => j \in {c} \cup Elements(s)
      BY <2>9, <3>1, <3>2
    <3>7. state.promise[c] # "settled"
      BY <2>9, <3>1, <3>3
    <3>8. \A j \in Life!Executions : state.promise[j] = "settled" => j <= i
      <4>1. \A j \in Life!Executions : j <= state.made => j <= i
        BY <2>2 DEF Life!Executions
      <4> QED BY <1>1, <4>1 DEF TaskPlaces
    <3> QED BY <1>2, <2>8, <2>20, <2>22, <3>4, <3>5, <3>6, <3>7, <3>8 DEF TaskPlaces
  <2>24. TaskModes(state')
    BY <1>2, <2>20, <2>22 DEF TaskModes
  <2>25. ASSUME state'.gaps = {}
         PROVE  Follows(state') /\ Referenced(state')
    <3>1. Follows(state)
      BY <1>1, <2>20, <2>25
    <3>2. state.state \in {"notFound", "finished"} <=> state.current = 0
      BY <1>1, <1>2, <1>4, <3>1, LifeFields DEF Follows, Tracks, Life!ExecuteState
    <3>3. Busy(state') = 1
      BY <2>21, <3>1, <3>2 DEF Follows, Tracks
    <3>4. state'.worker = "performing" \/ state'.result => state'.state \in {"running", "canceled", "timeout"}
      BY <2>20, <3>1 DEF Follows, Tracks
    <3>5. Follows(state')
      BY <2>9, <2>20, <2>22, <3>3, <3>4 DEF Follows, Tracks
    <3> QED BY <1>2, <2>20, <3>5 DEF Referenced
  <2> QED BY <2>20, <2>23, <2>24, <2>25 DEF LifeInv, LifeSound
<1> QED BY <1>3, <1>4

(* The timeout of execute: the promise is rejected, wherever the task is. *)
LEMMA TaskTimeoutCallbackKeepsInv ==
  ASSUME LifeAssumption, LifeInv, Life!TaskTimeoutCallback
  PROVE  LifeInv'
<1>1. /\ state \in Lives /\ TaskPlaces(state) /\ TaskModes(state)
      /\ state.gaps = {} => Follows(state) /\ Referenced(state)
  BY DEF LifeInv, LifeSound
<1>2. /\ state.limited /\ ~state.isPeriodic /\ state.delayed = {} /\ state.pending = <<>> /\ Busy(state) <= 1
      /\ state.message # "none" => state.state \in {"canceled", "finished"}
      /\ state.executed /\ ~state.clock
  BY <1>1 DEF Life!TaskTimeoutCallback, TaskModes
<1>3. PICK f : f = [state EXCEPT !.timer = FALSE]
  OBVIOUS
<1>4. f \in Lives
  BY <1>1, <1>3, Zenon DEF Lives
<1>5. /\ f.made = state.made /\ f.current = state.current /\ f.delayed = state.delayed
      /\ f.pending = state.pending /\ f.promise = state.promise /\ f.state = state.state
      /\ f.executed = state.executed /\ f.isPeriodic = state.isPeriodic /\ f.limited = state.limited
      /\ f.clock = state.clock /\ ~f.timer /\ f.message = state.message
      /\ f.result = state.result /\ f.done = state.done /\ f.refs = state.refs
      /\ f.gaps = state.gaps /\ f.worker = state.worker /\ f.queued = state.queued
  BY <1>1, <1>3 DEF Lives
<1>6. CASE state.state \in {"canceled", "finished", "ending", "delayed", "timeout"}
  <2>1. state' = f
    BY <1>3, <1>6 DEF Life!TaskTimeoutCallback
  <2>2. Busy(f) = Busy(state)
    BY <1>5 DEF Busy
  <2>3. TaskPlaces(f)
    BY <1>1, <1>5, TaskPlacesKept
  <2>4. TaskModes(f)
    BY <1>1, <1>5, <2>2 DEF TaskModes
  <2>5. f.gaps = {} => Follows(f) /\ Referenced(f)
    <3>1. f.gaps = {} => Referenced(f)
      BY <1>1, <1>5, ReferencedKept
    <3>2. f.gaps = {} => Tracks(f)
      BY <1>1, <1>5, <2>2 DEF Follows, Tracks
    <3> QED BY <1>1, <1>5, <3>1, <3>2 DEF Follows
  <2> QED BY <1>4, <2>1, <2>3, <2>4, <2>5 DEF LifeInv, LifeSound
<1>7. CASE state.state \notin {"canceled", "finished", "ending", "delayed", "timeout"}
  <2>1. PICK e : e = [f EXCEPT !.state = "timeout"]
    OBVIOUS
  <2>2. e \in Lives
    <3>1. "timeout" \in Life!ExecuteState \ {"ending"}
      BY DEF Life!ExecuteState
    <3> QED BY <1>4, <2>1, <3>1, Zenon DEF Lives
  <2>3. e.promise = state.promise
    BY <1>4, <1>5, <2>1 DEF Lives
  <2>4. state.current \in 0..MaxExecutions /\ (state.current # 0 => state.current \in Life!Executions)
    <3>1. state.current \in 0..MaxExecutions
      BY <1>1, LifeFields
    <3> QED BY <3>1 DEF Life!Executions, LifeAssumption
  <2>5. PICK q : TaskSettles(e, q, {state.current}) /\ Life!Settled(e, {state.current}) = [e EXCEPT !.promise = q]
    <3>1. \A i \in Life!Executions : i \in {state.current} => e.promise[i] # "settled"
      <4>1. 0 \notin Life!Executions
        BY DEF Life!Executions
      <4> QED BY <1>1, <1>7, <2>3, <4>1 DEF TaskPlaces
    <3> QED BY <2>2, <3>1, SettledSettles
  <2>6. PICK l : l = [e EXCEPT !.promise = q]
    OBVIOUS
  <2>7. l \in Lives
    <3>1. q \in [Life!Executions -> {"none", "open", "settled"}]
      BY <2>5 DEF TaskSettles
    <3> QED BY <2>2, <2>6, <3>1, Zenon DEF Lives
  <2>8. /\ l.made = state.made /\ l.current = state.current /\ l.delayed = {}
        /\ l.pending = <<>> /\ l.promise = q /\ l.state = "timeout"
        /\ l.executed /\ ~l.isPeriodic /\ l.limited
        /\ ~l.clock /\ ~l.timer /\ l.message = "none"
        /\ l.result = state.result /\ l.done = state.done /\ l.refs = state.refs
        /\ l.gaps = state.gaps /\ l.worker = state.worker /\ l.queued = state.queued
    <3>1. /\ e.made = f.made /\ e.current = f.current /\ e.delayed = f.delayed
          /\ e.pending = f.pending /\ e.state = "timeout"
          /\ e.executed = f.executed /\ e.isPeriodic = f.isPeriodic /\ e.limited = f.limited
          /\ e.clock = f.clock /\ e.timer = f.timer /\ e.message = f.message
          /\ e.result = f.result /\ e.done = f.done /\ e.refs = f.refs
          /\ e.gaps = f.gaps /\ e.worker = f.worker /\ e.queued = f.queued
      BY <1>4, <2>1 DEF Lives
    <3>2. /\ l.made = e.made /\ l.current = e.current /\ l.delayed = e.delayed
          /\ l.pending = e.pending /\ l.promise = q /\ l.state = e.state
          /\ l.executed = e.executed /\ l.isPeriodic = e.isPeriodic /\ l.limited = e.limited
          /\ l.clock = e.clock /\ l.timer = e.timer /\ l.message = e.message
          /\ l.result = e.result /\ l.done = e.done /\ l.refs = e.refs
          /\ l.gaps = e.gaps /\ l.worker = e.worker /\ l.queued = e.queued
      BY <2>2, <2>6 DEF Lives
    <3> QED BY <1>2, <1>5, <1>7, <3>1, <3>2
  <2>9. /\ \A i \in Life!Executions : q[i] # "open" /\ (q[i] = "settled" => i <= state.made)
        /\ state.current <= state.made /\ 0 <= state.made
        /\ Elements(<<>>) = {} /\ Injective(<<>>)
    <3>1. Elements(<<>>) = {} /\ Injective(<<>>)
      BY EmptyIs
    <3>2. 0 <= state.made
      BY <1>1, LifeFields DEF LifeAssumption
    <3>3. /\ \A i \in Life!Executions : state.promise[i] = "open" => i = state.current
          /\ \A i \in Life!Executions : state.promise[i] = "settled" => i <= state.made
          /\ state.current <= state.made
      BY <1>1, <1>2, <3>1 DEF TaskPlaces
    <3> QED BY <2>3, <2>5, <3>1, <3>2, <3>3 DEF TaskSettles
  <2>10. CASE state.state # "running" /\ state.queued > 0
    <3>1. PICK n : n = state.queued - 1
      OBVIOUS
    <3>2. n \in Nat /\ state.queued = n + 1
      BY <1>1, <2>10, <3>1, LifeFields
    <3>3. PICK g : g = [l EXCEPT !.queued = n, !.current = 0]
      OBVIOUS
    <3>4. g \in Lives
      <4>1. 0 \in 0..MaxExecutions
        BY DEF LifeAssumption
      <4> QED BY <2>7, <3>2, <3>3, <4>1, Zenon DEF Lives
    <3>5. PICK s \in Nat : Life!Unref(g, 1) = [g EXCEPT !.refs = s]
      BY <3>4, UnrefIs
    <3>6. PICK h : h = [g EXCEPT !.refs = s]
      OBVIOUS
    <3>7. h \in Lives
      BY <3>4, <3>5, <3>6, Zenon DEF Lives
    <3>8. state' = h
      <4>1. l = Life!Settled([f EXCEPT !.state = "timeout"], {state.current})
        BY <2>1, <2>5, <2>6
      <4>2. state' = Life!Unref([l EXCEPT !.queued = @ - 1, !.current = 0], 1)
        BY <1>3, <1>7, <2>10, <4>1 DEF Life!TaskTimeoutCallback
      <4>3. [l EXCEPT !.queued = @ - 1, !.current = 0] = g
        BY <2>8, <3>1, <3>3
      <4> QED BY <3>5, <3>6, <4>2, <4>3
    <3>9. /\ h.made = state.made /\ h.current = 0 /\ h.delayed = {}
          /\ h.pending = <<>> /\ h.promise = q /\ h.state = "timeout"
          /\ h.executed /\ ~h.isPeriodic /\ h.limited
          /\ ~h.clock /\ ~h.timer /\ h.message = "none"
          /\ h.result = state.result /\ h.refs = s
          /\ h.gaps = state.gaps /\ h.worker = state.worker /\ h.queued = n
      BY <2>7, <2>8, <3>3, <3>4, <3>6 DEF Lives
    <3>10. Busy(state) = Busy(h) + 1 /\ Busy(h) \in Nat
      BY <1>1, <3>2, <3>9, LifeFields DEF Busy
    <3>11. TaskPlaces(h)
      BY <2>9, <3>9 DEF TaskPlaces
    <3>12. TaskModes(h)
      BY <1>2, <3>9, <3>10 DEF TaskModes
    <3>13. ASSUME h.gaps = {}
           PROVE  Follows(h) /\ Referenced(h)
      <4>1. Busy(h) = 0
        BY <1>2, <3>10
      <4>2. Needed(h) = 0
        BY <3>9, FS_EmptySet, EmptyIs DEF Needed
      <4>3. Referenced(h)
        BY <3>5, <3>9, <4>2 DEF Referenced
      <4> QED BY <3>9, <4>1, <4>3 DEF Follows, Tracks
    <3> QED BY <3>7, <3>8, <3>11, <3>12, <3>13 DEF LifeInv, LifeSound
  <2>11. CASE ~(state.state # "running" /\ state.queued > 0)
    <3>1. state' = l
      <4>1. l = Life!Settled([f EXCEPT !.state = "timeout"], {state.current})
        BY <2>1, <2>5, <2>6
      <4> QED BY <1>3, <1>7, <2>11, <4>1 DEF Life!TaskTimeoutCallback
    <3>2. Busy(l) = Busy(state)
      BY <2>8 DEF Busy
    <3>3. TaskPlaces(l)
      BY <2>4, <2>8, <2>9 DEF TaskPlaces
    <3>4. TaskModes(l)
      BY <1>2, <2>8, <3>2 DEF TaskModes
    <3>5. ASSUME l.gaps = {}
          PROVE  Follows(l) /\ Referenced(l)
      <4>1. state.gaps = {} /\ Follows(state) /\ Referenced(state)
        BY <1>1, <2>8, <3>5
      <4>2. Needed(l) = Needed(state)
        BY <1>2, <2>8 DEF Needed
      <4>3. Referenced(l)
        BY <1>2, <2>8, <4>1, <4>2 DEF Referenced
      <4> QED BY <2>8, <3>2, <4>1, <4>3 DEF Follows, Tracks
    <3> QED BY <2>7, <3>1, <3>3, <3>4, <3>5 DEF LifeInv, LifeSound
  <2> QED BY <2>10, <2>11
<1> QED BY <1>6, <1>7

(* HandleTaskResult: the current execution is settled, and the next one of *)
(* those that wait takes its place.                                        *)
LEMMA HandleTaskResultKeepsInv ==
  ASSUME LifeAssumption, LifeInv, Life!HandleTaskResult
  PROVE  LifeInv'
<1>1. /\ state \in Lives /\ TaskPlaces(state) /\ TaskModes(state)
      /\ state.gaps = {} => Follows(state) /\ Referenced(state)
  BY DEF LifeInv, LifeSound
<1>2. state.result
  BY DEF Life!HandleTaskResult
<1>3. PICK S : S = IF state.state = "timeout" THEN {} ELSE {state.current}
  OBVIOUS
<1>4. state.current \in 0..MaxExecutions /\ (state.current # 0 => state.current \in Life!Executions)
      /\ 0 \notin Life!Executions
  <2>1. state.current \in 0..MaxExecutions
    BY <1>1, LifeFields
  <2> QED BY <2>1 DEF Life!Executions, LifeAssumption
<1>5. PICK q : TaskSettles(state, q, S) /\ Life!Settled(state, S) = [state EXCEPT !.promise = q]
  <2>1. \A i \in Life!Executions : i \in S => state.promise[i] # "settled"
    BY <1>1, <1>3, <1>4 DEF TaskPlaces
  <2> QED BY <1>1, <2>1, SettledSettles
<1>6. PICK st : st = IF state.state = "running" \/ (state.state = "canceled" /\ ~state.isPeriodic)
                     THEN "finished" ELSE state.state
  OBVIOUS
<1>7. st \in Life!ExecuteState \ {"ending"}
  <2>1. state.state \in Life!ExecuteState \ {"ending"}
    BY <1>1, LifeFields
  <2> QED BY <1>6, <2>1 DEF Life!ExecuteState
<1>8. PICK h : h = [state EXCEPT !.promise = q, !.done = FALSE, !.result = FALSE]
  OBVIOUS
<1>9. q \in [Life!Executions -> {"none", "open", "settled"}]
  BY <1>5 DEF TaskSettles
<1>10. h \in Lives
  BY <1>1, <1>8, <1>9, Zenon DEF Lives
<1>11. h.state = state.state /\ h.isPeriodic = state.isPeriodic
  BY <1>1, <1>8 DEF Lives
<1>12. PICK f : f = [h EXCEPT !.state = st]
  OBVIOUS
<1>13. f \in Lives
  BY <1>7, <1>10, <1>12, Zenon DEF Lives
<1>14. /\ f.made = state.made /\ f.current = state.current /\ f.delayed = state.delayed
       /\ f.pending = state.pending /\ f.promise = q /\ f.state = st
       /\ f.executed = state.executed /\ f.isPeriodic = state.isPeriodic /\ f.limited = state.limited
       /\ f.clock = state.clock /\ f.timer = state.timer /\ f.message = state.message
       /\ ~f.result /\ f.refs = state.refs
       /\ f.gaps = state.gaps /\ f.worker = state.worker /\ f.queued = state.queued
  BY <1>1, <1>8, <1>10, <1>12 DEF Lives
<1>15. Life!Finished(h) = f
  <2>1. h.state = state.state => [h EXCEPT !.state = state.state] = h
    BY <1>10 DEF Lives
  <2> QED BY <1>6, <1>11, <1>12, <2>1 DEF Life!Finished
<1>16. state' = IF state.isPeriodic THEN Life!PendingNotified(f) ELSE Life!Unref(Life!PendingNotified(f), 1)
  <2>1. h = [Life!Settled(state, S) EXCEPT !.done = FALSE, !.result = FALSE]
    BY <1>5, <1>8
  <2> QED BY <1>3, <1>15, <2>1 DEF Life!HandleTaskResult
<1>17. Busy(state) = Busy(f) + 1 /\ Busy(f) \in Nat
  BY <1>1, <1>2, <1>14, LifeFields DEF Busy
<1>18. state.state # "notFound" /\ (state.limited => state.state # "finished" /\ Busy(f) = 0)
  BY <1>1, <1>17 DEF TaskModes
<1>19. /\ \A i \in Life!Executions : q[i] = "settled" => i <= state.made
       /\ \A i \in Life!Executions : q[i] = "open" => i \in state.delayed \cup Elements(state.pending)
       /\ \A i \in state.delayed \cup Elements(state.pending) : q[i] # "settled" /\ i <= state.made /\ i \in Life!Executions
       /\ state.delayed \cap Elements(state.pending) = {} /\ Injective(state.pending)
       /\ state.pending \in Seq(Life!Executions)
  <2>1. state.delayed \subseteq Life!Executions /\ state.pending \in Seq(Life!Executions)
    BY <1>1, LifeFields
  <2>2. Elements(state.pending) \subseteq Life!Executions
    BY <2>1, ElementsAre
  <2>3. \A i \in Life!Executions : q[i] = "settled" => i <= state.made
    BY <1>1, <1>3, <1>5 DEF TaskSettles, TaskPlaces
  <2>4. \A i \in Life!Executions : q[i] = "open" => i \in state.delayed \cup Elements(state.pending)
    <3> SUFFICES ASSUME NEW i \in Life!Executions, q[i] = "open"
                 PROVE  i \in state.delayed \cup Elements(state.pending)
      OBVIOUS
    <3>1. i \notin S /\ state.promise[i] = "open"
      BY <1>5 DEF TaskSettles
    <3>2. i # state.current
      <4>1. CASE state.state = "timeout"
        BY <1>1, <1>4, <3>1, <4>1 DEF TaskPlaces
      <4>2. CASE state.state # "timeout"
        BY <1>3, <3>1, <4>2
      <4> QED BY <4>1, <4>2
    <3> QED BY <1>1, <3>1, <3>2 DEF TaskPlaces
  <2>5. \A i \in state.delayed \cup Elements(state.pending) : q[i] # "settled"
    BY <1>1, <1>3, <1>5, <2>1, <2>2 DEF TaskSettles, TaskPlaces
  <2> QED BY <1>1, <2>1, <2>2, <2>3, <2>4, <2>5 DEF TaskPlaces
<1>20. ASSUME state.gaps = {}
       PROVE  /\ Follows(state) /\ Referenced(state) /\ state.current # 0 /\ Busy(f) = 0
              /\ state.state \in {"running", "canceled", "timeout"}
              /\ f.queued = 0 /\ f.worker = "none"
  <2>1. Follows(state) /\ Referenced(state)
    BY <1>1, <1>20
  <2>2. state.current # 0 /\ Busy(f) = 0
    BY <1>17, <2>1 DEF Follows, Tracks
  <2>3. state.state \in {"running", "canceled", "timeout"}
    BY <1>2, <2>1 DEF Follows, Tracks
  <2>4. f.queued = 0 /\ f.worker = "none"
    BY <1>13, <2>2, LifeFields DEF Busy
  <2> QED BY <2>1, <2>2, <2>3, <2>4
<1>21. PICK n : n = Life!PendingNotified(f)
  OBVIOUS
<1>22. ASSUME n \in Lives, TaskPlaces(n), TaskModes(n), n.isPeriodic = state.isPeriodic, n.refs = state.refs,
              n.gaps = state.gaps,
              n.gaps = {} => Follows(n) /\ (~n.isPeriodic => Needed(n) \in Nat /\ Needed(state) = Needed(n) + 1)
       PROVE  LifeInv'
  <2>1. PICK s \in Nat : /\ Life!Unref(n, 1) = [n EXCEPT !.refs = s]
                        /\ \A k \in Nat : n.refs >= k + 1 => s >= k
    BY <1>22, UnrefIs
  <2>2. CASE state.isPeriodic
    BY <1>16, <1>21, <1>22, <2>2 DEF LifeInv, LifeSound, Referenced
  <2>3. CASE ~state.isPeriodic
    <3>1. PICK m : m = [n EXCEPT !.refs = s]
      OBVIOUS
    <3>2. state' = m
      BY <1>16, <1>21, <2>1, <2>3, <3>1
    <3>3. m \in Lives
      BY <1>22, <2>1, <3>1, Zenon DEF Lives
    <3>4. /\ m.made = n.made /\ m.current = n.current /\ m.delayed = n.delayed
          /\ m.pending = n.pending /\ m.promise = n.promise /\ m.state = n.state
          /\ m.executed = n.executed /\ m.isPeriodic = n.isPeriodic /\ m.limited = n.limited
          /\ m.clock = n.clock /\ m.timer = n.timer /\ m.message = n.message /\ m.done = n.done
          /\ m.result = n.result /\ m.refs = s
          /\ m.gaps = n.gaps /\ m.worker = n.worker /\ m.queued = n.queued
      BY <1>22, <3>1 DEF Lives
    <3>5. Busy(m) = Busy(n)
      BY <3>4 DEF Busy
    <3>6. TaskPlaces(m)
      BY <1>22, <3>4, TaskPlacesKept
    <3>7. TaskModes(m)
      BY <1>22, <3>4, <3>5 DEF TaskModes
    <3>8. ASSUME m.gaps = {}
          PROVE  Follows(m) /\ Referenced(m)
      <4>1. Follows(n) /\ Needed(n) \in Nat /\ Needed(state) = Needed(n) + 1 /\ state.gaps = {}
        BY <1>22, <2>3, <3>4, <3>8
      <4>2. state.refs >= Needed(state)
        BY <1>20, <2>3, <4>1 DEF Referenced
      <4>3. s >= Needed(n)
        BY <1>22, <2>1, <4>1, <4>2
      <4>4. Needed(m) = Needed(n)
        BY <3>4 DEF Needed
      <4>5. Follows(m)
        BY <3>4, <3>5, <4>1 DEF Follows, Tracks
      <4> QED BY <3>4, <4>3, <4>4, <4>5 DEF Referenced
    <3> QED BY <3>2, <3>3, <3>6, <3>7, <3>8 DEF LifeInv, LifeSound
  <2> QED BY <2>2, <2>3
<1>23. CASE state.pending = <<>> \/ (state.isPeriodic /\ st = "canceled")
  <2>1. n = [f EXCEPT !.current = 0]
    BY <1>14, <1>21, <1>23 DEF Life!PendingNotified
  <2>2. n \in Lives
    <3>1. 0 \in 0..MaxExecutions
      BY DEF LifeAssumption
    <3>2. [f EXCEPT !.current = 0] \in Lives
      BY <1>13, <3>1, Zenon DEF Lives
    <3> QED BY <2>1, <3>2
  <2>3. /\ n.made = state.made /\ n.current = 0 /\ n.delayed = state.delayed
        /\ n.pending = state.pending /\ n.promise = q /\ n.state = st
        /\ n.executed = state.executed /\ n.isPeriodic = state.isPeriodic /\ n.limited = state.limited
        /\ n.clock = state.clock /\ n.timer = state.timer /\ n.message = state.message
        /\ ~n.result /\ n.refs = state.refs
        /\ n.gaps = state.gaps /\ n.worker = state.worker /\ n.queued = state.queued
    BY <1>13, <1>14, <2>1 DEF Lives
  <2>4. Busy(n) = Busy(f)
    BY <1>14, <2>3 DEF Busy
  <2>5. TaskPlaces(n)
    <3>1. 0 <= state.made
      BY <1>1, LifeFields DEF LifeAssumption
    <3> QED BY <1>4, <1>19, <2>3, <3>1 DEF TaskPlaces
  <2>6. TaskModes(n)
    BY <1>1, <1>6, <1>17, <1>18, <2>3, <2>4 DEF TaskModes
  <2>7. ASSUME n.gaps = {}
        PROVE  Follows(n) /\ (~n.isPeriodic => Needed(n) \in Nat /\ Needed(state) = Needed(n) + 1)
    <3>1. Follows(state) /\ state.current # 0 /\ Busy(n) = 0 /\ state.state \in {"running", "canceled", "timeout"}
          /\ n.worker = "none"
      BY <1>14, <1>20, <2>3, <2>4, <2>7
    <3>2. st \in {"finished", "canceled", "timeout"} /\ (st = "canceled" => state.isPeriodic)
      BY <1>6, <3>1
    <3>3. Follows(n)
      BY <1>23, <2>3, <3>1, <3>2 DEF Follows, Tracks
    <3>4. ASSUME ~state.isPeriodic
          PROVE  Needed(n) \in Nat /\ Needed(state) = Needed(n) + 1
      <4>1. PICK a, d : a = Len(state.pending) /\ d = Cardinality(state.delayed)
        OBVIOUS
      <4>2. a \in Nat /\ d \in Nat
        BY <1>1, <4>1, LifeFields, ElementsAre, DelayedIsFinite
      <4>3. Needed(state) = d + a + 1
        BY <3>1, <4>1 DEF Needed
      <4>4. Needed(n) = d + a + 0
        BY <2>3, <4>1 DEF Needed
      <4> QED BY <4>2, <4>3, <4>4
    <3> QED BY <2>3, <3>3, <3>4
  <2> QED BY <1>22, <2>2, <2>3, <2>5, <2>6, <2>7
<1>24. CASE state.pending # <<>> /\ ~(state.isPeriodic /\ st = "canceled")
  <2>1. PICK c, t, k : c = Head(state.pending) /\ t = Tail(state.pending) /\ k = state.queued + 1
    OBVIOUS
  <2>2. /\ c \in Life!Executions /\ t \in Seq(Life!Executions)
        /\ Len(state.pending) \in Nat /\ Len(t) \in Nat /\ Len(state.pending) = Len(t) + 1
        /\ Elements(state.pending) = Elements(t) \cup {c} /\ c \notin Elements(t) /\ Injective(t)
    BY <1>19, <1>24, <2>1, TailIs
  <2>3. k \in Nat /\ c \in 0..MaxExecutions /\ c # 0
    <3>1. state.queued \in Nat
      BY <1>1, LifeFields
    <3> QED BY <2>1, <2>2, <3>1 DEF Life!Executions, LifeAssumption
  <2>4. n = [f EXCEPT !.current = c, !.pending = t, !.state = "waiting", !.queued = k]
    BY <1>13, <1>14, <1>21, <1>24, <2>1 DEF Life!PendingNotified, Life!Waiting, Lives
  <2>5. n \in Lives
    <3>1. "waiting" \in Life!ExecuteState \ {"ending"}
      BY DEF Life!ExecuteState
    <3>2. [f EXCEPT !.current = c, !.pending = t, !.state = "waiting", !.queued = k] \in Lives
      BY <1>13, <2>2, <2>3, <3>1, Zenon DEF Lives
    <3> QED BY <2>4, <3>2
  <2>6. /\ n.made = state.made /\ n.current = c /\ n.delayed = state.delayed
        /\ n.pending = t /\ n.promise = q /\ n.state = "waiting"
        /\ n.executed = state.executed /\ n.isPeriodic = state.isPeriodic /\ n.limited = state.limited
        /\ n.clock = state.clock /\ n.timer = state.timer /\ n.message = state.message
        /\ ~n.result /\ n.refs = state.refs
        /\ n.gaps = state.gaps /\ n.worker = state.worker /\ n.queued = k
    BY <1>13, <1>14, <2>4 DEF Lives
  <2>7. TaskPlaces(n)
    BY <1>19, <2>2, <2>6 DEF TaskPlaces
  <2>8. TaskModes(n)
    <3>1. state.executed /\ ~state.limited
      BY <1>1, <1>18, <1>24 DEF TaskModes
    <3> QED BY <1>1, <2>6, <3>1 DEF TaskModes
  <2>9. ASSUME n.gaps = {}
        PROVE  Follows(n) /\ (~n.isPeriodic => Needed(n) \in Nat /\ Needed(state) = Needed(n) + 1)
    <3>1. Follows(state) /\ state.current # 0 /\ state.queued = 0 /\ state.worker = "none"
      BY <1>14, <1>20, <2>6, <2>9
    <3>2. Busy(n) = 1
      BY <2>1, <2>6, <3>1 DEF Busy
    <3>3. Follows(n)
      BY <2>3, <2>6, <3>1, <3>2 DEF Follows, Tracks
    <3>4. Needed(n) \in Nat /\ Needed(state) = Needed(n) + 1
      <4>1. PICK a, b, d : a = Len(state.pending) /\ b = Len(t) /\ d = Cardinality(state.delayed)
        OBVIOUS
      <4>2. a \in Nat /\ b \in Nat /\ d \in Nat /\ a = b + 1
        BY <1>1, <2>2, <4>1, LifeFields, DelayedIsFinite
      <4>3. Needed(state) = d + a + 1
        BY <3>1, <4>1 DEF Needed
      <4>4. Needed(n) = d + b + 1
        BY <2>3, <2>6, <4>1 DEF Needed
      <4> QED BY <4>2, <4>3, <4>4
    <3> QED BY <3>3, <3>4
  <2> QED BY <1>22, <2>5, <2>6, <2>7, <2>8, <2>9
<1> QED BY <1>23, <1>24

----------------------------------------------------------------------------
(* What follows. *)

(* Every step keeps the invariant. *)
LEMMA LifeStepKeepsInv ==
  ASSUME LifeAssumption, LifeInv, Life!Next
  PROVE  LifeInv'
BY ExecuteKeepsInv, ExecuteDelayedKeepsInv, ExecutePeriodicallyKeepsInv, PeriodicTaskCallbackKeepsInv,
   TaskTimeoutCallbackKeepsInv, DelayTaskKeepsInv, DelayTaskFailsKeepsInv,
   TriggerCancelWithinKeepsInv, CancelKeepsInv, TriggerCancelKeepsInv,
   CancelOnHostKeepsInv, LifeDequeueKeepsInv, LifeUpdateTaskKeepsInv, PerformFailsKeepsInv,
   HandleTaskResultKeepsInv, HalfDoneKeepsInv DEF Life!Next

(* So does every step that may stutter. *)
LEMMA LifeNextKeepsInv ==
  ASSUME LifeAssumption
  PROVE  LifeInv /\ [Life!Next]_state => LifeInv'
<1>1. LifeInv /\ Life!Next => LifeInv'
  BY LifeStepKeepsInv
<1>2. LifeInv /\ UNCHANGED state => LifeInv'
  BY DEF LifeInv
<1> QED BY <1>1, <1>2

(* The invariant has the type invariant in it. *)
LEMMA LifeInvImpliesTypeOK ==
  ASSUME LifeInv
  PROVE  Life!TypeOK
<1>1. state \in Lives
  BY DEF LifeInv, LifeSound
<1>2. /\ state.executed \in BOOLEAN /\ state.long \in BOOLEAN /\ state.isPeriodic \in BOOLEAN
      /\ state.done \in BOOLEAN /\ state.timer \in BOOLEAN /\ state.limited \in BOOLEAN
      /\ state.clock \in BOOLEAN /\ state.result \in BOOLEAN
  BY <1>1, LifeFields
<1>3. \A f \in {"executed", "long", "isPeriodic", "done", "timer", "limited", "clock", "result"} :
        state[f] \in BOOLEAN
  BY <1>2, Zenon
<1>4. /\ state.state \in Life!ExecuteState /\ state.message \in Life!ExecuteState \cup {"none"}
      /\ state.made \in 0..MaxExecutions /\ state.current \in 0..MaxExecutions
      /\ state.pending \in Seq(Life!Executions) /\ state.delayed \subseteq Life!Executions
      /\ state.queued \in Nat /\ state.worker \in {"none", "dequeued", "performing"}
      /\ state.halves \subseteq {"function", "callback"} /\ state.refs \in Nat
  BY <1>1, LifeFields
<1>5. state.promise \in [Life!Executions -> {"none", "open", "settled", "twice"}]
  <2>1. state.promise \in [Life!Executions -> {"none", "open", "settled"}]
    BY <1>1, LifeFields
  <2> QED BY <2>1
<1> QED BY <1>3, <1>4, <1>5 DEF Life!TypeOK

(* And all that is said of the executions of a task. *)
LEMMA LifeInvImpliesSafety ==
  ASSUME LifeInv
  PROVE  Life!SettledOnce /\ Life!Performed /\ Life!KeptAlive
<1>1. /\ state \in Lives /\ TaskPlaces(state)
      /\ state.gaps = {} => Follows(state) /\ Referenced(state)
  BY DEF LifeInv, LifeSound
<1>2. Life!SettledOnce
  <2>1. state.promise \in [Life!Executions -> {"none", "open", "settled"}]
    BY <1>1, LifeFields
  <2> QED BY <2>1 DEF Life!SettledOnce
<1>3. Life!Carriers = Busy(state)
  BY DEF Life!Carriers, Busy
<1>4. Life!Performed
  <2>1. \A i \in Life!Executions : state.promise[i] = "open" =>
          i \in {state.current} \cup state.delayed \cup {state.pending[k] : k \in 1..Len(state.pending)}
    BY <1>1 DEF TaskPlaces, Elements
  <2> QED BY <1>1, <1>3, <2>1 DEF Life!Performed, Follows, Tracks
<1>5. Life!KeptAlive
  BY <1>1, SameCardinality DEF Life!KeptAlive, Referenced, Needed
<1> QED BY <1>2, <1>4, <1>5

----------------------------------------------------------------------------
(* A group and its executions: the invariant that a step keeps, and what   *)
(* follows from it.                                                        *)

(* What is assumed of the constants. *)
GroupAssumption == IsFiniteSet(Tasks) /\ MaxGroupExecutions \in Nat

(* The states of a group and of a task, and what may spoil the count.      *)
States == {"notFound", "waiting", "running", "canceled", "finished", "timeout"}
Gaps == {"executedCanceled", "taskCanceled", "spoilt"}

(* The values of group. *)
Groups ==
  [state : States, members : SUBSET Tasks, functions : SUBSET Tasks,
   made : 0..MaxGroupExecutions, current : 0..MaxGroupExecutions, pending : Seq(Group!Executions), finished : Nat,
   promise : [Group!Executions -> {"none", "open", "resolved", "rejected", "twice"}],
   failed : BOOLEAN, timer : BOOLEAN, limited : BOOLEAN, signal : BOOLEAN,
   task : [Tasks -> States], info : SUBSET Tasks, queued : SUBSET Tasks, result : SUBSET Tasks,
   worker : [Tasks -> {"none", "dequeued", "updated", "checked", "performing"}], gaps : SUBSET Gaps]

(* The tasks under way. *)
AtWorkers(g) == {t \in Tasks : g.worker[t] # "none"}
Under(g) == g.queued \cup g.result \cup AtWorkers(g)

(* The open promises are those of the current execution and of the ones    *)
(* that wait, each in one place.                                           *)
Promises(g) ==
  /\ g.current <= g.made
  /\ \A i \in Group!PendingOf(g) : i <= g.made
  /\ \A i \in Group!Executions : i > g.made => g.promise[i] = "none"
  /\ \A i \in Group!Executions : g.promise[i] = "open" <=> i = g.current \/ i \in Group!PendingOf(g)
  /\ \A i \in Group!Executions : g.promise[i] # "twice"
  /\ g.current \notin Group!PendingOf(g)
  /\ Injective(g.pending)

(* Only a group with one execution has a timeout, and the signal is that   *)
(* of a cancel of a task.                                                  *)
GroupModes(g) ==
  /\ g.state = "notFound" => g.made = 0
  /\ g.timer \/ g.state = "timeout" => g.limited
  /\ g.limited => g.pending = <<>>
  /\ g.signal => "taskCanceled" \in g.gaps

(* A task is under way at one place, and its state says that it is: it is  *)
(* not queued again before its result has been handled.                    *)
GroupPlaces(g) ==
  /\ g.queued \cap g.result = {}
  /\ (g.queued \cup g.result) \cap AtWorkers(g) = {}
  /\ Under(g) \subseteq g.members
  /\ \A t \in Under(g) : g.task[t] \notin {"notFound", "finished"}
  /\ g.functions \subseteq g.members
  /\ "spoilt" \notin g.gaps => g.functions \subseteq g.info
  /\ g.gaps = {} => Under(g) \subseteq g.info

(* What an execution counts and what is under way is never more than the   *)
(* members.                                                                *)
Counts(g) ==
  /\ g.finished <= Cardinality(g.members)
  /\ g.current # 0 => g.finished + Cardinality(Under(g)) <= Cardinality(g.members)
  /\ g.current # 0 /\ g.gaps = {} => g.finished + Cardinality(Under(g)) = Cardinality(g.members)

(* Executions wait only behind one that is under way. *)
Behind(g) == "taskCanceled" \notin g.gaps /\ g.pending # <<>> => g.current # 0

(* The invariant. *)
Consistent(g) == Promises(g) /\ GroupModes(g) /\ GroupPlaces(g) /\ Counts(g)
GroupSound(g) == g \in Groups /\ Consistent(g) /\ Behind(g)

GroupInv == GroupSound(state)

----------------------------------------------------------------------------
(* Sets and sequences. *)

(* The sets of tasks are finite. *)
LEMMA TasksAreFinite ==
  ASSUME GroupAssumption, NEW S \in SUBSET Tasks
  PROVE  IsFiniteSet(S) /\ Cardinality(S) \in Nat
<1>1. IsFiniteSet(Tasks)
  BY DEF GroupAssumption
<1>2. IsFiniteSet(S)
  BY <1>1, FS_Subset
<1> QED BY <1>2, FS_CardinalityType

(* What is left when a part is taken out of a set. *)
LEMMA TakenOut ==
  ASSUME GroupAssumption, NEW S \in SUBSET Tasks, NEW R \in SUBSET S
  PROVE  Cardinality(S \ R) + Cardinality(R) = Cardinality(S)
<1>1. /\ IsFiniteSet(S \ R) /\ Cardinality(S \ R) \in Nat
      /\ IsFiniteSet(R) /\ Cardinality(R) \in Nat
  BY TasksAreFinite
<1>2. (S \ R) \cup R = S /\ (S \ R) \cap R = {}
  OBVIOUS
<1>3. Cardinality((S \ R) \cup R) = Cardinality(S \ R) + Cardinality(R) - Cardinality((S \ R) \cap R)
  BY <1>1, FS_Union
<1>4. Cardinality({}) = 0
  BY FS_EmptySet
<1>5. Cardinality(S) = Cardinality(S \ R) + Cardinality(R) - 0
  BY <1>2, <1>3, <1>4, Zenon
<1>6. PICK a \in Nat, b \in Nat : a = Cardinality(S \ R) /\ b = Cardinality(R)
  BY <1>1
<1>7. a + b - 0 = a + b
  OBVIOUS
<1> QED BY <1>5, <1>6, <1>7, Zenon

(* A part is no larger than the set. *)
LEMMA PartIsSmaller ==
  ASSUME GroupAssumption, NEW S \in SUBSET Tasks, NEW R \in SUBSET S
  PROVE  Cardinality(R) <= Cardinality(S)
<1>1. IsFiniteSet(S)
  BY TasksAreFinite
<1> QED BY <1>1, FS_Subset

----------------------------------------------------------------------------
(* Values of group. *)

(* The fields. *)
LEMMA GroupFields ==
  ASSUME NEW g \in Groups
  PROVE  /\ g.state \in States /\ g.members \in SUBSET Tasks /\ g.functions \in SUBSET Tasks
         /\ g.made \in 0..MaxGroupExecutions /\ g.current \in 0..MaxGroupExecutions
         /\ g.pending \in Seq(Group!Executions) /\ g.finished \in Nat
         /\ g.promise \in [Group!Executions -> {"none", "open", "resolved", "rejected", "twice"}]
         /\ g.failed \in BOOLEAN /\ g.timer \in BOOLEAN /\ g.limited \in BOOLEAN /\ g.signal \in BOOLEAN
         /\ g.task \in [Tasks -> States]
         /\ g.info \in SUBSET Tasks /\ g.queued \in SUBSET Tasks /\ g.result \in SUBSET Tasks
         /\ g.worker \in [Tasks -> {"none", "dequeued", "updated", "checked", "performing"}]
         /\ g.gaps \in SUBSET Gaps
BY Zenon DEF Groups

(* The numbers that Counts compares. *)
LEMMA NumbersOf ==
  ASSUME GroupAssumption, NEW g \in Groups
  PROVE  /\ Cardinality(g.members) \in Nat /\ Cardinality(Under(g)) \in Nat
         /\ Under(g) \in SUBSET Tasks /\ AtWorkers(g) \in SUBSET Tasks
         /\ IsFiniteSet(Under(g))
<1>1. g.members \in SUBSET Tasks /\ g.queued \in SUBSET Tasks /\ g.result \in SUBSET Tasks
  BY GroupFields
<1>2. AtWorkers(g) \in SUBSET Tasks
  BY DEF AtWorkers
<1>3. Under(g) \in SUBSET Tasks
  BY <1>1, <1>2 DEF Under
<1> QED BY <1>1, <1>2, <1>3, TasksAreFinite

(* A step that leaves the executions alone keeps what is known of them.    *)
LEMMA PromisesKept ==
  ASSUME NEW g, NEW h, Promises(g),
         h.made = g.made, h.current = g.current, h.pending = g.pending, h.promise = g.promise
  PROVE  Promises(h)
BY DEF Promises, Group!PendingOf

(* One that leaves the tasks alone keeps what is known of them.            *)
LEMMA GroupPlacesKept ==
  ASSUME NEW g, NEW h, GroupPlaces(g), g.gaps \subseteq h.gaps,
         h.members = g.members, h.functions = g.functions, h.info = g.info, h.task = g.task,
         h.queued = g.queued, h.result = g.result, h.worker = g.worker
  PROVE  GroupPlaces(h)
BY DEF GroupPlaces, Under, AtWorkers

(* One that counts nothing and takes up no execution keeps the count.      *)
LEMMA CountsKept ==
  ASSUME NEW g, NEW h, Counts(g), g.gaps \subseteq h.gaps,
         h.members = g.members, h.finished = g.finished, h.current \in {0, g.current},
         Under(h) = Under(g)
  PROVE  Counts(h)
<1>1. g.gaps # {} => h.gaps # {}
  OBVIOUS
<1> QED BY <1>1 DEF Counts

(* When all is counted nothing is under way. *)
LEMMA AllFinishedIs ==
  ASSUME GroupAssumption, NEW g \in Groups, Counts(g), g.current # 0, Group!AllFinished(g)
  PROVE  Under(g) = {}
<1>1. Cardinality(g.members) \in Nat /\ Cardinality(Under(g)) \in Nat /\ IsFiniteSet(Under(g))
  BY NumbersOf
<1>2. PICK m \in Nat, u \in Nat : m = Cardinality(g.members) /\ u = Cardinality(Under(g))
  BY <1>1
<1>3. g.finished = m /\ g.finished + u <= m
  BY <1>2, SameCardinality DEF Group!AllFinished, Counts
<1>4. u = 0
  BY <1>3
<1> QED BY <1>1, <1>2, <1>4, FS_EmptySet

(* What is open in a set, and what it means to settle that, once.          *)
AllOpen(g, S) == \A i \in Group!Executions : i \in S => g.promise[i] = "open"

GroupSettles(g, S, outcome, h) ==
  \E q \in [Group!Executions -> {"none", "open", "resolved", "rejected", "twice"}] :
    /\ h = [g EXCEPT !.promise = q]
    /\ \A i \in Group!Executions : i \notin S => q[i] = g.promise[i]
    /\ \A i \in Group!Executions : i \in S => q[i] = outcome

(* Settled settles what is open in S, once. *)
LEMMA GroupSettledIs ==
  ASSUME NEW g \in Groups, NEW S, NEW outcome, AllOpen(g, S)
  PROVE  outcome \in {"resolved", "rejected"} => GroupSettles(g, S, outcome, Group!Settled(g, S, outcome))
<1> SUFFICES ASSUME outcome \in {"resolved", "rejected"}
             PROVE  GroupSettles(g, S, outcome, Group!Settled(g, S, outcome))
  OBVIOUS
<1> DEFINE q == [i \in Group!Executions |->
                   IF i \notin S THEN g.promise[i] ELSE IF g.promise[i] = "open" THEN outcome ELSE "twice"]
<1>1. Group!Settled(g, S, outcome) = [g EXCEPT !.promise = q]
  BY DEF Group!Settled
<1>2. g.promise \in [Group!Executions -> {"none", "open", "resolved", "rejected", "twice"}]
  BY GroupFields
<1>3. q \in [Group!Executions -> {"none", "open", "resolved", "rejected", "twice"}]
  BY <1>2
<1>4. \A i \in Group!Executions : q[i] = IF i \notin S THEN g.promise[i] ELSE outcome
  BY <1>2 DEF AllOpen
<1> HIDE DEF q
<1> QED BY <1>1, <1>3, <1>4 DEF GroupSettles

(* h is g with its current execution settled. *)
Ended(g, outcome, h) ==
  /\ h = [Group!Settled(g, {g.current}, outcome) EXCEPT !.current = 0]
  /\ Consistent(h) /\ h.current = 0
  /\ Under(h) = Under(g) /\ h.pending = g.pending /\ h.gaps = g.gaps

(* To settle the current execution, and have none, keeps what is consistent. *)
LEMMA EndedIs ==
  ASSUME GroupAssumption, NEW g \in Groups, Consistent(g), NEW outcome \in {"resolved", "rejected"}
  PROVE  \E h \in Groups : Ended(g, outcome, h)
<1>1. AllOpen(g, {g.current})
  BY DEF Consistent, Promises, AllOpen
<1>2. GroupSettles(g, {g.current}, outcome, Group!Settled(g, {g.current}, outcome))
  BY <1>1, GroupSettledIs
<1>14. PICK q \in [Group!Executions -> {"none", "open", "resolved", "rejected", "twice"}] :
           /\ Group!Settled(g, {g.current}, outcome) = [g EXCEPT !.promise = q]
           /\ \A i \in Group!Executions : i # g.current => q[i] = g.promise[i]
           /\ \A i \in Group!Executions : i = g.current => q[i] = outcome
  BY <1>2 DEF GroupSettles
<1>3. PICK h : h = [g EXCEPT !.promise = q, !.current = 0]
  OBVIOUS
<1>4. 0 \in 0..MaxGroupExecutions
  BY DEF GroupAssumption
<1>5. h \in Groups
  BY <1>3, <1>4, Zenon DEF Groups
<1>6. h = [Group!Settled(g, {g.current}, outcome) EXCEPT !.current = 0]
  BY <1>14, <1>3 DEF Groups
<1>7. /\ h.promise = q /\ h.current = 0 /\ h.made = g.made /\ h.pending = g.pending /\ h.state = g.state
      /\ h.timer = g.timer /\ h.limited = g.limited /\ h.signal = g.signal /\ h.gaps = g.gaps
      /\ h.members = g.members /\ h.functions = g.functions /\ h.info = g.info /\ h.task = g.task
      /\ h.queued = g.queued /\ h.result = g.result /\ h.worker = g.worker /\ h.finished = g.finished
  BY <1>3 DEF Groups
<1>8. Promises(h)
  <2>1. Promises(g)
    BY DEF Consistent
  <2>2. Group!PendingOf(h) = Group!PendingOf(g) /\ Group!PendingOf(g) \subseteq Group!Executions
    <3>1. g.pending \in Seq(Group!Executions)
      BY GroupFields
    <3>2. \A k \in 1..Len(g.pending) : g.pending[k] \in Group!Executions
      BY <3>1, ElementOfSeq
    <3> QED BY <1>7, <3>2 DEF Group!PendingOf
  <2>3. 0 \notin Group!Executions /\ 0 <= g.made
    <3>1. g.made \in 0..MaxGroupExecutions
      BY GroupFields
    <3> QED BY <3>1 DEF Group!Executions
  <2>4. /\ h.current <= h.made /\ h.current \notin Group!PendingOf(h)
        /\ \A i \in Group!PendingOf(h) : i <= h.made
    BY <1>7, <2>1, <2>2, <2>3 DEF Promises
  <2>5. Injective(h.pending)
    BY <1>7, <2>1 DEF Promises
  <2>6. ASSUME NEW i \in Group!Executions
        PROVE  /\ i > h.made => h.promise[i] = "none"
               /\ h.promise[i] = "open" <=> i = h.current \/ i \in Group!PendingOf(h)
               /\ h.promise[i] # "twice"
    <3>1. CASE i = g.current
      <4>1. h.promise[i] = outcome /\ i \notin Group!PendingOf(h) /\ i # h.current /\ g.promise[i] = "open"
        BY <1>1, <1>14, <1>7, <2>1, <2>2, <2>3, <3>1 DEF Promises, AllOpen
      <4>2. ~(i > h.made)
        BY <1>7, <2>1, <4>1 DEF Promises
      <4> QED BY <4>1, <4>2
    <3>2. CASE i # g.current
      <4>1. h.promise[i] = g.promise[i] /\ i # h.current
        BY <1>14, <1>7, <2>3, <3>2
      <4> QED BY <1>7, <2>1, <2>2, <3>2, <4>1 DEF Promises
    <3> QED BY <3>1, <3>2
  <2> QED BY <2>4, <2>5, <2>6 DEF Promises
<1>9. GroupModes(h)
  BY <1>7 DEF GroupModes, Consistent
<1>10. GroupPlaces(h)
  BY <1>7, GroupPlacesKept DEF Consistent
<1>11. Under(h) = Under(g)
  BY <1>7 DEF Under, AtWorkers
<1>12. Counts(h)
  BY <1>7, <1>11, CountsKept DEF Consistent
<1>13. Consistent(h)
  BY <1>8, <1>9, <1>10, <1>12 DEF Consistent
<1> QED BY <1>5, <1>6, <1>7, <1>11, <1>13 DEF Ended

(* TasksCanceled keeps the invariant: what it takes out of the queues it   *)
(* counts.                                                                 *)
LEMMA TasksCanceledIs ==
  ASSUME GroupAssumption, NEW g \in Groups, Consistent(g), NEW S \in SUBSET g.members
  PROVE  \E h \in Groups :
           /\ h = Group!TasksCanceled(g, S)
           /\ Consistent(h) /\ g.gaps \subseteq h.gaps
           /\ h.current = g.current /\ h.pending = g.pending /\ h.state = g.state /\ h.members = g.members
           /\ h.signal = g.signal
<1>1. PICK e : e = {t \in S : g.task[t] = "waiting" /\ t \in g.info \cap g.queued}
  OBVIOUS
<1>2. PICK n : n = g.finished + (IF g.current = 0 THEN 0 ELSE Cardinality(e))
  OBVIOUS
<1>3. PICK k : k = [t \in Tasks |-> IF t \notin S THEN g.task[t]
                                    ELSE IF g.state = "timeout" THEN "timeout" ELSE "canceled"]
  OBVIOUS
<1>4. PICK a : a = IF e \cap g.functions = {} THEN g.gaps ELSE g.gaps \cup {"spoilt"}
  OBVIOUS
<1>5. PICK h : h = [g EXCEPT !.queued = g.queued \ e, !.info = g.info \ e,
                             !.finished = n, !.task = k, !.gaps = a]
  OBVIOUS
<1>6. h = Group!TasksCanceled(g, S)
  BY <1>1, <1>2, <1>3, <1>4, <1>5, SameCardinality DEF Group!TasksCanceled
<1>7. /\ e \subseteq g.queued /\ e \subseteq g.info /\ e \subseteq g.members /\ e \in SUBSET Tasks
      /\ IsFiniteSet(e) /\ Cardinality(e) \in Nat
  <2>1. e \in SUBSET Tasks /\ e \subseteq g.queued /\ e \subseteq g.info /\ e \subseteq g.members
    BY <1>1, GroupFields
  <2> QED BY <2>1, TasksAreFinite
<1>8. h \in Groups
  <2>1. n \in Nat
    BY <1>2, <1>7, GroupFields
  <2>2. k \in [Tasks -> States]
    BY <1>3, GroupFields DEF States
  <2>3. a \in SUBSET Gaps
    BY <1>4, GroupFields DEF Gaps
  <2>4. g.queued \ e \in SUBSET Tasks /\ g.info \ e \in SUBSET Tasks
    BY GroupFields
  <2> QED BY <1>5, <2>1, <2>2, <2>3, <2>4, Zenon DEF Groups
<1>9. /\ h.made = g.made /\ h.current = g.current /\ h.pending = g.pending /\ h.promise = g.promise
      /\ h.state = g.state /\ h.members = g.members /\ h.functions = g.functions
      /\ h.timer = g.timer /\ h.limited = g.limited /\ h.signal = g.signal
      /\ h.result = g.result /\ h.worker = g.worker
      /\ h.queued = g.queued \ e /\ h.info = g.info \ e /\ h.finished = n /\ h.task = k /\ h.gaps = a
  BY <1>5 DEF Groups
<1>10. g.gaps \subseteq h.gaps /\ ("spoilt" \notin h.gaps => e \cap g.functions = {})
  BY <1>4, <1>9
<1>11. /\ AtWorkers(h) = AtWorkers(g)
       /\ e \cap g.result = {} /\ e \cap AtWorkers(g) = {}
       /\ Under(h) = Under(g) \ e /\ e \subseteq Under(g)
  <2>1. AtWorkers(h) = AtWorkers(g)
    BY <1>9 DEF AtWorkers
  <2>2. e \cap g.result = {} /\ e \cap AtWorkers(g) = {}
    BY <1>7 DEF Consistent, GroupPlaces
  <2> QED BY <1>7, <1>9, <2>1, <2>2 DEF Under
<1>12. Promises(h)
  BY <1>9, PromisesKept DEF Consistent
<1>13. GroupModes(h)
  BY <1>9, <1>10 DEF GroupModes, Consistent
<1>14. GroupPlaces(h)
  <2>1. GroupPlaces(g)
    BY DEF Consistent
  <2>2. /\ h.queued \cap h.result = {} /\ (h.queued \cup h.result) \cap AtWorkers(h) = {}
        /\ Under(h) \subseteq h.members /\ h.functions \subseteq h.members
    BY <1>9, <1>11, <2>1 DEF GroupPlaces
  <2>3. ASSUME NEW t \in Under(h)
        PROVE  h.task[t] \notin {"notFound", "finished"}
    <3>1. t \in Tasks /\ t \in Under(g)
      BY <1>11, <2>3, NumbersOf
    <3>2. g.task[t] \notin {"notFound", "finished"}
      BY <2>1, <3>1 DEF GroupPlaces
    <3> QED BY <1>3, <1>9, <3>1, <3>2
  <2>4. "spoilt" \notin h.gaps => h.functions \subseteq h.info
    BY <1>9, <1>10, <2>1 DEF GroupPlaces
  <2>5. h.gaps = {} => Under(h) \subseteq h.info
    BY <1>9, <1>10, <1>11, <2>1 DEF GroupPlaces
  <2> QED BY <2>2, <2>3, <2>4, <2>5 DEF GroupPlaces
<1>15. Counts(h)
  <2>1. Counts(g)
    BY DEF Consistent
  <2>2. Cardinality(Under(g) \ e) + Cardinality(e) = Cardinality(Under(g))
    BY <1>11, TakenOut, NumbersOf
  <2>3. /\ Cardinality(g.members) \in Nat /\ Cardinality(Under(g)) \in Nat
        /\ Cardinality(Under(h)) \in Nat /\ g.finished \in Nat
    BY <1>8, NumbersOf, GroupFields
  <2>4. PICK m \in Nat, u \in Nat, v \in Nat, c \in Nat, f \in Nat :
          /\ m = Cardinality(g.members) /\ u = Cardinality(Under(g)) /\ v = Cardinality(Under(h))
          /\ c = Cardinality(e) /\ f = g.finished
    BY <1>7, <2>3
  <2>5. v + c = u
    BY <1>11, <2>2, <2>4
  <2>6. g.gaps # {} => h.gaps # {}
    BY <1>10
  <2>7. /\ f <= m
        /\ g.current # 0 => f + u <= m
        /\ g.current # 0 /\ g.gaps = {} => f + u = m
    BY <2>1, <2>4 DEF Counts
  <2>8. n = f + (IF g.current = 0 THEN 0 ELSE c)
    BY <1>2, <2>4
  <2>9. /\ n <= m
        /\ g.current # 0 => n + v <= m
        /\ g.current # 0 /\ g.gaps = {} => n + v = m
    <3>1. CASE g.current = 0
      BY <2>7, <2>8, <3>1
    <3>2. CASE g.current # 0
      <4>1. n = f + c
        BY <2>8, <3>2
      <4>2. n + v = f + u
        BY <2>5, <4>1
      <4>3. n \in Nat
        BY <4>1
      <4> QED BY <2>7, <3>2, <4>2, <4>3
    <3> QED BY <3>1, <3>2
  <2> QED BY <1>9, <2>4, <2>6, <2>9 DEF Counts
<1>16. Consistent(h)
  BY <1>12, <1>13, <1>14, <1>15 DEF Consistent
<1> QED BY <1>6, <1>8, <1>9, <1>10, <1>16

(* A group that is stopped, and behind which nothing waits, keeps the      *)
(* invariant.                                                              *)
LEMMA StoppedIs ==
  ASSUME GroupAssumption, NEW g \in Groups, Consistent(g), g.pending = <<>>, NEW before
  PROVE  GroupSound(Group!Stopped(g, before))
<1>1. Behind(g)
  BY DEF Behind
<1>2. PICK h \in Groups : /\ h = IF Group!AllFinished(g) THEN g ELSE Group!TasksCanceled(g, g.members)
                          /\ Consistent(h) /\ h.pending = <<>>
  <2>1. CASE Group!AllFinished(g)
    BY <2>1
  <2>2. CASE ~Group!AllFinished(g)
    <3>1. g.members \in SUBSET g.members
      OBVIOUS
    <3>2. PICK h \in Groups : h = Group!TasksCanceled(g, g.members) /\ Consistent(h) /\ h.pending = g.pending
      BY <3>1, TasksCanceledIs
    <3> QED BY <2>2, <3>2
  <2> QED BY <2>1, <2>2
<1>3. GroupSound(h)
  BY <1>2 DEF GroupSound, Behind
<1>4. GroupSound(Group!Rejected(h))
  <2>1. PICK k \in Groups : /\ k = [Group!Settled(h, {h.current}, "rejected") EXCEPT !.current = 0]
                            /\ Consistent(k) /\ k.pending = h.pending
    <3>1. PICK k \in Groups : Ended(h, "rejected", k)
      BY <1>2, EndedIs
    <3> QED BY <3>1 DEF Ended
  <2> QED BY <1>2, <2>1 DEF GroupSound, Behind, Group!Rejected
<1>5. Group!Stopped(g, before) = h \/ Group!Stopped(g, before) = Group!Rejected(h)
  BY <1>2 DEF Group!Stopped
<1> QED BY <1>3, <1>4, <1>5

(* The next execution is begun, with all tasks queued, when none is under  *)
(* way.                                                                    *)
LEMMA NotifyGroupTaskIs ==
  ASSUME GroupAssumption, NEW g \in Groups, Consistent(g), g.current = 0, Under(g) = {}
  PROVE  GroupSound(Group!NotifyGroupTask(g))
<1>1. CASE g.pending = <<>>
  BY <1>1 DEF Group!NotifyGroupTask, GroupSound, Behind
<1>2. CASE g.pending # <<>>
  <2> PICK i, rest : i = Head(g.pending) /\ rest = Tail(g.pending)
    OBVIOUS
  <2>1. g.pending \in Seq(Group!Executions) /\ g.pending # <<>> /\ Injective(g.pending)
    BY <1>2, GroupFields DEF Consistent, Promises
  <2>2. /\ i \in Group!Executions /\ rest \in Seq(Group!Executions) /\ Injective(rest)
        /\ Elements(g.pending) = Elements(rest) \cup {i}
        /\ i \notin Elements(rest)
    BY <2>1, TailIs
  <2>3. PICK k : k = [t \in Tasks |-> IF t \in g.members THEN "waiting" ELSE g.task[t]]
    OBVIOUS
  <2>4. PICK c : c = [g EXCEPT !.current = i, !.finished = 0, !.failed = FALSE]
    OBVIOUS
  <2>5. c \in Groups
    <3>1. i \in 0..MaxGroupExecutions /\ 0 \in Nat
      BY <2>2 DEF Group!Executions, GroupAssumption
    <3> QED BY <2>4, <3>1, Zenon DEF Groups
  <2>6. PICK h : h = [c EXCEPT !.pending = rest, !.state = "waiting", !.info = g.info \cup (g.members \ g.functions),
                              !.queued = g.queued \cup g.members, !.task = k]
    OBVIOUS
  <2>7. h \in Groups
    <3>1. /\ g.info \cup (g.members \ g.functions) \in SUBSET Tasks
          /\ g.queued \cup g.members \in SUBSET Tasks /\ "waiting" \in States
      BY GroupFields DEF States
    <3>2. k \in [Tasks -> States]
      BY <2>3, GroupFields DEF States
    <3> QED BY <2>2, <2>5, <2>6, <3>1, <3>2, Zenon DEF Groups
  <2>8. h = Group!NotifyGroupTask(g)
    <3>1. Group!Begun(g, i) = c
      BY <2>4 DEF Group!Begun
    <3>2. Group!NotifyGroupTask(g) =
            [Group!Begun(g, Head(g.pending)) EXCEPT
               !.pending = Tail(@), !.state = "waiting",
               !.info = @ \cup (g.members \ g.functions), !.queued = @ \cup g.members,
               !.task = [t \in Tasks |-> IF t \in g.members THEN "waiting" ELSE @[t]]]
      BY <1>2 DEF Group!NotifyGroupTask
    <3>3. Group!Begun(g, Head(g.pending)) = c
      BY <3>1
    <3>4. Group!NotifyGroupTask(g) =
            [c EXCEPT !.pending = Tail(c.pending), !.state = "waiting", !.info = c.info \cup (g.members \ g.functions),
                      !.queued = c.queued \cup g.members,
                      !.task = [t \in Tasks |-> IF t \in g.members THEN "waiting" ELSE c.task[t]]]
      BY <3>2, <3>3, Zenon
    <3>5. c.pending = g.pending /\ c.info = g.info /\ c.queued = g.queued /\ c.task = g.task
      BY <2>4 DEF Groups
    <3> QED BY <2>3, <2>6, <3>4, <3>5
  <2>9. /\ h.made = g.made /\ h.current = i /\ h.pending = rest /\ h.promise = g.promise
        /\ h.state = "waiting" /\ h.members = g.members /\ h.functions = g.functions
        /\ h.timer = g.timer /\ h.limited = g.limited /\ h.signal = g.signal /\ h.gaps = g.gaps
        /\ h.result = g.result /\ h.worker = g.worker /\ h.task = k
        /\ h.queued = g.queued \cup g.members /\ h.info = g.info \cup (g.members \ g.functions)
        /\ h.finished = 0
    <3>1. /\ c.made = g.made /\ c.promise = g.promise /\ c.members = g.members /\ c.functions = g.functions
          /\ c.timer = g.timer /\ c.limited = g.limited /\ c.signal = g.signal /\ c.gaps = g.gaps
          /\ c.result = g.result /\ c.worker = g.worker /\ c.finished = 0 /\ c.current = i
      BY <2>4 DEF Groups
    <3> QED BY <2>5, <2>6, <3>1 DEF Groups
  <2>10. g.queued = {} /\ g.result = {} /\ AtWorkers(g) = {}
    BY DEF Under
  <2>11. AtWorkers(h) = {} /\ Under(h) = g.members
    <3>1. AtWorkers(h) = {}
      BY <2>9, <2>10 DEF AtWorkers
    <3> QED BY <2>9, <2>10, <3>1 DEF Under
  <2>12. Group!PendingOf(g) = Group!PendingOf(h) \cup {i} /\ i \notin Group!PendingOf(h)
    <3>1. Group!PendingOf(g) = Elements(g.pending) /\ Group!PendingOf(h) = Elements(h.pending)
      BY DEF Group!PendingOf, Elements
    <3> QED BY <2>2, <2>9, <3>1
  <2>13. 0 \notin Group!Executions
    BY DEF Group!Executions
  <2>14. Promises(h)
    BY <2>2, <2>9, <2>12, <2>13 DEF Consistent, Promises
  <2>15. GroupModes(h)
    BY <1>2, <2>9 DEF Consistent, GroupModes
  <2>16. GroupPlaces(h)
    <3>1. \A t \in Under(h) : h.task[t] \notin {"notFound", "finished"}
      <4>1. g.members \in SUBSET Tasks
        BY GroupFields
      <4> QED BY <2>3, <2>9, <2>11, <4>1
    <3> QED BY <2>9, <2>10, <2>11, <3>1 DEF Consistent, GroupPlaces
  <2>17. Counts(h)
    <3>1. Cardinality(g.members) \in Nat
      BY NumbersOf
    <3>2. PICK m \in Nat : m = Cardinality(g.members)
      BY <3>1
    <3>3. 0 <= m /\ 0 + m <= m /\ 0 + m = m
      OBVIOUS
    <3> QED BY <2>9, <2>11, <3>2, <3>3 DEF Counts
  <2>18. Behind(h)
    BY <2>2, <2>9, <2>13 DEF Behind
  <2> QED BY <2>7, <2>8, <2>14, <2>15, <2>16, <2>17, <2>18 DEF GroupSound, Consistent
<1> QED BY <1>1, <1>2

----------------------------------------------------------------------------
(* Cancel and timeout. *)

(* CancelGroup ends what waits, and stops the rest. *)
LEMMA CancelGroupKeepsInv ==
  ASSUME GroupAssumption, GroupInv, Group!CancelGroup
  PROVE  GroupInv'
<1>1. state \in Groups /\ Consistent(state)
  BY DEF GroupInv, GroupSound
<1>2. AllOpen(state, Group!PendingOf(state))
  BY <1>1 DEF Consistent, Promises, AllOpen
<1>3. GroupSettles(state, Group!PendingOf(state), "rejected", Group!Settled(state, Group!PendingOf(state), "rejected"))
  BY <1>1, <1>2, GroupSettledIs
<1>4. PICK q \in [Group!Executions -> {"none", "open", "resolved", "rejected", "twice"}] :
        /\ Group!Settled(state, Group!PendingOf(state), "rejected") = [state EXCEPT !.promise = q]
        /\ \A i \in Group!Executions : i \notin Group!PendingOf(state) => q[i] = state.promise[i]
        /\ \A i \in Group!Executions : i \in Group!PendingOf(state) => q[i] = "rejected"
  BY <1>3 DEF GroupSettles
<1>5. PICK g : g = [state EXCEPT !.promise = q, !.state = "canceled", !.pending = <<>>, !.timer = FALSE]
  OBVIOUS
<1>6. g \in Groups
  <2>1. "canceled" \in States /\ <<>> \in Seq(Group!Executions)
    BY EmptyIs DEF States
  <2> QED BY <1>1, <1>5, <2>1, Zenon DEF Groups
<1>7. state' = Group!Stopped(g, state.state)
  <2>1. g = [Group!Settled(state, Group!PendingOf(state), "rejected") EXCEPT
               !.state = "canceled", !.pending = <<>>, !.timer = FALSE]
    BY <1>1, <1>4, <1>5 DEF Groups
  <2> QED BY <2>1 DEF Group!CancelGroup
<1>8. /\ g.promise = q /\ g.current = state.current /\ g.made = state.made /\ g.pending = <<>> /\ g.state = "canceled"
      /\ ~g.timer /\ g.limited = state.limited /\ g.signal = state.signal /\ g.gaps = state.gaps
      /\ g.members = state.members /\ g.functions = state.functions /\ g.info = state.info /\ g.task = state.task
      /\ g.queued = state.queued /\ g.result = state.result /\ g.worker = state.worker
      /\ g.finished = state.finished
  BY <1>1, <1>5 DEF Groups
<1>9. Promises(g)
  <2>1. Group!PendingOf(g) = {} /\ Injective(g.pending)
    BY <1>8, EmptyIs DEF Group!PendingOf
  <2>2. Promises(state)
    BY <1>1 DEF Consistent
  <2>3. ASSUME NEW i \in Group!Executions
        PROVE  /\ i > g.made => g.promise[i] = "none"
               /\ g.promise[i] = "open" <=> i = g.current \/ i \in Group!PendingOf(g)
               /\ g.promise[i] # "twice"
    <3>1. CASE i \in Group!PendingOf(state)
      <4>1. g.promise[i] = "rejected" /\ i # g.current /\ i \notin Group!PendingOf(g) /\ state.promise[i] = "open"
        BY <1>4, <1>8, <2>1, <2>2, <3>1 DEF Promises
      <4>2. ~(i > g.made)
        BY <1>8, <2>2, <4>1 DEF Promises
      <4> QED BY <4>1, <4>2
    <3>2. CASE i \notin Group!PendingOf(state)
      <4>1. g.promise[i] = state.promise[i] /\ i \notin Group!PendingOf(g)
        BY <1>4, <1>8, <2>1, <3>2
      <4> QED BY <1>8, <2>2, <3>2, <4>1 DEF Promises
    <3> QED BY <3>1, <3>2
  <2> QED BY <1>8, <2>1, <2>2, <2>3 DEF Promises
<1>10. GroupModes(g)
  BY <1>1, <1>8 DEF Consistent, GroupModes
<1>11. GroupPlaces(g)
  BY <1>1, <1>8, GroupPlacesKept DEF Consistent
<1>12. Counts(g)
  <2>1. Under(g) = Under(state)
    BY <1>8 DEF Under, AtWorkers
  <2> QED BY <1>1, <1>8, <2>1, CountsKept DEF Consistent
<1>13. GroupSound(Group!Stopped(g, state.state))
  BY <1>6, <1>8, <1>9, <1>10, <1>11, <1>12, StoppedIs DEF Consistent
<1> QED BY <1>7, <1>13 DEF GroupInv

(* A timeout stops the one execution of the group. *)
LEMMA TimeoutGroupKeepsInv ==
  ASSUME GroupAssumption, GroupInv, Group!TimeoutGroup
  PROVE  GroupInv'
<1>1. state \in Groups /\ Consistent(state) /\ Behind(state)
  BY DEF GroupInv, GroupSound
<1>2. state.limited /\ state.pending = <<>>
  BY <1>1 DEF Group!TimeoutGroup, Consistent, GroupModes
<1>3. PICK g : g = [state EXCEPT !.timer = FALSE]
  OBVIOUS
<1>4. g \in Groups
  BY <1>1, <1>3, Zenon DEF Groups
<1>5. PICK h : h = [g EXCEPT !.state = "timeout"]
  OBVIOUS
<1>6. h \in Groups
  <2>1. "timeout" \in States
    BY DEF States
  <2> QED BY <1>4, <1>5, <2>1, Zenon DEF Groups
<1>7. ASSUME NEW k \in {g, h}
      PROVE  k \in Groups /\ Consistent(k) /\ k.pending = <<>>
  <2>1. /\ k.promise = state.promise /\ k.current = state.current /\ k.made = state.made
        /\ k.pending = state.pending /\ k.state \in {state.state, "timeout"}
        /\ ~k.timer /\ k.limited = state.limited /\ k.signal = state.signal /\ k.gaps = state.gaps
        /\ k.members = state.members /\ k.functions = state.functions
        /\ k.info = state.info /\ k.task = state.task /\ k.finished = state.finished
        /\ k.queued = state.queued /\ k.result = state.result /\ k.worker = state.worker
    <3>1. CASE k = g
      BY <1>1, <1>3, <3>1 DEF Groups
    <3>2. CASE k = h
      BY <1>1, <1>3, <1>4, <1>5, <3>2 DEF Groups
    <3> QED BY <3>1, <3>2
  <2>2. Promises(k)
    BY <1>1, <2>1, PromisesKept DEF Consistent
  <2>3. GroupModes(k)
    BY <1>1, <1>2, <2>1 DEF Consistent, GroupModes
  <2>4. GroupPlaces(k)
    BY <1>1, <2>1, GroupPlacesKept DEF Consistent
  <2>5. Counts(k)
    <3>1. Under(k) = Under(state)
      BY <2>1 DEF Under, AtWorkers
    <3> QED BY <1>1, <2>1, <3>1, CountsKept DEF Consistent
  <2> QED BY <1>2, <1>4, <1>6, <2>1, <2>2, <2>3, <2>4, <2>5 DEF Consistent
<1>8. GroupSound(g) /\ GroupSound(h)
  BY <1>7 DEF GroupSound, Behind
<1>9. GroupSound(Group!Stopped(h, state.state))
  BY <1>7, StoppedIs
<1>10. state' \in {g, h, Group!Stopped(h, state.state)}
  BY <1>3, <1>5 DEF Group!TimeoutGroup
<1> QED BY <1>8, <1>9, <1>10 DEF GroupInv

(* The cancel of one task, on the thread of the group or on another.       *)
LEMMA CancelTaskKeepsInv ==
  ASSUME GroupAssumption, GroupInv, NEW t \in Tasks, NEW sameEnv \in BOOLEAN, Group!CancelTask(t, sameEnv)
  PROVE  GroupInv'
<1>1. state \in Groups /\ Consistent(state) /\ {t} \in SUBSET state.members
  BY DEF GroupInv, GroupSound, Group!CancelTask
<1>2. PICK h \in Groups : h = Group!TasksCanceled(state, {t}) /\ Consistent(h)
  BY <1>1, TasksCanceledIs
<1>3. PICK g : g = [h EXCEPT !.gaps = h.gaps \cup {"taskCanceled"}]
  OBVIOUS
<1>4. g \in Groups
  <2>1. h.gaps \cup {"taskCanceled"} \in SUBSET Gaps
    BY <1>2, GroupFields DEF Gaps
  <2> QED BY <1>2, <1>3, <2>1, Zenon DEF Groups
<1>5. PICK s : s = [g EXCEPT !.signal = TRUE]
  OBVIOUS
<1>6. s \in Groups
  BY <1>4, <1>5, Zenon DEF Groups
<1>7. ASSUME NEW k \in {g, s}
      PROVE  GroupSound(k)
  <2>1. /\ k.promise = h.promise /\ k.current = h.current /\ k.made = h.made
        /\ k.pending = h.pending /\ k.state = h.state /\ k.timer = h.timer /\ k.limited = h.limited
        /\ k.gaps = h.gaps \cup {"taskCanceled"} /\ k.members = h.members /\ k.functions = h.functions
        /\ k.info = h.info /\ k.task = h.task /\ k.finished = h.finished
        /\ k.queued = h.queued /\ k.result = h.result /\ k.worker = h.worker
    <3>1. CASE k = g
      BY <1>2, <1>3, <3>1 DEF Groups
    <3>2. CASE k = s
      BY <1>2, <1>3, <1>4, <1>5, <3>2 DEF Groups
    <3> QED BY <3>1, <3>2
  <2>2. h.gaps \subseteq k.gaps /\ "taskCanceled" \in k.gaps
    BY <2>1
  <2>3. Promises(k)
    BY <1>2, <2>1, PromisesKept DEF Consistent
  <2>4. GroupModes(k)
    BY <1>2, <2>1, <2>2 DEF Consistent, GroupModes
  <2>5. GroupPlaces(k)
    BY <1>2, <2>1, <2>2, GroupPlacesKept DEF Consistent
  <2>6. Counts(k)
    <3>1. Under(k) = Under(h)
      BY <2>1 DEF Under, AtWorkers
    <3> QED BY <1>2, <2>1, <2>2, <3>1, CountsKept DEF Consistent
  <2>7. Behind(k)
    BY <2>2 DEF Behind
  <2> QED BY <1>4, <1>6, <2>3, <2>4, <2>5, <2>6, <2>7 DEF GroupSound, Consistent
<1>8. GroupSound(Group!Rejected(g))
  <2>1. PICK r \in Groups : /\ r = [Group!Settled(g, {g.current}, "rejected") EXCEPT !.current = 0]
                            /\ Consistent(r) /\ r.gaps = g.gaps
    <3>1. PICK r \in Groups : Ended(g, "rejected", r)
      BY <1>7, EndedIs DEF GroupSound
    <3> QED BY <3>1 DEF Ended
  <2>2. "taskCanceled" \in r.gaps
    <3>1. g.gaps = h.gaps \cup {"taskCanceled"}
      BY <1>2, <1>3 DEF Groups
    <3> QED BY <2>1, <3>1
  <2> QED BY <2>1, <2>2 DEF GroupSound, Behind, Group!Rejected
<1>9. state' \in {g, s, Group!Rejected(g)}
  <2>1. g = [Group!TasksCanceled(state, {t}) EXCEPT !.gaps = @ \cup {"taskCanceled"}]
    BY <1>2, <1>3
  <2> QED BY <1>5, <2>1 DEF Group!CancelTask
<1> QED BY <1>7, <1>8, <1>9 DEF GroupInv

(* The signal of a cancel on another thread has arrived.                   *)
LEMMA StartRejectResultKeepsInv ==
  ASSUME GroupAssumption, GroupInv, Group!StartRejectResult
  PROVE  GroupInv'
<1>1. state \in Groups /\ Consistent(state) /\ "taskCanceled" \in state.gaps
  BY DEF GroupInv, GroupSound, Consistent, GroupModes, Group!StartRejectResult
<1>2. PICK g : g = [state EXCEPT !.signal = FALSE]
  OBVIOUS
<1>3. g \in Groups
  BY <1>1, <1>2, Zenon DEF Groups
<1>4. /\ g.promise = state.promise /\ g.current = state.current /\ g.made = state.made
      /\ g.pending = state.pending /\ g.state = state.state /\ g.timer = state.timer
      /\ g.limited = state.limited /\ ~g.signal /\ g.gaps = state.gaps
      /\ g.members = state.members /\ g.functions = state.functions
      /\ g.info = state.info /\ g.task = state.task /\ g.finished = state.finished
      /\ g.queued = state.queued /\ g.result = state.result /\ g.worker = state.worker
  BY <1>1, <1>2 DEF Groups
<1>5. Consistent(g)
  <2>1. Promises(g)
    BY <1>1, <1>4, PromisesKept DEF Consistent
  <2>2. GroupModes(g)
    BY <1>1, <1>4 DEF Consistent, GroupModes
  <2>3. GroupPlaces(g)
    BY <1>1, <1>4, GroupPlacesKept DEF Consistent
  <2>4. Counts(g)
    <3>1. Under(g) = Under(state)
      BY <1>4 DEF Under, AtWorkers
    <3> QED BY <1>1, <1>4, <3>1, CountsKept DEF Consistent
  <2> QED BY <2>1, <2>2, <2>3, <2>4 DEF Consistent
<1>6. GroupSound(g)
  BY <1>1, <1>3, <1>4, <1>5 DEF GroupSound, Behind
<1>7. GroupSound(Group!Rejected(g))
  <2>1. PICK r \in Groups : /\ r = [Group!Settled(g, {g.current}, "rejected") EXCEPT !.current = 0]
                            /\ Consistent(r) /\ r.gaps = g.gaps
    <3>1. PICK r \in Groups : Ended(g, "rejected", r)
      BY <1>3, <1>5, EndedIs
    <3> QED BY <3>1 DEF Ended
  <2>2. "taskCanceled" \in r.gaps
    BY <1>1, <1>4, <2>1
  <2> QED BY <2>1, <2>2 DEF GroupSound, Behind, Group!Rejected
<1>8. state' \in {g, Group!Rejected(g)}
  BY <1>2 DEF Group!StartRejectResult
<1> QED BY <1>6, <1>7, <1>8 DEF GroupInv

----------------------------------------------------------------------------
(* The result of a task. *)

(* The task t is no longer under way, and counted in the execution that    *)
(* there is.                                                               *)
Handled(g, t, failed) ==
  [g EXCEPT !.result = g.result \ {t},
            !.info = IF t \in g.functions THEN g.info ELSE g.info \ {t},
            !.task = [g.task EXCEPT ![t] = IF @ \in {"running", "canceled"} THEN "finished" ELSE @],
            !.finished = g.finished + (IF g.current = 0 THEN 0 ELSE 1),
            !.failed = failed]

(* To handle the result of a task keeps the invariant. *)
LEMMA ResultIs ==
  ASSUME GroupAssumption, NEW g \in Groups, Consistent(g), NEW t \in g.result, NEW failed \in BOOLEAN
  PROVE  \E c \in Groups :
           /\ c = Handled(g, t, failed) /\ Consistent(c) /\ c.failed = failed
           /\ c.current = g.current /\ c.pending = g.pending /\ c.gaps = g.gaps /\ c.state = g.state
<1>1. PICK n : n = g.finished + (IF g.current = 0 THEN 0 ELSE 1)
  OBVIOUS
<1>2. PICK k : k = [g.task EXCEPT ![t] = IF @ \in {"running", "canceled"} THEN "finished" ELSE @]
  OBVIOUS
<1>3. PICK o : o = IF t \in g.functions THEN g.info ELSE g.info \ {t}
  OBVIOUS
<1>4. t \in Tasks
  BY GroupFields
<1>12. PICK c : c = [g EXCEPT !.result = g.result \ {t}, !.info = o, !.task = k, !.finished = n, !.failed = failed]
  OBVIOUS
<1>13. c = Handled(g, t, failed)
  BY <1>1, <1>2, <1>3, <1>12, Zenon DEF Handled
<1>5. c \in Groups
  <2>1. n \in Nat
    BY <1>1, GroupFields
  <2>2. k \in [Tasks -> States]
    BY <1>2, <1>4, GroupFields DEF States
  <2>3. o \in SUBSET Tasks /\ g.result \ {t} \in SUBSET Tasks
    BY <1>3, GroupFields
  <2> QED BY <1>12, <2>1, <2>2, <2>3, Zenon DEF Groups
<1>6. /\ c.made = g.made /\ c.current = g.current /\ c.pending = g.pending /\ c.promise = g.promise
      /\ c.state = g.state /\ c.members = g.members /\ c.functions = g.functions
      /\ c.timer = g.timer /\ c.limited = g.limited /\ c.signal = g.signal
      /\ c.queued = g.queued /\ c.worker = g.worker /\ c.gaps = g.gaps
      /\ c.result = g.result \ {t} /\ c.info = o /\ c.finished = n /\ c.task = k
      /\ c.failed = failed
  BY <1>12 DEF Groups
<1>7. /\ AtWorkers(c) = AtWorkers(g) /\ t \notin g.queued /\ t \notin AtWorkers(g)
      /\ Under(c) = Under(g) \ {t} /\ {t} \in SUBSET Under(g)
  <2>1. AtWorkers(c) = AtWorkers(g)
    BY <1>6 DEF AtWorkers
  <2>2. t \notin g.queued /\ t \notin AtWorkers(g)
    BY DEF Consistent, GroupPlaces
  <2> QED BY <1>6, <2>1, <2>2 DEF Under
<1>8. Promises(c)
  BY <1>6, PromisesKept DEF Consistent
<1>9. GroupModes(c)
  BY <1>6 DEF GroupModes, Consistent
<1>10. GroupPlaces(c)
  <2>1. GroupPlaces(g)
    BY DEF Consistent
  <2>2. /\ c.queued \cap c.result = {} /\ (c.queued \cup c.result) \cap AtWorkers(c) = {}
        /\ Under(c) \subseteq c.members /\ c.functions \subseteq c.members
    BY <1>6, <1>7, <2>1 DEF GroupPlaces
  <2>3. ASSUME NEW u \in Under(c)
        PROVE  c.task[u] \notin {"notFound", "finished"}
    <3>1. u \in Tasks /\ u \in Under(g) /\ u # t
      BY <1>5, <1>7, <2>3, NumbersOf
    <3>2. g.task[u] \notin {"notFound", "finished"}
      BY <2>1, <3>1 DEF GroupPlaces
    <3>3. g.task \in [Tasks -> States]
      BY GroupFields
    <3> QED BY <1>2, <1>6, <3>1, <3>2, <3>3
  <2>4. "spoilt" \notin c.gaps => c.functions \subseteq c.info
    BY <1>3, <1>6, <2>1 DEF GroupPlaces
  <2>5. c.gaps = {} => Under(c) \subseteq c.info
    BY <1>3, <1>6, <1>7, <2>1 DEF GroupPlaces
  <2> QED BY <2>2, <2>3, <2>4, <2>5 DEF GroupPlaces
<1>11. Counts(c)
  <2>1. Counts(g)
    BY DEF Consistent
  <2>2. Cardinality(Under(g) \ {t}) + 1 = Cardinality(Under(g))
    <3>1. Under(g) \in SUBSET Tasks
      BY NumbersOf
    <3>2. Cardinality(Under(g) \ {t}) + Cardinality({t}) = Cardinality(Under(g))
      BY <1>7, <3>1, TakenOut
    <3>3. Cardinality({t}) = 1
      BY FS_Singleton
    <3> QED BY <3>2, <3>3
  <2>3. /\ Cardinality(g.members) \in Nat /\ Cardinality(Under(g)) \in Nat
        /\ Cardinality(Under(c)) \in Nat /\ g.finished \in Nat
    BY <1>5, NumbersOf, GroupFields
  <2>4. PICK m \in Nat, u \in Nat, v \in Nat, f \in Nat :
          /\ m = Cardinality(g.members) /\ u = Cardinality(Under(g)) /\ v = Cardinality(Under(c))
          /\ f = g.finished
    BY <2>3
  <2>5. v + 1 = u
    BY <1>7, <2>2, <2>4
  <2>6. /\ f <= m
        /\ g.current # 0 => f + u <= m
        /\ g.current # 0 /\ g.gaps = {} => f + u = m
    BY <2>1, <2>4 DEF Counts
  <2>7. /\ n <= m
        /\ g.current # 0 => n + v <= m
        /\ g.current # 0 /\ g.gaps = {} => n + v = m
    <3>1. CASE g.current = 0
      BY <1>1, <2>4, <2>6, <3>1
    <3>2. CASE g.current # 0
      <4>1. n = f + 1
        BY <1>1, <2>4, <3>2
      <4>2. n + v = f + u
        BY <2>5, <4>1
      <4>3. n \in Nat
        BY <4>1
      <4> QED BY <2>6, <3>2, <4>2, <4>3
    <3> QED BY <3>1, <3>2
  <2> QED BY <1>6, <2>4, <2>7 DEF Counts
<1> QED BY <1>5, <1>6, <1>8, <1>9, <1>10, <1>11, <1>13 DEF Consistent

(* UpdateGroupInfoByResult counts the task, and with the last one ends the *)
(* execution.                                                              *)
LEMMA UpdateGroupInfoByResultKeepsInv ==
  ASSUME GroupAssumption, GroupInv, NEW t \in Tasks, NEW success \in BOOLEAN,
         Group!UpdateGroupInfoByResult(t, success)
  PROVE  GroupInv'
<1>1. state \in Groups /\ Consistent(state) /\ Behind(state) /\ t \in state.result
  BY DEF GroupInv, GroupSound, Group!UpdateGroupInfoByResult
<1>2. PICK failed \in BOOLEAN : failed = IF state.current = 0 THEN state.failed ELSE state.failed \/ ~success
  <2>1. state.failed \in BOOLEAN
    BY <1>1, GroupFields
  <2>2. (IF state.current = 0 THEN state.failed ELSE state.failed \/ ~success) \in BOOLEAN
    BY <2>1
  <2> QED BY <2>2
<1>3. PICK c \in Groups :
        /\ c = Handled(state, t, failed) /\ Consistent(c) /\ c.failed = failed
        /\ c.current = state.current /\ c.pending = state.pending /\ c.gaps = state.gaps /\ c.state = state.state
  BY <1>1, ResultIs
<1>4. /\ c \in Groups /\ Consistent(c)
      /\ c.current = state.current /\ c.pending = state.pending /\ c.gaps = state.gaps /\ c.state = state.state
  BY <1>3
<1>5. PICK outcome \in {"resolved", "rejected"} : outcome = IF c.failed THEN "rejected" ELSE "resolved"
  OBVIOUS
<1>6. state' = IF c.current = 0 THEN c
               ELSE IF ~Group!AllFinished(c) THEN c
               ELSE IF c.state = "timeout" THEN Group!Rejected(c)
               ELSE Group!NotifyGroupTask([Group!Settled(c, {c.current}, outcome) EXCEPT
                        !.state = "finished", !.current = 0, !.timer = FALSE])
  <2>1. PICK o : o = IF t \in state.functions THEN state.info ELSE state.info \ {t}
    OBVIOUS
  <2>2. PICK k : k = [state.task EXCEPT ![t] = IF @ \in {"running", "canceled"} THEN "finished" ELSE @]
    OBVIOUS
  <2>3. PICK g : g = [state EXCEPT !.result = state.result \ {t}, !.info = o, !.task = k]
    OBVIOUS
  <2>4. PICK d : d = [g EXCEPT !.finished = @ + 1, !.failed = @ \/ ~success]
    OBVIOUS
  <2>5. g = [state EXCEPT !.result = @ \ {t}, !.info = IF t \in state.functions THEN @ ELSE @ \ {t},
                            !.task[t] = IF @ \in {"running", "canceled"} THEN "finished" ELSE @]
    BY <2>1, <2>2, <2>3
  <2>6. state' = IF state.current = 0 THEN g
                 ELSE IF ~Group!AllFinished(d) THEN d
                 ELSE IF state.state = "timeout" THEN Group!Rejected(d)
                 ELSE Group!NotifyGroupTask([Group!Settled(d, {state.current}, IF d.failed THEN "rejected" ELSE "resolved") EXCEPT
                        !.state = "finished", !.current = 0, !.timer = FALSE])
    BY <2>4, <2>5 DEF Group!UpdateGroupInfoByResult
  <2>7. c = [state EXCEPT !.result = state.result \ {t}, !.info = o, !.task = k,
                          !.finished = state.finished + (IF state.current = 0 THEN 0 ELSE 1), !.failed = failed]
    BY <1>3, <2>1, <2>2, Zenon DEF Handled
  <2>8. state.current = 0 => g = c
    <3>1. state.finished + 0 = state.finished
      BY <1>1, GroupFields
    <3>2. ASSUME state.current = 0
          PROVE  c = [state EXCEPT !.result = state.result \ {t}, !.info = o, !.task = k,
                                   !.finished = state.finished, !.failed = state.failed]
      <4>1. state.finished + (IF state.current = 0 THEN 0 ELSE 1) = state.finished
        BY <3>1, <3>2
      <4>2. failed = state.failed
        BY <1>2, <3>2
      <4> QED BY <2>7, <4>1, <4>2, Zenon
    <3>3. g = [state EXCEPT !.result = state.result \ {t}, !.info = o, !.task = k,
                            !.finished = state.finished, !.failed = state.failed]
      BY <1>1, <2>3 DEF Groups
    <3> QED BY <3>2, <3>3
  <2>9. state.current # 0 => d = c
    BY <1>1, <1>2, <2>3, <2>4, <2>7 DEF Groups
  <2> QED BY <1>3, <1>4, <1>5, <2>6, <2>8, <2>9
<1>7. GroupSound(c)
  BY <1>1, <1>4 DEF GroupSound, Behind
<1>8. CASE c.current # 0 /\ Group!AllFinished(c) /\ c.state = "timeout"
  <2>1. c.pending = <<>>
    BY <1>4, <1>8 DEF Consistent, GroupModes
  <2>2. PICK r \in Groups : /\ r = [Group!Settled(c, {c.current}, "rejected") EXCEPT !.current = 0]
                            /\ Consistent(r) /\ r.pending = c.pending
    <3>1. PICK r \in Groups : Ended(c, "rejected", r)
      BY <1>4, EndedIs
    <3> QED BY <3>1 DEF Ended
  <2>3. GroupSound(Group!Rejected(c))
    BY <2>1, <2>2 DEF GroupSound, Behind, Group!Rejected
  <2> QED BY <1>6, <1>8, <2>3 DEF GroupInv
<1>9. CASE c.current # 0 /\ Group!AllFinished(c) /\ c.state # "timeout"
  <2>1. Under(c) = {}
    BY <1>4, <1>9, AllFinishedIs DEF Consistent
  <2>2. PICK r \in Groups : /\ r = [Group!Settled(c, {c.current}, outcome) EXCEPT !.current = 0]
                            /\ Consistent(r) /\ r.current = 0 /\ Under(r) = Under(c)
    <3>1. PICK r \in Groups : Ended(c, outcome, r)
      BY <1>4, EndedIs
    <3> QED BY <3>1 DEF Ended
  <2>3. PICK f : f = [r EXCEPT !.state = "finished", !.timer = FALSE]
    OBVIOUS
  <2>4. f \in Groups
    <3>1. "finished" \in States
      BY DEF States
    <3> QED BY <2>2, <2>3, <3>1, Zenon DEF Groups
  <2>5. /\ f.promise = r.promise /\ f.current = 0 /\ f.current = r.current /\ f.made = r.made
        /\ f.pending = r.pending /\ f.state = "finished" /\ ~f.timer
        /\ f.limited = r.limited /\ f.signal = r.signal /\ f.gaps = r.gaps
        /\ f.members = r.members /\ f.functions = r.functions
        /\ f.info = r.info /\ f.task = r.task /\ f.finished = r.finished
        /\ f.queued = r.queued /\ f.result = r.result /\ f.worker = r.worker
    BY <2>2, <2>3 DEF Groups
  <2>6. Under(f) = Under(r)
    BY <2>5 DEF Under, AtWorkers
  <2>7. Consistent(f)
    <3>1. Promises(f)
      BY <2>2, <2>5, PromisesKept DEF Consistent
    <3>2. GroupModes(f)
      BY <2>2, <2>5 DEF Consistent, GroupModes
    <3>3. GroupPlaces(f)
      BY <2>2, <2>5, GroupPlacesKept DEF Consistent
    <3>4. Counts(f)
      BY <2>2, <2>5, <2>6, CountsKept DEF Consistent
    <3> QED BY <3>1, <3>2, <3>3, <3>4 DEF Consistent
  <2>8. GroupSound(Group!NotifyGroupTask(f))
    BY <2>1, <2>2, <2>4, <2>5, <2>6, <2>7, NotifyGroupTaskIs
  <2>9. f = [Group!Settled(c, {c.current}, outcome) EXCEPT !.state = "finished", !.current = 0, !.timer = FALSE]
    <3>1. AllOpen(c, {c.current})
      BY <1>4 DEF Consistent, Promises, AllOpen
    <3>2. GroupSettles(c, {c.current}, outcome, Group!Settled(c, {c.current}, outcome))
      BY <1>4, <3>1, GroupSettledIs
    <3>3. PICK q : Group!Settled(c, {c.current}, outcome) = [c EXCEPT !.promise = q]
      BY <3>2 DEF GroupSettles
    <3> QED BY <1>4, <2>2, <2>3, <3>3 DEF Groups
  <2> QED BY <1>6, <1>9, <2>8, <2>9 DEF GroupInv
<1> QED BY <1>6, <1>7, <1>8, <1>9 DEF GroupInv

----------------------------------------------------------------------------
(* Execution. *)

(* A group that has not been executed has no execution anywhere.           *)
LEMMA NewGroupIsBlank ==
  ASSUME NEW g \in Groups, Consistent(g), g.state = "notFound"
  PROVE  g.made = 0 /\ g.current = 0 /\ g.pending = <<>>
<1>1. g.made = 0
  BY DEF Consistent, GroupModes
<1>2. g.current \in 0..MaxGroupExecutions /\ g.current <= 0 /\ g.pending \in Seq(Group!Executions) /\ Injective(g.pending)
  BY <1>1, GroupFields DEF Consistent, Promises
<1>3. g.current = 0
  BY <1>2
<1>4. g.pending = <<>>
  <2> SUFFICES ASSUME g.pending # <<>>
               PROVE  FALSE
    OBVIOUS
  <2>1. Head(g.pending) \in Group!Executions /\ Head(g.pending) \in Elements(g.pending)
    BY <1>2, TailIs
  <2>2. Elements(g.pending) = Group!PendingOf(g)
    BY DEF Elements, Group!PendingOf
  <2>3. Head(g.pending) <= 0
    BY <1>1, <2>1, <2>2 DEF Consistent, Promises
  <2> QED BY <2>1, <2>3 DEF Group!Executions
<1> QED BY <1>1, <1>3, <1>4

(* TasksExecuted queues what is not under way. *)
LEMMA TasksExecutedIs ==
  ASSUME GroupAssumption, NEW g \in Groups, Promises(g), GroupModes(g), GroupPlaces(g), g.finished = 0, g.current # 0
  PROVE  GroupSound(Group!TasksExecuted(g))
<1>1. PICK e : e = {t \in g.members : g.task[t] \in {"notFound", "finished"}}
  OBVIOUS
<1>2. PICK k : k = [t \in Tasks |-> IF t \in e THEN "waiting" ELSE g.task[t]]
  OBVIOUS
<1>3. PICK a : a = IF e = g.members THEN g.gaps ELSE g.gaps \cup {"executedCanceled"}
  OBVIOUS
<1>4. PICK o : o = g.info \cup (g.members \ g.functions)
  OBVIOUS
<1>5. PICK h : h = [g EXCEPT !.info = o, !.queued = g.queued \cup e, !.task = k, !.gaps = a]
  OBVIOUS
<1>6. h = Group!TasksExecuted(g)
  BY <1>1, <1>2, <1>3, <1>4, <1>5 DEF Group!TasksExecuted
<1>7. e \subseteq g.members /\ g.members \in SUBSET Tasks /\ e \cap Under(g) = {}
  BY <1>1, GroupFields DEF GroupPlaces
<1>8. h \in Groups
  <2>1. k \in [Tasks -> States]
    BY <1>2, GroupFields DEF States
  <2>2. o \in SUBSET Tasks /\ g.queued \cup e \in SUBSET Tasks
    BY <1>4, <1>7, GroupFields
  <2>3. a \in SUBSET Gaps
    BY <1>3, GroupFields DEF Gaps
  <2> QED BY <1>5, <2>1, <2>2, <2>3, Zenon DEF Groups
<1>9. /\ h.made = g.made /\ h.current = g.current /\ h.pending = g.pending /\ h.promise = g.promise
      /\ h.state = g.state /\ h.members = g.members /\ h.functions = g.functions
      /\ h.timer = g.timer /\ h.limited = g.limited /\ h.signal = g.signal
      /\ h.result = g.result /\ h.worker = g.worker /\ h.finished = g.finished
      /\ h.queued = g.queued \cup e /\ h.info = o /\ h.task = k /\ h.gaps = a
  BY <1>5 DEF Groups
<1>10. /\ g.gaps \subseteq h.gaps
       /\ h.gaps = {} => g.gaps = {} /\ e = g.members
  BY <1>3, <1>9
<1>11. /\ AtWorkers(h) = AtWorkers(g)
       /\ Under(h) = Under(g) \cup e
       /\ Under(h) \subseteq h.members
  <2>1. AtWorkers(h) = AtWorkers(g)
    BY <1>9 DEF AtWorkers
  <2>2. Under(h) = Under(g) \cup e
    BY <1>9, <2>1 DEF Under
  <2>3. Under(g) \subseteq g.members
    BY DEF GroupPlaces
  <2> QED BY <1>7, <1>9, <2>1, <2>2, <2>3
<1>12. Promises(h)
  BY <1>9, PromisesKept
<1>13. GroupModes(h)
  BY <1>9, <1>10 DEF GroupModes
<1>14. GroupPlaces(h)
  <2>1. h.queued \cap h.result = {} /\ (h.queued \cup h.result) \cap AtWorkers(h) = {}
    <3>1. g.queued \cap g.result = {} /\ (g.queued \cup g.result) \cap AtWorkers(g) = {}
      BY DEF GroupPlaces
    <3>2. e \cap g.result = {} /\ e \cap AtWorkers(g) = {}
      BY <1>7 DEF Under
    <3> QED BY <1>9, <1>11, <3>1, <3>2
  <2>2. ASSUME NEW t \in Under(h)
        PROVE  h.task[t] \notin {"notFound", "finished"}
    <3>1. t \in Tasks
      BY <1>8, <2>2, NumbersOf
    <3>2. CASE t \in e
      BY <1>2, <1>9, <3>1, <3>2
    <3>3. CASE t \notin e
      <4>1. t \in Under(g)
        BY <1>11, <2>2, <3>3
      <4>2. g.task[t] \notin {"notFound", "finished"}
        BY <4>1 DEF GroupPlaces
      <4> QED BY <1>2, <1>9, <3>1, <3>3, <4>2
    <3> QED BY <3>2, <3>3
  <2>3. "spoilt" \notin h.gaps => h.functions \subseteq h.info
    BY <1>4, <1>9, <1>10 DEF GroupPlaces
  <2>4. h.gaps = {} => Under(h) \subseteq h.info
    <3>1. ASSUME h.gaps = {}
          PROVE  Under(h) \subseteq h.info
      <4>1. g.gaps = {} /\ "spoilt" \notin g.gaps
        BY <1>10, <3>1
      <4>2. g.functions \subseteq g.info
        BY <4>1 DEF GroupPlaces
      <4> QED BY <1>4, <1>9, <1>11, <4>2
    <3> QED BY <3>1
  <2>5. h.functions \subseteq h.members
    BY <1>9 DEF GroupPlaces
  <2> QED BY <1>11, <2>1, <2>2, <2>3, <2>4, <2>5 DEF GroupPlaces
<1>15. Counts(h)
  <2>1. Cardinality(h.members) \in Nat /\ Cardinality(Under(h)) \in Nat /\ h.members \in SUBSET Tasks
    BY <1>8, NumbersOf, GroupFields
  <2>2. Cardinality(Under(h)) <= Cardinality(h.members)
    BY <1>11, <2>1, PartIsSmaller
  <2>3. h.gaps = {} => Under(h) = h.members
    BY <1>9, <1>10, <1>11
  <2>4. PICK m \in Nat, u \in Nat : m = Cardinality(h.members) /\ u = Cardinality(Under(h))
    BY <2>1
  <2>5. u <= m /\ (h.gaps = {} => u = m)
    BY <2>2, <2>3, <2>4
  <2>6. 0 + u = u /\ 0 <= m
    OBVIOUS
  <2> QED BY <1>9, <2>4, <2>5, <2>6 DEF Counts
<1>16. Behind(h)
  BY <1>9 DEF Behind
<1> QED BY <1>6, <1>8, <1>12, <1>13, <1>14, <1>15, <1>16 DEF GroupSound, Consistent

(* ExecuteGroup: the new execution is over at once, is current, or waits.  *)
LEMMA ExecuteGroupKeepsInv ==
  ASSUME GroupAssumption, GroupInv, NEW timeout \in BOOLEAN, Group!ExecuteGroup(timeout)
  PROVE  GroupInv'
<1>1. state \in Groups /\ Consistent(state) /\ Behind(state)
  BY DEF GroupInv, GroupSound
<1>2. /\ state.made < MaxGroupExecutions /\ ~state.limited /\ ~state.timer
      /\ state.state # "timeout"
      /\ timeout => state.state = "notFound"
  BY <1>1 DEF Group!ExecuteGroup, Consistent, GroupModes
<1>3. timeout => state.current = 0 /\ state.pending = <<>>
  BY <1>1, <1>2, NewGroupIsBlank
<1>4. PICK i : i = state.made + 1
  OBVIOUS
<1>5. /\ i \in Group!Executions /\ i > state.made /\ state.made \in Nat /\ i # 0
      /\ i \in 0..MaxGroupExecutions /\ state.current \in 0..MaxGroupExecutions
      /\ state.made <= i
  <2>1. state.made \in 0..MaxGroupExecutions /\ state.current \in 0..MaxGroupExecutions
    BY <1>1, GroupFields
  <2> QED BY <1>2, <1>4, <2>1 DEF Group!Executions, GroupAssumption
<1>6. Promises(state)
  BY <1>1 DEF Consistent
<1>7. state.current # i /\ i \notin Group!PendingOf(state) /\ state.promise[i] = "none"
  BY <1>5, <1>6 DEF Promises
<1>8. PICK q : q = [state.promise EXCEPT ![i] = "open"]
  OBVIOUS
<1>9. /\ q \in [Group!Executions -> {"none", "open", "resolved", "rejected", "twice"}] /\ q[i] = "open"
      /\ \A j \in Group!Executions : j # i => q[j] = state.promise[j]
  <2>1. state.promise \in [Group!Executions -> {"none", "open", "resolved", "rejected", "twice"}]
    BY <1>1, GroupFields
  <2> QED BY <1>5, <1>8, <2>1
<1>10. PICK s : s = IF state.state \in {"notFound", "finished", "canceled"} THEN "waiting" ELSE state.state
  OBVIOUS
<1>11. s \in States /\ s # "notFound" /\ s # "timeout"
  <2>1. state.state \in States
    BY <1>1, GroupFields
  <2> QED BY <1>2, <1>10, <2>1 DEF States
<1>12. PICK g : g = [state EXCEPT !.made = i, !.promise = q, !.limited = timeout, !.state = s]
  OBVIOUS
<1>13. g \in Groups
  BY <1>1, <1>5, <1>9, <1>11, <1>12, Zenon DEF Groups
<1>14. g = [state EXCEPT !.made = i, !.promise[i] = "open", !.limited = timeout,
                         !.state = IF @ \in {"notFound", "finished", "canceled"} THEN "waiting" ELSE @]
  BY <1>8, <1>10, <1>12
<1>15. state' = IF g.members = {} THEN [Group!Settled(g, {i}, "resolved") EXCEPT !.state = "finished"]
                ELSE IF g.current = 0 THEN Group!TasksExecuted([Group!Begun(g, i) EXCEPT !.timer = timeout])
                ELSE [g EXCEPT !.pending = Append(@, i)]
  BY <1>4, <1>14 DEF Group!ExecuteGroup
<1>16. /\ g.made = i /\ g.promise = q /\ g.limited = timeout /\ g.state = s
       /\ g.current = state.current /\ g.pending = state.pending /\ g.finished = state.finished
       /\ g.members = state.members /\ g.functions = state.functions
       /\ g.timer = state.timer /\ g.signal = state.signal /\ g.gaps = state.gaps
       /\ g.info = state.info /\ g.task = state.task
       /\ g.queued = state.queued /\ g.result = state.result /\ g.worker = state.worker
  BY <1>1, <1>12 DEF Groups
<1>17. GroupPlaces(g)
  BY <1>1, <1>16, GroupPlacesKept DEF Consistent
<1>18. Group!PendingOf(g) = Group!PendingOf(state) /\ Group!PendingOf(state) = Elements(state.pending)
       /\ Group!PendingOf(state) \subseteq Group!Executions
  <2>1. state.pending \in Seq(Group!Executions)
    BY <1>1, GroupFields
  <2>2. \A n \in 1..Len(state.pending) : state.pending[n] \in Group!Executions
    BY <2>1, ElementOfSeq
  <2> QED BY <1>16, <2>2 DEF Group!PendingOf, Elements
<1>19. /\ \A j \in Group!PendingOf(state) : j <= i
       /\ state.current <= i
       /\ \A j \in Group!Executions : j > i => j > state.made /\ j # i
  <2>1. /\ \A j \in Group!PendingOf(state) : j \in Nat /\ j <= state.made
        /\ state.current \in Nat /\ state.current <= state.made
    BY <1>5, <1>6, <1>18 DEF Promises, Group!Executions
  <2>2. \A j \in Group!Executions : j \in Nat
    BY DEF Group!Executions
  <2>3. i \in Nat
    BY <1>5
  <2> QED BY <1>4, <1>5, <2>1, <2>2, <2>3
<1>20. CASE g.members = {}
  <2>1. AllOpen(g, {i})
    BY <1>9, <1>16 DEF AllOpen
  <2>2. GroupSettles(g, {i}, "resolved", Group!Settled(g, {i}, "resolved"))
    BY <1>13, <2>1, GroupSettledIs
  <2>3. PICK r \in [Group!Executions -> {"none", "open", "resolved", "rejected", "twice"}] :
          /\ Group!Settled(g, {i}, "resolved") = [g EXCEPT !.promise = r]
          /\ \A j \in Group!Executions : j # i => r[j] = q[j]
          /\ r[i] = "resolved"
    BY <1>5, <1>16, <2>2 DEF GroupSettles
  <2>4. PICK h : h = [g EXCEPT !.promise = r, !.state = "finished"]
    OBVIOUS
  <2>5. h \in Groups
    <3>1. "finished" \in States
      BY DEF States
    <3> QED BY <1>13, <2>4, <3>1, Zenon DEF Groups
  <2>6. h = state'
    BY <1>13, <1>15, <1>20, <2>3, <2>4 DEF Groups
  <2>7. /\ h.made = i /\ h.promise = r /\ h.limited = timeout /\ h.state = "finished"
        /\ h.current = state.current /\ h.pending = state.pending /\ h.finished = state.finished
        /\ h.members = state.members /\ h.functions = state.functions
        /\ h.timer = state.timer /\ h.signal = state.signal /\ h.gaps = state.gaps
        /\ h.info = state.info /\ h.task = state.task
        /\ h.queued = state.queued /\ h.result = state.result /\ h.worker = state.worker
    BY <1>13, <1>16, <2>4 DEF Groups
  <2>8. Group!PendingOf(h) = Group!PendingOf(state)
    BY <2>7 DEF Group!PendingOf
  <2>9. Promises(h)
    <3>1. ASSUME NEW j \in Group!Executions
          PROVE  /\ j > h.made => h.promise[j] = "none"
                 /\ h.promise[j] = "open" <=> j = h.current \/ j \in Group!PendingOf(h)
                 /\ h.promise[j] # "twice"
      <4>1. CASE j = i
        <5>1. h.promise[j] = "resolved" /\ j # h.current /\ j \notin Group!PendingOf(h)
          BY <1>7, <2>3, <2>7, <2>8, <4>1
        <5>2. ~(j > h.made)
          BY <1>19, <2>7, <4>1
        <5> QED BY <5>1, <5>2
      <4>2. CASE j # i
        <5>1. h.promise[j] = state.promise[j]
          BY <1>9, <2>3, <2>7, <4>2
        <5>2. j > h.made => j > state.made
          BY <1>19, <2>7
        <5> QED BY <1>6, <2>7, <2>8, <5>1, <5>2 DEF Promises
      <4> QED BY <4>1, <4>2
    <3> QED BY <1>6, <1>19, <2>7, <2>8, <3>1 DEF Promises
  <2>10. GroupModes(h)
    BY <1>1, <1>2, <1>3, <2>7 DEF Consistent, GroupModes
  <2>11. GroupPlaces(h)
    BY <1>1, <2>7, GroupPlacesKept DEF Consistent
  <2>12. Counts(h)
    <3>1. Under(h) = Under(state)
      BY <2>7 DEF Under, AtWorkers
    <3> QED BY <1>1, <2>7, <3>1, CountsKept DEF Consistent
  <2>13. Behind(h)
    BY <1>1, <2>7 DEF Behind
  <2> QED BY <2>5, <2>6, <2>9, <2>10, <2>11, <2>12, <2>13 DEF GroupInv, GroupSound, Consistent
<1>21. CASE g.members # {} /\ g.current = 0
  <2>1. PICK h : h = [g EXCEPT !.current = i, !.finished = 0, !.failed = FALSE, !.timer = timeout]
    OBVIOUS
  <2>2. h \in Groups
    <3>1. 0 \in Nat
      OBVIOUS
    <3> QED BY <1>5, <1>13, <2>1, <3>1, Zenon DEF Groups
  <2>3. h = [Group!Begun(g, i) EXCEPT !.timer = timeout]
    BY <1>13, <2>1 DEF Group!Begun, Groups
  <2>4. /\ h.made = i /\ h.promise = q /\ h.limited = timeout /\ h.state = s
        /\ h.current = i /\ h.pending = state.pending /\ h.finished = 0
        /\ h.members = state.members /\ h.functions = state.functions
        /\ h.timer = timeout /\ h.signal = state.signal /\ h.gaps = state.gaps
        /\ h.info = state.info /\ h.task = state.task
        /\ h.queued = state.queued /\ h.result = state.result /\ h.worker = state.worker
    BY <1>13, <1>16, <2>1 DEF Groups
  <2>5. Group!PendingOf(h) = Group!PendingOf(state)
    BY <2>4 DEF Group!PendingOf
  <2>6. Promises(h)
    <3>1. ASSUME NEW j \in Group!Executions
          PROVE  /\ j > h.made => h.promise[j] = "none"
                 /\ h.promise[j] = "open" <=> j = h.current \/ j \in Group!PendingOf(h)
                 /\ h.promise[j] # "twice"
      <4>1. CASE j = i
        <5>1. h.promise[j] = "open" /\ j = h.current
          BY <1>9, <2>4, <4>1
        <5>2. ~(j > h.made)
          BY <1>19, <2>4, <4>1
        <5> QED BY <5>1, <5>2
      <4>2. CASE j # i
        <5>1. h.promise[j] = state.promise[j] /\ j # h.current
          BY <1>9, <2>4, <4>2
        <5>2. j > h.made => j > state.made
          BY <1>19, <2>4
        <5>3. j # state.current
          <6>1. 0 \notin Group!Executions
            BY DEF Group!Executions
          <6> QED BY <1>16, <1>21, <6>1
        <5> QED BY <1>6, <2>4, <2>5, <5>1, <5>2, <5>3 DEF Promises
      <4> QED BY <4>1, <4>2
    <3>2. i <= i
      BY <1>5
    <3> QED BY <1>6, <1>7, <1>19, <2>4, <2>5, <3>1, <3>2 DEF Promises
  <2>7. GroupModes(h)
    BY <1>1, <1>2, <1>3, <1>11, <2>4 DEF Consistent, GroupModes
  <2>8. GroupPlaces(h)
    BY <1>1, <2>4, GroupPlacesKept DEF Consistent
  <2>9. GroupSound(Group!TasksExecuted(h))
    BY <1>5, <2>2, <2>4, <2>6, <2>7, <2>8, TasksExecutedIs
  <2> QED BY <1>15, <1>21, <2>3, <2>9 DEF GroupInv
<1>22. CASE g.members # {} /\ g.current # 0
  <2>1. PICK p : p = Append(state.pending, i)
    OBVIOUS
  <2>2. /\ p \in Seq(Group!Executions) /\ p # <<>>
        /\ Elements(p) = Elements(state.pending) \cup {i}
        /\ Injective(p)
    <3>1. state.pending \in Seq(Group!Executions) /\ Injective(state.pending) /\ i \notin Elements(state.pending)
      BY <1>1, <1>6, <1>7, <1>18, GroupFields DEF Promises
    <3> QED BY <1>5, <2>1, <3>1, AppendedIs
  <2>3. PICK h : h = [g EXCEPT !.pending = p]
    OBVIOUS
  <2>4. h \in Groups
    BY <1>13, <2>2, <2>3, Zenon DEF Groups
  <2>5. h = state'
    BY <1>15, <1>16, <1>22, <2>1, <2>3
  <2>6. /\ h.made = i /\ h.promise = q /\ h.limited = timeout /\ h.state = s
        /\ h.current = state.current /\ h.pending = p /\ h.finished = state.finished
        /\ h.members = state.members /\ h.functions = state.functions
        /\ h.timer = state.timer /\ h.signal = state.signal /\ h.gaps = state.gaps
        /\ h.info = state.info /\ h.task = state.task
        /\ h.queued = state.queued /\ h.result = state.result /\ h.worker = state.worker
    BY <1>13, <1>16, <2>3 DEF Groups
  <2>7. ~timeout /\ h.current # 0
    BY <1>3, <1>16, <1>22, <2>6
  <2>8. Group!PendingOf(h) = Group!PendingOf(state) \cup {i}
    <3>1. Group!PendingOf(h) = Elements(h.pending)
      BY DEF Group!PendingOf, Elements
    <3> QED BY <1>18, <2>2, <2>6, <3>1
  <2>9. Promises(h)
    <3>1. ASSUME NEW j \in Group!Executions
          PROVE  /\ j > h.made => h.promise[j] = "none"
                 /\ h.promise[j] = "open" <=> j = h.current \/ j \in Group!PendingOf(h)
                 /\ h.promise[j] # "twice"
      <4>1. CASE j = i
        <5>1. h.promise[j] = "open" /\ j \in Group!PendingOf(h)
          BY <1>9, <2>6, <2>8, <4>1
        <5>2. ~(j > h.made)
          BY <1>19, <2>6, <4>1
        <5> QED BY <5>1, <5>2
      <4>2. CASE j # i
        <5>1. h.promise[j] = state.promise[j]
          BY <1>9, <2>6, <4>2
        <5>2. j > h.made => j > state.made
          BY <1>19, <2>6
        <5> QED BY <1>6, <2>6, <2>8, <4>2, <5>1, <5>2 DEF Promises
      <4> QED BY <4>1, <4>2
    <3>2. i <= i
      BY <1>5
    <3>3. h.current <= h.made /\ (\A j \in Group!PendingOf(h) : j <= h.made) /\ h.current \notin Group!PendingOf(h)
      BY <1>6, <1>7, <1>19, <2>6, <2>8, <3>2 DEF Promises
    <3> QED BY <2>2, <2>6, <3>1, <3>3 DEF Promises
  <2>10. GroupModes(h)
    BY <1>1, <1>2, <1>11, <2>6, <2>7 DEF Consistent, GroupModes
  <2>11. GroupPlaces(h)
    BY <1>1, <2>6, GroupPlacesKept DEF Consistent
  <2>12. Counts(h)
    <3>1. Under(h) = Under(state)
      BY <2>6 DEF Under, AtWorkers
    <3> QED BY <1>1, <2>6, <3>1, CountsKept DEF Consistent
  <2>13. Behind(h)
    BY <2>7 DEF Behind
  <2> QED BY <2>4, <2>5, <2>9, <2>10, <2>11, <2>12, <2>13 DEF GroupInv, GroupSound, Consistent
<1> QED BY <1>20, <1>21, <1>22

(* AddTask adds a task before the first execution. *)
LEMMA AddTaskKeepsInv ==
  ASSUME GroupAssumption, GroupInv, NEW t \in Tasks, Group!AddTask(t)
  PROVE  GroupInv'
<1>1. state \in Groups /\ Consistent(state) /\ Behind(state) /\ state.state = "notFound" /\ t \notin state.members
  BY DEF GroupInv, GroupSound, Group!AddTask
<1>2. PICK f, o : /\ state' = [state EXCEPT !.members = state.members \cup {t}, !.functions = f, !.info = o]
                  /\ \/ f = state.functions /\ o = state.info
                     \/ f = state.functions \cup {t} /\ o = state.info \cup {t}
  <2>1. CASE state' = [state EXCEPT !.members = @ \cup {t}]
    <3>1. state' = [state EXCEPT !.members = state.members \cup {t}, !.functions = state.functions, !.info = state.info]
      BY <1>1, <2>1 DEF Groups
    <3> QED BY <3>1
  <2>2. CASE state' = [state EXCEPT !.members = @ \cup {t}, !.functions = @ \cup {t}, !.info = @ \cup {t}]
    BY <2>2
  <2> QED BY <2>1, <2>2 DEF Group!AddTask
<1>3. PICK h : h = state'
  OBVIOUS
<1>4. h \in Groups
  <2>1. state.members \cup {t} \in SUBSET Tasks /\ f \in SUBSET Tasks /\ o \in SUBSET Tasks
    BY <1>1, <1>2, GroupFields
  <2> QED BY <1>1, <1>2, <1>3, <2>1, Zenon DEF Groups
<1>5. /\ h.made = state.made /\ h.promise = state.promise /\ h.limited = state.limited /\ h.state = state.state
      /\ h.current = state.current /\ h.pending = state.pending /\ h.finished = state.finished
      /\ h.members = state.members \cup {t} /\ h.functions = f
      /\ h.timer = state.timer /\ h.signal = state.signal /\ h.gaps = state.gaps
      /\ h.info = o /\ h.task = state.task
      /\ h.queued = state.queued /\ h.result = state.result /\ h.worker = state.worker
  BY <1>1, <1>2, <1>3 DEF Groups
<1>6. Promises(h)
  BY <1>1, <1>5, PromisesKept DEF Consistent
<1>7. GroupModes(h)
  BY <1>1, <1>5 DEF Consistent, GroupModes
<1>8. Under(h) = Under(state) /\ AtWorkers(h) = AtWorkers(state)
  BY <1>5 DEF Under, AtWorkers
<1>9. GroupPlaces(h)
  <2>1. GroupPlaces(state)
    BY <1>1 DEF Consistent
  <2>2. f \subseteq h.members /\ state.info \subseteq o
    BY <1>2, <1>5, <2>1 DEF GroupPlaces
  <2>3. "spoilt" \notin h.gaps => f \subseteq o
    BY <1>2, <1>5, <2>1 DEF GroupPlaces
  <2> QED BY <1>5, <1>8, <2>1, <2>2, <2>3 DEF GroupPlaces
<1>10. Counts(h)
  <2>1. Cardinality(state.members) <= Cardinality(h.members)
    <3>1. h.members \in SUBSET Tasks /\ state.members \in SUBSET h.members
      BY <1>4, <1>5, GroupFields
    <3> QED BY <3>1, PartIsSmaller
  <2>2. PICK m \in Nat, n \in Nat, c \in Nat :
          m = Cardinality(state.members) /\ n = Cardinality(h.members) /\ c = state.finished
    BY <1>1, <1>4, NumbersOf, GroupFields
  <2>3. c <= n
    <3>1. c <= m /\ m <= n
      BY <1>1, <2>1, <2>2 DEF Consistent, Counts
    <3> QED BY <3>1
  <2>4. h.current = 0
    BY <1>1, <1>5, NewGroupIsBlank
  <2> QED BY <1>5, <2>2, <2>3, <2>4 DEF Counts
<1> QED BY <1>1, <1>3, <1>4, <1>5, <1>6, <1>7, <1>9, <1>10 DEF GroupInv, GroupSound, Consistent, Behind

----------------------------------------------------------------------------
(* The workers. *)

(* A worker takes a task out of a queue. *)
LEMMA GroupDequeueKeepsInv ==
  ASSUME GroupAssumption, GroupInv, NEW t \in Tasks, Group!Dequeue(t)
  PROVE  GroupInv'
<1>1. /\ state \in Groups /\ Consistent(state) /\ Behind(state)
      /\ t \in state.queued /\ state.worker[t] = "none"
  BY DEF GroupInv, GroupSound, Group!Dequeue
<1>2. PICK w : w = [state.worker EXCEPT ![t] = "dequeued"]
  OBVIOUS
<1>3. PICK h : h = [state EXCEPT !.queued = state.queued \ {t}, !.worker = w]
  OBVIOUS
<1>4. h = state'
  BY <1>2, <1>3 DEF Group!Dequeue
<1>5. /\ w \in [Tasks -> {"none", "dequeued", "updated", "checked", "performing"}] /\ w[t] = "dequeued"
      /\ \A u \in Tasks : u # t => w[u] = state.worker[u]
  BY <1>1, <1>2, GroupFields
<1>6. h \in Groups
  <2>1. state.queued \ {t} \in SUBSET Tasks
    BY <1>1, GroupFields
  <2> QED BY <1>1, <1>3, <1>5, <2>1, Zenon DEF Groups
<1>7. /\ h.made = state.made /\ h.promise = state.promise /\ h.limited = state.limited /\ h.state = state.state
      /\ h.current = state.current /\ h.pending = state.pending /\ h.finished = state.finished
      /\ h.members = state.members /\ h.functions = state.functions
      /\ h.timer = state.timer /\ h.signal = state.signal /\ h.gaps = state.gaps
      /\ h.info = state.info /\ h.task = state.task
      /\ h.queued = state.queued \ {t} /\ h.result = state.result /\ h.worker = w
  BY <1>1, <1>3 DEF Groups
<1>8. AtWorkers(h) = AtWorkers(state) \cup {t}
  BY <1>5, <1>7 DEF AtWorkers
<1>9. Under(h) = Under(state)
  BY <1>1, <1>7, <1>8 DEF Under
<1>10. Promises(h)
  BY <1>1, <1>7, PromisesKept DEF Consistent
<1>11. GroupModes(h)
  BY <1>1, <1>7 DEF Consistent, GroupModes
<1>12. GroupPlaces(h)
  <2>1. GroupPlaces(state)
    BY <1>1 DEF Consistent
  <2>2. h.queued \cap h.result = {} /\ (h.queued \cup h.result) \cap AtWorkers(h) = {}
    BY <1>1, <1>7, <1>8, <2>1 DEF GroupPlaces
  <2> QED BY <1>7, <1>9, <2>1, <2>2 DEF GroupPlaces
<1>13. Counts(h)
  BY <1>1, <1>7, <1>9, CountsKept DEF Consistent
<1> QED BY <1>1, <1>4, <1>6, <1>7, <1>10, <1>11, <1>12, <1>13 DEF GroupInv, GroupSound, Consistent, Behind

(* A worker that is at the task goes on, and may change its state, and     *)
(* that of the group.                                                      *)
LEMMA WorkerGoesOn ==
  ASSUME GroupAssumption, NEW g \in Groups, GroupSound(g), NEW t \in AtWorkers(g),
         NEW step \in {"updated", "checked", "performing"},
         NEW task \in {g.task[t], "running"}, NEW status \in {g.state, "running"}
  PROVE  GroupSound([g EXCEPT !.worker[t] = step, !.task[t] = task, !.state = status])
<1>1. Consistent(g) /\ Behind(g) /\ t \in Tasks /\ g.worker[t] # "none"
  BY DEF GroupSound, AtWorkers
<1>2. PICK w : w = [g.worker EXCEPT ![t] = step]
  OBVIOUS
<1>3. PICK k : k = [g.task EXCEPT ![t] = task]
  OBVIOUS
<1>4. PICK h : h = [g EXCEPT !.worker = w, !.task = k, !.state = status]
  OBVIOUS
<1>5. h = [g EXCEPT !.worker[t] = step, !.task[t] = task, !.state = status]
  BY <1>2, <1>3, <1>4
<1>6. /\ w \in [Tasks -> {"none", "dequeued", "updated", "checked", "performing"}] /\ w[t] # "none"
      /\ \A u \in Tasks : u # t => w[u] = g.worker[u]
  BY <1>1, <1>2, GroupFields
<1>7. /\ k \in [Tasks -> States] /\ status \in States
      /\ \A u \in Tasks : k[u] = g.task[u] \/ k[u] = "running"
  BY <1>1, <1>3, GroupFields DEF States
<1>8. h \in Groups
  BY <1>4, <1>6, <1>7, Zenon DEF Groups
<1>9. /\ h.made = g.made /\ h.promise = g.promise /\ h.limited = g.limited /\ h.state = status
      /\ h.current = g.current /\ h.pending = g.pending /\ h.finished = g.finished
      /\ h.members = g.members /\ h.functions = g.functions
      /\ h.timer = g.timer /\ h.signal = g.signal /\ h.gaps = g.gaps
      /\ h.info = g.info /\ h.task = k
      /\ h.queued = g.queued /\ h.result = g.result /\ h.worker = w
  BY <1>4 DEF Groups
<1>10. AtWorkers(h) = AtWorkers(g)
  BY <1>1, <1>6, <1>9 DEF AtWorkers
<1>11. Under(h) = Under(g) /\ Under(g) \subseteq Tasks
  BY <1>9, <1>10, NumbersOf DEF Under
<1>12. Promises(h)
  BY <1>1, <1>9, PromisesKept DEF Consistent
<1>13. GroupModes(h)
  BY <1>1, <1>9 DEF Consistent, GroupModes
<1>14. GroupPlaces(h)
  <2>1. GroupPlaces(g)
    BY <1>1 DEF Consistent
  <2>2. \A u \in Under(h) : h.task[u] \notin {"notFound", "finished"}
    BY <1>7, <1>9, <1>11, <2>1 DEF GroupPlaces
  <2> QED BY <1>9, <1>10, <1>11, <2>1, <2>2 DEF GroupPlaces
<1>15. Counts(h)
  BY <1>1, <1>9, <1>11, CountsKept DEF Consistent
<1>16. GroupSound(h)
  BY <1>1, <1>8, <1>9, <1>12, <1>13, <1>14, <1>15 DEF GroupSound, Consistent, Behind
<1> QED BY <1>5, <1>16

(* UpdateTask marks the task as running, unless it is canceled.            *)
LEMMA GroupUpdateTaskKeepsInv ==
  ASSUME GroupAssumption, GroupInv, NEW t \in Tasks, Group!UpdateTask(t)
  PROVE  GroupInv'
<1>1. state \in Groups /\ GroupSound(state) /\ t \in AtWorkers(state)
  BY DEF GroupInv, GroupSound, AtWorkers, Group!UpdateTask
<1>2. PICK task \in {state.task[t], "running"} :
        task = IF state.task[t] \in {"canceled", "timeout"} THEN state.task[t] ELSE "running"
  OBVIOUS
<1>3. state' = [state EXCEPT !.worker[t] = "updated", !.task[t] = task, !.state = state.state]
  <2>1. state' = [state EXCEPT !.worker[t] = "updated", !.task[t] = task]
    BY <1>2 DEF Group!UpdateTask
  <2>2. PICK w, k : w = [state.worker EXCEPT ![t] = "updated"] /\ k = [state.task EXCEPT ![t] = task]
    OBVIOUS
  <2>3. [state EXCEPT !.worker = w, !.task = k] = [state EXCEPT !.worker = w, !.task = k, !.state = state.state]
    BY <1>1 DEF Groups
  <2> QED BY <2>1, <2>2, <2>3
<1>4. "updated" \in {"updated", "checked", "performing"} /\ state.state \in {state.state, "running"}
  OBVIOUS
<1>5. GroupSound([state EXCEPT !.worker[t] = "updated", !.task[t] = task, !.state = state.state])
  BY <1>1, <1>4, WorkerGoesOn
<1> QED BY <1>3, <1>5 DEF GroupInv

(* UpdateGroupState and SetGroupRunning mark the group as running, unless  *)
(* it is seen to be canceled.                                              *)
LEMMA UpdateGroupStateKeepsInv ==
  ASSUME GroupAssumption, GroupInv, NEW t \in Tasks,
         Group!UpdateGroupState(t) \/ Group!SetGroupRunning(t)
  PROVE  GroupInv'
<1>1. state \in Groups /\ GroupSound(state) /\ t \in AtWorkers(state)
  BY DEF GroupInv, GroupSound, AtWorkers, Group!UpdateGroupState, Group!SetGroupRunning
<1>2. PICK step \in {"updated", "checked", "performing"}, status \in {state.state, "running"} :
        state' = [state EXCEPT !.worker[t] = step, !.state = status]
  <2>1. CASE Group!SetGroupRunning(t)
    BY <2>1 DEF Group!SetGroupRunning
  <2>2. CASE Group!UpdateGroupState(t)
    <3>1. PICK step \in {"updated", "checked", "performing"} : state' = [state EXCEPT !.worker[t] = step]
      BY <2>2 DEF Group!UpdateGroupState
    <3>2. PICK w : w = [state.worker EXCEPT ![t] = step]
      OBVIOUS
    <3>3. [state EXCEPT !.worker = w] = [state EXCEPT !.worker = w, !.state = state.state]
      BY <1>1 DEF Groups
    <3>4. state' = [state EXCEPT !.worker[t] = step, !.state = state.state]
      BY <3>1, <3>2, <3>3
    <3> QED BY <3>4
  <2> QED BY <2>1, <2>2
<1>3. state' = [state EXCEPT !.worker[t] = step, !.task[t] = state.task[t], !.state = status]
  <2>1. PICK w, k : w = [state.worker EXCEPT ![t] = step] /\ k = [state.task EXCEPT ![t] = state.task[t]]
    OBVIOUS
  <2>2. k = state.task
    BY <1>1, <2>1, GroupFields
  <2>3. [state EXCEPT !.worker = w, !.state = status] = [state EXCEPT !.worker = w, !.task = state.task, !.state = status]
    BY <1>1 DEF Groups
  <2> QED BY <1>2, <2>1, <2>2, <2>3
<1>4. state.task[t] \in {state.task[t], "running"}
  OBVIOUS
<1>5. GroupSound([state EXCEPT !.worker[t] = step, !.task[t] = state.task[t], !.state = status])
  BY <1>1, <1>4, WorkerGoesOn
<1> QED BY <1>3, <1>5 DEF GroupInv

(* Perform ends the work at the task, with a result if it has still its    *)
(* information.                                                            *)
LEMMA PerformKeepsInv ==
  ASSUME GroupAssumption, GroupInv, NEW t \in Tasks, Group!Perform(t)
  PROVE  GroupInv'
<1>1. /\ state \in Groups /\ Consistent(state) /\ Behind(state) /\ state.worker[t] = "performing"
  BY DEF GroupInv, GroupSound, Group!Perform
<1>2. PICK w : w = [state.worker EXCEPT ![t] = "none"]
  OBVIOUS
<1>3. PICK r : r = IF t \in state.info THEN state.result \cup {t} ELSE state.result
  OBVIOUS
<1>4. PICK h : h = [state EXCEPT !.worker = w, !.result = r]
  OBVIOUS
<1>5. h = state'
  BY <1>2, <1>3, <1>4 DEF Group!Perform
<1>6. /\ w \in [Tasks -> {"none", "dequeued", "updated", "checked", "performing"}] /\ w[t] = "none"
      /\ \A u \in Tasks : u # t => w[u] = state.worker[u]
  BY <1>1, <1>2, GroupFields
<1>7. h \in Groups
  <2>1. r \in SUBSET Tasks
    BY <1>1, <1>3, GroupFields
  <2> QED BY <1>1, <1>4, <1>6, <2>1, Zenon DEF Groups
<1>8. /\ h.made = state.made /\ h.promise = state.promise /\ h.limited = state.limited /\ h.state = state.state
      /\ h.current = state.current /\ h.pending = state.pending /\ h.finished = state.finished
      /\ h.members = state.members /\ h.functions = state.functions
      /\ h.timer = state.timer /\ h.signal = state.signal /\ h.gaps = state.gaps
      /\ h.info = state.info /\ h.task = state.task
      /\ h.queued = state.queued /\ h.result = r /\ h.worker = w
  BY <1>1, <1>4 DEF Groups
<1>9. AtWorkers(h) = AtWorkers(state) \ {t} /\ t \in AtWorkers(state)
  BY <1>1, <1>6, <1>8 DEF AtWorkers
<1>10. t \notin state.queued /\ t \notin state.result
  BY <1>1, <1>9 DEF Consistent, GroupPlaces
<1>11. /\ t \in state.info => Under(h) = Under(state)
       /\ t \notin state.info => Under(h) = Under(state) \ {t}
  BY <1>3, <1>8, <1>9, <1>10 DEF Under
<1>12. Promises(h)
  BY <1>1, <1>8, PromisesKept DEF Consistent
<1>13. GroupModes(h)
  BY <1>1, <1>8 DEF Consistent, GroupModes
<1>14. GroupPlaces(h)
  <2>1. GroupPlaces(state)
    BY <1>1 DEF Consistent
  <2>2. h.queued \cap h.result = {} /\ (h.queued \cup h.result) \cap AtWorkers(h) = {}
    BY <1>3, <1>8, <1>9, <1>10, <2>1 DEF GroupPlaces
  <2>3. Under(h) \subseteq Under(state)
    BY <1>11
  <2> QED BY <1>8, <2>1, <2>2, <2>3 DEF GroupPlaces
<1>15. Counts(h)
  <2>1. CASE t \in state.info
    BY <1>1, <1>8, <1>11, <2>1, CountsKept DEF Consistent
  <2>2. CASE t \notin state.info
    <3>1. state.gaps # {}
      <4>1. t \in Under(state)
        BY <1>9 DEF Under
      <4> QED BY <1>1, <2>2, <4>1 DEF Consistent, GroupPlaces
    <3>2. Cardinality(Under(h)) <= Cardinality(Under(state))
      <4>1. Under(state) \in SUBSET Tasks /\ Under(h) \in SUBSET Under(state)
        BY <1>1, <1>11, NumbersOf
      <4> QED BY <4>1, PartIsSmaller
    <3>3. PICK m \in Nat, u \in Nat, v \in Nat, c \in Nat :
            /\ m = Cardinality(state.members) /\ u = Cardinality(Under(state)) /\ v = Cardinality(Under(h))
            /\ c = state.finished
      BY <1>1, <1>7, NumbersOf, GroupFields
    <3>4. c <= m /\ (state.current # 0 => c + u <= m)
      BY <1>1, <3>3 DEF Consistent, Counts
    <3>5. v <= u
      BY <3>2, <3>3
    <3>6. state.current # 0 => c + v <= m
      BY <3>4, <3>5
    <3> QED BY <1>8, <3>1, <3>3, <3>4, <3>6 DEF Counts
  <2> QED BY <2>1, <2>2
<1> QED BY <1>1, <1>5, <1>7, <1>8, <1>12, <1>13, <1>14, <1>15 DEF GroupInv, GroupSound, Consistent, Behind

----------------------------------------------------------------------------
(* What follows. *)

(* Init establishes the invariant. *)
LEMMA GroupInitEstablishesInv ==
  ASSUME GroupAssumption, Group!Init
  PROVE  GroupInv
<1>1. <<>> \in Seq(Group!Executions) /\ Len(<<>>) = 0 /\ Elements(<<>>) = {} /\ Injective(<<>>)
  BY EmptyIs
<1>2. state \in Groups
  BY <1>1 DEF Group!Init, Groups, States, GroupAssumption
<1>3. Under(state) = {} /\ AtWorkers(state) = {} /\ Group!PendingOf(state) = {}
  <2>1. Group!PendingOf(state) = Elements(state.pending)
    BY DEF Group!PendingOf, Elements
  <2>2. AtWorkers(state) = {}
    BY DEF Group!Init, AtWorkers
  <2> QED BY <1>1, <2>1, <2>2 DEF Group!Init, Under
<1>4. Promises(state)
  <2>1. 0 \notin Group!Executions
    BY DEF Group!Executions
  <2>2. /\ state.current = 0 /\ state.made = 0 /\ Injective(state.pending)
        /\ \A i \in Group!Executions : state.promise[i] = "none"
    BY <1>1 DEF Group!Init
  <2> QED BY <1>3, <2>1, <2>2 DEF Promises
<1>5. GroupModes(state)
  BY DEF Group!Init, GroupModes
<1>6. GroupPlaces(state)
  BY <1>3 DEF Group!Init, GroupPlaces
<1>7. Counts(state)
  <2>1. Cardinality(state.members) = 0
    BY FS_EmptySet DEF Group!Init
  <2> QED BY <2>1 DEF Group!Init, Counts
<1>8. Behind(state)
  BY DEF Group!Init, Behind
<1> QED BY <1>2, <1>4, <1>5, <1>6, <1>7, <1>8 DEF GroupInv, GroupSound, Consistent

(* Every step keeps it. *)
LEMMA GroupStepKeepsInv ==
  ASSUME GroupAssumption, GroupInv, Group!Next
  PROVE  GroupInv'
<1>1. ASSUME NEW timeout \in BOOLEAN, Group!ExecuteGroup(timeout)
      PROVE  GroupInv'
  BY <1>1, ExecuteGroupKeepsInv
<1>2. CASE Group!CancelGroup
  BY <1>2, CancelGroupKeepsInv
<1>3. CASE Group!TimeoutGroup
  BY <1>3, TimeoutGroupKeepsInv
<1>4. CASE Group!StartRejectResult
  BY <1>4, StartRejectResultKeepsInv
<1>5. ASSUME NEW t \in Tasks,
             \/ Group!AddTask(t) \/ Group!Dequeue(t) \/ Group!UpdateTask(t)
             \/ Group!UpdateGroupState(t) \/ Group!SetGroupRunning(t) \/ Group!Perform(t)
      PROVE  GroupInv'
  BY <1>5, AddTaskKeepsInv, GroupDequeueKeepsInv, GroupUpdateTaskKeepsInv, UpdateGroupStateKeepsInv,
     PerformKeepsInv
<1>6. ASSUME NEW t \in Tasks, NEW success \in BOOLEAN, Group!UpdateGroupInfoByResult(t, success)
      PROVE  GroupInv'
  BY <1>6, UpdateGroupInfoByResultKeepsInv
<1>7. ASSUME NEW t \in Tasks, NEW sameEnv \in BOOLEAN, Group!CancelTask(t, sameEnv)
      PROVE  GroupInv'
  BY <1>7, CancelTaskKeepsInv
<1> QED BY <1>1, <1>2, <1>3, <1>4, <1>5, <1>6, <1>7 DEF Group!Next

(* So does every step that may stutter. *)
LEMMA GroupNextKeepsInv ==
  ASSUME GroupAssumption
  PROVE  GroupInv /\ [Group!Next]_state => GroupInv'
<1>1. GroupInv /\ Group!Next => GroupInv'
  BY GroupStepKeepsInv
<1>2. GroupInv /\ UNCHANGED state => GroupInv'
  BY DEF GroupInv
<1> QED BY <1>1, <1>2

(* The invariant implies the types: what is finished is never more than    *)
(* the tasks.                                                              *)
LEMMA GroupInvImpliesTypeOK ==
  ASSUME GroupAssumption, GroupInv
  PROVE  Group!TypeOK
<1>1. state \in Groups /\ Consistent(state)
  BY DEF GroupInv, GroupSound
<1>2. state.functions \subseteq state.members /\ state.finished <= Cardinality(state.members)
  BY <1>1 DEF Consistent, GroupPlaces, Counts
<1>3. state.finished \in 0..Cardinality(Tasks)
  <2>1. Tasks \in SUBSET Tasks /\ state.members \in SUBSET Tasks
    BY <1>1, GroupFields
  <2>2. Cardinality(Tasks) \in Nat
    BY <2>1, TasksAreFinite
  <2>3. Cardinality(state.members) <= Cardinality(Tasks)
    BY <2>1, PartIsSmaller
  <2>4. PICK m \in Nat, n \in Nat, f \in Nat :
          m = Cardinality(state.members) /\ n = Cardinality(Tasks) /\ f = state.finished
    BY <1>1, <2>2, NumbersOf, GroupFields
  <2>5. f <= m /\ m <= n
    BY <1>2, <2>3, <2>4
  <2>6. f \in 0..n
    BY <2>5
  <2> QED BY <2>4, <2>6
<1>4. \A f \in {"failed", "timer", "limited", "signal"} : state[f] \in BOOLEAN
  <2>1. state.failed \in BOOLEAN /\ state.timer \in BOOLEAN /\ state.limited \in BOOLEAN /\ state.signal \in BOOLEAN
    BY <1>1, GroupFields
  <2> QED BY <2>1
<1>5. \A f \in {"info", "queued", "result"} : state[f] \subseteq Tasks
  <2>1. state.info \in SUBSET Tasks /\ state.queued \in SUBSET Tasks /\ state.result \in SUBSET Tasks
    BY <1>1, GroupFields
  <2> QED BY <2>1
<1>6. /\ state.state \in States /\ state.members \subseteq Tasks
      /\ state.made \in 0..MaxGroupExecutions /\ state.current \in 0..MaxGroupExecutions
      /\ state.pending \in Seq(Group!Executions)
      /\ state.promise \in [Group!Executions -> {"none", "open", "resolved", "rejected", "twice"}]
      /\ state.task \in [Tasks -> States]
      /\ state.worker \in [Tasks -> {"none", "dequeued", "updated", "checked", "performing"}]
  BY <1>1, GroupFields
<1>7. state.finished \in 0..Group!Cardinality(Tasks)
  BY <1>3, SameCardinality
<1> QED BY <1>2, <1>7, <1>4, <1>5, <1>6, Zenon DEF Group!TypeOK, States

(* The invariant implies what must hold of the executions.                 *)
LEMMA GroupInvImpliesSafety ==
  ASSUME GroupInv
  PROVE  Group!SettledOnce /\ Group!Counted
<1>1. Promises(state) /\ Counts(state) /\ Behind(state)
  BY DEF GroupInv, GroupSound, Consistent
<1>2. Group!SettledOnce
  BY <1>1 DEF Group!SettledOnce, Promises
<1>3. Group!Outstanding = Under(state)
  BY DEF Group!Outstanding, Under, AtWorkers
<1>4. Group!Counted
  BY <1>1, <1>3, SameCardinality DEF Group!Counted, Promises, Counts, Behind
<1> QED BY <1>2, <1>4
=============================================================================
