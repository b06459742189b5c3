-------------------------------- MODULE Lists --------------------------------
(***************************************************************************)
(* The linear containers of js_util_module/container, as their TypeScript  *)
(* implements them: ArrayList, Vector and Stack on numbered properties,    *)
(* Queue and Deque on a ring of them, List and LinkedList on nodes.  Each  *)
(* runs next to the sequence it stands for, on which the same calls are    *)
(* made.  Where the code is known to leave its contract (gap) it stops.    *)
(***************************************************************************)
EXTENDS Integers, Sequences, SequencesExt

CONSTANTS
  MaxLength,  \* bound: no container gets longer
  Capacity    \* of a new container (the code: 10, for the rings 8)

VARIABLE lists

Kinds == {"ArrayList", "Vector", "Stack", "Queue", "Deque", "List", "LinkedList"}
Arrays == {"ArrayList", "Vector", "Stack"}
Rings == {"Queue", "Deque"}

Undefined == 0
NotFound == -1
Error == -2     \* the call throws
Elements == 1..2
Indexes == -1..MaxLength
Places == 0..2 * MaxLength

(* An array has double its capacity, which may become a half.              *)
(* lists.same: the last call has returned what it would on the sequence    *)
TypeOK ==
  /\ lists.kind \in Kinds /\ lists.gap \in BOOLEAN /\ lists.same \in BOOLEAN
  /\ lists.ref \in Seq(Elements) /\ Len(lists.ref) <= MaxLength
  /\ lists.kind \in Arrays \cup Rings => lists.c.cells \in [Places -> Elements \cup {Undefined}]
  /\ lists.kind \in Rings => lists.c.front \in Places /\ lists.c.rear \in Places /\ lists.c.capacity \in Nat
  /\ lists.kind \in Arrays => lists.c.num \in Int /\ lists.c.doubled \in Nat
  /\ lists.kind \in {"List", "LinkedList"} => lists.c.num \in Int /\ lists.c.chain \in Seq(Elements)

New(kind) ==
  CASE kind \in Arrays -> [cells |-> [p \in Places |-> Undefined], num |-> 0, doubled |-> 2 * Capacity]
    [] kind \in Rings  -> [cells |-> [p \in Places |-> Undefined], front |-> 0, rear |-> 0, capacity |-> Capacity]
    [] OTHER           -> [chain |-> <<>>, tail |-> Undefined, num |-> 0]

Init == \E kind \in Kinds : lists = [kind |-> kind, c |-> New(kind), ref |-> <<>>, gap |-> FALSE, same |-> TRUE]

Answer(c, out) == [c |-> c, out |-> out]
Throws(c) == Answer(c, Error)

(* checkRangeError: a negative maximum counts as 0.                        *)
InRange(i, min, max) == min <= i /\ i <= (IF max < 0 THEN 0 ELSE max)

----------------------------------------------------------------------------
(* Arrays *)

Grown(c, doubledFull) == IF 2 * c.num = c.doubled THEN [c EXCEPT !.doubled = doubledFull] ELSE c
AddCell(c, e) == [c EXCEPT !.cells[c.num] = e, !.num = @ + 1]
Shifted(c, e, i) ==
  [c EXCEPT !.num = @ + 1,
            !.cells = [p \in Places |-> IF p = i THEN e ELSE IF p \in i + 1..c.num THEN c.cells[p - 1] ELSE c.cells[p]]]

(* The elements from "to" on move to "from"; those behind them stay.       *)
Closed(c, from, to) ==
  [c EXCEPT !.num = @ - (to - from),
            !.cells = [p \in Places |-> IF p \in from..c.num - 1 - (to - from) THEN c.cells[p + (to - from)]
                                                                              ELSE c.cells[p]]]

IndexOf(c, e) ==
  LET at == {p \in 0..c.num - 1 : c.cells[p] = e} IN IF at = {} THEN NotFound ELSE CHOOSE p \in at : \A q \in at : p <= q
LastIndexOf(c, e) ==
  LET at == {p \in 0..c.num - 1 : c.cells[p] = e} IN IF at = {} THEN NotFound ELSE CHOOSE p \in at : \A q \in at : p >= q
ToArray(c) == [k \in 1..c.num |-> c.cells[k - 1]]

(* One pass moves the greatest of the first n - i elements to their end.   *)
Pass(s, i) ==
  FoldLeft(LAMBDA t, j : IF t[j] > t[j + 1] THEN [t EXCEPT ![j] = t[j + 1], ![j + 1] = t[j]] ELSE t,
           s, [j \in 1..Len(s) - 1 - i |-> j])
Bubbled(s) == FoldLeft(Pass, s, [i \in 1..Len(s) |-> i - 1])
Sort(c) == [c EXCEPT !.cells = [p \in Places |-> IF p \in 0..c.num - 1 THEN Bubbled(ToArray(c))[p + 1] ELSE c.cells[p]]]

RemoveElement(c, e) ==
  IF IndexOf(c, e) = NotFound THEN Answer(c, 0) ELSE Answer(Closed(c, IndexOf(c, e), IndexOf(c, e) + 1), 1)
Trimmed(c) == [c EXCEPT !.doubled = 2 * c.num]
CapacityTo(c, n) == IF n >= c.num THEN [c EXCEPT !.doubled = 2 * n] ELSE c
Replaced(c) == [c EXCEPT !.cells = [p \in Places |-> IF p \in 0..c.num - 1 THEN 3 - c.cells[p] ELSE c.cells[p]]]

RangeIsRight(c, from, to) ==
  InRange(from, 0, IF to > c.num THEN c.num - 1 ELSE to - 1) /\ InRange(to, 0, c.num)

(* this[i] = e through the proxy: the list may grow by it, yet num stays.  *)
ArrayListAssigns(c, e, i) == IF InRange(i, 0, c.num) THEN Answer([c EXCEPT !.cells[i] = e], e) ELSE Throws(c)

ArrayListChanges(c, op) ==
  CASE op.do = "add" -> Answer(AddCell(Grown(c, 3 * c.num), op.e), 1)
    [] op.do = "insert" ->
         IF InRange(op.i, 0, c.num) THEN Answer(Shifted(Grown(c, 3 * c.num), op.e, op.i), 0) ELSE Throws(c)
    [] op.do = "removeByIndex" ->
         IF InRange(op.i, 0, c.num - 1) THEN Answer(Closed(c, op.i, op.i + 1), c.cells[op.i]) ELSE Throws(c)
    [] op.do = "remove" -> RemoveElement(c, op.e)
    [] op.do = "removeByRange" -> IF RangeIsRight(c, op.i, op.j) THEN Answer(Closed(c, op.i, op.j), 0) ELSE Throws(c)
    [] op.do = "set" -> ArrayListAssigns(c, op.e, op.i)

ArrayListRest(c, op) ==
  CASE op.do = "sort" -> Answer(Sort(c), 0)
    [] op.do = "replaceAllElements" -> Answer(Replaced(c), 0)
    [] op.do = "clear" -> Answer([c EXCEPT !.num = 0], 0)
    [] op.do = "increaseCapacityTo" -> Answer(CapacityTo(c, op.i), 0)
    [] op.do = "trimToCurrentLength" -> Answer(Trimmed(c), 0)

VectorChanges(c, op) ==
  CASE op.do = "add" -> Answer(AddCell(Grown(c, 4 * c.num), op.e), 1)
    [] op.do = "insert" ->
         IF op.i \in 0..c.num - 1 THEN Answer(Shifted(Grown(c, 4 * c.num), op.e, op.i), 0) ELSE Throws(c)
    [] op.do = "removeByIndex" ->
         IF op.i \in 0..c.num - 1 THEN Answer(Closed(c, op.i, op.i + 1), c.cells[op.i]) ELSE Throws(c)
    [] op.do = "remove" -> RemoveElement(c, op.e)
    [] op.do = "set" -> IF op.i \in 0..c.num - 1 THEN Answer([c EXCEPT !.cells[op.i] = op.e], op.e) ELSE Throws(c)

VectorRest(c, op) ==
  CASE op.do = "removeByRange" ->
         IF op.i >= op.j \/ op.i >= c.num \/ op.i < 0 THEN Throws(c)
         ELSE Answer(Closed(c, op.i, IF op.j >= c.num THEN c.num ELSE op.j), 0)
    [] op.do = "setLength" -> IF op.i < 0 THEN Throws(c) ELSE Answer([c EXCEPT !.num = op.i], 0)
    [] op.do = "sort" -> Answer(Sort(c), 0)
    [] op.do = "replaceAllElements" -> Answer(Replaced(c), 0)
    [] op.do = "clear" -> Answer([c EXCEPT !.num = 0], 0)
VectorCapacity(c, op) ==
  CASE op.do = "increaseCapacityTo" -> Answer(CapacityTo(c, op.i), 0)
    [] op.do = "trimToCurrentLength" -> Answer(Trimmed(c), 0)

StackChanges(c, op) ==
  CASE op.do = "push" -> Answer(AddCell(Grown(c, 3 * c.num), op.e), op.e)
    [] op.do = "pop" -> IF c.num = 0 THEN Answer(c, Undefined) ELSE Answer([c EXCEPT !.num = @ - 1], c.cells[c.num - 1])
    [] op.do = "set" -> IF InRange(op.i, 0, c.num - 1) /\ op.i < c.num
                        THEN Answer([c EXCEPT !.cells[op.i] = op.e], op.e) ELSE Throws(c)

ArrayListSub(c, from, to) == [k \in 1..to - from |-> c.cells[from + k - 1]]
(* The last element is never part of it.                                   *)
SubVector(c, from, to) ==
  LET end == IF to >= c.num - 1 THEN c.num - 1 ELSE to IN [k \in 1..end - from |-> c.cells[from + k - 1]]
GetIndexFrom(c, e, i) == IF IndexOf(c, e) = NotFound THEN NotFound
                         ELSE LET at == {p \in i..c.num - 1 : c.cells[p] = e}
                              IN IF at = {} THEN NotFound ELSE CHOOSE p \in at : \A q \in at : p <= q
GetLastIndexFrom(c, e, i) == IF IndexOf(c, e) = NotFound THEN NotFound
                             ELSE LET at == {p \in 0..i : c.cells[p] = e}
                                  IN IF at = {} THEN NotFound ELSE CHOOSE p \in at : \A q \in at : p >= q

----------------------------------------------------------------------------
(* Rings: a Queue counts modulo capacity + 1 and is walked modulo capacity *)

QueueLength(c) == c.rear - c.front
QueueReads(c, p) == IF InRange(p, 0, QueueLength(c)) THEN c.cells[p] ELSE Error
QueueWrites(c, e, p) == InRange(p, 0, QueueLength(c)) /\ p <= QueueLength(c)
QueueAdd(c, e) ==
  LET full == QueueLength(c) = c.capacity
      grown == IF full THEN [c EXCEPT !.capacity = 2 * @] ELSE c
  IN  IF ~QueueWrites(grown, e, grown.rear) THEN Throws(grown)
      ELSE Answer([grown EXCEPT !.cells[grown.rear] = e, !.rear = (@ + 1) % (grown.capacity + 1)], 1)
QueuePop(c) ==
  IF QueueLength(c) = 0 THEN Answer(c, Undefined)
  ELSE IF QueueReads(c, c.front) = Error THEN Throws(c)
  ELSE Answer([c EXCEPT !.front = (@ + 1) % (c.capacity + 1)], c.cells[c.front])

DequeLength(c) == (c.rear - c.front + c.capacity) % c.capacity
DequeIsFull(c) == (c.rear + 1) % c.capacity = c.front
Ring(c, n) == [k \in 1..n |-> c.cells[(c.front + k - 1) % c.capacity]]

IncreaseCapacity(c) ==
  [c EXCEPT !.cells = [p \in Places |-> IF p \in 0..DequeLength(c) - 1 THEN Ring(c, p + 1)[p + 1] ELSE c.cells[p]],
            !.capacity = 2 * @, !.front = 0, !.rear = DequeLength(c)]

InsertFront(c, e) ==
  LET grown == IF DequeIsFull(c) THEN IncreaseCapacity(c) ELSE c
      front == (grown.front - 1 + grown.capacity) % grown.capacity
  IN  Answer([grown EXCEPT !.front = front, !.cells[front] = e], 0)
InsertEnd(c, e) ==
  LET grown == IF DequeIsFull(c) THEN IncreaseCapacity(c) ELSE c
  IN  Answer([grown EXCEPT !.cells[grown.rear] = e, !.rear = (@ + 1) % (grown.capacity + 1)], 0)
PopFirst(c) ==
  IF DequeLength(c) = 0 THEN Answer(c, Undefined)
  ELSE Answer([c EXCEPT !.front = (@ + 1) % (c.capacity + 1)], c.cells[c.front])
(* GetLast: Deque.getLast throws on property -1 when rear is 0.            *)
GetLast(c) == IF DequeLength(c) = 0 THEN Undefined ELSE IF c.rear = 0 THEN Error ELSE c.cells[c.rear - 1]
PopLast(c) ==
  IF GetLast(c) \in {Undefined, Error} THEN Answer(c, GetLast(c))
  ELSE Answer([c EXCEPT !.rear = (@ + c.capacity) % (c.capacity + 1)], GetLast(c))

(* forEach goes round until it meets rear, at least once; NotFound: never. *)
Rounds(c) ==
  LET ends == {k \in 1..c.capacity : (c.front + k) % c.capacity = c.rear}
  IN  IF ends = {} THEN NotFound ELSE CHOOSE k \in ends : \A l \in ends : k <= l
QueueForEach(c) ==
  IF QueueLength(c) = 0 THEN <<>> ELSE IF Rounds(c) = NotFound THEN <<Error>>
  ELSE [k \in 1..Rounds(c) |-> QueueReads(c, (c.front + k - 1) % c.capacity)]
DequeForEach(c) == IF Rounds(c) = NotFound THEN <<Error>> ELSE Ring(c, Rounds(c))

----------------------------------------------------------------------------
(* Nodes: chain is what is met from head on; tail is a position in it      *)

GetNode(c, i) == IF i \in 0..c.num - 1 /\ i < Len(c.chain) THEN c.chain[i + 1] ELSE Undefined
NodeIndexOf(c, e) ==
  LET at == {p \in 0..c.num - 1 : GetNode(c, p) = e} IN IF at = {} THEN NotFound ELSE CHOOSE p \in at : \A q \in at : p <= q
NodeLastIndexOf(c, e) ==
  LET at == {p \in 0..c.num - 1 : GetNode(c, p) = e} IN IF at = {} THEN NotFound ELSE CHOOSE p \in at : \A q \in at : p >= q
NodeHas(c, e) == \E k \in DOMAIN c.chain : c.chain[k] = e

AddNode(c, e) == [c EXCEPT !.chain = Append(@, e), !.num = @ + 1]
InsertNode(c, e, i) == [c EXCEPT !.chain = InsertAt(@, i + 1, e), !.num = @ + 1]

ListRemoveByIndex(c, i) ==
  IF ~InRange(i, 0, c.num - 1) THEN Throws(c)
  ELSE Answer([c EXCEPT !.chain = IF @ = <<>> THEN @ ELSE RemoveAt(@, i + 1), !.num = @ - 1], GetNode(c, i))
ListRemove(c, e) ==
  IF NodeHas(c, e) THEN Answer(ListRemoveByIndex(c, NodeIndexOf(c, e)).c, 1) ELSE Answer(c, 0)
ListInsert(c, e, i) == IF InRange(i, 0, c.num) THEN Answer(InsertNode(c, e, i), 0) ELSE Throws(c)
ListSet(c, e, i) ==
  IF InRange(i, 0, c.num - 1) /\ GetNode(c, i) # Undefined THEN Answer([c EXCEPT !.chain[i + 1] = e], e) ELSE Throws(c)
(* Passes over the nodes; it stops early when the passes so far found      *)
(* nothing to swap.                                                        *)
ListSort(c) == [c EXCEPT !.chain = IF Pass(@, 0) = @ THEN @ ELSE Bubbled(@)]
ListReplaceAll(c) == [c EXCEPT !.chain = [k \in DOMAIN @ |-> 3 - @[k]]]
GetSubList(c, from, to) == [k \in 1..to - from |-> GetNode(c, from + k - 1)]
(* The first elements are not compared.                                    *)
Equal(c, chain) ==
  IF c.chain = <<>> \/ chain = <<>> THEN c.chain = chain
  ELSE Len(c.chain) = Len(chain) /\ \A k \in 2..Len(chain) : c.chain[k] = chain[k]

ListChanges(c, op) ==
  CASE op.do = "add" -> Answer(AddNode(c, op.e), 1)
    [] op.do = "insert" -> ListInsert(c, op.e, op.i)
    [] op.do = "removeByIndex" -> ListRemoveByIndex(c, op.i)
    [] op.do = "remove" -> ListRemove(c, op.e)
    [] op.do = "set" -> ListSet(c, op.e, op.i)
    [] op.do = "sort" -> Answer(ListSort(c), 0)
    [] op.do = "replaceAllElements" -> Answer(ListReplaceAll(c), 0)
    [] op.do = "clear" -> Answer([c EXCEPT !.chain = <<>>, !.num = 0], 0)

LinkedListAdd(c, e) == [AddNode(c, e) EXCEPT !.tail = Len(c.chain) + 1]
AddFirst(c, e) == [InsertNode(c, e, 0) EXCEPT !.tail = IF c.num = 0 THEN 1 ELSE c.tail + 1]
LinkedListInsert(c, e, i) ==
  IF ~InRange(i, 0, c.num) THEN Throws(c)
  ELSE Answer([InsertNode(c, e, i) EXCEPT !.tail = IF i = c.num THEN i + 1 ELSE c.tail + 1], 0)
(* What is answered is the element of the head, or of the node before the  *)
(* last one; the only element cannot be removed: this.head.prev throws.    *)
RemoveByIndex(c, i) ==
  IF ~InRange(i, 0, c.num - 1) \/ c.num = 0 THEN Throws(c)
  ELSE IF c.num = 1 THEN Throws([c EXCEPT !.chain = <<>>])
  ELSE Answer([c EXCEPT !.chain = RemoveAt(@, i + 1), !.num = @ - 1, !.tail = @ - 1],
              IF i # 0 /\ i = c.num - 1 THEN GetNode(c, i - 1) ELSE GetNode(c, 0))
RemoveFound(c, e, i) ==
  LET removed == RemoveByIndex(c, i) IN IF NodeHas(c, e) THEN Answer(removed.c, IF removed.out = Error THEN Error ELSE 1)
                                        ELSE Answer(c, 0)
LinkedListRemove(c, e) == IF c.num = 0 THEN Answer(c, 0) ELSE RemoveFound(c, e, NodeIndexOf(c, e))
RemoveFirstFound(c, e) == IF c.chain = <<>> THEN Throws(c) ELSE RemoveFound(c, e, NodeIndexOf(c, e))
RemoveLastFound(c, e) == IF c.tail = Undefined THEN Throws(c) ELSE RemoveFound(c, e, NodeLastIndexOf(c, e))
RemoveEnd(c, i) ==
  LET removed == RemoveByIndex(c, i)
  IN  IF c.chain = <<>> THEN Throws(c) ELSE Answer(removed.c, IF removed.out = Error THEN Error ELSE c.chain[i + 1])

LinkedListChanges(c, op) ==
  CASE op.do = "add" -> Answer(LinkedListAdd(c, op.e), 1)
    [] op.do = "addFirst" -> Answer(AddFirst(c, op.e), 0)
    [] op.do = "insert" -> LinkedListInsert(c, op.e, op.i)
    [] op.do = "set" -> ListSet(c, op.e, op.i)
    [] op.do = "clear" -> Answer([c EXCEPT !.chain = <<>>, !.num = 0, !.tail = Undefined], 0)
LinkedListRemovals(c, op) ==
  CASE op.do = "removeByIndex" -> RemoveByIndex(c, op.i)
    [] op.do = "removeFirst" -> RemoveEnd(c, 0)
    [] op.do = "removeLast" -> RemoveEnd(c, c.num - 1)
    [] op.do = "remove" -> LinkedListRemove(c, op.e)
    [] op.do = "removeFirstFound" -> RemoveFirstFound(c, op.e)
    [] op.do = "removeLastFound" -> RemoveLastFound(c, op.e)

----------------------------------------------------------------------------
(* The calls, what they do here, and what they would do on a sequence      *)

Calls(kind) ==
  CASE kind = "ArrayList" -> {"add", "insert", "removeByIndex", "remove", "removeByRange", "set", "sort",
                              "replaceAllElements", "clear", "increaseCapacityTo", "trimToCurrentLength"}
    [] kind = "Vector" -> {"add", "insert", "removeByIndex", "remove", "removeByRange", "set", "setLength", "sort",
                           "replaceAllElements", "clear", "increaseCapacityTo", "trimToCurrentLength"}
    [] kind = "Stack" -> {"push", "pop", "set"}
    [] kind = "Queue" -> {"enqueue", "dequeue"}
    [] kind = "Deque" -> {"insertFront", "insertEnd", "popFirst", "popLast"}
    [] kind = "List" -> {"add", "insert", "removeByIndex", "remove", "set", "sort", "replaceAllElements", "clear"}
    [] kind = "LinkedList" -> {"add", "addFirst", "insert", "set", "clear", "removeByIndex", "removeFirst",
                               "removeLast", "remove", "removeFirstFound", "removeLastFound"}

TakesElement == {"add", "addFirst", "insert", "set", "push", "enqueue", "insertFront", "insertEnd",
                 "remove", "removeFirstFound", "removeLastFound"}
TakesIndex == {"insert", "set", "removeByIndex", "removeByRange", "setLength", "increaseCapacityTo"}
Growing == {"add", "addFirst", "insert", "push", "enqueue", "insertFront", "insertEnd"}

Does(kind, c, op) ==
  CASE kind = "ArrayList" /\ op.do \in {"add", "insert", "removeByIndex", "remove", "removeByRange", "set"} ->
         ArrayListChanges(c, op)
    [] kind = "ArrayList" -> ArrayListRest(c, op)
    [] kind = "Vector" /\ op.do \in {"add", "insert", "removeByIndex", "remove", "set"} -> VectorChanges(c, op)
    [] kind = "Vector" /\ op.do \in {"increaseCapacityTo", "trimToCurrentLength"} -> VectorCapacity(c, op)
    [] kind = "Vector" -> VectorRest(c, op)
    [] kind = "Stack" -> StackChanges(c, op)
    [] op.do = "enqueue" -> QueueAdd(c, op.e)
    [] op.do = "dequeue" -> QueuePop(c)
    [] op.do = "insertFront" -> InsertFront(c, op.e)
    [] op.do = "insertEnd" -> InsertEnd(c, op.e)
    [] op.do = "popFirst" -> PopFirst(c)
    [] op.do = "popLast" -> PopLast(c)
    [] kind = "List" -> ListChanges(c, op)
    [] kind = "LinkedList" /\ op.do \in {"add", "addFirst", "insert", "set", "clear"} -> LinkedListChanges(c, op)
    [] kind = "LinkedList" -> LinkedListRemovals(c, op)

FirstOf(s, e) == CHOOSE k \in DOMAIN s : s[k] = e /\ \A l \in 1..k - 1 : s[l] # e
LastOf(s, e) == CHOOSE k \in DOMAIN s : s[k] = e /\ \A l \in k + 1..Len(s) : s[l] # e
Result(s, out) == [s |-> s, out |-> out]
Has(s, e) == \E k \in DOMAIN s : s[k] = e

(* What the caller may expect of the sequence s.                           *)
Adds(kind, s, op) ==
  CASE op.do = "add" \/ op.do = "enqueue" -> Result(Append(s, op.e), 1)
    [] op.do = "push" -> Result(Append(s, op.e), op.e)
    [] op.do = "insertEnd" -> Result(Append(s, op.e), 0)
    [] op.do \in {"addFirst", "insertFront"} -> Result(<<op.e>> \o s, 0)
    [] op.do = "insert" -> IF op.i \in 0..Len(s) - (IF kind = "Vector" THEN 1 ELSE 0)
                           THEN Result(InsertAt(s, op.i + 1, op.e), 0) ELSE Result(s, Error)
Removes(s, op) ==
  CASE op.do = "removeByIndex" -> IF op.i \in 0..Len(s) - 1 THEN Result(RemoveAt(s, op.i + 1), s[op.i + 1]) ELSE Result(s, Error)
    [] op.do \in {"remove", "removeFirstFound"} ->
         IF Has(s, op.e) THEN Result(RemoveAt(s, FirstOf(s, op.e)), 1)
         ELSE Result(s, IF op.do # "remove" /\ s = <<>> THEN Error ELSE 0)
    [] op.do = "removeLastFound" ->
         IF Has(s, op.e) THEN Result(RemoveAt(s, LastOf(s, op.e)), 1) ELSE Result(s, IF s = <<>> THEN Error ELSE 0)
    [] op.do \in {"dequeue", "popFirst"} -> IF s = <<>> THEN Result(s, Undefined) ELSE Result(Tail(s), s[1])
    [] op.do \in {"pop", "popLast"} -> IF s = <<>> THEN Result(s, Undefined) ELSE Result(Front(s), Last(s))
    [] op.do = "removeFirst" -> IF s = <<>> THEN Result(s, Error) ELSE Result(Tail(s), s[1])
    [] op.do = "removeLast" -> IF s = <<>> THEN Result(s, Error) ELSE Result(Front(s), Last(s))
Others(kind, s, op) ==
  CASE op.do = "set" -> IF op.i \in 0..Len(s) - 1 THEN Result([s EXCEPT ![op.i + 1] = op.e], op.e) ELSE Result(s, Error)
    [] op.do = "removeByRange" ->
         LET to == IF kind = "Vector" /\ op.j > Len(s) THEN Len(s) ELSE op.j
         IN  IF op.i < 0 \/ op.i > to \/ to > Len(s) \/ (op.i = to /\ (kind = "Vector" \/ to > 0))
             THEN Result(s, Error)
             ELSE Result(SubSeq(s, 1, op.i) \o SubSeq(s, to + 1, Len(s)), 0)
    [] op.do = "sort" -> Result(SortSeq(s, <), 0)
    [] op.do = "replaceAllElements" -> Result([k \in DOMAIN s |-> 3 - s[k]], 0)
    [] op.do = "clear" -> Result(<<>>, 0)
    [] op.do = "setLength" -> IF op.i < 0 THEN Result(s, Error) ELSE Result(SubSeq(s, 1, IF op.i > Len(s) THEN Len(s) ELSE op.i), 0)
    [] op.do \in {"increaseCapacityTo", "trimToCurrentLength"} -> Result(s, 0)

Expected(kind, s, op) ==
  CASE op.do \in Growing -> Adds(kind, s, op)
    [] op.do \in {"set", "removeByRange", "sort", "replaceAllElements", "clear", "setLength",
                  "increaseCapacityTo", "trimToCurrentLength"} -> Others(kind, s, op)
    [] OTHER -> Removes(s, op)

(* Calls for which the code does something else, on a legal container:     *)
(*   an assignment behind the last element of an ArrayList is lost;        *)
(*   the empty ArrayList and List let index 0 be removed, to length -1;    *)
(*   a Vector that is made longer shows elements it had removed;           *)
(*   a Queue takes nothing more after a pop, and throws when more was      *)
(*     popped than is left;                                                *)
(*   a Deque loses elements when the end of its ring is passed by          *)
(*     insertEnd or popFirst, and throws when its last element lies there; *)
(*   a LinkedList cannot lose its only element, and answers with another   *)
(*     element than the one it removes.                                    *)
Gap(kind, c, s, op) ==
  \/ kind = "ArrayList" /\ op.do = "set" /\ op.i = Len(s)
  \/ kind \in {"ArrayList", "List"} /\ op.do = "removeByIndex" /\ op.i = 0 /\ s = <<>>
  \/ op.do = "setLength" /\ op.i > Len(s)
  \/ op.do = "enqueue" /\ c.front > 0
  \/ op.do = "dequeue" /\ s # <<>> /\ c.front > Len(s)
  \/ op.do = "insertEnd" /\ c.rear = c.capacity - 1 /\ ~DequeIsFull(c)
  \/ op.do = "popFirst" /\ s # <<>> /\ c.front = c.capacity - 1
  \/ op.do = "popLast" /\ s # <<>> /\ c.rear = 0
  \/ kind = "LinkedList" /\ Len(Expected(kind, s, op).s) < Len(s) /\ op.do # "clear"
     /\ (Len(s) = 1 \/ (op.do = "removeByIndex" /\ op.i > 0))

Next ==
  /\ ~lists.gap
  /\ \E do \in Calls(lists.kind) :
     \E e \in (IF do \in TakesElement THEN Elements ELSE {1}),
        i \in (IF do \in TakesIndex THEN Indexes ELSE {0}),
        j \in (IF do = "removeByRange" THEN Indexes ELSE {0}) :
       LET op == [do |-> do, e |-> e, i |-> i, j |-> j]
           done == Does(lists.kind, lists.c, op)
           want == Expected(lists.kind, lists.ref, op)
       IN  /\ do \in Growing => Len(lists.ref) < MaxLength
           /\ lists' = [lists EXCEPT !.c = done.c, !.ref = want.s, !.same = done.out = want.out,
                                     !.gap = Gap(lists.kind, lists.c, lists.ref, op)]

----------------------------------------------------------------------------
(* As long as no gap was met every container holds its sequence, in order  *)
(* and completely, and every call has answered as it should.               *)
Contents ==
  CASE lists.kind \in Arrays -> ToArray(lists.c)
    [] lists.kind = "Queue" -> [k \in 1..QueueLength(lists.c) |-> lists.c.cells[lists.c.front + k - 1]]
    [] lists.kind = "Deque" -> Ring(lists.c, DequeLength(lists.c))
    [] OTHER -> lists.c.chain
Agrees == lists.gap \/ (lists.same /\ Contents = lists.ref)

(* The questions that change nothing are answered as on the sequence, but  *)
(* for the part of a Vector that ends with its last element.               *)
Answers ==
  LET s == lists.ref
      c == lists.c
      Found(at, e) == IF at = {} THEN NotFound ELSE CHOOSE p \in at : TRUE
      At(e) == {k - 1 : k \in {k \in DOMAIN s : s[k] = e}}
      Least(at) == {p \in at : \A q \in at : p <= q}
      Greatest(at) == {p \in at : \A q \in at : p >= q}
  IN  ~lists.gap =>
      /\ lists.kind \in Arrays => \A e \in Elements :
           /\ IndexOf(c, e) = Found(Least(At(e)), e) /\ LastIndexOf(c, e) = Found(Greatest(At(e)), e)
           /\ \A i \in 0..Len(s) - 1 :
                /\ GetIndexFrom(c, e, i) = Found(Least(At(e) \ 0..i - 1), e)
                /\ GetLastIndexFrom(c, e, i) = Found(Greatest(At(e) \cap 0..i), e)
      /\ lists.kind = "ArrayList" => \A i \in 0..Len(s), j \in 0..Len(s) :
           RangeIsRight(c, i, j) => ArrayListSub(c, i, j) = SubSeq(s, i + 1, j)
      /\ lists.kind = "Vector" => \A i, j \in 0..Len(s) : i < j /\ j < Len(s) => SubVector(c, i, j) = SubSeq(s, i + 1, j)
      /\ lists.kind = "Queue" /\ c.rear < c.capacity /\ c.rear <= Len(s) + 1 => QueueForEach(c) = s
      /\ lists.kind = "Deque" => (s # <<>> /\ c.rear # 0 => GetLast(c) = Last(s)) /\ DequeLength(c) = Len(s)
      /\ lists.kind = "Deque" /\ s # <<>> => DequeForEach(c) = s
      /\ lists.kind \in {"List", "LinkedList"} =>
           /\ c.num = Len(s)
           /\ \A e \in Elements : NodeIndexOf(c, e) = Found(Least(At(e)), e)
                                  /\ NodeLastIndexOf(c, e) = Found(Greatest(At(e)), e)
      /\ lists.kind = "List" => /\ \A i, j \in 0..Len(s) : i <= j => GetSubList(c, i, j) = SubSeq(s, i + 1, j)
                                /\ s # <<>> => \A k \in 2..Len(s) : ~Equal(c, [s EXCEPT ![k] = 3 - @])
      /\ lists.kind = "LinkedList" => c.tail = Len(s)
=============================================================================
