-------------------------------- MODULE Maps ---------------------------------
(***************************************************************************)
(* The keyed containers: TreeMap and TreeSet on the red-black tree of      *)
(* container/struct/js_struct.ts, HashMap and HashSet on its dictionary,   *)
(* LightWeightMap and LightWeightSet on arrays sorted by hash, PlainArray  *)
(* on arrays sorted by key.  Each runs next to the function from keys to   *)
(* values it stands for, on which the same calls are made; where the code  *)
(* is known to leave its contract (gap) it stops.  Kind "Compare" is two   *)
(* strings, which the comparison of keys puts in order.                    *)
(***************************************************************************)
EXTENDS Integers, Sequences, SequencesExt, Bitwise

CONSTANTS
  TreeKeys,      \* bound: keys of a tree
  HashKeys,      \* bound: keys of the other containers
  HashCapacity,  \* of a new dictionary (the code: 16)
  TreeFrom       \* a list of as many members becomes a tree (the code: 8)

VARIABLE maps

None == 0
Absent == 0     \* undefined
Throw == -2
Kinds == {"Tree", "Hash", "Light", "Plain", "Compare"}
KeysOf(kind) == IF kind = "Tree" THEN 1..TreeKeys ELSE 1..HashKeys
ValueOf(k, e) == 10 * k + e   \* so that a value tells which key it was given for
Restricted(f, S) == [k \in S |-> f[k]]
Answer(c, out) == [c |-> c, out |-> out]
NoNode == [key |-> 0, value |-> 0, color |-> "BLACK", left |-> None, right |-> None, parent |-> None]

(* maps.same: the last call has answered as it would on the function       *)
TypeOK ==
  /\ maps.kind \in Kinds /\ maps.gap \in BOOLEAN /\ maps.same \in BOOLEAN
  /\ maps.kind # "Compare" => DOMAIN maps.ref \subseteq KeysOf(maps.kind)
  /\ maps.kind = "Tree" =>
       /\ maps.c.root \in 0..TreeKeys /\ maps.c.num \in Nat /\ maps.c.change \in BOOLEAN
       /\ \A n \in 1..TreeKeys : maps.c.nodes[n].color \in {"RED", "BLACK"}
  /\ maps.kind = "Hash" => maps.c.num \in Nat /\ maps.c.capacity \in Nat
  /\ maps.kind \in {"Light", "Plain"} => maps.c.keys \in Seq(KeysOf("Light")) /\ maps.c.num \in Int

----------------------------------------------------------------------------
(* Strings and their order *)

Strings == UNION {[1..n -> 1..2] : n \in 0..3}
(* Of two strings the first of which begins with the second the longer is  *)
(* bigger; two equal ones are never compared here, one empty one throws.   *)
CompareToString(s1, s2) ==
  LET lim == IF Len(s1) > Len(s2) THEN Len(s2) ELSE Len(s1)
      differ == {k \in 1..lim : s1[k] # s2[k]}
      k == CHOOSE k \in differ : \A l \in differ : k <= l
  IN  IF lim = 0 THEN Throw
      ELSE IF differ = {} THEN IF Len(s1) > Len(s2) THEN 1 ELSE -1
      ELSE IF s1[k] > s2[k] THEN 1 ELSE -1
CurrencyCompare(a, b) == IF a = b THEN 0 ELSE IF a > b THEN 1 ELSE -1

(* The strings of the keys: digits, but the last two collide (Aa and BB).  *)
Codes(k) == IF k = HashKeys THEN <<65, 97>> ELSE IF k = HashKeys - 1 THEN <<66, 66>> ELSE <<48 + k>>
HashCode(s) == FoldLeft(LAMBDA hash, char : 31 * hash + char, 0, s)
Hash(k) == HashCode(Codes(k))

----------------------------------------------------------------------------
(* The red-black tree *)

EmptyTree(keys) == [nodes |-> [n \in 1..keys |-> NoNode], root |-> None, num |-> 0, change |-> TRUE, array |-> <<>>]

Get(t, n, field) == t.nodes[n][field]
Put_(t, n, field, x) == IF n = None THEN t ELSE [t EXCEPT !.nodes[n][field] = x]
Color(t, n) == IF n = None THEN "BLACK" ELSE t.nodes[n].color
Paint(t, n, color) == Put_(t, n, "color", color)
Other(side) == IF side = "left" THEN "right" ELSE "left"
SideOf(t, n) == IF Get(t, Get(t, n, "parent"), "left") = n THEN "left" ELSE "right"
(* The place of node n is taken by node m.                                 *)
Instead(t, n, m) ==
  IF Get(t, n, "parent") = None THEN [t EXCEPT !.root = m] ELSE Put_(t, Get(t, n, "parent"), SideOf(t, n), m)

(* The node turns to the side, its child on the other side comes up.       *)
Rotate(t, datum, side) ==
  LET top == Get(t, datum, Other(side))
      inner == Get(t, top, side)
      t1 == Put_(Put_(t, datum, Other(side), inner), inner, "parent", datum)
      t2 == Instead(Put_(t1, top, "parent", Get(t, datum, "parent")), datum, top)
  IN  Put_(Put_(t2, datum, "parent", top), top, side, datum)
LRotate(t, datum) == Rotate(t, datum, "left")
RRotate(t, datum) == Rotate(t, datum, "right")
Turn(t, datum, side) == IF side = "left" THEN LRotate(t, datum) ELSE RRotate(t, datum)

TurnIf(condition, t, datum, side) == IF condition THEN Turn(t, datum, side) ELSE t
Blackened(t) == Paint(t, t.root, "BLACK")

(* fix is red; as long as its parent is red too the conflict goes up, or   *)
(* is ended by one or two rotations when the uncle is black.               *)
RECURSIVE InsertRebalance(_, _)
InsertRebalance(t, fix) ==
  LET parent == Get(t, fix, "parent")
      grandpa == Get(t, parent, "parent")
      side == SideOf(t, parent)
      uncle == Get(t, grandpa, Other(side))
      inner == fix = Get(t, parent, Other(side))
      top == IF inner THEN fix ELSE parent
  IN  IF parent = None \/ Color(t, parent) = "BLACK" \/ grandpa = None THEN Paint(t, t.root, "BLACK")
      ELSE IF Color(t, uncle) = "RED"
      THEN InsertRebalance(Paint(Paint(Paint(t, parent, "BLACK"), uncle, "BLACK"), grandpa, "RED"), grandpa)
      ELSE Blackened(Turn(TurnIf(inner, Paint(Paint(t, top, "BLACK"), grandpa, "RED"), parent, side), grandpa, Other(side)))

(* What is left to do at a parent whose child on the side lacks one black  *)
(* node and whose other child is black, with a red child.                  *)
BorrowFar(t, parent, sibling, side) ==
  Turn(Paint(Paint(Paint(t, sibling, Color(t, parent)), parent, "BLACK"), Get(t, sibling, Other(side)), "BLACK"), parent, side)
FarIsRed(t, sibling, side) ==
  IF Color(t, Get(t, sibling, Other(side))) = "RED" THEN t
  ELSE Turn(Paint(Paint(t, sibling, "RED"), Get(t, sibling, side), "BLACK"), sibling, Other(side))
BorrowNow(t, parent, side) == BorrowFar(t, parent, Get(t, parent, Other(side)), side)
Borrow(t, parent, side) == BorrowNow(FarIsRed(t, Get(t, parent, Other(side)), side), parent, side)

BlackChildren(t, n) == Color(t, Get(t, n, "left")) = "BLACK" /\ Color(t, Get(t, n, "right")) = "BLACK"
\* Mutant: a red sibling is not brought up first.
RECURSIVE DeleteAsIfBlack(_, _)
DeleteAsIfBlack(t, fix) ==
  LET parent == Get(t, fix, "parent")
      side == SideOf(t, fix)
      sibling == Get(t, parent, Other(side))
  IN  IF Color(t, fix) = "RED" \/ fix = t.root \/ parent = None THEN Paint(t, fix, "BLACK")
      ELSE IF BlackChildren(t, sibling) THEN DeleteAsIfBlack(Paint(t, sibling, "RED"), parent)
      ELSE Paint(Borrow(t, parent, side), fix, "BLACK")
BlackSibling(t, parent, side) ==
  LET sibling == Get(t, parent, Other(side))
  IN  IF Color(t, sibling) = "RED" THEN Turn(Paint(Paint(t, parent, "RED"), sibling, "BLACK"), parent, side) ELSE t
RECURSIVE DeleteRebalance(_, _), DeleteBlack(_, _, _, _, _)
DeleteBlack(t, fix, parent, sibling, side) ==
  IF BlackChildren(t, sibling) THEN DeleteRebalance(Paint(t, sibling, "RED"), parent)
  ELSE Paint(Borrow(t, parent, side), fix, "BLACK")
DeleteRebalance(t, fix) ==
  LET parent == Get(t, fix, "parent")
      side == SideOf(t, fix)
      turned == BlackSibling(t, parent, side)
  IN  IF Color(t, fix) = "RED" \/ fix = t.root \/ parent = None THEN Paint(t, fix, "BLACK")
      ELSE DeleteBlack(turned, fix, parent, Get(turned, parent, Other(side)), side)

RECURSIVE InOrder(_, _)
InOrder(t, n) == IF n = None THEN <<>> ELSE InOrder(t, Get(t, n, "left")) \o <<n>> \o InOrder(t, Get(t, n, "right"))
NodesOf(t) == Range(InOrder(t, t.root))
RecordByMinToMax(t) ==
  IF t.change THEN LET array == InOrder(t, t.root) IN [t EXCEPT !.array = array, !.change = FALSE, !.num = Len(array)] ELSE t
Changed(t) == [t EXCEPT !.change = TRUE, !.array = <<>>]

(* The node of the key, or the last one met on the way to it.              *)
RECURSIVE Descend(_, _, _)
Descend(t, n, key) ==
  LET comp == CurrencyCompare(Get(t, n, "key"), key)
      next == Get(t, n, IF comp < 0 THEN "right" ELSE "left")
  IN  IF comp = 0 \/ next = None THEN n ELSE Descend(t, next, key)
GetNode(t, key) ==
  IF t.root = None THEN None ELSE LET n == Descend(t, t.root, key) IN IF Get(t, n, "key") = key THEN n ELSE None

(* Nodes are numbered by their keys.                                       *)
NewNode(t, key, value) ==
  [t EXCEPT !.nodes[key] = [NoNode EXCEPT !.key = key, !.value = value, !.color = "RED"]]
AddProcess(t, key, value) ==
  LET at == Descend(t, t.root, key)
      side == IF CurrencyCompare(Get(t, at, "key"), key) < 0 THEN "right" ELSE "left"
      hung == Put_(Put_(NewNode(t, key, value), key, "parent", at), at, side, key)
  IN  IF Get(t, at, "key") = key THEN Put_(t, at, "value", value)
      ELSE [Changed(InsertRebalance(hung, key)) EXCEPT !.num = @ + 1]
AddNode(t, key, value) ==
  IF t.root # None THEN AddProcess(t, key, value)
  ELSE [Changed(Paint(NewNode(t, key, value), key, "BLACK")) EXCEPT !.root = key, !.num = @ + 1]

RECURSIVE Leftmost(_, _), Rightmost(_, _)
Leftmost(t, n) == IF Get(t, n, "left") = None THEN n ELSE Leftmost(t, Get(t, n, "left"))
Rightmost(t, n) == IF Get(t, n, "right") = None THEN n ELSE Rightmost(t, Get(t, n, "right"))
FirstNode(t) == IF t.root = None THEN None ELSE Leftmost(t, t.root)
LastNode(t) == IF t.root = None THEN None ELSE Rightmost(t, t.root)

(* With two children the successor is removed in place of the node.  An    *)
(* only child comes up, below the root still with the removed parent.      *)
RECURSIVE RemoveNodeProcess(_, _)
RemoveNodeProcess(t, n) ==
  LET left == Get(t, n, "left")
      right == Get(t, n, "right")
      child == IF left = None THEN right ELSE left
      parent == Get(t, n, "parent")
      successor == Leftmost(t, right)
      black == Color(t, n) = "BLACK"
      without ==
        IF parent = None THEN Paint([Put_(t, child, "parent", None) EXCEPT !.root = child], child, "BLACK")
        ELSE IF child # None THEN LET up == Instead(t, n, child) IN IF black THEN DeleteRebalance(up, child) ELSE up
        ELSE LET balanced == IF black THEN DeleteRebalance(t, n) ELSE t IN Instead(balanced, n, None)
  IN  IF left # None /\ right # None
      THEN RemoveNodeProcess(Put_(Put_(t, n, "key", Get(t, successor, "key")), n, "value", Get(t, successor, "value")),
                             successor)
      ELSE [Changed(without) EXCEPT !.num = @ - 1]
(* The nodes that are left are numbered by their keys again.               *)
Renumbered(t) ==
  LET left == NodesOf(t)
      name(n) == IF n = None THEN None ELSE Get(t, n, "key")
      node(n) == [t.nodes[n] EXCEPT !.left = name(@), !.right = name(@), !.parent = name(@)]
  IN  [t EXCEPT !.root = name(@),
                !.nodes = [k \in DOMAIN @ |-> IF \E n \in left : name(n) = k
                                              THEN node(CHOOSE n \in left : name(n) = k) ELSE NoNode]]
RemoveIfAny(t, n) == IF n = None THEN t ELSE Renumbered(RemoveNodeProcess(t, n))
RemoveNode(t, key) == RemoveIfAny(t, GetNode(t, key))
NodeValue(t, n) == IF n = None THEN Absent ELSE Get(t, n, "value")
ClearTree(t) == [t EXCEPT !.root = None, !.num = 0]

(* The child, not the nearest key below it; else the ancestor it is right  *)
(* (left) of.                                                              *)
RECURSIVE AncestorBeside(_, _, _)
AncestorBeside(t, n, side) ==
  IF Get(t, n, "parent") = None THEN Absent
  ELSE IF SideOf(t, n) = side THEN Get(t, Get(t, n, "parent"), "key") ELSE AncestorBeside(t, Get(t, n, "parent"), side)
GetLowerKey(t, key) ==
  LET n == GetNode(t, key)
  IN  IF n = None THEN Absent
      ELSE IF Get(t, n, "left") # None THEN Get(t, Get(t, n, "left"), "key") ELSE AncestorBeside(t, n, "right")
GetHigherKey(t, key) ==
  LET n == GetNode(t, key)
  IN  IF n = None THEN Absent
      ELSE IF Get(t, n, "right") # None THEN Get(t, Get(t, n, "right"), "key") ELSE AncestorBeside(t, n, "left")

----------------------------------------------------------------------------
(* The dictionary: table[bucket] is a list of pairs or a tree              *)

NoBucket == [form |-> "none", list |-> <<>>, tree |-> EmptyTree(HashKeys)]
Buckets == 0..3
EmptyDictionary == [table |-> [b \in Buckets |-> NoBucket], num |-> 0, capacity |-> HashCapacity]

Power(size) == CHOOSE n \in 1..size : 2^n <= size /\ size < 2^(n + 1)
Position(c, key) == (Power(c.capacity) - 1) & Hash(key)
PairsOf(bucket) ==
  IF bucket.form = "tree" THEN LET t == bucket.tree IN [k \in 1..t.num |-> LET n == InOrder(t, t.root)[k]
                                                        IN <<Get(t, n, "key"), Get(t, n, "value")>>]
  ELSE bucket.list
KeyValues(c) == FoldLeft(LAMBDA pairs, b : pairs \o PairsOf(c.table[b]), <<>>, [k \in 1..4 |-> k - 1])
PlaceIn(list, key) == {k \in DOMAIN list : list[k][1] = key}
HasKey(c, key) ==
  LET bucket == c.table[Position(c, key)]
  IN  IF bucket.form = "tree" THEN GetNode(bucket.tree, key) # None ELSE PlaceIn(bucket.list, key) # {}

RECURSIVE Doubled(_, _)
Doubled(capacity, num) == IF 3 * capacity < 4 * num THEN Doubled(2 * capacity, num) ELSE capacity

(* ReplaceMember: in a list.                                               *)
ReplaceMember(bucket, key, value) ==
  [bucket EXCEPT !.list = [k \in DOMAIN @ |-> IF @[k][1] = key THEN <<key, value>> ELSE @[k]]]
Treeified(bucket, key, value) ==
  [bucket EXCEPT !.form = "tree", !.list = <<>>,
     !.tree = AddNode(FoldLeft(LAMBDA t, pair : AddNode(t, pair[1], pair[2]), @, bucket.list), key, value)]
Placed(bucket, key, value) ==
  IF bucket.form = "list" /\ Len(bucket.list) >= TreeFrom THEN Treeified(bucket, key, value)
  ELSE IF bucket.form = "tree" THEN [bucket EXCEPT !.tree = AddNode(@, key, value)]
  ELSE IF PlaceIn(bucket.list, key) # {} THEN ReplaceMember(bucket, key, value)
  ELSE [bucket EXCEPT !.form = "list", !.list = Append(@, <<key, value>>)]

(* A member too many for the capacity makes it grow: all are put anew, and *)
(* the one that is being put is counted.                                   *)
Rehashed(c) ==
  LET grown == Doubled(c.capacity, c.num)
      put(d, pair) ==
        LET b == (Power(grown) - 1) & Hash(pair[1])
        IN  [d EXCEPT !.table[b] = Placed(@, pair[1], pair[2]), !.num = @ + 1]
  IN  IF grown = c.capacity THEN c
      ELSE [FoldLeft(put, [EmptyDictionary EXCEPT !.capacity = grown], KeyValues(c)) EXCEPT !.num = @ + 1]
PutRehashed(c, key, value) == [c EXCEPT !.table[Position(c, key)] = Placed(@, key, value)]
Put(c, key, value) == PutRehashed(Rehashed(IF HasKey(c, key) THEN c ELSE [c EXCEPT !.num = @ + 1]), key, value)
HashSetAdd(c, key) == IF HasKey(c, key) THEN Answer(c, 0) ELSE Answer(Put(c, key, ValueOf(key, 1)), 1)
GetValueByKey(c, key) ==
  LET bucket == c.table[Position(c, key)]
  IN  IF bucket.form = "tree" THEN NodeValue(bucket.tree, GetNode(bucket.tree, key))
      ELSE IF PlaceIn(bucket.list, key) = {} THEN Absent ELSE bucket.list[CHOOSE k \in PlaceIn(bucket.list, key) : TRUE][2]

(* LinkedList.remove takes out the pair after the one it was called for,   *)
(* unless that is the first; the list may then be as long as before.       *)
Unlinked(list, k) == IF k = 1 THEN Tail(list) ELSE IF k = Len(list) THEN list ELSE RemoveAt(list, k + 1)
RemoveMember(c, key) ==
  LET b == Position(c, key)
      places == PlaceIn(c.table[b].list, key)
      list == Unlinked(c.table[b].list, CHOOSE k \in places : TRUE)
  IN  IF ~HasKey(c, key) THEN c
      ELSE IF c.table[b].form = "tree" THEN [c EXCEPT !.table[b].tree = RemoveNode(@, key), !.num = @ - 1]
      ELSE [c EXCEPT !.table[b] = IF list = <<>> THEN NoBucket ELSE [@ EXCEPT !.list = list], !.num = @ - 1]

----------------------------------------------------------------------------
(* Arrays in the order of the hashes (Light) or the keys (Plain)           *)

(* The index, or minus the index to insert at, minus 1.                    *)
RECURSIVE Search(_, _, _, _)
Search(array, x, low, high) ==
  LET mid == (low + high) \div 2
  IN  IF low > high THEN -(low + 1)
      ELSE IF array[mid + 1] < x THEN Search(array, x, mid + 1, high)
      ELSE IF array[mid + 1] <= x THEN mid ELSE Search(array, x, low, mid - 1)
BinarySearchAtPlain(c, key) == Search(c.keys, key, 0, c.num - 1)
BinarySearchAtLightWeight(c, hash) == Search(c.hashs, hash, 0, c.num - 1)
InsertIn(array, i, x) == InsertAt(array, i + 1, x)
Spliced(array, i, n) ==
  IF i >= Len(array) THEN array ELSE SubSeq(array, 1, i) \o SubSeq(array, i + n + 1, Len(array))

EmptyLight == [hashs |-> <<>>, keys |-> <<>>, values |-> <<>>, num |-> 0, capacity |-> HashCapacity \div 2]
RECURSIVE EnsureCapacity(_, _)
EnsureCapacity(capacity, atLeast) == IF capacity < atLeast THEN EnsureCapacity(2 * capacity, atLeast) ELSE capacity

(* Two keys of the same hash are one key.                                  *)
LightAddMember(c, key, value) ==
  LET i == BinarySearchAtLightWeight(c, Hash(key))
      at == -i - 1
      d == IF i >= 0 THEN [c EXCEPT !.keys[i + 1] = key, !.values[i + 1] = value]
           ELSE [c EXCEPT !.hashs = InsertIn(@, at, Hash(key)), !.keys = InsertIn(@, at, key),
                          !.values = InsertIn(@, at, value), !.num = @ + 1]
  IN  IF d.capacity < d.num THEN [d EXCEPT !.capacity = EnsureCapacity(@, @ + 1)] ELSE d
GetIndexByKey(c, key) == LET i == BinarySearchAtLightWeight(c, Hash(key)) IN IF i < 0 \/ i >= c.num THEN -1 ELSE i
LightDeleteMember(c, key) ==
  LET i == GetIndexByKey(c, key)
  IN  IF i < 0 THEN c ELSE [c EXCEPT !.num = @ - 1, !.hashs = Spliced(@, i, 1), !.keys = Spliced(@, i, 1),
                                     !.values = Spliced(@, i, 1)]
(* The length is taken down before it is compared, and again.              *)
LightRemoveAt(c, i) ==
  IF i > c.num THEN [c EXCEPT !.num = @ - 1]
  ELSE [c EXCEPT !.num = @ - 2, !.hashs = Spliced(@, i, 1), !.keys = Spliced(@, i, 1), !.values = Spliced(@, i, 1)]
(* LightWeightSet does not look at its first member.                       *)
LightSetAdd(c, key) ==
  IF \E i \in 2..Len(c.keys) : c.keys[i] = key THEN Answer(c, 0) ELSE Answer(LightAddMember(c, key, ValueOf(key, 1)), 1)
LightSetAll(c, d) ==
  IF c.num = 0 THEN [d EXCEPT !.capacity = c.capacity]
  ELSE FoldLeft(LAMBDA e, k : LightAddMember(e, d.keys[k], d.values[k]), c, [k \in 1..d.num |-> k])
LightClear(c) == IF c.num # 0 \/ c.capacity > HashCapacity \div 2 THEN EmptyLight ELSE c

EmptyPlain == [keys |-> <<>>, values |-> <<>>, num |-> 0]
PlainAddMember(c, key, value) ==
  LET i == BinarySearchAtPlain(c, key)
      at == -i - 1
  IN  IF i >= 0 THEN [c EXCEPT !.keys[i + 1] = key, !.values[i + 1] = value]
      ELSE [c EXCEPT !.keys = InsertIn(@, at, key), !.values = InsertIn(@, at, value), !.num = @ + 1]
PlainDeleteMember(c, i, size) ==
  [c EXCEPT !.num = @ - size, !.keys = Spliced(@, i, size), !.values = Spliced(@, i, size)]
PlainRemove(c, key) == LET i == BinarySearchAtPlain(c, key) IN IF i < 0 THEN c ELSE PlainDeleteMember(c, i, 1)
PlainGet(c, key) == LET i == BinarySearchAtPlain(c, key) IN IF i < 0 THEN Absent ELSE c.values[i + 1]
(* checkRangeError lets index 0 pass when there is no member.              *)
IndexIsRight(c, i) == 0 <= i /\ i <= (IF c.num = 0 THEN 0 ELSE c.num - 1)
RemoveRangeFrom(c, i, size) == PlainDeleteMember(c, i, IF c.num - (i + size) < 0 THEN c.num - i ELSE size)

----------------------------------------------------------------------------
(* The calls, what they do here, and what they would do on a function      *)

New(kind) == CASE kind = "Tree" -> EmptyTree(TreeKeys) [] kind = "Hash" -> EmptyDictionary
               [] kind = "Light" -> EmptyLight [] kind = "Plain" -> EmptyPlain
Init ==
  \/ \E kind \in Kinds \ {"Compare"} :
       maps = [kind |-> kind, c |-> New(kind), ref |-> <<>>, gap |-> FALSE, same |-> TRUE]
  \/ \E s1, s2 \in Strings : s1 # s2 /\ maps = [kind |-> "Compare", c |-> <<s1, s2>>, gap |-> FALSE, same |-> TRUE]

(* The map that setAll is given.                                           *)
Given == [k \in {1, 2} |-> ValueOf(k, 1)]
GivenLight == LightAddMember(LightAddMember(EmptyLight, 1, Given[1]), 2, Given[2])

Calls(kind) ==
  CASE kind = "Tree"  -> {"set", "remove", "popFirst", "popLast", "clear", "forEach"}
    [] kind = "Hash"  -> {"set", "add", "remove", "replace", "clear", "setAll"}
    [] kind = "Light" -> {"set", "add", "remove", "removeAt", "setValueAt", "clear", "setAll", "increaseCapacityTo"}
    [] kind = "Plain" -> {"set", "remove", "removeAt", "removeRangeFrom", "setValueAt", "clear"}
TakesKey == {"set", "add", "remove", "replace"}
TakesValue == {"set", "replace", "setValueAt"}
TakesIndex == {"removeAt", "setValueAt", "removeRangeFrom"}

Taken(t, op) ==
  CASE op.do = "remove" -> GetNode(t, op.k) [] op.do = "popFirst" -> FirstNode(t) [] op.do = "popLast" -> LastNode(t)
TreeDoes(t, op) ==
  CASE op.do = "set" -> Answer(AddNode(t, op.k, ValueOf(op.k, op.e)), 1)
    [] op.do \in {"remove", "popFirst", "popLast"} -> LET n == Taken(t, op) IN Answer(RemoveIfAny(t, n), NodeValue(t, n))
    [] op.do = "clear" -> Answer(Renumbered(ClearTree(t)), 1)
    [] op.do = "forEach" -> Answer(RecordByMinToMax(t), 1)
HashDoes(c, op) ==
  CASE op.do = "set" -> Answer(Put(c, op.k, ValueOf(op.k, op.e)), 1)
    [] op.do = "add" -> HashSetAdd(c, op.k)
    [] op.do = "remove" -> Answer(RemoveMember(c, op.k), GetValueByKey(c, op.k))
    [] op.do = "replace" -> Answer([c EXCEPT !.table[Position(c, op.k)] = ReplaceMember(@, op.k, ValueOf(op.k, op.e))],
                                   IF HasKey(c, op.k) THEN 1 ELSE 0)
    [] op.do = "clear" -> Answer(EmptyDictionary, 1)
    [] op.do = "setAll" -> Answer(FoldLeft(LAMBDA d, k : Put(d, k, Given[k]), c, <<1, 2>>), 1)
LightDoes(c, op) ==
  CASE op.do = "set" -> Answer(LightAddMember(c, op.k, ValueOf(op.k, op.e)), 1)
    [] op.do = "add" -> LightSetAdd(c, op.k)
    [] op.do = "remove" -> LET i == GetIndexByKey(c, op.k)
                           IN Answer(LightDeleteMember(c, op.k), IF i < 0 THEN Absent ELSE c.values[i + 1])
    [] op.do = "removeAt" -> Answer(LightRemoveAt(c, op.i), IF op.i > c.num THEN 0 ELSE 1)
    [] op.do = "setValueAt" ->
         IF ~IndexIsRight(c, op.i) THEN Answer(c, Throw) ELSE IF c.num = 0 THEN Answer(c, 0)
         ELSE Answer([c EXCEPT !.values[op.i + 1] = ValueOf(c.keys[op.i + 1], op.e)], 1)
    [] op.do = "clear" -> Answer(LightClear(c), 1)
    [] op.do = "setAll" -> Answer(LightSetAll(c, GivenLight), 1)
    [] op.do = "increaseCapacityTo" -> Answer([c EXCEPT !.capacity = EnsureCapacity(@, @ + 1)], 1)
PlainDoes(c, op) ==
  CASE op.do = "set" -> Answer(PlainAddMember(c, op.k, ValueOf(op.k, op.e)), 1)
    [] op.do = "remove" -> Answer(PlainRemove(c, op.k), PlainGet(c, op.k))
    [] op.do = "removeAt" -> Answer(PlainDeleteMember(c, op.i, 1), IF op.i < c.num THEN c.values[op.i + 1] ELSE Absent)
    [] op.do = "removeRangeFrom" ->
         IF ~IndexIsRight(c, op.i) THEN Answer(c, Throw)
         ELSE Answer(RemoveRangeFrom(c, op.i, op.size), IF c.num < op.i + op.size THEN c.num - op.i ELSE op.size)
    [] op.do = "setValueAt" ->
         IF ~IndexIsRight(c, op.i) THEN Answer(c, Throw)
         ELSE IF c.num = 0 THEN Answer([c EXCEPT !.values = <<ValueOf(1, op.e)>>], 1)
         ELSE Answer([c EXCEPT !.values[op.i + 1] = ValueOf(c.keys[op.i + 1], op.e)], 1)
    [] op.do = "clear" -> Answer(IF c.num # 0 THEN EmptyPlain ELSE c, 1)
Does(kind, c, op) == CASE kind = "Tree" -> TreeDoes(c, op) [] kind = "Hash" -> HashDoes(c, op)
                       [] kind = "Light" -> LightDoes(c, op) [] kind = "Plain" -> PlainDoes(c, op)

Keys(f) == DOMAIN f
InOrderOf(kind, f) ==
  SortSeq(SetToSeq(Keys(f)), LAMBDA a, b : IF kind = "Light" THEN Hash(a) < Hash(b) ELSE a < b)
Result(f, out) == [f |-> f, out |-> out]
Without(f, S) == Restricted(f, Keys(f) \ S)
With(f, k, x) == [l \in Keys(f) \cup {k} |-> IF l = k THEN x ELSE f[l]]
ValueIn(f, k) == IF k \in Keys(f) THEN f[k] ELSE Absent

(* What the caller may expect of the function f.                           *)
Expected(kind, f, op) ==
  LET order == InOrderOf(kind, f)
      n == Len(order)
      pop(k) == Result(Without(f, {k}), f[k])
  IN  CASE op.do = "set" -> Result(With(f, op.k, ValueOf(op.k, op.e)), 1)
        [] op.do = "add" -> IF op.k \in Keys(f) THEN Result(f, 0) ELSE Result(With(f, op.k, ValueOf(op.k, 1)), 1)
        [] op.do = "remove" -> Result(Without(f, {op.k}), ValueIn(f, op.k))
        [] op.do = "replace" -> IF op.k \in Keys(f) THEN Result(With(f, op.k, ValueOf(op.k, op.e)), 1) ELSE Result(f, 0)
        [] op.do = "popFirst" -> IF n = 0 THEN Result(f, Absent) ELSE pop(order[1])
        [] op.do = "popLast" -> IF n = 0 THEN Result(f, Absent) ELSE pop(order[n])
        [] op.do = "removeAt" -> IF op.i < n THEN pop(order[op.i + 1]) ELSE Result(f, Absent)
        [] op.do = "removeRangeFrom" ->
             IF op.i >= n /\ op.i > 0 THEN Result(f, Throw)
             ELSE LET gone == {order[i] : i \in {i \in 1..n : op.i < i /\ i <= op.i + op.size}}
                  IN  Result(Without(f, gone), Cardinality(gone))
        [] op.do = "setValueAt" -> IF op.i < n THEN Result(With(f, order[op.i + 1], ValueOf(order[op.i + 1], op.e)), 1)
                                   ELSE Result(f, IF op.i > 0 THEN Throw ELSE 0)
        [] op.do = "clear" -> Result(<<>>, 1)
        [] op.do = "setAll" -> Result(With(With(f, 1, Given[1]), 2, Given[2]), 1)
        [] OTHER -> Result(f, 1)

(* The node removed for n has an only child, and is not the root.          *)
OnlyChildComesUp(t, n) ==
  LET gone == IF Get(t, n, "left") # None /\ Get(t, n, "right") # None THEN Leftmost(t, Get(t, n, "right")) ELSE n
  IN  n # None /\ Get(t, gone, "parent") # None /\ (Get(t, gone, "left") # None \/ Get(t, gone, "right") # None)
Collides(f, k) == \E l \in Keys(f) : l # k /\ Hash(l) = Hash(k)

(* Calls for which the code does something else, on a legal container:     *)
(*   a tree node with one child is removed: the child keeps the removed    *)
(*     node as its parent, and cannot be removed itself afterwards;        *)
(*   a pair that is not the first of its list is removed from a dictionary *)
(*     (another goes, or none), or replaced in a tree (getHead is missing);*)
(*   two keys of the same hash meet in a LightWeightMap;                   *)
(*   removeAt of LightWeightMap counts two members less; LightWeightSet    *)
(*     adds its first member again;                                        *)
(*   a PlainArray counts a removed member at an index where there is none, *)
(*     or sets a value without a key.                                      *)
Gap(kind, c, f, op) ==
  \/ kind = "Tree" /\ op.do \in {"remove", "popFirst", "popLast"} /\ OnlyChildComesUp(c, Taken(c, op))
  \/ /\ kind = "Hash" /\ op.k \in Keys(f) /\ op.do \in {"remove", "replace"}
     /\ LET bucket == c.table[Position(c, op.k)]
        IN  IF bucket.form = "list" THEN op.do = "remove" /\ 1 \notin PlaceIn(bucket.list, op.k)
            ELSE op.do = "replace" \/ OnlyChildComesUp(bucket.tree, GetNode(bucket.tree, op.k))
  \/ kind = "Light" /\ op.do \in TakesKey /\ (Collides(f, op.k) \/ (op.do = "add" /\ c.num > 0 /\ c.keys[1] = op.k))
  \/ kind = "Light" /\ op.do = "removeAt"
  \/ kind = "Plain" /\ op.do \in {"removeAt", "setValueAt"} /\ op.i >= c.num /\ (op.do = "removeAt" \/ op.i = 0)

Call(op, done, want) ==
  maps' = [maps EXCEPT !.c = done.c, !.ref = want.f, !.same = done.out = want.out,
                       !.gap = Gap(maps.kind, maps.c, maps.ref, op)]
Next ==
  /\ ~maps.gap /\ maps.kind # "Compare"
  /\ \E do \in Calls(maps.kind) :
     \E k \in (IF do \in TakesKey THEN KeysOf(maps.kind) ELSE {1}) :
     \E e \in (IF do \in TakesValue /\ (maps.kind = "Tree" => k = 1) THEN 1..2 ELSE {1}),
        i \in (IF do \in TakesIndex THEN 0..HashKeys ELSE {0}), size \in (IF do = "removeRangeFrom" THEN 0..2 ELSE {0}) :
       LET op == [do |-> do, k |-> k, e |-> e, i |-> i, size |-> size]
       IN  /\ do = "increaseCapacityTo" => maps.c.capacity < HashCapacity
           /\ Call(op, Does(maps.kind, maps.c, op), Expected(maps.kind, maps.ref, op))

----------------------------------------------------------------------------
(* As long as no gap was met every container has exactly the keys and the  *)
(* values it was given, counts them, and every call answered as it should. *)
Contents ==
  LET c == maps.c
      pairs == CASE maps.kind = "Tree" -> [k \in 1..Len(InOrder(c, c.root)) |->
                                              LET n == InOrder(c, c.root)[k] IN <<Get(c, n, "key"), Get(c, n, "value")>>]
                 [] maps.kind = "Hash" -> KeyValues(c)
                 [] OTHER -> [k \in 1..Len(c.keys) |-> <<c.keys[k], c.values[k]>>]
  IN  [k \in {pairs[p][1] : p \in DOMAIN pairs} |-> pairs[CHOOSE p \in DOMAIN pairs : pairs[p][1] = k][2]]
Agrees ==
  \/ maps.gap
  \/ maps.kind = "Compare" /\ LET s1 == maps.c[1]
                                  s2 == maps.c[2]
                              IN  s1 # <<>> /\ s2 # <<>> => CompareToString(s1, s2) = -CompareToString(s2, s1)
  \/ maps.kind # "Compare" /\ maps.same /\ Contents = maps.ref /\ maps.c.num = Cardinality(Keys(maps.ref))

(* Every key is found with its value, the first, the last and the keys     *)
(* beside it too (but for a child that has children of its own).           *)
Answers ==
  LET f == maps.ref
      c == maps.c
      order == InOrderOf(maps.kind, f)
      Below(k) == {l \in Keys(f) : l < k}
      Above(k) == {l \in Keys(f) : l > k}
      Least(S) == IF S = {} THEN Absent ELSE CHOOSE l \in S : \A m \in S : l <= m
      Greatest(S) == IF S = {} THEN Absent ELSE CHOOSE l \in S : \A m \in S : l >= m
      Bare(n, side) == n = None \/ Get(c, n, side) = None
  IN  ~maps.gap =>
      /\ maps.kind = "Tree" =>
           /\ \A k \in KeysOf("Tree") :
                LET n == GetNode(c, k)
                IN  /\ NodeValue(c, n) = ValueIn(f, k)
                    /\ n # None /\ Bare(Get(c, n, "left"), "right") => GetLowerKey(c, k) = Greatest(Below(k))
                    /\ n # None /\ Bare(Get(c, n, "right"), "left") => GetHigherKey(c, k) = Least(Above(k))
           /\ f # <<>> => Get(c, FirstNode(c), "key") = Least(Keys(f)) /\ Get(c, LastNode(c), "key") = Greatest(Keys(f))
           /\ ~c.change /\ f # <<>> => [i \in 1..c.num |-> Get(c, c.array[i], "key")] = order
      /\ maps.kind = "Hash" => \A k \in KeysOf("Hash") : GetValueByKey(c, k) = ValueIn(f, k) /\ HasKey(c, k) = (k \in Keys(f))
      /\ maps.kind = "Light" => \A k \in KeysOf("Light") : Collides(f, k) \/ GetIndexByKey(c, k) = -1
                                  \/ c.values[GetIndexByKey(c, k) + 1] = ValueIn(f, k)
      /\ maps.kind \in {"Light", "Plain"} => c.keys = order
      /\ maps.kind = "Light" => c.capacity >= c.num
      /\ maps.kind = "Plain" => \A k \in KeysOf("Plain") : PlainGet(c, k) = ValueIn(f, k)

(* The tree stays a red-black tree: no red node has a red child, and every *)
(* way down passes the same number of black ones (-1: they differ).        *)
RECURSIVE BlackHeight(_, _)
BlackHeight(t, n) ==
  IF n = None THEN 1
  ELSE LET l == BlackHeight(t, Get(t, n, "left"))
           r == BlackHeight(t, Get(t, n, "right"))
       IN  IF l # r \/ l = -1 THEN -1 ELSE l + (IF Color(t, n) = "BLACK" THEN 1 ELSE 0)
Balanced ==
  maps.kind = "Tree" /\ ~maps.gap =>
    LET t == maps.c
    IN  /\ BlackHeight(t, t.root) # -1 /\ Color(t, t.root) = "BLACK"
        /\ \A n \in NodesOf(t), side \in {"left", "right"} :
             LET child == Get(t, n, side)
             IN  child # None => Get(t, child, "parent") = n /\ (Color(t, n) = "RED" => Color(t, child) = "BLACK")
=============================================================================
