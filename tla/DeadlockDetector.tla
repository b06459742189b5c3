-------------------------- MODULE DeadlockDetector --------------------------
(***************************************************************************)
(* What AsyncLockManager reports when a lockAsync times out: it collects   *)
(* who waits for whom over all locks and looks for a cycle.                *)
(* js_concurrent_module/utils/locks/async_lock_manager.cpp,                *)
(* deadlock_helpers.cpp, graph.h.                                          *)
(***************************************************************************)
EXTENDS Naturals, Sequences, SequencesExt

CONSTANTS
  Tids,         \* threads, the vertices of the graph
  NoEdge,       \* an empty entry of the adjacency matrix
  NoChild       \* INVALID_V_IDX

(* One lock: the threads that hold it and those that wait for it, in the   *)
(* order of heldList_ and pendingList_.                                    *)
LockInfo(MaxLen) == [holders : BoundedSeq(Tids, MaxLen), waiters : BoundedSeq(Tids, MaxLen)]

(* CollectLockDependencies: everybody waits for the first holder.  The     *)
(* held-only entries, which CheckDeadlocks skips, are left out.            *)
CollectLockDependencies(locks) ==
  LET Waits(lock) ==
        IF lock.holders = <<>> THEN <<>>
        ELSE [i \in DOMAIN lock.waiters |->
                [from |-> lock.waiters[i], to |-> lock.holders[1]]]
  IN FlattenSeq([l \in DOMAIN locks |-> Waits(locks[l])])

(* Graph::Graph: the vertices in the order in which the edges name them,   *)
(* and the index under which each of them is looked up.  `size' is         *)
(* computed before any vertex is added and never updated.                  *)
Vertices(adj) ==
  LET Add(vs, tid) == IF Contains(vs, tid) THEN vs ELSE Append(vs, tid)
  IN FoldLeft(LAMBDA vs, edge : Add(Add(vs, edge.from), edge.to), <<>>, adj)

VertexIndex(adj, tid) == 1

Edges(adj) ==
  LET n == Len(Vertices(adj))
      Put(e, edge) ==
        [e EXCEPT ![VertexIndex(adj, edge.from)][VertexIndex(adj, edge.to)] = edge]
  IN FoldLeft(Put, [i \in 1..n |-> [j \in 1..n |-> NoEdge]], adj)

(* DfsBuildCycleInfo: the indices on the stack back to the child. *)
BuildCycleInfo(stack, current, child) ==
  LET Origin == {i \in DOMAIN stack : stack[i].current = child}
      upTo == IF Origin = {} THEN Len(stack)
              ELSE CHOOSE i \in Origin : \A j \in Origin : i <= j
  IN <<child, current>> \o [i \in 1..upTo |-> stack[i].current]

(* DfsPopState: what remains of the stack once the vertices that have no   *)
(* child left are black; the top of the stack is its head.                 *)
RECURSIVE PopState(_, _)
PopState(stack, color) ==
  IF stack # <<>> /\ Head(stack).child = NoChild
  THEN PopState(Tail(stack), [color EXCEPT ![Head(stack).current] = "black"])
  ELSE [stack |-> stack, color |-> color]

(* RunDfsFromVertex with DfsVisitChildren: the cycle, or the colours that  *)
(* are left when there is none.                                            *)
RECURSIVE RunDfs(_, _, _, _, _)
RunDfs(e, stack, current, child, color) ==
  LET n == Len(e)
      grey == [color EXCEPT ![current] = "grey"]
      open == {c \in child..n : e[current][c] # NoEdge /\ grey[c] # "black"}
      next == CHOOSE c \in open : \A d \in open : c <= d
      popped == PopState(stack, [grey EXCEPT ![current] = "black"])
  IN IF open = {}
     THEN IF popped.stack = <<>>
          THEN [cycle |-> <<>>, color |-> popped.color]
          ELSE RunDfs(e, Tail(popped.stack), Head(popped.stack).current,
                      Head(popped.stack).child, popped.color)
     ELSE IF grey[next] = "grey"
          THEN [cycle |-> BuildCycleInfo(stack, current, next), color |-> grey]
          ELSE RunDfs(e, <<[current |-> current,
                            child |-> IF next + 1 <= n THEN next + 1 ELSE NoChild]>> \o stack,
                      next, 1, grey)

(* Graph::FindFirstCycle: a search from every vertex that is still white.  *)
RECURSIVE SearchFrom(_, _, _)
SearchFrom(e, seed, color) ==
  IF seed > Len(e) THEN <<>>
  ELSE IF color[seed] # "white" THEN SearchFrom(e, seed + 1, color)
  ELSE LET result == RunDfs(e, <<>>, seed, 1, color)
       IN IF result.cycle # <<>> THEN result.cycle ELSE SearchFrom(e, seed + 1, result.color)

FindFirstCycle(e) == SearchFrom(e, 1, [i \in 1..Len(e) |-> "white"])

(* CheckDeadlocks: the threads of the cycle, none if there is no cycle.    *)
CheckDeadlocks(adj) ==
  LET path == FindFirstCycle(Edges(adj))
  IN [i \in DOMAIN path |-> Vertices(adj)[path[i]]]

----------------------------------------------------------------------------
(* The reference: a cycle of the relation `waits for the holder of'. *)

RECURSIVE Reach(_, _)
Reach(adj, tids) ==
  LET more == tids \cup {adj[i].to : i \in {j \in DOMAIN adj : adj[j].from \in tids}}
  IN IF more = tids THEN tids ELSE Reach(adj, more)

Deadlocked(adj) ==
  {tid \in Tids : tid \in Reach(adj, {adj[i].to : i \in {j \in DOMAIN adj : adj[j].from = tid}})}
=============================================================================
