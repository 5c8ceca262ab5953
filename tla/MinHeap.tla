------------------------------- MODULE MinHeap -------------------------------
(***************************************************************************)
(* The array behind the two heaps of a core (src/kernel/min_heap.c): nodes *)
(* of a thread and its key, and in every thread the index of its node,     *)
(* which remove_node and balance_node trust.  Keys are unsigned numbers    *)
(* that wrap.                                                              *)
(*                                                                         *)
(* A call changes the array and then moves one node up or down, one level  *)
(* per step here; the caller holds the core's mutex, so the next call      *)
(* comes when the node has settled.                                        *)
(***************************************************************************)
EXTENDS Integers, FiniteSets

CONSTANTS
  Threads,      \* the thread_t pointers callers insert
  NULL,
  MAX_THREADS,  \* number of nodes
  HALF,         \* half of the range of a key: 2^31
  Keys          \* the keys callers pass

ASSUME HeapAssumption ==
  /\ MAX_THREADS \in Nat \ {0} /\ NULL \notin Threads
  /\ HALF \in Nat \ {0} /\ Keys \subseteq 0 .. 2 * HALF - 1

\* No key has wrapped past another: the plain < of remove_node and balance_node then
\* agrees with lt_wrapped.  The array is left out of order where this fails.
ASSUME KeysApart == \A a, b \in Keys : a - b < HALF

VARIABLES
  heap,        \* the nodes; those from curr_index on are stale
  curr_index,  \* number of nodes in use
  heap_index,  \* of every thread_t, whether it is in this heap or not
  percolate,   \* the direction a node is moving in, or "none"
  index,       \* of the node that is moving
  reply        \* what the last call returned, and the threads it handed out

vars == <<heap, curr_index, heap_index, percolate, index, reply>>

Indices == 0 .. MAX_THREADS - 1

Used == 0 .. curr_index - 1

Members == {heap[i].thread : i \in Used}

Reply(ok, threads) == [ok |-> ok, threads |-> threads]

Node(t, order) == [thread |-> t, order |-> order]

\* aux.h: the sign of the difference
lt_wrapped(a, b) == (a - b) % (2 * HALF) >= HALF

find_parent_index(i) == IF i = 0 THEN 0 ELSE (i - 1) \div 2

find_left_child(i) == 2 * i + 1

find_right_child(i) == 2 * (i + 1)

\* Static heaps are zero before psched_core_init.
Init ==
  /\ heap = [i \in Indices |-> Node(NULL, 0)]
  /\ curr_index = 0
  /\ heap_index = [t \in Threads |-> 0]
  /\ percolate = "none" /\ index = 0
  /\ reply = Reply(TRUE, {})

----------------------------------------------------------------------------
(* Percolation *)

ReindexedOne(h, i, j) == [heap_index EXCEPT ![h[i].thread] = i]  \* mutant: one index kept

\* Both threads of a swap learn their new index.
Reindexed(h, i, j) == [heap_index EXCEPT ![h[i].thread] = i, ![h[j].thread] = j]

\* The moving node changes places with node j and goes on from there.
SwapWith(j) ==
  /\ heap' = [heap EXCEPT ![index] = heap[j], ![j] = heap[index]]
  /\ heap_index' = Reindexed(heap', index, j)
  /\ index' = j
  /\ UNCHANGED <<curr_index, percolate, reply>>

Settle ==
  /\ percolate' = "none" /\ index' = 0
  /\ UNCHANGED <<heap, curr_index, heap_index, reply>>

RisesPast(j) == index # 0 /\ lt_wrapped(heap[index].order, heap[j].order)

percolate_up ==
  /\ percolate = "up"
  /\ LET parent == find_parent_index(index)
     IN  \/ RisesPast(parent) /\ SwapWith(parent)
         \/ ~RisesPast(parent) /\ Settle

\* Child j is in range and before the node with key `order`.
Before(j, order) == j \in Used /\ lt_wrapped(heap[j].order, order)

FirstSmaller ==  \* mutant: the right child is compared with the node only
  LET l == find_left_child(index)
      r == find_right_child(index)
  IN  IF Before(l, heap[index].order) THEN {l}
      ELSE IF Before(r, heap[index].order) THEN {r} ELSE {}

\* The smaller child, the left of two equal ones, if it is before the moving node
SmallerChild ==
  LET l == find_left_child(index)
      r == find_right_child(index)
      left == Before(l, heap[index].order)
  IN  IF Before(r, IF left THEN heap[l].order ELSE heap[index].order) THEN {r}
      ELSE IF left THEN {l} ELSE {}

percolate_down ==
  /\ percolate = "down"
  /\ \/ \E j \in SmallerChild : SwapWith(j)
     \/ SmallerChild = {} /\ Settle

----------------------------------------------------------------------------
(* The calls *)

HasRoomOffByOne == curr_index <= MAX_THREADS  \* mutant: off by one

HasRoom == curr_index < MAX_THREADS

insert_node(t, order) ==
  \/ /\ HasRoom
     /\ heap' = [heap EXCEPT ![curr_index] = Node(t, order)]
     /\ heap_index' = [heap_index EXCEPT ![t] = curr_index]
     /\ curr_index' = curr_index + 1
     /\ percolate' = "up" /\ index' = curr_index
     /\ reply' = Reply(TRUE, {})
  \/ /\ ~HasRoom
     /\ reply' = Reply(FALSE, {})
     /\ UNCHANGED <<heap, curr_index, heap_index, percolate, index>>

\* The last node fills the place of node i.  It may be node i itself, which then
\* stays in its slot, past the end.
LastMovedTo(i) ==
  /\ heap' = [heap EXCEPT ![i] = heap[curr_index - 1]]
  /\ heap_index' = [heap_index EXCEPT ![heap[curr_index - 1].thread] = i]
  /\ curr_index' = curr_index - 1
  /\ index' = i

\* pop_heap, with the remove_head it calls
pop_heap ==
  \/ /\ curr_index = 1
     /\ curr_index' = 0
     /\ reply' = Reply(TRUE, {heap[0].thread})
     /\ UNCHANGED <<heap, heap_index, percolate, index>>
  \/ /\ curr_index > 1
     /\ LastMovedTo(0)
     /\ percolate' = "down"
     /\ reply' = Reply(TRUE, {heap[0].thread})
  \/ /\ curr_index = 0
     /\ reply' = Reply(FALSE, {})
     /\ UNCHANGED <<heap, curr_index, heap_index, percolate, index>>

AlwaysDown(h, i) == "down"  \* mutant: a replaced node may have to rise

\* A changed node rises or sinks.  The comparison with its parent is a plain <,
\* not lt_wrapped.
Direction(h, i) == IF h[i].order < h[find_parent_index(i)].order THEN "up" ELSE "down"

\* remove_node(heap, i), with i the index in a thread of the heap: i < curr_index
remove_node(i) ==
  /\ reply' = Reply(TRUE, {})
  /\ \/ /\ curr_index = 1
        /\ curr_index' = 0
        /\ UNCHANGED <<heap, heap_index, percolate, index>>
     \/ /\ curr_index > 1
        /\ LastMovedTo(i)
        /\ percolate' = Direction(heap', i)

\* balance_node: the only node keeps its old key
balance_node(i, order) ==
  /\ reply' = Reply(TRUE, {})
  /\ \/ /\ curr_index = 1
        /\ UNCHANGED <<heap, curr_index, heap_index, percolate, index>>
     \/ /\ curr_index > 1
        /\ heap' = [heap EXCEPT ![i].order = order]
        /\ percolate' = Direction(heap', i) /\ index' = i
        /\ UNCHANGED <<curr_index, heap_index>>

\* The teardown in next_thread frees the threads of the nodes in use.
Teardown ==
  /\ curr_index' = 0
  /\ reply' = Reply(TRUE, Members)
  /\ UNCHANGED <<heap, heap_index, percolate, index>>

\* The keys a thread may be rebalanced to: no key is ahead of the time it copies, and
\* times move forward only (SchedInvariant: Times and TimesForward).
Later(t) == {order \in Keys : ~lt_wrapped(order, heap[heap_index[t]].order)}

\* Callers insert threads that are not in the heap, and remove or rebalance those
\* that are by the index kept in the thread.
Call ==
  /\ percolate = "none"
  /\ \/ \E t \in Threads \ Members, order \in Keys : insert_node(t, order)
     \/ \E t \in Members : \/ remove_node(heap_index[t])
                           \/ \E order \in Later(t) : balance_node(heap_index[t], order)
     \/ pop_heap \/ Teardown

Next == percolate_up \/ percolate_down \/ Call

Spec == Init /\ [][Next]_vars

----------------------------------------------------------------------------
TypeOK ==
  /\ heap \in [Indices -> [thread: Threads \cup {NULL}, order: 0 .. 2 * HALF - 1]]
  /\ curr_index \in 0 .. MAX_THREADS
  /\ heap_index \in [Threads -> Indices]
  /\ percolate \in {"none", "up", "down"} /\ index \in Indices
  /\ reply \in [ok: BOOLEAN, threads: SUBSET Threads]

\* The index kept in a thread names its node, also while nodes are moving: what
\* remove_node and balance_node act on is the thread the caller means, and no
\* thread has two nodes.
IndexNamesNode ==
  \A i \in Used : heap[i].thread \in Threads /\ heap_index[heap[i].thread] = i

\* When no node is moving none is before its parent: wherever a node was inserted,
\* removed or rebalanced, one walk in one direction has repaired the whole array.
HeapOrdered ==
  percolate = "none" =>
    \A i \in Used : ~lt_wrapped(heap[i].order, heap[find_parent_index(i)].order)

\* The map from threads to keys the array stands for
Map == [t \in Members |-> heap[heap_index[t]].order]

Abstract == INSTANCE PriorityMap WITH map <- Map, reply <- reply

\* The array is a bounded map with a least element to its callers, as Sched takes
\* it: moving nodes changes nothing they see.
ImplementsPriorityMap == Abstract!Spec
=============================================================================
