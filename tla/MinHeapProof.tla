---------------------------- MODULE MinHeapProof ----------------------------
(***************************************************************************)
(* The array of min_heap.c keeps its back pointers and its order for any   *)
(* number of nodes, threads and keys, and is to its callers the map of     *)
(* PriorityMap.                                                            *)
(***************************************************************************)
EXTENDS MinHeap, TLAPS, WellFoundedInduction, FiniteSetTheorems

Parent(i) == find_parent_index(i)

Key(i) == heap[i].order

(* Every node in use has a key of the callers; so has the moving node,     *)
(* which may be one past the end when the last node was removed.           *)
KeysOfCallers ==
  /\ \A i \in Used : Key(i) \in Keys
  /\ percolate # "none" => Key(index) \in Keys

(* Where a node is moving up, it alone may be before its parent, and       *)
(* nothing below it is before that parent.                                 *)
Rising ==
  /\ index \in Used
  /\ \A i \in Used \ {0, index} : Key(Parent(i)) <= Key(i)
  /\ index # 0 => \A i \in Used \ {0} : Parent(i) = index => Key(Parent(index)) <= Key(i)

(* Where a node is moving down, its children alone may be before it, and   *)
(* they are not before its parent.                                         *)
Sinking ==
  /\ index \in 0 .. curr_index
  /\ \A i \in Used \ {0} : Parent(i) # index => Key(Parent(i)) <= Key(i)
  /\ index # 0 => \A i \in Used \ {0} : Parent(i) = index => Key(Parent(index)) <= Key(i)

Sorted == \A i \in Used \ {0} : Key(Parent(i)) <= Key(i)

Repairing ==
  /\ percolate = "none" => Sorted
  /\ percolate = "up" => Rising
  /\ percolate = "down" => Sinking

(* The inductive invariant.  HeapOrdered is its last part while no node is *)
(* moving.  IndexNamesNode needs the order: a node left past the end by    *)
(* remove_node would come back if it could rise.                           *)
IInv == TypeOK /\ IndexNamesNode /\ KeysOfCallers /\ Repairing

-----------------------------------------------------------------------------
(* Arithmetic *)

(* Keys that have not wrapped past one another are compared as numbers.    *)
LEMMA Wraps == \A a, b \in Keys : lt_wrapped(a, b) <=> a < b
  <1> SUFFICES ASSUME NEW a \in Keys, NEW b \in Keys PROVE lt_wrapped(a, b) <=> a < b
    OBVIOUS
  <1>0. /\ a \in Int /\ b \in Int /\ HALF \in Nat /\ HALF > 0
        /\ a - b < HALF /\ b - a < HALF
    BY HeapAssumption, KeysApart
  <1>1. CASE a < b
    <2>1. (a - b) % (2 * HALF) = a - b + 2 * HALF BY <1>0, <1>1
    <2> QED BY <2>1, <1>0, <1>1 DEF lt_wrapped
  <1>2. CASE a >= b
    <2>1. (a - b) % (2 * HALF) = a - b BY <1>0, <1>2
    <2> QED BY <2>1, <1>0, <1>2 DEF lt_wrapped
  <1> QED BY <1>0, <1>1, <1>2

(* The shape of the tree.                                                  *)
LEMMA Tree ==
  /\ \A i \in Nat \ {0} :
        /\ Parent(i) \in Nat /\ Parent(i) < i
        /\ i \in {find_left_child(Parent(i)), find_right_child(Parent(i))}
  /\ \A i \in Nat :
        /\ find_left_child(i) \in Nat /\ find_right_child(i) \in Nat
        /\ i < find_left_child(i) /\ i < find_right_child(i)
        /\ Parent(find_left_child(i)) = i /\ Parent(find_right_child(i)) = i
  /\ Parent(0) = 0
  BY DEF Parent, find_parent_index, find_left_child, find_right_child

(* The least-number principle: induction over the indices of the array.    *)
LEMMA LeastNumber ==
  ASSUME NEW T, T \subseteq Nat, T # {} PROVE \E m \in T : \A n \in T : m <= n
  <1>1. PICK m \in T : \A n \in T : ~ (<<n, m>> \in OpToRel(<, Nat))
    BY NatLessThanWellFounded, WFMin, Zenon
  <1>2. \A n \in T : ~ (n < m)
    BY <1>1, Zenon DEF OpToRel
  <1>3. m \in Nat /\ \A n \in T : n \in Nat OBVIOUS
  <1> QED BY <1>2, <1>3

(* Sizes and indices are natural numbers.                                  *)
LEMMA Sizes ==
  TypeOK => /\ MAX_THREADS \in Nat /\ curr_index \in Nat /\ curr_index <= MAX_THREADS
            /\ index \in Nat /\ index < MAX_THREADS
            /\ \A i : i \in Used <=> i \in Nat /\ i < curr_index
            /\ \A i : i \in Indices <=> i \in Nat /\ i < MAX_THREADS
  BY HeapAssumption DEF TypeOK, Used, Indices

(* The nodes in use are a tree: all of them but the first have a parent.   *)
LEMMA UsedTree ==
  TypeOK => /\ Used \subseteq Nat
            /\ \A i \in Used \ {0} :
                  /\ Parent(i) \in Used /\ Parent(i) < i /\ Parent(i) # i
                  /\ i \in {find_left_child(Parent(i)), find_right_child(Parent(i))}
  <1> SUFFICES ASSUME TypeOK, NEW i \in Used \ {0}
               PROVE  /\ Parent(i) \in Used /\ Parent(i) < i /\ Parent(i) # i
                      /\ i \in {find_left_child(Parent(i)), find_right_child(Parent(i))}
    BY Sizes
  <1>1. i \in Nat \ {0} /\ i < curr_index /\ curr_index \in Nat BY Sizes
  <1>2. /\ Parent(i) \in Nat /\ Parent(i) < i
        /\ i \in {find_left_child(Parent(i)), find_right_child(Parent(i))}
    BY <1>1, Tree
  <1>3. Parent(i) < curr_index BY <1>1, <1>2
  <1> QED BY <1>2, <1>3, Sizes

LEMMA KeyType == TypeOK => \A i \in Indices : Key(i) \in Nat
  BY HeapAssumption DEF TypeOK, Key

-----------------------------------------------------------------------------
(* One level of percolation *)

LEMMA Swapped ==
  ASSUME TypeOK, IndexNamesNode, index \in Used,
         NEW j \in Used, j # index, SwapWith(j)
  PROVE  /\ TypeOK' /\ IndexNamesNode'
         /\ heap'[index] = heap[j] /\ heap'[j] = heap[index]
         /\ \A i \in Indices \ {index, j} : heap'[i] = heap[i]
         /\ index' = j
  <1>0. /\ Used \subseteq Indices /\ Used' = Used
        /\ index \in Indices /\ j \in Indices
    BY Sizes DEF SwapWith, Used
  <1>1. /\ heap'[index] = heap[j] /\ heap'[j] = heap[index]
        /\ \A i \in Indices \ {index, j} : heap'[i] = heap[i]
        /\ heap' \in [Indices -> [thread: Threads \cup {NULL}, order: 0 .. 2 * HALF - 1]]
    BY <1>0 DEF SwapWith, TypeOK
  <1>2. /\ heap[index].thread \in Threads /\ heap[j].thread \in Threads
        /\ heap[index].thread # heap[j].thread
    BY <1>0 DEF IndexNamesNode
  <1>3. /\ heap_index' \in [Threads -> Indices]
        /\ heap_index'[heap[j].thread] = index /\ heap_index'[heap[index].thread] = j
        /\ \A t \in Threads \ {heap[index].thread, heap[j].thread} : heap_index'[t] = heap_index[t]
    BY <1>0, <1>1, <1>2 DEF SwapWith, Reindexed, TypeOK
  <1>4. TypeOK'
    BY <1>0, <1>1, <1>3 DEF SwapWith, TypeOK, Indices
  <1>5. ASSUME NEW i \in Used
        PROVE  heap'[i].thread \in Threads /\ heap_index'[heap'[i].thread] = i
    <2>1. CASE i \in {index, j} BY <2>1, <1>1, <1>2, <1>3
    <2>2. CASE i \notin {index, j}
      <3>1. heap'[i] = heap[i] BY <2>2, <1>0, <1>1
      <3>2. /\ heap[i].thread \in Threads /\ heap_index[heap[i].thread] = i
            /\ heap[i].thread # heap[index].thread /\ heap[i].thread # heap[j].thread
        BY <2>2 DEF IndexNamesNode
      <3> QED BY <3>1, <3>2, <1>3
    <2> QED BY <2>1, <2>2
  <1>6. IndexNamesNode' BY <1>0, <1>5 DEF IndexNamesNode
  <1> QED BY <1>1, <1>4, <1>6 DEF SwapWith

(* What a swap does to the keys and to the nodes in use.                    *)
LEMMA SwappedKeys ==
  ASSUME IInv, index \in Used, NEW j \in Used, j # index, SwapWith(j), percolate # "none"
  PROVE  /\ TypeOK' /\ IndexNamesNode' /\ KeysOfCallers'
         /\ Used' = Used /\ index' = j /\ percolate' = percolate
         /\ heap'[index].order = Key(j) /\ heap'[j].order = Key(index)
         /\ \A i \in Used \ {index, j} : heap'[i].order = Key(i)
         /\ \A i \in Used : heap'[i].order \in Nat /\ Key(i) \in Nat
  <1>0. TypeOK /\ IndexNamesNode /\ KeysOfCallers BY DEF IInv
  <1>1. /\ TypeOK' /\ IndexNamesNode'
        /\ heap'[index] = heap[j] /\ heap'[j] = heap[index]
        /\ \A i \in Indices \ {index, j} : heap'[i] = heap[i]
        /\ index' = j
    BY <1>0, Swapped
  <1>2. Used' = Used /\ percolate' = percolate /\ Used \subseteq Indices
    BY <1>0, Sizes DEF SwapWith, Used
  <1>3. /\ heap'[index].order = Key(j) /\ heap'[j].order = Key(index)
        /\ \A i \in Used \ {index, j} : heap'[i].order = Key(i)
    BY <1>1, <1>2 DEF Key
  <1>4. \A i \in Used : Key(i) \in Nat BY <1>0, <1>2, KeyType
  <1>5. \A i \in Used : heap'[i].order \in Nat BY <1>3, <1>4
  <1>6. KeysOfCallers'
    BY <1>0, <1>1, <1>2, <1>3 DEF KeysOfCallers, Key
  <1> QED BY <1>1, <1>2, <1>3, <1>4, <1>5, <1>6

LEMMA Rises ==
  ASSUME IInv, percolate = "up", RisesPast(Parent(index)), SwapWith(Parent(index))
  PROVE  IInv'
  <1> DEFINE p == Parent(index)
  <1>0. Rising /\ TypeOK /\ KeysOfCallers BY DEF IInv, Repairing
  <1>1. /\ index \in Used /\ index # 0 /\ p \in Used /\ p # index
        /\ Used \subseteq Nat /\ \A i \in Used \ {0} : Parent(i) \in Used /\ Parent(i) # i
    BY <1>0, UsedTree DEF Rising, RisesPast
  <1>2. /\ TypeOK' /\ IndexNamesNode' /\ KeysOfCallers'
        /\ Used' = Used /\ index' = p /\ percolate' = "up"
        /\ heap'[index].order = Key(p) /\ heap'[p].order = Key(index)
        /\ \A i \in Used \ {index, p} : heap'[i].order = Key(i)
        /\ \A i \in Used : heap'[i].order \in Nat /\ Key(i) \in Nat
    BY <1>0, <1>1, SwappedKeys
  <1>3. Key(index) < Key(p)
    BY <1>0, <1>1, Wraps DEF RisesPast, KeysOfCallers, Key
  <1> HIDE DEF p
  <1>4. ASSUME NEW i \in Used \ {0, p} PROVE heap'[Parent(i)].order <= heap'[i].order
    <2>0. p = Parent(index) BY DEF p
    <2>1. CASE i = index BY <2>1, <2>0, <1>1, <1>2, <1>3
    <2>2. CASE i # index /\ Parent(i) = p
      <3>1. Key(p) <= Key(i) BY <2>2, <1>0 DEF Rising
      <3> QED BY <3>1, <2>2, <1>1, <1>2, <1>3
    <2>3. CASE i # index /\ Parent(i) = index
      <3>1. Key(p) <= Key(i) BY <2>0, <2>3, <1>0, <1>1 DEF Rising
      <3> QED BY <3>1, <2>3, <1>2
    <2>4. CASE i # index /\ Parent(i) # p /\ Parent(i) # index
      <3>1. Key(Parent(i)) <= Key(i) BY <2>4, <1>0 DEF Rising
      <3> QED BY <3>1, <2>4, <1>1, <1>2
    <2> QED BY <2>1, <2>2, <2>3, <2>4
  <1>5. ASSUME p # 0, NEW i \in Used \ {0}, Parent(i) = p
        PROVE  heap'[Parent(p)].order <= heap'[i].order
    <2>0. p = Parent(index) /\ Parent(p) # p BY <1>1, <1>5 DEF p
    <2>1. Parent(p) # index /\ Parent(p) \in Used
      <3>1. p < index /\ Parent(p) < p /\ Parent(p) \in Used /\ {p, index, Parent(p)} \subseteq Nat
        BY <1>0, <1>1, <1>5, <2>0, UsedTree
      <3> QED BY <3>1
    <2>2. Key(Parent(p)) <= Key(p) BY <1>0, <1>1, <1>5 DEF Rising
    <2>3. heap'[Parent(p)].order = Key(Parent(p)) BY <2>0, <2>1, <1>2
    <2>4. CASE i = index BY <2>2, <2>3, <2>4, <1>2
    <2>5. CASE i # index
      <3>1. Key(p) <= Key(i) BY <2>5, <1>0, <1>5 DEF Rising
      <3>2. i # p BY <1>1, <1>5
      <3>3. heap'[i].order = Key(i) BY <3>2, <2>5, <1>2
      <3>4. Key(p) \in Nat /\ Key(i) \in Nat /\ Key(Parent(p)) \in Nat BY <2>1, <1>1, <1>2
      <3> QED BY <3>1, <3>3, <3>4, <2>2, <2>3
    <2> QED BY <2>4, <2>5
  <1>6. Rising' BY <1>1, <1>2, <1>4, <1>5 DEF Rising, Key
  <1> QED BY <1>2, <1>6 DEF IInv, Repairing

LEMMA Sinks ==
  ASSUME IInv, percolate = "down", NEW j \in SmallerChild, SwapWith(j)
  PROVE  IInv'
  <1>0. Sinking /\ TypeOK /\ KeysOfCallers BY DEF IInv, Repairing
  <1>1. /\ j \in Used \ {0} /\ Parent(j) = index /\ index \in Used
        /\ Used \subseteq Nat /\ \A i \in Used \ {0} : Parent(i) \in Used /\ Parent(i) # i
    <2>1. /\ index \in Nat /\ index \in Indices /\ j \in Used
          /\ j = find_left_child(index) \/ j = find_right_child(index)
      BY <1>0, Sizes DEF SmallerChild, Before
    <2>2. j # 0 /\ Parent(j) = index BY <2>1, Tree
    <2> QED BY <1>0, <2>1, <2>2, UsedTree
  <1>2. /\ TypeOK' /\ IndexNamesNode' /\ KeysOfCallers'
        /\ Used' = Used /\ index' = j /\ percolate' = "down"
        /\ heap'[index].order = Key(j) /\ heap'[j].order = Key(index)
        /\ \A i \in Used \ {index, j} : heap'[i].order = Key(i)
        /\ \A i \in Used : heap'[i].order \in Nat /\ Key(i) \in Nat
    BY <1>0, <1>1, SwappedKeys
  <1>3. /\ Key(j) < Key(index)
        /\ \A i \in Used \ {0} : Parent(i) = index => Key(j) <= Key(i)
    <2> DEFINE l == find_left_child(index)
               r == find_right_child(index)
    <2>1. \A a, b \in Used : lt_wrapped(heap[a].order, heap[b].order) <=> Key(a) < Key(b)
      BY <1>0, Wraps DEF KeysOfCallers, Key
    <2>2. \A i \in Used \ {0} : Parent(i) = index => i = l \/ i = r
      BY <1>0, UsedTree
    <2> HIDE DEF l, r
    <2>3. CASE l \in Used /\ Key(l) < Key(index)
      <3>1. Before(l, heap[index].order) BY <2>1, <2>3, <1>1 DEF Before
      <3>2. CASE r \in Used /\ Key(r) < Key(l)
        <4>1. Before(r, heap[l].order) BY <2>1, <2>3, <3>2 DEF Before
        <4>2. j = r BY <3>1, <4>1 DEF SmallerChild, l, r
        <4>3. Key(l) \in Nat /\ Key(r) \in Nat /\ Key(index) \in Nat BY <1>1, <1>2, <2>3, <3>2
        <4> QED BY <2>2, <2>3, <3>2, <4>2, <4>3
      <3>3. CASE ~(r \in Used /\ Key(r) < Key(l))
        <4>1. ~Before(r, heap[l].order) BY <2>1, <2>3, <3>3 DEF Before
        <4>2. j = l BY <3>1, <4>1 DEF SmallerChild, l, r
        <4>3. \A i \in Used : Key(i) \in Nat BY <1>2
        <4> QED BY <2>2, <2>3, <3>3, <4>2, <4>3
      <3> QED BY <3>2, <3>3
    <2>4. CASE ~(l \in Used /\ Key(l) < Key(index))
      <3>1. ~Before(l, heap[index].order) BY <2>1, <2>4, <1>1 DEF Before
      <3>2. j = r /\ Before(r, heap[index].order) BY <3>1 DEF SmallerChild, l, r
      <3>3. r \in Used /\ Key(r) < Key(index) BY <2>1, <3>2, <1>1 DEF Before
      <3>4. \A i \in Used : Key(i) \in Nat BY <1>2
      <3> QED BY <2>2, <2>4, <3>2, <3>3, <3>4, <1>1
    <2> QED BY <2>3, <2>4
  <1>4. ASSUME NEW i \in Used \ {0}, Parent(i) # j
        PROVE  heap'[Parent(i)].order <= heap'[i].order
    <2>1. CASE i = j BY <2>1, <1>1, <1>2, <1>3
    <2>2. CASE i = index
      <3>1. Key(Parent(index)) <= Key(j) BY <2>2, <1>0, <1>1 DEF Sinking
      <3> QED BY <3>1, <2>2, <1>1, <1>2, <1>4
    <2>3. CASE i # j /\ Parent(i) = index
      <3>1. Key(j) <= Key(i) BY <2>3, <1>3
      <3> QED BY <3>1, <2>3, <1>1, <1>2
    <2>4. CASE i # j /\ i # index /\ Parent(i) # index
      <3>1. Key(Parent(i)) <= Key(i) BY <2>4, <1>0 DEF Sinking
      <3> QED BY <3>1, <2>4, <1>1, <1>2, <1>4
    <2> QED BY <2>1, <2>2, <2>3, <2>4
  <1>5. ASSUME NEW i \in Used \ {0}, Parent(i) = j
        PROVE  heap'[Parent(j)].order <= heap'[i].order
    <2>1. i # j /\ i # index
      <3>1. j < i /\ index < j /\ {i, j, index} \subseteq Nat BY <1>0, <1>1, <1>5, UsedTree
      <3> QED BY <3>1
    <2>2. Key(j) <= Key(i) BY <1>0, <1>1, <1>5 DEF Sinking
    <2> QED BY <2>1, <2>2, <1>1, <1>2
  <1>6. Sinking'
    <2>1. j \in 0 .. curr_index' BY <1>0, <1>1, <1>2, Sizes DEF SwapWith
    <2> QED BY <2>1, <1>1, <1>2, <1>4, <1>5 DEF Sinking, Key
  <1> QED BY <1>2, <1>6 DEF IInv, Repairing

LEMMA Settles ==
  ASSUME IInv, Settle,
         \/ percolate = "up" /\ ~RisesPast(Parent(index))
         \/ percolate = "down" /\ SmallerChild = {}
  PROVE  IInv'
  <1>0. TypeOK /\ IndexNamesNode /\ KeysOfCallers BY DEF IInv
  <1>1. Sorted
    <2>0. /\ Used \subseteq Nat /\ \A i \in Used \ {0} : Parent(i) \in Used
          /\ \A i \in Used : Key(i) \in Nat
      <3>1. Used \subseteq Indices BY <1>0, Sizes
      <3> QED BY <3>1, <1>0, UsedTree, KeyType
    <2>1. CASE percolate = "up" /\ ~RisesPast(Parent(index))
      <3>1. Rising BY <2>1 DEF IInv, Repairing
      <3>2. ASSUME index # 0 PROVE Key(Parent(index)) <= Key(index)
        <4>1. index \in Used /\ Parent(index) \in Used BY <3>1, <3>2, <2>0 DEF Rising
        <4>2. ~ lt_wrapped(Key(index), Key(Parent(index))) BY <2>1, <3>2 DEF RisesPast, Key
        <4>3. ~ (Key(index) < Key(Parent(index)))
          BY <4>1, <4>2, <1>0, Wraps DEF KeysOfCallers
        <4>4. Key(index) \in Nat /\ Key(Parent(index)) \in Nat BY <4>1, <2>0
        <4> QED BY <4>3, <4>4
      <3> QED BY <3>1, <3>2 DEF Sorted, Rising
    <2>2. CASE percolate = "down" /\ SmallerChild = {}
      <3>1. Sinking BY <2>2 DEF IInv, Repairing
      <3>2. ASSUME NEW i \in Used \ {0}, Parent(i) = index PROVE Key(index) <= Key(i)
        <4>1. i = find_left_child(index) \/ i = find_right_child(index)
          BY <3>2, <1>0, UsedTree
        <4>2. index \in Used BY <3>2, <2>0
        <4>3. \A a \in Used : lt_wrapped(heap[a].order, heap[index].order) <=> Key(a) < Key(index)
          BY <4>2, <1>0, Wraps DEF KeysOfCallers, Key
        <4> QED BY <4>1, <4>2, <4>3, <2>0, <2>2 DEF SmallerChild, Before
      <3> QED BY <3>1, <3>2 DEF Sorted, Sinking
    <2> QED BY <2>1, <2>2
  <1>2. TypeOK' BY <1>0, Sizes DEF Settle, TypeOK, Indices
  <1>3. IndexNamesNode' /\ KeysOfCallers' /\ Repairing'
    BY <1>0, <1>1 DEF Settle, IndexNamesNode, KeysOfCallers, Repairing, Sorted, Used, Key
  <1> QED BY <1>2, <1>3 DEF IInv

-----------------------------------------------------------------------------
(* The calls *)

LEMMA InitIInv == Init => IInv
  <1> SUFFICES ASSUME Init PROVE IInv OBVIOUS
  <1>1. TypeOK BY HeapAssumption DEF Init, TypeOK, Node, Reply, Indices
  <1>2. Used = {} BY DEF Init, Used
  <1>3. percolate = "none" BY DEF Init
  <1> QED BY <1>1, <1>2, <1>3 DEF IInv, IndexNamesNode, KeysOfCallers, Repairing, Sorted

(* insert_node: the new node is the last, and it alone may be before its   *)
(* parent.                                                                 *)
LEMMA Inserts ==
  ASSUME IInv, percolate = "none", NEW t \in Threads \ Members, NEW order \in Keys,
         insert_node(t, order)
  PROVE  IInv'
  <1>0. TypeOK /\ IndexNamesNode /\ KeysOfCallers /\ Sorted BY DEF IInv, Repairing
  <1>1. CASE ~HasRoom
    <2>1. /\ reply' = Reply(FALSE, {})
          /\ UNCHANGED <<heap, curr_index, heap_index, percolate, index>>
      BY <1>1 DEF insert_node
    <2>2. TypeOK' BY <1>0, <2>1 DEF TypeOK, Reply, Indices
    <2>3. IndexNamesNode' /\ KeysOfCallers' /\ Repairing'
      BY <1>0, <2>1 DEF IndexNamesNode, KeysOfCallers, Repairing, Sorted, Used, Key
    <2> QED BY <2>2, <2>3 DEF IInv
  <1>2. CASE HasRoom
    <2> DEFINE n == curr_index
    <2>0. /\ n \in Nat /\ n \in Indices /\ n \notin Used /\ Used \subseteq Indices
          /\ order \in 0 .. 2 * HALF - 1
      BY <1>0, <1>2, Sizes, HeapAssumption DEF HasRoom
    <2>1. /\ heap' = [heap EXCEPT ![n] = Node(t, order)] /\ heap_index' = [heap_index EXCEPT ![t] = n]
          /\ curr_index' = n + 1 /\ percolate' = "up" /\ index' = n
          /\ reply' = Reply(TRUE, {})
      BY <1>2 DEF insert_node
    <2>2. /\ heap'[n] = Node(t, order) /\ heap_index'[t] = n
          /\ \A i \in Indices \ {n} : heap'[i] = heap[i]
          /\ \A s \in Threads \ {t} : heap_index'[s] = heap_index[s]
          /\ Used' = Used \cup {n}
      BY <1>0, <2>0, <2>1, Sizes DEF TypeOK, Used
    <2>3. TypeOK'
      <3>1. Node(t, order) \in [thread: Threads \cup {NULL}, order: 0 .. 2 * HALF - 1]
        BY <2>0 DEF Node
      <3>2. heap' \in [Indices -> [thread: Threads \cup {NULL}, order: 0 .. 2 * HALF - 1]]
        BY <3>1, <1>0, <2>0, <2>1 DEF TypeOK
      <3>3. heap_index' \in [Threads -> Indices] BY <1>0, <2>0, <2>1 DEF TypeOK
      <3>4. curr_index' \in 0 .. MAX_THREADS BY <1>0, <1>2, <2>0, <2>1, Sizes DEF HasRoom
      <3>5. reply' \in [ok: BOOLEAN, threads: SUBSET Threads] BY <2>1 DEF Reply
      <3> QED BY <3>2, <3>3, <3>4, <3>5, <2>0, <2>1 DEF TypeOK, Indices
    <2>4. IndexNamesNode'
      <3> HIDE DEF n
      <3>1. \A i \in Used : heap[i].thread # t BY DEF Members
      <3>2. heap'[n].thread = t /\ heap_index'[heap'[n].thread] = n /\ t \in Threads
        BY <2>2 DEF Node
      <3>3. ASSUME NEW i \in Used
            PROVE  heap'[i].thread \in Threads /\ heap_index'[heap'[i].thread] = i
        <4>1. heap[i].thread \in Threads \ {t} /\ heap_index[heap[i].thread] = i
          BY <3>1, <1>0 DEF IndexNamesNode
        <4>2. heap'[i] = heap[i] BY <2>0, <2>2
        <4> QED BY <4>1, <4>2, <2>2
      <3> QED BY <3>2, <3>3, <2>2 DEF IndexNamesNode
    <2>5. KeysOfCallers'
      BY <1>0, <2>0, <2>1, <2>2 DEF KeysOfCallers, Key, Node
    <2>6. Rising'
      <3>1. \A i \in Used' \ {0, n} : i \in Used \ {0} /\ Parent(i) \in Used
        BY <1>0, <2>2, UsedTree
      <3>2. \A i \in Used' \ {0, n} : heap'[Parent(i)].order <= heap'[i].order
        BY <3>1, <1>0, <2>0, <2>2, ZenonT(60) DEF Sorted, Key
      <3>3. \A i \in Used' \ {0} : Parent(i) # n
        <4>1. \A i \in Used' \ {0} : Parent(i) < i /\ i <= n /\ i \in Nat
          <5>1. \A i \in Used' \ {0} : i \in Nat \ {0} /\ i <= n BY <1>0, <2>0, <2>2, Sizes
          <5> QED BY <5>1, Tree
        <4> QED BY <4>1, <2>0
      <3> QED BY <3>2, <3>3, <2>1, <2>2 DEF Rising, Key
    <2> QED BY <2>1, <2>3, <2>4, <2>5, <2>6 DEF IInv, Repairing
  <1> QED BY <1>1, <1>2

(* The last node fills the place of another, and either may be the moving  *)
(* one from there.                                                         *)
LEMMA LastMoved ==
  ASSUME IInv, percolate = "none", curr_index > 1, NEW i \in Used, LastMovedTo(i),
         percolate' \in {"up", "down"}, reply' \in [ok: BOOLEAN, threads: SUBSET Threads]
  PROVE  /\ TypeOK' /\ IndexNamesNode' /\ KeysOfCallers'
         /\ curr_index - 1 \in Used /\ Used' = Used \ {curr_index - 1}
         /\ heap'[i] = heap[curr_index - 1]
         /\ \A k \in Indices \ {i} : heap'[k] = heap[k]
  <1> DEFINE n == curr_index - 1
  <1>0. TypeOK /\ IndexNamesNode /\ KeysOfCallers BY DEF IInv
  <1>1. /\ n \in Used /\ n \in Nat /\ Used \subseteq Indices /\ i \in Indices /\ n # 0 /\ curr_index = n + 1
    BY <1>0, Sizes
  <1>2. /\ heap' = [heap EXCEPT ![i] = heap[n]]
        /\ heap_index' = [heap_index EXCEPT ![heap[n].thread] = i]
        /\ curr_index' = n /\ index' = i
    BY DEF LastMovedTo
  <1> HIDE DEF n
  <1>3. /\ heap[n].thread \in Threads /\ heap_index[heap[n].thread] = n
        /\ heap[n] \in [thread: Threads \cup {NULL}, order: 0 .. 2 * HALF - 1]
    BY <1>0, <1>1 DEF IndexNamesNode, TypeOK
  <1>4. /\ heap'[i] = heap[n] /\ \A k \in Indices \ {i} : heap'[k] = heap[k]
        /\ heap_index'[heap[n].thread] = i
        /\ \A s \in Threads \ {heap[n].thread} : heap_index'[s] = heap_index[s]
    BY <1>0, <1>1, <1>2, <1>3 DEF TypeOK
  <1>5. Used' = Used \ {n} BY <1>0, <1>1, <1>2, Sizes DEF Used
  <1>6. TypeOK'
    <2>1. curr_index' \in 0 .. MAX_THREADS BY <1>0, <1>1, <1>2, Sizes
    <2> QED BY <2>1, <1>0, <1>1, <1>2, <1>3 DEF TypeOK, Indices
  <1>7. IndexNamesNode'
    <2> SUFFICES ASSUME NEW k \in Used \ {n}
                 PROVE  heap'[k].thread \in Threads /\ heap_index'[heap'[k].thread] = k
      BY <1>5 DEF IndexNamesNode
    <2>1. CASE k = i BY <2>1, <1>3, <1>4
    <2>2. CASE k # i
      <3>1. heap'[k] = heap[k] /\ heap[k].thread \in Threads /\ heap_index[heap[k].thread] = k
        BY <2>2, <1>0, <1>1, <1>4 DEF IndexNamesNode
      <3> QED BY <3>1, <1>3, <1>4
    <2> QED BY <2>1, <2>2
  <1>8. KeysOfCallers'
    BY <1>0, <1>1, <1>2, <1>4, <1>5 DEF KeysOfCallers, Key
  <1> QED BY <1>1, <1>4, <1>5, <1>6, <1>7, <1>8 DEF n

(* remove_node and the head of pop_heap: the direction is right for the    *)
(* node that was the last, wherever it comes from.                         *)
LEMMA Removes ==
  ASSUME IInv, percolate = "none", curr_index > 1, NEW i \in Used, LastMovedTo(i),
         percolate' = Direction(heap', i), reply' \in [ok: BOOLEAN, threads: SUBSET Threads]
  PROVE  IInv'
  <1> DEFINE n == curr_index - 1
  <1>0. TypeOK /\ Sorted /\ KeysOfCallers BY DEF IInv, Repairing
  <1>1. /\ TypeOK' /\ IndexNamesNode' /\ KeysOfCallers'
        /\ n \in Used /\ Used' = Used \ {n}
        /\ heap'[i] = heap[n] /\ \A k \in Indices \ {i} : heap'[k] = heap[k]
    BY LastMoved DEF Direction
  <1>2. /\ index' = i /\ curr_index' = n /\ n \in Nat /\ i \in Nat /\ i <= n /\ n # 0
        /\ Used \subseteq Indices /\ i \in Indices
        /\ \A k \in Used : Key(k) \in Nat
    <2>1. Used \subseteq Indices BY <1>0, Sizes
    <2> QED BY <2>1, <1>0, <1>1, Sizes, KeyType DEF LastMovedTo
  <1> HIDE DEF n
  <1>3. \A k \in Used \ {0} : Parent(k) \in Used /\ Key(Parent(k)) <= Key(k) /\ Parent(k) # k
    BY <1>0, UsedTree DEF Sorted
  <1>4. heap'[i].order = Key(n) /\ \A k \in Used \ {i} : heap'[k].order = Key(k)
    BY <1>1, <1>2 DEF Key
  <1>5. \A k \in Used \ {0, i} : Parent(k) # i => heap'[Parent(k)].order <= heap'[k].order
    BY <1>3, <1>4
  <1>6. i # 0 => \A k \in Used \ {0} : Parent(k) = i => heap'[Parent(i)].order <= heap'[k].order
    <2> SUFFICES ASSUME i # 0, NEW k \in Used \ {0}, Parent(k) = i
                 PROVE  heap'[Parent(i)].order <= heap'[k].order
      OBVIOUS
    <2>1. Key(Parent(i)) <= Key(i) /\ Key(i) <= Key(k) /\ Parent(i) \in Used \ {i} /\ k # i BY <1>3
    <2>2. heap'[Parent(i)].order = Key(Parent(i)) /\ heap'[k].order = Key(k) BY <2>1, <1>4
    <2>3. Key(Parent(i)) \in Nat /\ Key(i) \in Nat /\ Key(k) \in Nat BY <2>1, <1>2
    <2> QED BY <2>1, <2>2, <2>3
  <1>7. CASE heap'[i].order < heap'[Parent(i)].order
    <2>1. percolate' = "up" BY <1>7 DEF Direction, Parent
    <2>2. i # 0 /\ i # n
      <3>1. i # 0
        <4>1. Parent(0) = 0 BY Tree
        <4> QED BY <4>1, <1>7, <1>2, <1>4, <1>1
      <3>2. ASSUME i = n PROVE FALSE
        <4>1. Key(Parent(n)) <= Key(n) /\ Parent(n) \in Used \ {n} BY <1>1, <1>2, <1>3
        <4>2. heap'[Parent(n)].order = Key(Parent(n)) BY <4>1, <3>2, <1>4
        <4> QED BY <4>1, <4>2, <3>2, <1>2, <1>4, <1>7, <1>1
      <3> QED BY <3>1, <3>2
    <2>3. Parent(i) \in Used /\ Key(n) < Key(Parent(i)) BY <1>3, <1>4, <1>7, <2>2
    <2>4. \A k \in Used \ {0} : Parent(k) = i => heap'[i].order <= heap'[k].order
      <3> SUFFICES ASSUME NEW k \in Used \ {0}, Parent(k) = i
                   PROVE  heap'[i].order <= heap'[k].order
        OBVIOUS
      <3>1. Key(Parent(i)) <= Key(i) /\ Key(i) <= Key(k) /\ k # i BY <1>3, <2>2
      <3>2. heap'[k].order = Key(k) BY <3>1, <1>4
      <3>3. Key(Parent(i)) \in Nat /\ Key(i) \in Nat /\ Key(k) \in Nat /\ Key(n) \in Nat
        BY <2>3, <1>1, <1>2
      <3> QED BY <3>1, <3>2, <3>3, <2>3, <1>4
    <2>5. Rising' BY <1>1, <1>2, <1>5, <1>6, <2>2, <2>4 DEF Rising, Key
    <2> QED BY <2>1, <2>5, <1>1 DEF IInv, Repairing
  <1>8. CASE ~(heap'[i].order < heap'[Parent(i)].order)
    <2>1. percolate' = "down" BY <1>8 DEF Direction, Parent
    <2>2. i # 0 => heap'[Parent(i)].order <= heap'[i].order
      <3> SUFFICES ASSUME i # 0 PROVE heap'[Parent(i)].order <= heap'[i].order
        OBVIOUS
      <3>1. Parent(i) \in Used \ {i} BY <1>3
      <3>2. heap'[Parent(i)].order = Key(Parent(i)) BY <3>1, <1>4
      <3>3. Key(Parent(i)) \in Nat /\ Key(n) \in Nat BY <3>1, <1>1, <1>2
      <3> QED BY <3>2, <3>3, <1>4, <1>8
    <2>3. Sinking' BY <1>1, <1>2, <1>5, <1>6, <2>2 DEF Sinking, Key
    <2> QED BY <2>1, <2>3, <1>1 DEF IInv, Repairing
  <1> QED BY <1>7, <1>8

(* balance_node: a thread's time moves forward only, so the node sinks.    *)
LEMMA Rebalances ==
  ASSUME IInv, percolate = "none", NEW t \in Members, NEW order \in Later(t),
         balance_node(heap_index[t], order)
  PROVE  IInv'
  <1> DEFINE i == heap_index[t]
  <1>0. TypeOK /\ IndexNamesNode /\ Sorted /\ KeysOfCallers BY DEF IInv, Repairing
  <1>1. i \in Used /\ heap[i].thread = t BY <1>0 DEF Members, IndexNamesNode
  <1>2. /\ order \in Keys /\ order \in Nat /\ Key(i) <= order /\ order \in 0 .. 2 * HALF - 1
    <2>1. order \in Keys /\ ~ lt_wrapped(order, Key(i)) /\ Key(i) \in Keys
      BY <1>0, <1>1 DEF Later, KeysOfCallers, Key
    <2>2. ~ (order < Key(i)) BY <2>1, Wraps
    <2>3. order \in 0 .. 2 * HALF - 1 /\ Key(i) \in 0 .. 2 * HALF - 1 BY <2>1, HeapAssumption
    <2> QED BY <2>1, <2>2, <2>3
  <1> HIDE DEF i
  <1>3. CASE curr_index = 1
    <2>1. /\ reply' = Reply(TRUE, {})
          /\ UNCHANGED <<heap, curr_index, heap_index, percolate, index>>
      BY <1>3 DEF balance_node
    <2>2. TypeOK' BY <1>0, <2>1 DEF TypeOK, Reply, Indices
    <2>3. IndexNamesNode' /\ KeysOfCallers' /\ Repairing'
      BY <1>0, <2>1 DEF IInv, IndexNamesNode, KeysOfCallers, Repairing, Sorted, Used, Key
    <2> QED BY <2>2, <2>3 DEF IInv
  <1>4. CASE curr_index > 1
    <2>0. /\ Used \subseteq Indices /\ i \in Indices /\ i \in 0 .. curr_index
          /\ \A k \in Used : Key(k) \in Nat
      <3>1. Used \subseteq Indices /\ i \in 0 .. curr_index BY <1>0, <1>1, Sizes
      <3> QED BY <3>1, <1>0, <1>1, KeyType
    <2>1. /\ heap' = [heap EXCEPT ![i].order = order]
          /\ percolate' = Direction(heap', i) /\ index' = i
          /\ reply' = Reply(TRUE, {}) /\ UNCHANGED <<curr_index, heap_index>>
      BY <1>4 DEF balance_node, i
    <2>2. /\ heap'[i].order = order /\ heap'[i].thread = heap[i].thread
          /\ \A k \in Indices \ {i} : heap'[k] = heap[k]
          /\ heap' \in [Indices -> [thread: Threads \cup {NULL}, order: 0 .. 2 * HALF - 1]]
          /\ Used' = Used
      BY <1>0, <1>2, <2>0, <2>1 DEF TypeOK, Used
    <2>3. \A k \in Used \ {i} : heap'[k].order = Key(k) BY <2>0, <2>2 DEF Key
    <2>4. \A k \in Used \ {0} : Parent(k) \in Used /\ Key(Parent(k)) <= Key(k) /\ Parent(k) # k
      BY <1>0, UsedTree DEF Sorted
    <2>5. ~ (heap'[i].order < heap'[Parent(i)].order)
      <3>1. CASE i = 0
        <4>1. Parent(i) = i BY <3>1, Tree
        <4> QED BY <4>1, <2>2, <1>2
      <3>2. CASE i # 0
        <4>1. Key(Parent(i)) <= Key(i) /\ Parent(i) \in Used \ {i} BY <3>2, <1>1, <2>4
        <4>2. heap'[Parent(i)].order = Key(Parent(i)) BY <4>1, <2>3
        <4>3. Key(Parent(i)) \in Nat /\ Key(i) \in Nat BY <4>1, <1>1, <2>0
        <4> QED BY <4>1, <4>2, <4>3, <1>2, <2>2
      <3> QED BY <3>1, <3>2
    <2>6. percolate' = "down" BY <2>1, <2>5 DEF Direction, Parent
    <2>7. TypeOK' BY <1>0, <2>0, <2>1, <2>2, <2>6 DEF TypeOK, Reply, Indices
    <2>8. IndexNamesNode' BY <1>0, <2>0, <2>1, <2>2 DEF IndexNamesNode
    <2>9. KeysOfCallers' BY <1>0, <1>2, <2>0, <2>1, <2>2 DEF KeysOfCallers, Key
    <2>10. ASSUME NEW k \in Used \ {0}, Parent(k) # i
           PROVE  heap'[Parent(k)].order <= heap'[k].order
      <3>1. Parent(k) \in Used \ {i} /\ Key(Parent(k)) <= Key(k) BY <2>4, <2>10
      <3>2. heap'[Parent(k)].order = Key(Parent(k)) BY <3>1, <2>3
      <3>3. Key(Parent(k)) \in Nat /\ Key(k) \in Nat BY <3>1, <2>0
      <3> QED BY <3>1, <3>2, <3>3, <1>2, <2>2, <2>3
    <2>11. ASSUME i # 0, NEW k \in Used \ {0}, Parent(k) = i
           PROVE  heap'[Parent(i)].order <= heap'[k].order
      <3>1. /\ Parent(i) \in Used \ {i} /\ k \in Used \ {i}
            /\ Key(Parent(i)) <= Key(i) /\ Key(i) <= Key(k)
        BY <1>1, <2>4, <2>11
      <3>2. heap'[Parent(i)].order = Key(Parent(i)) /\ heap'[k].order = Key(k) BY <3>1, <2>3
      <3>3. Key(Parent(i)) \in Nat /\ Key(i) \in Nat /\ Key(k) \in Nat BY <3>1, <1>1, <2>0
      <3> QED BY <3>1, <3>2, <3>3
    <2>12. Sinking' BY <2>0, <2>1, <2>2, <2>10, <2>11 DEF Sinking, Key
    <2> QED BY <2>6, <2>7, <2>8, <2>9, <2>12 DEF IInv, Repairing
  <1> QED BY <1>3, <1>4 DEF balance_node

(* A heap that is left empty, or a call that is refused, has nothing to    *)
(* repair.                                                                 *)
LEMMA Emptied ==
  ASSUME IInv, percolate = "none", curr_index' = 0 \/ curr_index' = curr_index,
         UNCHANGED <<heap, heap_index, percolate, index>>,
         reply' \in [ok: BOOLEAN, threads: SUBSET Threads]
  PROVE  IInv'
  <1>0. TypeOK /\ IndexNamesNode /\ KeysOfCallers /\ Sorted BY DEF IInv, Repairing
  <1>1. curr_index' \in 0 .. MAX_THREADS BY <1>0, Sizes
  <1>2. Used' \subseteq Used
    <2>1. CASE curr_index' = 0 BY <2>1 DEF Used
    <2>2. CASE curr_index' = curr_index BY <2>2 DEF Used
    <2> QED BY <2>1, <2>2
  <1>3. TypeOK' BY <1>0, <1>1 DEF TypeOK, Indices
  <1>4. IndexNamesNode' /\ KeysOfCallers' /\ Repairing'
    BY <1>0, <1>2 DEF IndexNamesNode, KeysOfCallers, Repairing, Sorted, Key
  <1> QED BY <1>3, <1>4 DEF IInv

LEMMA MembersAreThreads == IInv => Members \subseteq Threads
  BY DEF IInv, IndexNamesNode, Members

LEMMA Calls == ASSUME IInv, Call PROVE IInv'
  <1>0. TypeOK /\ IndexNamesNode /\ percolate = "none" BY DEF IInv, Call
  <1>1. ASSUME NEW t \in Threads \ Members, NEW order \in Keys, insert_node(t, order) PROVE IInv'
    BY <1>0, <1>1, Inserts
  <1>2. ASSUME NEW t \in Members, remove_node(heap_index[t]) PROVE IInv'
    <2>1. heap_index[t] \in Used BY <1>0 DEF Members, IndexNamesNode
    <2>2. reply' \in [ok: BOOLEAN, threads: SUBSET Threads] BY <1>2 DEF remove_node, Reply
    <2>3. CASE curr_index' = 0 /\ UNCHANGED <<heap, heap_index, percolate, index>>
      BY <1>0, <2>2, <2>3, Emptied
    <2>4. CASE /\ curr_index > 1 /\ LastMovedTo(heap_index[t])
               /\ percolate' = Direction(heap', heap_index[t])
      BY <1>0, <2>1, <2>2, <2>4, Removes
    <2> QED BY <1>2, <2>3, <2>4 DEF remove_node
  <1>3. ASSUME NEW t \in Members, NEW order \in Later(t), balance_node(heap_index[t], order)
        PROVE  IInv'
    BY <1>0, <1>3, Rebalances
  <1>4. ASSUME pop_heap PROVE IInv'
    <2>1. curr_index > 0 => heap[0].thread \in Threads /\ 0 \in Used
      BY <1>0, Sizes DEF IndexNamesNode
    <2>2. reply' \in [ok: BOOLEAN, threads: SUBSET Threads]
      <3>1. \/ reply' = Reply(FALSE, {})
            \/ reply' = Reply(TRUE, {heap[0].thread}) /\ curr_index > 0
        <4>1. curr_index \in Nat BY <1>0, Sizes
        <4> QED BY <4>1, <1>4 DEF pop_heap, Reply
      <3>2. CASE curr_index > 0 /\ reply' = Reply(TRUE, {heap[0].thread})
        <4>1. {heap[0].thread} \in SUBSET Threads BY <2>1, <3>2
        <4> QED BY <4>1, <3>2 DEF Reply
      <3>3. CASE reply' = Reply(FALSE, {}) BY <3>3 DEF Reply
      <3> QED BY <3>1, <3>2, <3>3
    <2>3. CASE curr_index > 1 /\ LastMovedTo(0) /\ percolate' = "down"
      <3>1. 0 \in Used BY <2>1, <2>3, <1>0, Sizes
      <3>2. percolate' = Direction(heap', 0)
        <4>1. heap'[0] = heap[curr_index - 1] /\ curr_index - 1 \in Used
          BY <1>0, <2>2, <2>3, <3>1, LastMoved
        <4>2. heap'[0].order \in Nat
          <5>1. curr_index - 1 \in Indices BY <4>1, <1>0, Sizes
          <5> QED BY <5>1, <4>1, <1>0, KeyType DEF Key
        <4>3. find_parent_index(0) = 0 BY DEF find_parent_index
        <4> QED BY <4>2, <4>3, <2>3 DEF Direction
      <3> QED BY <1>0, <2>2, <2>3, <3>1, <3>2, Removes
    <2>4. CASE /\ curr_index' = 0 \/ curr_index' = curr_index
               /\ UNCHANGED <<heap, heap_index, percolate, index>>
      BY <1>0, <2>2, <2>4, Emptied
    <2> QED BY <1>4, <2>3, <2>4 DEF pop_heap
  <1>5. ASSUME Teardown PROVE IInv'
    <2>1. reply' \in [ok: BOOLEAN, threads: SUBSET Threads]
      BY <1>5, MembersAreThreads DEF Teardown, Reply
    <2> QED BY <1>0, <1>5, <2>1, Emptied DEF Teardown
  <1> QED BY <1>1, <1>2, <1>3, <1>4, <1>5 DEF Call

LEMMA Inductive == Spec => []IInv
  <1>1. IInv /\ [Next]_vars => IInv'
    <2> SUFFICES ASSUME IInv, [Next]_vars PROVE IInv' OBVIOUS
    <2>1. CASE percolate_up
      BY <2>1, Rises, Settles DEF percolate_up, Parent
    <2>2. CASE percolate_down
      BY <2>2, Sinks, Settles DEF percolate_down
    <2>3. CASE Call BY <2>3, Calls
    <2>4. CASE UNCHANGED vars
      BY <2>4 DEF vars, IInv, TypeOK, Indices, IndexNamesNode, KeysOfCallers, Repairing,
                  Rising, Sinking, Sorted, Used, Key
    <2> QED BY <2>1, <2>2, <2>3, <2>4 DEF Next
  <1> QED BY InitIInv, <1>1, PTL DEF Spec

(* The array, its size and its back pointers stay in their types.          *)
THEOREM HeapTypeCorrect == Spec => []TypeOK
  <1>1. IInv => TypeOK BY DEF IInv
  <1> QED BY Inductive, <1>1, PTL

(* The index kept in a thread_t always names the node of that thread, for  *)
(* any size of the heap: what remove_node and balance_node act on is the   *)
(* thread the caller means.                                                *)
THEOREM IndicesNameNodes == Spec => []IndexNamesNode
  <1>1. IInv => IndexNamesNode BY DEF IInv
  <1> QED BY Inductive, <1>1, PTL

(* Every call of min_heap.c ends with no node before its parent, as long   *)
(* as no key has wrapped past another.                                     *)
THEOREM HeapStaysOrdered == Spec => []HeapOrdered
  <1>1. IInv => HeapOrdered
    <2> SUFFICES ASSUME IInv, percolate = "none", NEW i \in Used
                 PROVE  ~ lt_wrapped(heap[i].order, heap[find_parent_index(i)].order)
      BY DEF HeapOrdered
    <2>0. TypeOK /\ KeysOfCallers /\ Sorted BY DEF IInv, Repairing
    <2>1. Parent(i) \in Used /\ Key(Parent(i)) <= Key(i)
      <3>1. Used \subseteq Indices BY <2>0, Sizes
      <3>2. Key(i) \in Nat BY <3>1, <2>0, KeyType
      <3>3. CASE i = 0
        <4>1. Parent(i) = i BY <3>3, Tree
        <4> QED BY <4>1, <3>2
      <3>4. CASE i # 0 BY <3>4, <2>0, UsedTree DEF Sorted
      <3> QED BY <3>3, <3>4
    <2>2. Key(i) \in Nat /\ Key(Parent(i)) \in Nat
      <3>1. Used \subseteq Indices BY <2>0, Sizes
      <3> QED BY <3>1, <2>0, <2>1, KeyType
    <2>3. ~ (Key(i) < Key(Parent(i))) BY <2>1, <2>2
    <2>4. ~ lt_wrapped(Key(i), Key(Parent(i))) BY <2>0, <2>1, <2>3, Wraps DEF KeysOfCallers
    <2> QED BY <2>4 DEF Key, Parent
  <1> QED BY Inductive, <1>1, PTL

-----------------------------------------------------------------------------
(* The refinement: what the callers see is the map of PriorityMap.         *)

(* The first node has the least key: the least node in use that had a      *)
(* smaller one would be before its parent.                                 *)
LEMMA FirstIsLeast ==
  ASSUME TypeOK, Sorted PROVE \A i \in Used : Key(0) <= Key(i)
  <1> DEFINE Smaller == {i \in Used : ~ (Key(0) <= Key(i))}
  <1>1. Used \subseteq Indices /\ Used \subseteq Nat BY Sizes
  <1>2. \A i \in Used : Key(i) \in Nat BY <1>1, KeyType
  <1>3. SUFFICES ASSUME Smaller # {} PROVE FALSE OBVIOUS
  <1>4. PICK m \in Smaller : \A n \in Smaller : m <= n BY <1>1, <1>3, LeastNumber
  <1>5. 0 \in Used
    <2>1. m \in Nat /\ m < curr_index BY <1>4, Sizes
    <2> QED BY <2>1, Sizes
  <1>6. m \in Used /\ m # 0 /\ Key(m) < Key(0) BY <1>2, <1>4, <1>5
  <1>7. Parent(m) \in Used /\ Parent(m) < m /\ Key(Parent(m)) <= Key(m)
    BY <1>6, UsedTree DEF Sorted
  <1>8. Parent(m) \notin Smaller
    <2>1. Parent(m) \in Nat /\ m \in Nat BY <1>1, <1>6, <1>7
    <2> QED BY <1>4, <1>7, <2>1
  <1>9. Key(0) \in Nat /\ Key(m) \in Nat /\ Key(Parent(m)) \in Nat BY <1>2, <1>5, <1>6, <1>7
  <1> QED BY <1>6, <1>7, <1>8, <1>9

(* A thread in the map is the thread of one node, with the node's key.     *)
LEMMA Nodes ==
  ASSUME IInv
  PROVE  /\ \A i \in Used : /\ heap[i].thread \in Members /\ heap_index[heap[i].thread] = i
                            /\ Map[heap[i].thread] = Key(i)
         /\ \A t \in Members : heap_index[t] \in Used /\ heap[heap_index[t]].thread = t
         /\ DOMAIN Map = Members
  BY DEF IInv, IndexNamesNode, Members, Map, Key

LEMMA MapSize == ASSUME IInv PROVE Cardinality(Members) = curr_index
  <1> DEFINE f == [n \in 1 .. curr_index |-> heap[n - 1].thread]
  <1>0. curr_index \in Nat BY Sizes DEF IInv
  <1>1. \A n \in 1 .. curr_index : n - 1 \in Used BY <1>0 DEF Used
  <1>2. f \in [1 .. curr_index -> Members] BY <1>1 DEF Members
  <1>3. ASSUME NEW m \in 1 .. curr_index, NEW n \in 1 .. curr_index, f[m] = f[n] PROVE m = n
    <2>1. heap_index[f[m]] = m - 1 /\ heap_index[f[n]] = n - 1
      BY <1>1, Nodes
    <2> QED BY <1>3, <2>1
  <1>4. ASSUME NEW t \in Members PROVE \E n \in 1 .. curr_index : f[n] = t
    <2>1. heap_index[t] \in Used /\ heap[heap_index[t]].thread = t BY Nodes
    <2>2. heap_index[t] + 1 \in 1 .. curr_index /\ (heap_index[t] + 1) - 1 = heap_index[t]
      BY <1>0, <2>1 DEF Used
    <2>3. f[heap_index[t] + 1] = t BY <2>1, <2>2
    <2> QED BY <2>2, <2>3
  <1> HIDE DEF f
  <1>5. f \in Bijection(1 .. curr_index, Members)
    BY <1>2, <1>3, <1>4 DEF Bijection, Injection, Surjection, IsInjective
  <1> QED BY <1>0, <1>5, FS_CountingElements DEF ExistsBijection

(* A level of percolation changes nothing the callers see.                 *)
LEMMA SwapIsInvisible ==
  ASSUME IInv, IInv', index \in Used, NEW j \in Used, j # index, SwapWith(j), percolate # "none"
  PROVE  Map' = Map /\ reply' = reply
  <1>0. TypeOK /\ IndexNamesNode BY DEF IInv
  <1>1. /\ Used' = Used /\ heap'[index] = heap[j] /\ heap'[j] = heap[index]
        /\ \A i \in Used \ {index, j} : heap'[i] = heap[i]
    <2>1. Used \subseteq Indices BY <1>0, Sizes
    <2> QED BY <1>0, <2>1, Swapped, SwappedKeys
  <1>2. Members' = Members
    <2>1. \A i \in Used : \E k \in Used : heap'[k] = heap[i] BY <1>1
    <2>2. \A i \in Used : \E k \in Used : heap'[i] = heap[k] BY <1>1
    <2>3. ASSUME NEW i \in Used PROVE heap[i].thread \in Members' /\ heap'[i].thread \in Members
      BY <1>1, <2>1, <2>2 DEF Members
    <2> QED BY <1>1, <2>3 DEF Members
  <1>3. ASSUME NEW t \in Members PROVE heap'[heap_index'[t]].order = heap[heap_index[t]].order
    <2>1. PICK i \in Used : heap[i].thread = t BY DEF Members
    <2>2. heap_index[t] = i BY <2>1, Nodes
    <2>3. PICK k \in Used : heap'[k] = heap[i] BY <1>1
    <2>4. heap_index'[t] = k BY <1>1, <2>1, <2>3 DEF IInv, IndexNamesNode
    <2> QED BY <2>2, <2>3, <2>4
  <1> QED BY <1>2, <1>3 DEF Map, SwapWith

(* PriorityMap counts with the library's Cardinality too.                  *)
LEMMA SameCount == \A S : Abstract!Cardinality(S) = Cardinality(S)
  BY Zenon DEF Cardinality, Abstract!Cardinality, IsFiniteSet, Abstract!IsFiniteSet

LEMMA InsertRefines ==
  ASSUME IInv, IInv', percolate = "none", NEW t \in Threads \ Members, NEW order \in Keys,
         insert_node(t, order)
  PROVE  Abstract!Insert(t, order)
  <1>0. TypeOK /\ IndexNamesNode BY DEF IInv
  <1>1. Abstract!Cardinality(DOMAIN Map) = curr_index BY MapSize, Nodes, SameCount
  <1>2. CASE ~HasRoom
    <2>1. Map' = Map BY <1>2 DEF insert_node, Map, Members, Used
    <2> QED BY <1>1, <1>2, <2>1 DEF insert_node, HasRoom, Abstract!Insert, Abstract!Reply, Reply
  <1>3. CASE HasRoom
    <2> DEFINE n == curr_index
    <2>0. n \in Nat /\ n \in Indices /\ n \notin Used /\ Used \subseteq Indices
      BY <1>0, <1>3, Sizes DEF HasRoom
    <2>1. /\ heap'[n] = Node(t, order) /\ heap_index'[t] = n
          /\ \A i \in Used : heap'[i] = heap[i]
          /\ \A s \in Threads \ {t} : heap_index'[s] = heap_index[s]
          /\ Used' = Used \cup {n}
      BY <1>0, <1>3, <2>0, Sizes DEF insert_node, TypeOK, Used
    <2>2. Members' = Members \cup {t} BY <2>1 DEF Members, Node
    <2>3. ASSUME NEW s \in Members \cup {t}
          PROVE  heap'[heap_index'[s]].order = IF s = t THEN order ELSE Map[s]
      <3>1. CASE s = t BY <2>1, <3>1 DEF Node
      <3>2. CASE s # t
        <4>1. s \in Members /\ s \in Threads BY <3>2, MembersAreThreads
        <4>2. heap_index'[s] = heap_index[s] /\ heap_index[s] \in Used
          BY <2>1, <3>2, <4>1, Nodes
        <4> QED BY <2>1, <3>2, <4>1, <4>2 DEF Map
      <3> QED BY <3>1, <3>2
    <2>4. Map' = Abstract!Inserted(Map, t, order)
      <3>1. Map' = [s \in Members \cup {t} |-> heap'[heap_index'[s]].order]
        BY <2>2 DEF Map
      <3> QED BY <2>3, <3>1, Nodes DEF Abstract!Inserted
    <2> QED BY <1>1, <1>3, <2>4 DEF insert_node, HasRoom, Abstract!Insert, Abstract!Reply, Reply
  <1> QED BY <1>2, <1>3

(* A node leaves: the last one fills its place, with its own key.          *)
LEMMA LastMovedRefines ==
  ASSUME IInv, IInv', percolate = "none", curr_index > 1, NEW i \in Used, LastMovedTo(i),
         percolate' \in {"up", "down"}, reply' \in [ok: BOOLEAN, threads: SUBSET Threads]
  PROVE  Map' = Abstract!Removed(Map, heap[i].thread)
  <1> DEFINE n == curr_index - 1
             t == heap[i].thread
  <1>1. /\ n \in Used /\ Used' = Used \ {n} /\ heap'[i] = heap[n]
        /\ \A k \in Indices \ {i} : heap'[k] = heap[k]
    BY LastMoved
  <1>2. Used \subseteq Indices BY Sizes DEF IInv
  <1>3. /\ \A k \in Used' : \E l \in Used \ {i} : heap'[k] = heap[l]
        /\ \A l \in Used \ {i} : \E k \in Used' : heap'[k] = heap[l]
    <2> HIDE DEF n
    <2>1. ASSUME NEW k \in Used' PROVE \E l \in Used \ {i} : heap'[k] = heap[l]
      <3>1. CASE k = i BY <1>1, <3>1
      <3>2. CASE k # i BY <1>1, <1>2, <3>2
      <3> QED BY <3>1, <3>2
    <2>2. ASSUME NEW l \in Used \ {i} PROVE \E k \in Used' : heap'[k] = heap[l]
      <3>1. CASE l = n BY <1>1, <3>1, <2>2
      <3>2. CASE l # n BY <1>1, <1>2, <3>2
      <3> QED BY <3>1, <3>2
    <2> QED BY <2>1, <2>2
  <1>4. \A l \in Used \ {i} : heap[l].thread # t BY Nodes
  <1>5. Members' = Members \ {t}
    <2>1. \A s \in Members' : s \in Members \ {t} BY <1>3, <1>4 DEF Members
    <2>2. \A s \in Members \ {t} : s \in Members'
      <3> SUFFICES ASSUME NEW s \in Members \ {t} PROVE s \in Members' OBVIOUS
      <3>1. heap_index[s] \in Used \ {i} /\ heap[heap_index[s]].thread = s BY Nodes
      <3> QED BY <3>1, <1>3 DEF Members
    <2> QED BY <2>1, <2>2
  <1>6. ASSUME NEW s \in Members \ {t} PROVE heap'[heap_index'[s]].order = Map[s]
    <2>1. heap_index[s] \in Used \ {i} /\ heap[heap_index[s]].thread = s /\ Map[s] = heap[heap_index[s]].order
      BY Nodes DEF Map
    <2>2. PICK k \in Used' : heap'[k] = heap[heap_index[s]] BY <1>3, <2>1
    <2>3. heap_index'[s] = k BY <2>1, <2>2 DEF IInv, IndexNamesNode
    <2> QED BY <2>1, <2>2, <2>3
  <1> HIDE DEF t
  <1>7. Map' = [s \in Members \ {t} |-> heap'[heap_index'[s]].order] BY <1>5 DEF Map
  <1>8. Map' = Abstract!Removed(Map, t) BY <1>6, <1>7, Nodes DEF Abstract!Removed
  <1> QED BY <1>8 DEF t

(* The only node leaves.                                                   *)
LEMMA OnlyRemoved ==
  ASSUME IInv, curr_index = 1, curr_index' = 0
  PROVE  /\ Members = {heap[0].thread}
         /\ Map' = Abstract!EmptyHeap /\ Map' = Abstract!Removed(Map, heap[0].thread)
  <1>1. Used = {0} /\ Used' = {} BY DEF Used
  <1>2. Members = {heap[0].thread} /\ Members' = {} BY <1>1 DEF Members
  <1>3. Map' = Abstract!EmptyHeap BY <1>2 DEF Map, Abstract!EmptyHeap
  <1>4. Map' = Abstract!Removed(Map, heap[0].thread)
    BY <1>2, Nodes DEF Map, Abstract!Removed
  <1> QED BY <1>2, <1>3, <1>4

LEMMA RemoveRefines ==
  ASSUME IInv, IInv', percolate = "none", NEW t \in Members, remove_node(heap_index[t])
  PROVE  Abstract!Remove(t)
  <1>1. heap_index[t] \in Used /\ heap[heap_index[t]].thread = t BY Nodes
  <1>2. reply' = Abstract!Reply(TRUE, {}) BY DEF remove_node, Reply, Abstract!Reply
  <1>3. CASE curr_index = 1 /\ curr_index' = 0
    <2>1. t = heap[0].thread BY <1>3, OnlyRemoved
    <2> QED BY <1>2, <1>3, <2>1, OnlyRemoved DEF Abstract!Remove
  <1>4. CASE /\ curr_index > 1 /\ LastMovedTo(heap_index[t])
             /\ percolate' = Direction(heap', heap_index[t])
    <2>1. percolate' \in {"up", "down"} BY <1>4 DEF Direction
    <2>2. reply' \in [ok: BOOLEAN, threads: SUBSET Threads] BY DEF IInv, TypeOK
    <2>3. Map' = Abstract!Removed(Map, t) BY <1>1, <1>4, <2>1, <2>2, LastMovedRefines
    <2> QED BY <1>2, <2>3 DEF Abstract!Remove
  <1> QED BY <1>3, <1>4 DEF remove_node

LEMMA PopRefines ==
  ASSUME IInv, IInv', percolate = "none", pop_heap
  PROVE  Abstract!Pop
  <1>0. TypeOK /\ Sorted /\ curr_index \in Nat BY Sizes DEF IInv, Repairing
  <1>1. CASE curr_index = 0
    <2>1. Used = {} BY <1>1 DEF Used
    <2>2. Map = Abstract!EmptyHeap BY <2>1 DEF Map, Members, Abstract!EmptyHeap
    <2>3. /\ UNCHANGED <<heap, curr_index, heap_index, percolate, index>>
          /\ reply' = Reply(FALSE, {})
      BY <1>1 DEF pop_heap, Reply
    <2>4. Map' = Map BY <2>3 DEF Map, Members, Used
    <2> QED BY <2>2, <2>3, <2>4 DEF Abstract!Pop, Abstract!Reply, Reply
  <1>2. CASE curr_index > 0
    <2> DEFINE t == heap[0].thread
    <2>1. 0 \in Used BY <1>0, <1>2, Sizes
    <2>2. t \in Members /\ heap_index[t] = 0 BY <2>1, Nodes
    <2>3. Map # Abstract!EmptyHeap
      <3>1. DOMAIN Abstract!EmptyHeap = {} BY DEF Abstract!EmptyHeap
      <3> QED BY <2>2, <3>1, Nodes
    <2>4. t \in Abstract!Heads(Map)
      <3>1. \A s \in Members : Map[t] <= Map[s]
        <4> SUFFICES ASSUME NEW s \in Members PROVE Map[t] <= Map[s] OBVIOUS
        <4>1. heap_index[s] \in Used BY Nodes
        <4>2. Key(0) <= Key(heap_index[s]) BY <1>0, <4>1, FirstIsLeast
        <4> QED BY <2>2, <4>2 DEF Map, Key
      <3> QED BY <2>2, <3>1, Nodes DEF Abstract!Heads
    <2>5. reply' = Abstract!Reply(TRUE, {t})
      BY <1>2 DEF pop_heap, Reply, Abstract!Reply
    <2>6. Map' = Abstract!Removed(Map, t)
      <3>1. CASE curr_index = 1
        <4>1. curr_index' = 0 BY <3>1 DEF pop_heap, Reply
        <4> QED BY <3>1, <4>1, OnlyRemoved
      <3>2. CASE curr_index > 1
        <4>1. LastMovedTo(0) /\ percolate' = "down" BY <3>2, <1>0 DEF pop_heap, Reply
        <4>2. reply' \in [ok: BOOLEAN, threads: SUBSET Threads] BY DEF IInv, TypeOK
        <4> QED BY <2>1, <3>2, <4>1, <4>2, LastMovedRefines
      <3> QED BY <1>0, <1>2, <3>1, <3>2
    <2> QED BY <2>3, <2>4, <2>5, <2>6 DEF Abstract!Pop
  <1> QED BY <1>0, <1>1, <1>2

LEMMA RebalanceRefines ==
  ASSUME IInv, IInv', percolate = "none", NEW t \in Members, NEW order \in Keys,
         balance_node(heap_index[t], order)
  PROVE  Abstract!Rebalance(t, order)
  <1> DEFINE i == heap_index[t]
  <1>0. /\ TypeOK /\ curr_index \in Nat /\ i \in Used /\ i \in Indices /\ heap[i].thread = t
        /\ Used \subseteq Indices
    BY Nodes, Sizes DEF IInv
  <1>1. reply' = Abstract!Reply(TRUE, {}) BY DEF balance_node, Reply, Abstract!Reply
  <1>2. CASE curr_index = 1
    <2>1. UNCHANGED <<heap, curr_index, heap_index>> BY <1>2 DEF balance_node, Reply
    <2>2. Map' = Map BY <2>1 DEF Map, Members, Used
    <2>3. Used = {0} BY <1>2 DEF Used
    <2>4. DOMAIN Map = {t} BY <2>3, <1>0, Nodes DEF Members
    <2> QED BY <1>1, <2>2, <2>4 DEF Abstract!Rebalance, Abstract!Rebalanced
  <1>3. CASE curr_index > 1
    <2>1. heap' = [heap EXCEPT ![i].order = order] /\ UNCHANGED <<curr_index, heap_index>>
      BY <1>3 DEF balance_node, Reply
    <2>2. /\ heap'[i].order = order /\ \A k \in Indices : heap'[k].thread = heap[k].thread
          /\ \A k \in Indices \ {i} : heap'[k] = heap[k]
      BY <1>0, <2>1 DEF TypeOK
    <2>3. Members' = Members
      <3>1. Used' = Used BY <2>1 DEF Used
      <3> QED BY <1>0, <2>2, <3>1 DEF Members
    <2>4. DOMAIN Map # {t}
      <3>1. 0 \in Used /\ 1 \in Used BY <1>0, <1>3, Sizes
      <3>2. heap[0].thread \in Members /\ heap[1].thread \in Members
            /\ heap[0].thread # heap[1].thread
        BY <3>1, Nodes
      <3> QED BY <3>2, Nodes
    <2>5. ASSUME NEW s \in Members
          PROVE  heap'[heap_index'[s]].order = IF s = t THEN order ELSE Map[s]
      <3>1. CASE s = t BY <2>1, <2>2, <3>1
      <3>2. CASE s # t
        <4>1. heap_index[s] \in Used \ {i} BY <1>0, <3>2, Nodes
        <4> QED BY <1>0, <2>1, <2>2, <3>2, <4>1 DEF Map
      <3> QED BY <3>1, <3>2
    <2>6. Map' = [Map EXCEPT ![t] = order]
      <3>1. Map' = [s \in Members |-> heap'[heap_index'[s]].order] BY <2>3 DEF Map
      <3>2. [Map EXCEPT ![t] = order] = [s \in Members |-> IF s = t THEN order ELSE Map[s]]
        BY Nodes
      <3> QED BY <2>5, <3>1, <3>2
    <2> QED BY <1>1, <2>4, <2>6 DEF Abstract!Rebalance, Abstract!Rebalanced
  <1> QED BY <1>2, <1>3 DEF balance_node

LEMMA TeardownRefines ==
  ASSUME IInv, Teardown PROVE Abstract!Destroy
  <1>1. Used' = {} BY DEF Teardown, Used
  <1>2. Map' = Abstract!EmptyHeap BY <1>1 DEF Map, Members, Abstract!EmptyHeap
  <1> QED BY <1>2, Nodes DEF Teardown, Reply, Abstract!Destroy, Abstract!Reply

LEMMA StepIsAMapStep ==
  ASSUME IInv, IInv', [Next]_vars
  PROVE  Abstract!Next \/ (Map' = Map /\ reply' = reply)
  <1>0. TypeOK BY DEF IInv
  <1>1. CASE percolate_up
    <2>1. CASE RisesPast(Parent(index)) /\ SwapWith(Parent(index))
      <3>1. index \in Used /\ index # 0
        BY <1>1, <2>1 DEF percolate_up, IInv, Repairing, Rising, RisesPast
      <3>2. Parent(index) \in Used /\ Parent(index) # index BY <1>0, <3>1, UsedTree
      <3> QED BY <1>1, <2>1, <3>1, <3>2, SwapIsInvisible DEF percolate_up
    <2>2. CASE Settle BY <2>2 DEF Settle, Map, Members, Used
    <2> QED BY <1>1, <2>1, <2>2 DEF percolate_up, Parent
  <1>2. CASE percolate_down
    <2>1. ASSUME NEW j \in SmallerChild, SwapWith(j) PROVE Map' = Map /\ reply' = reply
      <3>1. /\ j \in Used /\ index \in Nat
            /\ j = find_left_child(index) \/ j = find_right_child(index)
        BY <1>0, <2>1, Sizes DEF SmallerChild, Before
      <3>2. j \in Nat \ {0} /\ Parent(j) = index BY <3>1, Tree
      <3>3. index \in Used /\ index # j BY <1>0, <3>1, <3>2, UsedTree
      <3> QED BY <1>2, <2>1, <3>1, <3>3, SwapIsInvisible DEF percolate_down
    <2>2. CASE Settle BY <2>2 DEF Settle, Map, Members, Used
    <2> QED BY <1>2, <2>1, <2>2 DEF percolate_down
  <1>3. CASE Call
    <2>0. percolate = "none" /\ Members \subseteq Threads /\ DOMAIN Map = Members
      BY <1>3, MembersAreThreads, Nodes DEF Call
    <2>1. ASSUME NEW t \in Threads \ Members, NEW order \in Keys, insert_node(t, order)
          PROVE  Abstract!Next
      BY <2>0, <2>1, InsertRefines DEF Abstract!Next
    <2>2. ASSUME NEW t \in Members, remove_node(heap_index[t]) PROVE Abstract!Next
      BY <2>0, <2>2, RemoveRefines DEF Abstract!Next
    <2>3. ASSUME NEW t \in Members, NEW order \in Later(t), balance_node(heap_index[t], order)
          PROVE  Abstract!Next
      <3>1. order \in Keys BY DEF Later
      <3> QED BY <2>0, <2>3, <3>1, RebalanceRefines DEF Abstract!Next
    <2>4. CASE pop_heap BY <2>0, <2>4, PopRefines DEF Abstract!Next
    <2>5. CASE Teardown BY <2>5, TeardownRefines DEF Abstract!Next
    <2> QED BY <1>3, <2>1, <2>2, <2>3, <2>4, <2>5 DEF Call
  <1>4. CASE UNCHANGED vars BY <1>4 DEF vars, Map, Members, Used
  <1> QED BY <1>1, <1>2, <1>3, <1>4 DEF Next

(* The array does what PriorityMap promises, which is what Sched takes a   *)
(* heap to be: nothing is lost or doubled, and what is taken has the least *)
(* key of all.                                                             *)
THEOREM HeapIsAPriorityMap == Spec => ImplementsPriorityMap
  <1>1. Init => Abstract!Init
    <2> SUFFICES ASSUME Init PROVE Abstract!Init OBVIOUS
    <2>1. Used = {} BY DEF Init, Used
    <2>2. Map = Abstract!EmptyHeap BY <2>1 DEF Map, Members, Abstract!EmptyHeap
    <2> QED BY <2>2 DEF Init, Reply, Abstract!Init, Abstract!Reply
  <1>2. IInv /\ IInv' /\ [Next]_vars => [Abstract!Next]_<<Map, reply>>
    BY StepIsAMapStep
  <1> QED BY Inductive, <1>1, <1>2, PTL DEF Spec, ImplementsPriorityMap, Abstract!Spec
=============================================================================
