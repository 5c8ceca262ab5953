------------------------------ MODULE MCMinHeap ------------------------------
(* Instances of MinHeap for TLC: interchangeable threads, and states that  *)
(* differ only in what no call reads (stale nodes, the index of a thread   *)
(* that has no node, the last reply) taken as one.                         *)
EXTENDS MinHeap, TLC

Symmetry == Permutations(Threads)

InUse ==
  LET live == Indices \cap (Used \cup {index})
      known == {heap[i].thread : i \in live} \ {NULL}
  IN  <<[i \in live |-> heap[i]], curr_index, [t \in known |-> heap_index[t]],
        percolate, index>>
=============================================================================
