------------------------------ MODULE KeyedHeap ------------------------------
(***************************************************************************)
(* What the scheduler relies on a heap_t to be: a function from the        *)
(* threads in it to their `order` keys, whose head is any thread with the  *)
(* least key, which covers every layout the array can have.                *)
(***************************************************************************)
EXTENDS Integers

EmptyHeap == [t \in {} |-> 0]

Heads(h) == {t \in DOMAIN h : \A s \in DOMAIN h : h[t] <= h[s]}

Inserted(h, t, key) == [s \in DOMAIN h \cup {t} |-> IF s = t THEN key ELSE h[s]]

Removed(h, t) == [s \in DOMAIN h \ {t} |-> h[s]]

\* balance_node returns at once when the heap holds a single node: the node
\* keeps its old key.
Rebalanced(h, t, key) == IF DOMAIN h = {t} THEN h ELSE [h EXCEPT ![t] = key]
=============================================================================
