----------------------------- MODULE PriorityMap -----------------------------
(***************************************************************************)
(* What the scheduler relies on a heap_t to be: a map of at most           *)
(* MAX_THREADS threads to their keys, from which a thread with the least   *)
(* key is taken.  `reply` is what the last call returned.                  *)
(***************************************************************************)
EXTENDS KeyedHeap, FiniteSets

CONSTANTS Threads, MAX_THREADS, Keys

VARIABLES map, reply

Reply(ok, threads) == [ok |-> ok, threads |-> threads]

Init == map = EmptyHeap /\ reply = Reply(TRUE, {})

Insert(t, key) ==
  IF Cardinality(DOMAIN map) < MAX_THREADS
  THEN map' = Inserted(map, t, key) /\ reply' = Reply(TRUE, {})
  ELSE reply' = Reply(FALSE, {}) /\ UNCHANGED map

Pop ==
  IF map # EmptyHeap
  THEN \E t \in Heads(map) : map' = Removed(map, t) /\ reply' = Reply(TRUE, {t})
  ELSE reply' = Reply(FALSE, {}) /\ UNCHANGED map

Remove(t) == map' = Removed(map, t) /\ reply' = Reply(TRUE, {})

Rebalance(t, key) == map' = Rebalanced(map, t, key) /\ reply' = Reply(TRUE, {})

\* The teardown frees the threads in the heap, all of them and nothing else.
Destroy == map' = EmptyHeap /\ reply' = Reply(TRUE, DOMAIN map)

Next ==
  \/ \E t \in Threads \ DOMAIN map, key \in Keys : Insert(t, key)
  \/ \E t \in DOMAIN map : Remove(t) \/ \E key \in Keys : Rebalance(t, key)
  \/ Pop \/ Destroy

Spec == Init /\ [][Next]_<<map, reply>>
=============================================================================
