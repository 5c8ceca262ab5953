----------------------------- MODULE BoundedFifo -----------------------------
(***************************************************************************)
(* What the scheduler has in a thread_fifo_t: a sequence of at most        *)
(* MAX_THREADS threads, and beside it the threads that were queued when it *)
(* was initialised again.  `reply` is what the last call returned.         *)
(***************************************************************************)
EXTENDS Integers, Sequences

CONSTANTS Threads, MAX_THREADS

VARIABLES queue, forgotten, reply

Reply(ok, threads) == [ok |-> ok, threads |-> threads]

Members(q) == {q[i] : i \in DOMAIN q}

Init == queue = <<>> /\ forgotten = {} /\ reply = Reply(TRUE, {})

\* A push may lose one of the forgotten threads, for ever.
Push(t) ==
  IF Len(queue) < MAX_THREADS
  THEN /\ queue' = Append(queue, t) /\ reply' = Reply(TRUE, {})
       /\ \/ UNCHANGED forgotten
          \/ \E s \in forgotten : forgotten' = forgotten \ {s}
  ELSE reply' = Reply(FALSE, {}) /\ UNCHANGED <<queue, forgotten>>

Pop ==
  /\ IF queue # <<>>
     THEN reply' = Reply(TRUE, {Head(queue)}) /\ queue' = Tail(queue)
     ELSE reply' = Reply(FALSE, {}) /\ UNCHANGED queue
  /\ UNCHANGED forgotten

\* The teardown frees the queued and the forgotten threads, and nothing else.
Destroy ==
  /\ reply' = Reply(TRUE, Members(queue) \cup forgotten)
  /\ queue' = <<>> /\ forgotten' = {}

\* Initialising it empties it, and forgets what was queued.
Initialize ==
  /\ queue' = <<>> /\ reply' = Reply(TRUE, {})
  /\ forgotten' = forgotten \cup Members(queue)

Next == (\E t \in Threads : Push(t)) \/ Pop \/ Destroy \/ Initialize

Spec == Init /\ [][Next]_<<queue, forgotten, reply>>
=============================================================================
