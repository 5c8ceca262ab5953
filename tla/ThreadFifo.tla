----------------------------- MODULE ThreadFifo -----------------------------
(***************************************************************************)
(* The ring buffer behind every FIFO of a core (src/kernel/thread_fifo.c), *)
(* for a FIFO that is torn down with destroy_threads, which frees whatever *)
(* slot is not NULL without looking at start, end or size.                 *)
(***************************************************************************)
EXTENDS Integers, Sequences

CONSTANTS
  Threads,      \* the thread_t pointers callers push
  NULL,
  MAX_THREADS   \* number of slots

ASSUME FifoAssumption == MAX_THREADS \in Nat \ {0} /\ NULL \notin Threads

VARIABLES
  start, end, size,
  slots,  \* the array called fifo in the code
  reply,  \* what the last call returned, and the threads it handed out
  forgotten   \* history: threads an initialisation took out of the queue
              \* and left in their slots

vars == <<start, end, size, slots, reply, forgotten>>

Indices == 0 .. MAX_THREADS - 1

Reply(ok, threads) == [ok |-> ok, threads |-> threads]

NoWrap(n) == n + 1  \* mutant: the index runs off the end

inc_wrap(n) == (n + 1) % MAX_THREADS

\* A static thread_fifo_t is zero before psched_core_init initialises it.
Init ==
  /\ start = 0 /\ end = 0 /\ size = 0
  /\ slots = [i \in Indices |-> NULL]
  /\ reply = Reply(TRUE, {}) /\ forgotten = {}

InSlots == {slots[i] : i \in Indices} \ {NULL}

HasRoomOffByOne == size <= MAX_THREADS  \* mutant: off by one

HasRoom == size < MAX_THREADS

\* fifo_push: a full FIFO is refused.  Whatever is in the slot is overwritten.
Push(t) ==
  \/ /\ HasRoom
     /\ size' = size + 1
     /\ slots' = [slots EXCEPT ![end] = t]
     /\ end' = inc_wrap(end)
     /\ reply' = Reply(TRUE, {})
     /\ forgotten' = forgotten \ {slots[end]}
     /\ UNCHANGED start
  \/ /\ ~HasRoom
     /\ reply' = Reply(FALSE, {})
     /\ UNCHANGED <<start, end, size, slots, forgotten>>

PoppedKept(s) == s  \* mutant: the slot is not cleared

Popped(s) == [s EXCEPT ![start] = NULL]

\* fifo_pop: NULL if empty
Pop ==
  \/ /\ size # 0
     /\ reply' = Reply(TRUE, {slots[start]})
     /\ slots' = Popped(slots)
     /\ size' = size - 1
     /\ start' = inc_wrap(start)
     /\ UNCHANGED <<end, forgotten>>
  \/ /\ size = 0
     /\ reply' = Reply(FALSE, {})
     /\ UNCHANGED <<start, end, size, slots, forgotten>>

destroy_threads ==
  /\ reply' = Reply(TRUE, InSlots)
  /\ slots' = [i \in Indices |-> NULL]
  /\ start' = 0 /\ end' = 0 /\ size' = 0
  /\ forgotten' = {}

\* The slot of the i-th queued thread
Slot(i) == (start + i - 1) % MAX_THREADS

\* The slots of the queue
Window == {Slot(i) : i \in 1 .. size}

\* psched_core_init calls it on the FIFOs as it finds them: a round-robin FIFO
\* keeps its threads over a teardown, and an initialisation that overtakes the
\* teardown finds threads in any of them.  The slots are not cleared.
initialize_fifo ==
  /\ start' = 0 /\ end' = 0 /\ size' = 0
  /\ forgotten' = forgotten \cup {slots[k] : k \in Window}
  /\ reply' = Reply(TRUE, {})
  /\ UNCHANGED slots

\* next_up and the add_* calls never push a thread that is still in a slot: a
\* queued one is popped first, and a forgotten one is in no container they take
\* threads from, its block allocated until destroy_threads frees it.
Next ==
  \/ \E t \in Threads : t \notin InSlots /\ Push(t)
  \/ Pop \/ destroy_threads \/ initialize_fifo

Spec == Init /\ [][Next]_vars

----------------------------------------------------------------------------
TypeOK ==
  /\ start \in Indices /\ end \in Indices /\ size \in 0 .. MAX_THREADS
  /\ slots \in [Indices -> Threads \cup {NULL}]
  /\ reply \in [ok: BOOLEAN, threads: SUBSET Threads]
  /\ forgotten \subseteq Threads

\* The `size` slots from start, across the wrap, hold the queue, and every other
\* slot is NULL or holds a thread that an initialisation forgot and no push has
\* overwritten since.  destroy_threads frees what it finds in any slot: a pointer
\* that a pop left behind would be a double free, a queued thread outside the
\* window a leak.
SlotsAreQueue ==
  /\ end = (start + size) % MAX_THREADS
  /\ \A k \in Window : slots[k] \in Threads \ forgotten
  /\ \A k \in Indices \ Window : slots[k] \in forgotten \cup {NULL}
  /\ forgotten \subseteq InSlots

\* No thread is in the ring twice.
SlotsDistinct ==
  \A j, k \in Indices : slots[j] = slots[k] /\ slots[j] # NULL => j = k

\* The queue the ring stands for
Queue == [i \in 1 .. size |-> slots[Slot(i)]]

Fifo == INSTANCE BoundedFifo WITH queue <- Queue, forgotten <- forgotten, reply <- reply

\* The ring is a bounded sequence to its callers: first in first out, full and
\* empty reported.  Beside it are the threads that an initialisation forgot: no
\* pop hands one out, a push may lose one, and the teardown frees exactly what is
\* queued and what is still forgotten.
ImplementsBoundedFifo == Fifo!Spec
=============================================================================
