--------------------------- MODULE ThreadFifoProof ---------------------------
(***************************************************************************)
(* The ring buffer is a bounded sequence for every number of slots and     *)
(* every set of threads: its type, its window of slots and the step        *)
(* simulation of BoundedFifo.                                              *)
(***************************************************************************)
EXTENDS ThreadFifo, SequenceTheorems, TLAPS

\* A window of slots that is the queue, only forgotten threads outside it, and no
\* thread in two slots: what the steps need of one another.
RingInv == TypeOK /\ SlotsAreQueue /\ SlotsDistinct

\* Positions never exceed twice the number of slots, so a remainder is at most
\* one subtraction.
LEMMA Remainder ==
  ASSUME NEW a \in Nat, a < 2 * MAX_THREADS
  PROVE  a % MAX_THREADS = IF a < MAX_THREADS THEN a ELSE a - MAX_THREADS
BY FifoAssumption, SMTT(30)

\* Where the i-th queued thread lies, without the remainder.
LEMMA SlotIs ==
  ASSUME TypeOK, NEW i \in 1 .. MAX_THREADS + 1
  PROVE  Slot(i) = IF start + i - 1 < MAX_THREADS THEN start + i - 1
                   ELSE start + i - 1 - MAX_THREADS
<1> DEFINE a == start + i - 1
<1>1. a \in Nat /\ a < 2 * MAX_THREADS
  BY FifoAssumption DEF TypeOK, Indices
<1>2. Slot(i) = a % MAX_THREADS
  BY DEF Slot
<1> HIDE DEF a
<1>3. Slot(i) = IF a < MAX_THREADS THEN a ELSE a - MAX_THREADS
  BY <1>1, <1>2, Remainder
<1> QED
  BY <1>3, FifoAssumption DEF a, TypeOK, Indices

\* inc_wrap moves to the next slot and back to the first after the last.
LEMMA IncWrapIs ==
  ASSUME NEW n \in Indices
  PROVE  inc_wrap(n) = IF n = MAX_THREADS - 1 THEN 0 ELSE n + 1
<1>1. n + 1 \in Nat /\ n + 1 < 2 * MAX_THREADS
  BY FifoAssumption DEF Indices
<1> QED
  BY <1>1, Remainder, FifoAssumption DEF inc_wrap, Indices

\* Successive positions are successive slots.
LEMMA SlotNext ==
  ASSUME TypeOK, NEW n \in 1 .. MAX_THREADS
  PROVE  inc_wrap(Slot(n)) = Slot(n + 1)
<1> USE FifoAssumption
<1> DEFINE m == n + 1
<1>1. n \in 1 .. MAX_THREADS + 1 /\ m \in 1 .. MAX_THREADS + 1
  OBVIOUS
<1> HIDE DEF m
<1>2. Slot(n) = IF start + n - 1 < MAX_THREADS THEN start + n - 1
                ELSE start + n - 1 - MAX_THREADS
  BY <1>1, SlotIs
<1>3. Slot(m) = IF start + m - 1 < MAX_THREADS THEN start + m - 1
                ELSE start + m - 1 - MAX_THREADS
  BY <1>1, SlotIs
<1>4. Slot(n) \in Indices
  BY <1>2 DEF TypeOK, Indices
<1>5. inc_wrap(Slot(n)) = IF Slot(n) = MAX_THREADS - 1 THEN 0 ELSE Slot(n) + 1
  BY <1>4, IncWrapIs
<1> QED
  BY <1>2, <1>3, <1>5 DEF m, TypeOK, Indices

\* Queued threads lie inside the array.
LEMMA SlotIn ==
  ASSUME TypeOK, NEW i \in 1 .. size
  PROVE  Slot(i) \in Indices
BY SlotIs, FifoAssumption DEF TypeOK, Indices

LEMMA WindowIn == TypeOK => Window \subseteq Indices
BY SlotIn DEF Window

\* A new thread never lands on a queued one.
LEMMA SlotsApart ==
  ASSUME TypeOK, size < MAX_THREADS, NEW i \in 1 .. size
  PROVE  Slot(i) # Slot(size + 1)
<1> DEFINE n == size + 1
<1>1. n \in 1 .. MAX_THREADS /\ i \in 1 .. n - 1
  BY FifoAssumption DEF TypeOK
<1> HIDE DEF n
<1>2. Slot(n) # Slot(i)
  BY <1>1, SlotIs, FifoAssumption DEF TypeOK, Indices
<1> QED
  BY <1>2 DEF n

\* The end of the queue is the slot after its last thread.
LEMMA EndIs ==
  ASSUME TypeOK, SlotsAreQueue
  PROVE  end = Slot(size + 1)
BY FifoAssumption DEF TypeOK, SlotsAreQueue, Slot, Indices

Replies == [ok: BOOLEAN, threads: SUBSET Threads]

\* A reply is well typed when what it hands out are threads.
LEMMA ReplyType ==
  ASSUME NEW ok \in BOOLEAN, NEW threads \in SUBSET Threads
  PROVE  Reply(ok, threads) \in Replies
BY DEF Reply, Replies

\* A refused call changes the reply only.
LEMMA RefusedKeepsRing ==
  ASSUME RingInv, UNCHANGED <<start, end, size, slots, forgotten>>, reply' \in Replies
  PROVE  RingInv'
<1>1. TypeOK'
  BY DEF RingInv, TypeOK, Replies
<1>2. Window' = Window /\ InSlots' = InSlots
  BY DEF Window, Slot, InSlots
<1>3. SlotsAreQueue'
  BY <1>2 DEF RingInv, SlotsAreQueue
<1>4. SlotsDistinct'
  BY DEF RingInv, SlotsDistinct
<1> QED
  BY <1>1, <1>3, <1>4 DEF RingInv

\* The ring starts empty and clean.
LEMMA RingInit == Init => RingInv
<1> SUFFICES ASSUME Init PROVE RingInv
  OBVIOUS
<1>1. 0 % MAX_THREADS = 0
  BY Remainder, FifoAssumption
<1>2. Window = {}
  BY DEF Init, Window
<1> QED
  BY <1>1, <1>2, FifoAssumption DEF Init, RingInv, TypeOK, SlotsAreQueue, SlotsDistinct,
    Indices, Reply

\* A push fills the slot after the window, and loses the thread forgotten there.
LEMMA PushKeepsRing ==
  ASSUME RingInv, NEW t \in Threads, t \notin InSlots, Push(t)
  PROVE  RingInv'
<1> USE FifoAssumption DEF RingInv
<1>1. CASE ~HasRoom
  BY <1>1, RefusedKeepsRing, ReplyType DEF Push
<1>2. CASE HasRoom
  <2>1. /\ size < MAX_THREADS
        /\ size' = size + 1 /\ start' = start
        /\ slots' = [slots EXCEPT ![end] = t]
        /\ end' = inc_wrap(end)
        /\ reply' = Reply(TRUE, {})
        /\ forgotten' = forgotten \ {slots[end]}
    BY <1>2 DEF Push, HasRoom
  <2>2. end = Slot(size + 1)
    BY EndIs
  <2>3. TypeOK'
    <3>1. end' \in Indices
      BY <2>1, IncWrapIs DEF TypeOK, Indices
    <3>2. slots' \in [Indices -> Threads \cup {NULL}]
      BY <2>1 DEF TypeOK
    <3>3. reply' \in Replies
      BY <2>1, ReplyType
    <3>4. size' \in 0 .. MAX_THREADS /\ start' \in Indices /\ forgotten' \subseteq Threads
      BY <2>1 DEF TypeOK
    <3> QED
      BY <3>1, <3>2, <3>3, <3>4 DEF TypeOK, Replies
  <2>4. end' = (start' + size') % MAX_THREADS
    <3>1. size + 1 \in 1 .. MAX_THREADS /\ (size + 1) + 1 = size + 2
      BY <2>1 DEF TypeOK
    <3>2. end' = Slot((size + 1) + 1)
      BY <2>1, <2>2, <3>1, SlotNext
    <3>5. end' = Slot(size + 2)
      BY <3>1, <3>2
    <3>6. start + (size + 2) - 1 = start' + size'
      BY <2>1 DEF TypeOK, Indices
    <3> QED
      BY <3>5, <3>6 DEF Slot
  <2>5. Window' = Window \cup {end} /\ end \notin Window
    <3>1. \A i \in 1 .. size' : Slot(i)' = Slot(i)
      BY <2>1 DEF Slot
    <3>2. 1 .. size' = 1 .. size \cup {size + 1}
      BY <2>1 DEF TypeOK
    <3>3. \A i \in 1 .. size : Slot(i) # Slot(size + 1)
      BY <2>1, SlotsApart
    <3> QED
      BY <2>2, <3>1, <3>2, <3>3 DEF Window
  <2>6. end \in Indices /\ Window \subseteq Indices /\ t \in Threads \ InSlots
    BY WindowIn DEF TypeOK
  <2>7. \A k \in Window' : slots'[k] \in Threads \ forgotten'
    <3>1. t \notin forgotten
      BY <2>6 DEF SlotsAreQueue
    <3> QED
      BY <2>1, <2>5, <2>6, <3>1 DEF SlotsAreQueue, TypeOK
  <2>8. \A k \in Indices \ Window' : slots'[k] \in forgotten' \cup {NULL}
    <3> SUFFICES ASSUME NEW k \in Indices, k # end, k \notin Window
                 PROVE  slots'[k] \in forgotten' \cup {NULL}
      BY <2>5
    <3>1. slots'[k] = slots[k] /\ slots[k] \in forgotten \cup {NULL}
      BY <2>1 DEF SlotsAreQueue, TypeOK
    <3>2. slots[k] = slots[end] => slots[k] = NULL
      BY <2>6 DEF SlotsDistinct
    <3> QED
      BY <2>1, <3>1, <3>2
  <2>9. forgotten' \subseteq InSlots'
    <3> SUFFICES ASSUME NEW f \in forgotten, f # slots[end] PROVE f \in InSlots'
      BY <2>1
    <3>1. PICK j \in Indices : slots[j] = f
      BY DEF SlotsAreQueue, InSlots
    <3>2. slots'[j] = f /\ f # NULL
      BY <2>1, <3>1 DEF TypeOK
    <3> QED
      BY <3>2 DEF InSlots
  <2>10. SlotsDistinct'
    BY <2>1 DEF TypeOK, SlotsDistinct, InSlots, Indices
  <2> QED
    BY <2>3, <2>4, <2>7, <2>8, <2>9, <2>10 DEF SlotsAreQueue
<1> QED
  BY <1>1, <1>2

\* After a pop the window starts one slot later.
LEMMA PopShiftsWindow ==
  ASSUME RingInv, size # 0, start' = inc_wrap(start), NEW i \in 1 .. size
  PROVE  Slot(i)' = Slot(i + 1)
<1> USE FifoAssumption DEF RingInv
<1>1. start' = IF start = MAX_THREADS - 1 THEN 0 ELSE start + 1
  BY IncWrapIs DEF TypeOK
<1> DEFINE a == start' + i - 1
<1>2. a \in Nat /\ a < 2 * MAX_THREADS
  BY <1>1 DEF TypeOK, Indices
<1>3. Slot(i)' = a % MAX_THREADS
  BY DEF Slot
<1> HIDE DEF a
<1>4. Slot(i)' = IF a < MAX_THREADS THEN a ELSE a - MAX_THREADS
  BY <1>2, <1>3, Remainder
<1>5. Slot(i + 1) = IF start + i < MAX_THREADS THEN start + i ELSE start + i - MAX_THREADS
  <2> DEFINE j == i + 1
  <2>1. j \in 1 .. MAX_THREADS + 1
    BY DEF TypeOK
  <2>2. start + j - 1 = start + i
    BY DEF TypeOK, Indices
  <2> HIDE DEF j
  <2>3. Slot(j) = IF start + j - 1 < MAX_THREADS THEN start + j - 1
                  ELSE start + j - 1 - MAX_THREADS
    BY <2>1, SlotIs
  <2> QED
    BY <2>2, <2>3 DEF j
<1> QED
  BY <1>1, <1>4, <1>5 DEF a, TypeOK, Indices

\* The slot of the oldest thread holds one, and no other queued thread is there.
LEMMA FirstSlot ==
  ASSUME RingInv, size # 0
  PROVE  /\ start = Slot(1) /\ slots[start] \in Threads
         /\ \A i \in 2 .. size : Slot(i) # start
<1> USE FifoAssumption DEF RingInv
<1>1. start = Slot(1)
  BY SlotIs DEF TypeOK, Indices
<1>2. slots[start] \in Threads
  <2>1. start \in Window
    BY <1>1 DEF TypeOK, Window
  <2> QED
    BY <2>1 DEF SlotsAreQueue
<1>3. \A i \in 2 .. size : Slot(i) # start
  BY SlotIs DEF TypeOK, Indices
<1> QED
  BY <1>1, <1>2, <1>3

\* A pop clears the slot the window leaves behind.
LEMMA PopKeepsRing ==
  ASSUME RingInv, Pop
  PROVE  RingInv'
<1> USE FifoAssumption DEF RingInv
<1>1. CASE size = 0
  BY <1>1, RefusedKeepsRing, ReplyType DEF Pop
<1>2. CASE size # 0
  <2>1. /\ size' = size - 1 /\ end' = end
        /\ slots' = [slots EXCEPT ![start] = NULL]
        /\ start' = inc_wrap(start)
        /\ reply' = Reply(TRUE, {slots[start]})
        /\ forgotten' = forgotten
    BY <1>2 DEF Pop, Popped
  <2>2. /\ start = Slot(1) /\ slots[start] \in Threads
        /\ \A i \in 2 .. size : Slot(i) # start
    BY <1>2, FirstSlot
  <2>3. TypeOK'
    <3>1. start' \in Indices
      BY <2>1, IncWrapIs DEF TypeOK, Indices
    <3>2. slots' \in [Indices -> Threads \cup {NULL}]
      BY <2>1 DEF TypeOK
    <3>3. reply' \in Replies
      BY <2>1, <2>2, ReplyType
    <3>4. size' \in 0 .. MAX_THREADS /\ end' \in Indices /\ forgotten' \subseteq Threads
      BY <1>2, <2>1 DEF TypeOK
    <3> QED
      BY <3>1, <3>2, <3>3, <3>4 DEF TypeOK, Replies
  <2>4. end' = (start' + size') % MAX_THREADS
    <3> DEFINE n == size
    <3>1. n \in 1 .. size
      BY <1>2 DEF TypeOK
    <3>2. (start' + n - 1) % MAX_THREADS = Slot(n + 1)
      <4> HIDE DEF n
      <4> QED
        BY <1>2, <2>1, <3>1, PopShiftsWindow DEF Slot
    <3>3. start' \in Int /\ size \in Int
      BY <2>3 DEF TypeOK, Indices
    <3>4. start' + size' = start' + size - 1
      BY <2>1, <3>3
    <3> QED
      BY <2>1, <3>2, <3>4, EndIs
  <2>5. Window' = Window \ {start} /\ start \in Window
    <3>1. \A i \in 1 .. size' : Slot(i)' = Slot(i + 1)
      <4>1. \A i \in 1 .. size' : i \in 1 .. size
        BY <2>1 DEF TypeOK
      <4> QED
        BY <1>2, <2>1, <4>1, PopShiftsWindow
    <3>2. \A i \in 1 .. size' : i + 1 \in 2 .. size
      BY <2>1 DEF TypeOK
    <3>3. \A j \in 2 .. size : j - 1 \in 1 .. size' /\ (j - 1) + 1 = j
      BY <2>1 DEF TypeOK
    <3>4. 1 .. size = {1} \cup 2 .. size
      BY <1>2 DEF TypeOK
    <3>5. Window' = {Slot(j) : j \in 2 .. size}
      <4>1. Window' = {Slot(i)' : i \in 1 .. size'}
        BY DEF Window
      <4> QED
        BY <3>1, <3>2, <3>3, <4>1
    <3> QED
      BY <2>2, <3>4, <3>5 DEF Window
  <2>6. start \in Indices /\ Window \subseteq Indices
    BY WindowIn DEF TypeOK
  <2>7. \A k \in Window' : slots'[k] \in Threads \ forgotten'
    BY <2>1, <2>5, <2>6 DEF SlotsAreQueue, TypeOK
  <2>8. \A k \in Indices \ Window' : slots'[k] \in forgotten' \cup {NULL}
    BY <2>1, <2>5, <2>6 DEF SlotsAreQueue, TypeOK
  <2>9. forgotten' \subseteq InSlots'
    <3> SUFFICES ASSUME NEW f \in forgotten PROVE f \in InSlots'
      BY <2>1
    <3>1. PICK j \in Indices : slots[j] = f
      BY DEF SlotsAreQueue, InSlots
    <3>2. j # start
      BY <2>5, <3>1 DEF SlotsAreQueue
    <3>3. slots'[j] = f /\ f # NULL
      BY <2>1, <3>1, <3>2 DEF TypeOK
    <3> QED
      BY <3>3 DEF InSlots
  <2>10. SlotsDistinct'
    BY <2>1 DEF TypeOK, SlotsDistinct
  <2> QED
    BY <2>3, <2>4, <2>7, <2>8, <2>9, <2>10 DEF SlotsAreQueue
<1> QED
  BY <1>1, <1>2

\* The teardown leaves NULL in every slot.
LEMMA DestroyKeepsRing ==
  ASSUME RingInv, destroy_threads
  PROVE  RingInv'
<1> USE FifoAssumption DEF RingInv, destroy_threads
<1>1. 0 % MAX_THREADS = 0 /\ Window' = {}
  BY Remainder DEF Window
<1>2. TypeOK'
  <2>1. reply' \in Replies
    <3>1. InSlots \in SUBSET Threads
      BY DEF InSlots, TypeOK
    <3> QED
      BY <3>1, ReplyType
  <2>2. start' \in Indices /\ end' \in Indices /\ size' \in 0 .. MAX_THREADS
    BY DEF Indices
  <2>3. slots' \in [Indices -> Threads \cup {NULL}] /\ forgotten' \subseteq Threads
    OBVIOUS
  <2> QED
    BY <2>1, <2>2, <2>3 DEF TypeOK, Replies
<1> QED
  BY <1>1, <1>2 DEF SlotsAreQueue, SlotsDistinct

\* An initialisation leaves the threads where they are, and forgets them.
LEMMA InitializeKeepsRing ==
  ASSUME RingInv, initialize_fifo
  PROVE  RingInv'
<1> USE FifoAssumption DEF RingInv, initialize_fifo
<1>1. 0 % MAX_THREADS = 0 /\ Window' = {} /\ InSlots' = InSlots
  BY Remainder DEF Window, InSlots
<1>2. \A k \in Window : k \in Indices /\ slots[k] \in Threads \ forgotten
  BY WindowIn DEF SlotsAreQueue
<1>3. TypeOK'
  <2>1. reply' \in Replies
    BY ReplyType
  <2>2. start' \in Indices /\ end' \in Indices /\ size' \in 0 .. MAX_THREADS
    BY DEF Indices
  <2>3. slots' \in [Indices -> Threads \cup {NULL}] /\ forgotten' \subseteq Threads
    BY <1>2 DEF TypeOK
  <2> QED
    BY <2>1, <2>2, <2>3 DEF TypeOK, Replies
<1>4. \A k \in Indices : slots'[k] \in forgotten' \cup {NULL}
  BY DEF SlotsAreQueue
<1>5. forgotten' \subseteq InSlots'
  BY <1>1, <1>2 DEF SlotsAreQueue, InSlots
<1>6. SlotsDistinct'
  BY DEF SlotsDistinct
<1> QED
  BY <1>1, <1>3, <1>4, <1>5, <1>6 DEF SlotsAreQueue

\* RingInv is inductive.
LEMMA RingStep == RingInv /\ [Next]_vars => RingInv'
<1> SUFFICES ASSUME RingInv, [Next]_vars PROVE RingInv'
  OBVIOUS
<1>1. ASSUME NEW t \in Threads, t \notin InSlots, Push(t) PROVE RingInv'
  BY <1>1, PushKeepsRing
<1>2. CASE Pop
  BY <1>2, PopKeepsRing
<1>3. CASE destroy_threads \/ initialize_fifo
  BY <1>3, DestroyKeepsRing, InitializeKeepsRing
<1>4. CASE UNCHANGED vars
  <2>1. reply' \in Replies
    BY <1>4 DEF vars, RingInv, TypeOK, Replies
  <2> QED
    BY <1>4, <2>1, RefusedKeepsRing DEF vars
<1> QED
  BY <1>1, <1>2, <1>3, <1>4 DEF Next

\* Types of the ring buffer: the indices stay in the array (inc_wrap), the size
\* never passes MAX_THREADS, and what a pop or a teardown hands out are threads.
THEOREM RingTypes == Spec => []TypeOK
BY RingInit, RingStep, PTL DEF Spec, RingInv

\* What destroy_threads relies on: the `size` slots from start hold the queue, and
\* what is not NULL elsewhere an initialisation forgot, even one that overtakes the
\* teardown; no pop leaves a pointer behind.
THEOREM RingWindow == Spec => []SlotsAreQueue
BY RingInit, RingStep, PTL DEF Spec, RingInv

----------------------------------------------------------------------------
(* The ring buffer implements BoundedFifo *)

QueueInSlots ==
  /\ Queue \in Seq(Threads) /\ Len(Queue) = size
  /\ \A i \in 1 .. size : Queue[i] = slots[Slot(i)]

\* The queue of the refinement is a sequence, read off the slots.
LEMMA QueueIs == RingInv => QueueInSlots
<1> SUFFICES ASSUME RingInv PROVE QueueInSlots
  OBVIOUS
<1>1. size \in Nat
  BY FifoAssumption DEF RingInv, TypeOK
<1>2. \A i \in 1 .. size : Slot(i) \in Window
  BY DEF Window
<1>3. \A i \in 1 .. size : slots[Slot(i)] \in Threads
  BY <1>2 DEF RingInv, TypeOK, SlotsAreQueue
<1>4. Queue \in [1 .. size -> Threads]
  BY <1>3 DEF Queue
<1>5. Queue \in Seq(Threads)
  BY <1>1, <1>4, SeqDef
<1> QED
  BY <1>1, <1>4, <1>5 DEF Queue, QueueInSlots

\* Two queues with the same threads at the same places are the same.
LEMMA QueueEqual ==
  ASSUME RingInv', NEW q \in Seq(Threads), Len(q) = size',
         \A i \in 1 .. size' : q[i] = slots'[Slot(i)']
  PROVE  Queue' = q
<1>1. (RingInv => QueueInSlots)'
  BY QueueIs, PTL
<1> QED
  BY <1>1, SeqEqual DEF QueueInSlots

\* A push appends.
LEMMA PushRefines ==
  ASSUME RingInv, NEW t \in Threads, t \notin InSlots, Push(t)
  PROVE  Fifo!Push(t)
<1>1. RingInv'
  BY PushKeepsRing
<1>2. /\ Queue \in Seq(Threads) /\ Len(Queue) = size
      /\ \A i \in 1 .. size : Queue[i] = slots[Slot(i)]
  BY QueueIs DEF QueueInSlots
<1>3. CASE ~HasRoom
  <2>1. Queue' = Queue
    BY <1>3 DEF Push, Queue, Slot
  <2> QED
    BY <1>2, <1>3, <2>1 DEF Push, HasRoom, Fifo!Push, Fifo!Reply, Reply
<1>4. CASE HasRoom
  <2>1. /\ size < MAX_THREADS
        /\ size' = size + 1 /\ start' = start
        /\ slots' = [slots EXCEPT ![end] = t]
        /\ reply' = Reply(TRUE, {})
        /\ forgotten' = forgotten \ {slots[end]}
    BY <1>4 DEF Push, HasRoom
  <2>2. /\ Append(Queue, t) \in Seq(Threads)
        /\ Len(Append(Queue, t)) = size'
        /\ \A i \in 1 .. size : Append(Queue, t)[i] = Queue[i]
        /\ Append(Queue, t)[size + 1] = t
    BY <1>2, <2>1, AppendProperties
  <2>3. end = Slot(size + 1) /\ end \in Indices /\ size \in Nat
    BY EndIs, FifoAssumption DEF RingInv, TypeOK
  <2>4. ASSUME NEW i \in 1 .. size'
        PROVE  Append(Queue, t)[i] = slots'[Slot(i)']
    <3>1. Slot(i)' = Slot(i)
      BY <2>1 DEF Slot
    <3>2. CASE i = size + 1
      BY <2>1, <2>2, <2>3, <3>1, <3>2 DEF RingInv, TypeOK
    <3>3. CASE i # size + 1
      <4>1. i \in 1 .. size
        BY <2>1, <2>3, <3>3
      <4>2. Slot(i) # Slot(size + 1)
        BY <2>1, <2>3, <4>1, SlotsApart DEF RingInv
      <4> QED
        BY <1>2, <2>1, <2>2, <2>3, <3>1, <4>1, <4>2 DEF RingInv, TypeOK
    <3> QED
      BY <3>2, <3>3
  <2>5. Queue' = Append(Queue, t)
    BY <1>1, <2>2, <2>4, QueueEqual
  <2>6. \/ forgotten' = forgotten
        \/ \E f \in forgotten : forgotten' = forgotten \ {f}
    BY <2>1
  <2> QED
    BY <1>2, <2>1, <2>5, <2>6 DEF Fifo!Push, Fifo!Reply, Reply
<1> QED
  BY <1>3, <1>4

\* A pop takes the head.
LEMMA PopRefines ==
  ASSUME RingInv, Pop
  PROVE  Fifo!Pop
<1>1. RingInv'
  BY PopKeepsRing
<1>2. /\ Queue \in Seq(Threads) /\ Len(Queue) = size /\ size \in Nat
      /\ \A i \in 1 .. size : Queue[i] = slots[Slot(i)]
  BY QueueIs, FifoAssumption DEF QueueInSlots, RingInv, TypeOK
<1>3. CASE size = 0
  <2>1. Queue' = Queue
    BY <1>3 DEF Pop, Queue, Slot
  <2>2. Queue = <<>>
    BY <1>2, <1>3
  <2> QED
    BY <1>3, <2>1, <2>2 DEF Pop, Fifo!Pop, Fifo!Reply, Reply
<1>4. CASE size # 0
  <2>1. /\ size' = size - 1 /\ start' = inc_wrap(start)
        /\ slots' = [slots EXCEPT ![start] = NULL]
        /\ reply' = Reply(TRUE, {slots[start]})
        /\ forgotten' = forgotten
    BY <1>4 DEF Pop, Popped
  <2>2. Queue # <<>>
    BY <1>2, <1>4
  <2>3. /\ Tail(Queue) \in Seq(Threads) /\ Len(Tail(Queue)) = size'
        /\ \A i \in 1 .. size' : Tail(Queue)[i] = Queue[i + 1]
    BY <1>2, <2>1, <2>2, HeadTailProperties
  <2>4. Head(Queue) = slots[start]
    BY <1>2, <1>4, <2>2, FirstSlot
  <2>5. ASSUME NEW i \in 1 .. size'
        PROVE  Tail(Queue)[i] = slots'[Slot(i)']
    <3>1. i \in 1 .. size /\ i + 1 \in 2 .. size
      BY <1>2, <2>1
    <3>2. Slot(i)' = Slot(i + 1)
      BY <1>4, <2>1, <3>1, PopShiftsWindow
    <3>3. Slot(i + 1) # start
      BY <1>4, <3>1, FirstSlot
    <3>4. Slot(i + 1) \in Indices
      BY <1>1, <3>1, SlotIn DEF RingInv
    <3>5. slots'[Slot(i + 1)] = slots[Slot(i + 1)]
      BY <2>1, <3>3, <3>4 DEF RingInv, TypeOK
    <3> QED
      BY <1>2, <2>3, <3>1, <3>2, <3>5
  <2>6. Queue' = Tail(Queue)
    BY <1>1, <2>3, <2>5, QueueEqual
  <2> QED
    BY <2>1, <2>2, <2>4, <2>6 DEF Fifo!Pop, Fifo!Reply, Reply
<1> QED
  BY <1>3, <1>4

\* The slots of the window hold the members of the queue.
LEMMA WindowHoldsQueue == Fifo!Members(Queue) = {slots[k] : k \in Window}
BY DEF Queue, Window, Fifo!Members

\* The teardown finds the queued and the forgotten threads in the slots; an
\* initialisation forgets what is queued.
LEMMA EmptyRefines ==
  ASSUME RingInv
  PROVE  /\ destroy_threads => Fifo!Destroy
         /\ initialize_fifo => Fifo!Initialize
<1>1. size' = 0 => Queue' = <<>>
  BY DEF Queue
<1>2. InSlots = Fifo!Members(Queue) \cup forgotten
  <2>1. Window \subseteq Indices /\ \A k \in Window : slots[k] \in Threads
    BY WindowIn DEF RingInv, SlotsAreQueue
  <2>2. \A k \in Indices \ Window : slots[k] \in forgotten \cup {NULL}
    BY DEF RingInv, SlotsAreQueue
  <2>3. forgotten \subseteq InSlots
    BY DEF RingInv, SlotsAreQueue
  <2> QED
    BY <2>1, <2>2, <2>3, WindowHoldsQueue, FifoAssumption DEF InSlots
<1> QED
  BY <1>1, <1>2, WindowHoldsQueue DEF destroy_threads, initialize_fifo, Fifo!Destroy,
    Fifo!Initialize, Fifo!Reply, Reply

\* The ring buffer is a bounded sequence to its callers, with the threads an
\* initialisation forgot beside it: first in first out, full and empty reported, the
\* teardown freeing exactly what is queued or forgotten.
THEOREM RingImplements == Spec => ImplementsBoundedFifo
<1>1. Init => Fifo!Init
  BY DEF Init, Fifo!Init, Queue, Reply, Fifo!Reply
<1>2. RingInv /\ [Next]_vars => [Fifo!Next]_<<Queue, forgotten, reply>>
  <2> SUFFICES ASSUME RingInv, [Next]_vars PROVE [Fifo!Next]_<<Queue, forgotten, reply>>
    OBVIOUS
  <2>1. ASSUME NEW t \in Threads, t \notin InSlots, Push(t) PROVE Fifo!Next
    BY <2>1, PushRefines DEF Fifo!Next
  <2>2. CASE Pop
    BY <2>2, PopRefines DEF Fifo!Next
  <2>3. CASE destroy_threads \/ initialize_fifo
    BY <2>3, EmptyRefines DEF Fifo!Next
  <2>4. CASE UNCHANGED vars
    BY <2>4 DEF vars, Queue, Slot
  <2> QED
    BY <2>1, <2>2, <2>3, <2>4 DEF Next
<1> QED
  BY <1>1, <1>2, RingInit, RingStep, PTL DEF Spec, ImplementsBoundedFifo, Fifo!Spec
=============================================================================
