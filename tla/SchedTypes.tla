----------------------------- MODULE SchedTypes -----------------------------
(***************************************************************************)
(* Type correctness of Sched for every value of its constants, and the     *)
(* lemmas about heaps, FIFOs and single steps the other proofs rest on.    *)
(***************************************************************************)
EXTENDS SchedProps, SequenceTheorems, TLAPS

----------------------------------------------------------------------------
(* Heaps as functions to keys.                                             *)

\* A heap: a function from some threads to natural keys.
IsHeap(h) == DOMAIN h \subseteq Threads /\ h \in [DOMAIN h -> Nat]

\* The four heap operations return heaps, with the domain their name says.
LEMMA HeapOps ==
  ASSUME NEW h, IsHeap(h), NEW t \in Threads, NEW key \in Nat
  PROVE  /\ IsHeap(Inserted(h, t, key)) /\ DOMAIN Inserted(h, t, key) = DOMAIN h \cup {t}
         /\ \A s \in DOMAIN h \cup {t} :
              Inserted(h, t, key)[s] = IF s = t THEN key ELSE h[s]
         /\ IsHeap(Removed(h, t)) /\ DOMAIN Removed(h, t) = DOMAIN h \ {t}
         /\ \A s \in DOMAIN h \ {t} : Removed(h, t)[s] = h[s]
         /\ IsHeap(Rebalanced(h, t, key)) /\ DOMAIN Rebalanced(h, t, key) = DOMAIN h
         /\ \A s \in DOMAIN h :
              Rebalanced(h, t, key)[s] \in {h[s], IF s = t THEN key ELSE h[s]}
BY DEF IsHeap, Inserted, Removed, Rebalanced

LEMMA EmptyHeapIsHeap == IsHeap(EmptyHeap) /\ DOMAIN EmptyHeap = {}
BY DEF IsHeap, EmptyHeap

----------------------------------------------------------------------------
(* FIFOs as sequences without repetition.                                  *)

IsFifos(f) == f \in [Queues -> Seq(Threads)]

\* t is somewhere in the FIFO q of f; InQueue is In of the FIFOs of the core.
In(f, t, q) == \E i \in DOMAIN f[q] : f[q][i] = t

\* No thread is in two FIFOs of f or twice in one.
Distinct(f) ==
  \A q1, q2 \in Queues : \A i \in DOMAIN f[q1], j \in DOMAIN f[q2] :
    f[q1][i] = f[q2][j] => q1 = q2 /\ i = j

\* How the FIFOs g differ from the FIFOs f: t was put into q, t was taken out
\* from wherever it was, t is now in q and only there.
Gains(g, f, t, q) ==
  \A p \in Queues : \A s : In(g, s, p) <=> In(f, s, p) \/ (s = t /\ p = q)
Loses(g, f, t) ==
  \A p \in Queues : \A s : In(g, s, p) <=> In(f, s, p) /\ s # t
Moves(g, f, t, q) ==
  \A p \in Queues : \A s : In(g, s, p) <=> IF s = t THEN p = q ELSE In(f, s, p)

\* t is in no FIFO of f.
Nowhere(f, t) == \A p \in Queues : ~In(f, t, p)

\* fifo_push adds one thread to one FIFO.
LEMMA PushFacts ==
  ASSUME NEW f, IsFifos(f), NEW q \in Queues, NEW t \in Threads,
         NEW g, g = [f EXCEPT ![q] = Append(@, t)]
  PROVE  /\ IsFifos(g)
         /\ Gains(g, f, t, q)
         /\ Distinct(f) /\ Nowhere(f, t) => Distinct(g)
<1>1. /\ f[q] \in Seq(Threads) /\ g[q] = Append(f[q], t)
      /\ \A p \in Queues : p # q => g[p] = f[p]
  BY DEF IsFifos
<1>2. /\ g[q] \in Seq(Threads)
      /\ DOMAIN f[q] = 1 .. Len(f[q]) /\ DOMAIN g[q] = 1 .. Len(f[q]) + 1
      /\ \A i \in DOMAIN f[q] : g[q][i] = f[q][i]
      /\ g[q][Len(f[q]) + 1] = t
      /\ Len(f[q]) \in Nat
  BY <1>1, AppendProperties, LenProperties
<1>3. IsFifos(g)
  BY <1>1, <1>2 DEF IsFifos
<1>4. Gains(g, f, t, q)
  BY <1>1, <1>2 DEF Gains, In
<1>5. ASSUME Distinct(f), Nowhere(f, t)
      PROVE  Distinct(g)
  BY <1>1, <1>2, <1>5 DEF Distinct, Nowhere, In
<1> QED
  BY <1>3, <1>4, <1>5

\* fifo_pop takes the head out, and the head only.
LEMMA PopFacts ==
  ASSUME NEW f, IsFifos(f), NEW q \in Queues, f[q] # <<>>,
         NEW g, g = [f EXCEPT ![q] = Tail(@)]
  PROVE  /\ IsFifos(g)
         /\ Head(f[q]) \in Threads /\ In(f, Head(f[q]), q)
         /\ Distinct(f) => Distinct(g) /\ Loses(g, f, Head(f[q]))
<1>1. /\ f[q] \in Seq(Threads) /\ g[q] = Tail(f[q])
      /\ \A p \in Queues : p # q => g[p] = f[p]
  BY DEF IsFifos
<1>2. /\ g[q] \in Seq(Threads) /\ Head(f[q]) \in Threads /\ Head(f[q]) = f[q][1]
      /\ Len(f[q]) \in Nat \ {0}
      /\ DOMAIN f[q] = 1 .. Len(f[q]) /\ DOMAIN g[q] = 1 .. Len(f[q]) - 1
      /\ \A i \in DOMAIN g[q] : g[q][i] = f[q][i + 1]
  <2>1. /\ Len(f[q]) \in Nat /\ f[q] \in [1 .. Len(f[q]) -> Threads]
        /\ DOMAIN f[q] = 1 .. Len(f[q])
    BY <1>1, LenProperties
  <2>2. Len(f[q]) # 0
    BY <1>1, EmptySeq
  <2>3. /\ Head(f[q]) \in Threads /\ Tail(f[q]) \in Seq(Threads)
        /\ Len(Tail(f[q])) = Len(f[q]) - 1
        /\ \A i \in 1 .. Len(Tail(f[q])) : Tail(f[q])[i] = f[q][i + 1]
    BY <1>1, HeadTailProperties
  <2>4. DOMAIN Tail(f[q]) = 1 .. Len(Tail(f[q]))
    BY <2>3, LenProperties
  <2>5. Head(f[q]) = f[q][1]
    BY <1>1
  <2> QED
    BY <1>1, <2>1, <2>2, <2>3, <2>4, <2>5
<1>3. IsFifos(g)
  BY <1>1, <1>2 DEF IsFifos
<1>4. In(f, Head(f[q]), q)
  BY <1>2 DEF In
<1>5. ASSUME Distinct(f)
      PROVE  Distinct(g) /\ Loses(g, f, Head(f[q]))
  <2>1. Distinct(g)
    BY <1>1, <1>2, <1>5 DEF Distinct
  <2>2. ASSUME NEW p \in Queues, NEW s, In(g, s, p)
        PROVE  In(f, s, p) /\ s # Head(f[q])
    BY <1>1, <1>2, <1>5, <2>2 DEF Distinct, In
  <2>3. ASSUME NEW p \in Queues, NEW s, In(f, s, p), s # Head(f[q])
        PROVE  In(g, s, p)
    <3>1. CASE p # q
      BY <1>1, <2>3, <3>1 DEF In
    <3>2. CASE p = q
      <4>1. PICK i \in 1 .. Len(f[q]) : f[q][i] = s
        BY <1>2, <2>3, <3>2 DEF In
      <4>2. i # 1
        BY <1>2, <2>3, <4>1
      <4>3. i - 1 \in DOMAIN g[q] /\ (i - 1) + 1 = i
        BY <1>2, <4>1, <4>2
      <4>4. g[q][i - 1] = s
        BY <1>2, <4>1, <4>3
      <4> QED
        BY <3>2, <4>3, <4>4 DEF In
    <3> QED
      BY <3>1, <3>2
  <2> QED
    BY <2>1, <2>2, <2>3 DEF Loses
<1> QED
  BY <1>2, <1>3, <1>4, <1>5

\* Moving the head of a FIFO to the back of another (or of the same) one.
LEMMA MovedFacts ==
  ASSUME IsFifos(fifo), NEW from \in Queues, NEW to \in Queues, fifo[from] # <<>>
  PROVE  /\ IsFifos(Moved(from, to))
         /\ Head(fifo[from]) \in Threads /\ In(fifo, Head(fifo[from]), from)
         /\ Distinct(fifo) =>
              Distinct(Moved(from, to)) /\ Moves(Moved(from, to), fifo, Head(fifo[from]), to)
<1> DEFINE t == Head(fifo[from])
           popped == [fifo EXCEPT ![from] = Tail(@)]
<1>1. /\ IsFifos(popped) /\ t \in Threads /\ In(fifo, t, from)
      /\ Distinct(fifo) => Distinct(popped) /\ Loses(popped, fifo, t)
  BY PopFacts
<1>2. Moved(from, to) = [popped EXCEPT ![to] = Append(@, t)]
  BY DEF Moved
<1> HIDE DEF t, popped
<1>3. /\ IsFifos(Moved(from, to)) /\ Gains(Moved(from, to), popped, t, to)
      /\ Distinct(popped) /\ Nowhere(popped, t) => Distinct(Moved(from, to))
  BY <1>1, <1>2, PushFacts
<1>4. ASSUME Distinct(fifo)
      PROVE  Distinct(Moved(from, to)) /\ Moves(Moved(from, to), fifo, t, to)
  BY <1>1, <1>3, <1>4 DEF Nowhere, Gains, Loses, Moves
<1> QED
  BY <1>1, <1>3, <1>4 DEF t

----------------------------------------------------------------------------
(* Type correctness.                                                       *)

\* One block changes: what tcb' then is.
LEMMA TcbUpdate ==
  ASSUME tcb \in [Threads -> Tcb], NEW t \in Threads, NEW r \in Tcb,
         tcb' = [tcb EXCEPT ![t] = r]
  PROVE  /\ tcb' \in [Threads -> Tcb]
         /\ tcb'[t] = r
         /\ \A s \in Threads : s # t => tcb'[s] = tcb[s]
OBVIOUS

\* The types of the fields of a block.
LEMMA TcbFields ==
  ASSUME NEW r \in Tcb
  PROVE  /\ r.status \in Status /\ r.periodicity \in Periodicity
         /\ r.priority \in Priority /\ r.owner \in Owners
         /\ r.period \in Nat /\ r.release_time \in Nat /\ r.deadline \in Nat
         /\ r.ticks_landed \in Nat /\ r.dirty \in BOOLEAN /\ r.prev_u \in Nat
BY DEF Tcb

\* A block with one field replaced is a block.
LEMMA TcbExcept ==
  \A r \in Tcb :
    /\ \A x \in Nat : /\ [r EXCEPT !.deadline = x] \in Tcb
                      /\ [r EXCEPT !.release_time = x] \in Tcb
                      /\ [r EXCEPT !.ticks_landed = x] \in Tcb
                      /\ [r EXCEPT !.prev_u = x] \in Tcb
    /\ \A x \in Status : [r EXCEPT !.status = x] \in Tcb
    /\ \A x \in Periodicity : [r EXCEPT !.periodicity = x] \in Tcb
    /\ \A x \in Owners : [r EXCEPT !.owner = x] \in Tcb
    /\ [r EXCEPT !.dirty = FALSE] \in Tcb /\ [r EXCEPT !.dirty = TRUE] \in Tcb
BY ZenonT(60) DEF Tcb

\* What a suspension writes into the block, and that it is well typed.
LEMMA SuspendTcb ==
  ASSUME TypeOK, NEW t \in Threads, NEW delay \in Delays, Suspend(t, delay)
  PROVE  /\ tcb' \in [Threads -> Tcb]
         /\ ticks + delay \in Nat /\ Postponed(t, delay) \in Nat
         /\ tcb'[t] = [tcb[t] EXCEPT !.release_time = ticks + delay,
                                     !.deadline = Postponed(t, delay),
                                     !.owner = SuspendedOwner(tcb[t].owner)]
         /\ \A s \in Threads : s # t => tcb'[s] = tcb[s]
<1>1. tcb[t] \in Tcb /\ ticks \in Nat /\ delay \in Nat
  BY SchedAssumption DEF TypeOK
<1>2. tcb[t].period \in Nat /\ tcb[t].deadline \in Nat /\ tcb[t].owner \in Owners
  BY <1>1, TcbFields
<1>3. ticks + delay \in Nat /\ Postponed(t, delay) \in Nat
  BY <1>1, <1>2 DEF Postponed
<1>4. SuspendedOwner(tcb[t].owner) \in Owners
  BY <1>2 DEF SuspendedOwner, Owners
<1> DEFINE r == [tcb[t] EXCEPT !.release_time = ticks + delay,
                               !.deadline = Postponed(t, delay),
                               !.owner = SuspendedOwner(tcb[t].owner)]
<1>5. r \in Tcb
  BY <1>1, <1>3, <1>4, TcbExcept
<1>6. tcb' = [tcb EXCEPT ![t] = r]
  BY DEF Suspend
<1>7. tcb \in [Threads -> Tcb]
  BY DEF TypeOK
<1> HIDE DEF r
<1>8. /\ tcb' \in [Threads -> Tcb] /\ tcb'[t] = r
      /\ \A s \in Threads : s # t => tcb'[s] = tcb[s]
  BY <1>5, <1>6, <1>7, TcbUpdate
<1> QED
  BY <1>3, <1>8 DEF r

\* Suspending a thread keeps the blocks and the heaps well typed.
LEMMA SuspendTypes ==
  ASSUME TypeOK, NEW t \in Threads, NEW delay \in Delays, Suspend(t, delay)
  PROVE  tcb' \in [Threads -> Tcb] /\ IsHeap(deadHeap') /\ IsHeap(relHeap')
<1>1. tcb' \in [Threads -> Tcb] /\ ticks + delay \in Nat
  BY SuspendTcb
<1>2. IsHeap(deadHeap) /\ IsHeap(relHeap)
  BY DEF TypeOK, IsHeap
<1>3. CASE tcb[t].owner = "DEAD_HEAP"
  <2>1. ToRelHeap(t, ticks + delay)
    BY <1>3 DEF Suspend
  <2> QED
    BY <1>1, <1>2, <2>1, HeapOps DEF ToRelHeap
<1>4. CASE tcb[t].owner = "REL_HEAP"
  <2>1. relHeap' = Rebalanced(relHeap, t, ticks + delay) /\ deadHeap' = deadHeap
    BY <1>4 DEF Suspend
  <2> QED
    BY <1>1, <1>2, <2>1, HeapOps
<1>5. CASE tcb[t].owner \notin {"DEAD_HEAP", "REL_HEAP"}
  <2>1. deadHeap' = deadHeap /\ relHeap' = relHeap
    BY <1>5 DEF Suspend
  <2> QED
    BY <1>1, <1>2, <2>1
<1> QED
  BY <1>3, <1>4, <1>5

\* The calls that do not reschedule keep every variable in its type.
LEMMA ApiTypes == TypeOK /\ Api => TypeOK'
<1> SUFFICES ASSUME TypeOK, Api PROVE TypeOK'
  OBVIOUS
<1>0. IsFifos(fifo) /\ "INCOMING_THREADS" \in Queues
  BY DEF TypeOK, IsFifos, Queues
<1>1. ASSUME NEW t \in Threads, NEW new \in Tcb, Enqueue(t, new)
      PROVE  TypeOK'
  <2>1. IsFifos(fifo')
    BY <1>0, <1>1, PushFacts DEF Enqueue, Pushed
  <2> QED
    BY <1>1, <2>1 DEF Enqueue, TypeOK, IsFifos, cpu, control
<1>2. ASSUME NEW t \in Threads, EnqueueNewThread(t) \/ EnqueueNewPersistentThread(t)
      PROVE  TypeOK'
  <2>1. PICK new \in Tcb : Enqueue(t, new)
    BY <1>2, SchedAssumption
    DEF EnqueueNewThread, EnqueueNewPersistentThread, Blank, Tcb, Status, Periodicity,
        Priority, Owners, Queues
  <2> QED
    BY <1>1, <2>1
<1>3. ASSUME NEW t \in Threads, KillThread(t) PROVE TypeOK'
  <2>1. tcb[t] \in Tcb /\ tcb[t].prev_u \in Nat
    BY TcbFields DEF TypeOK
  <2>2. Killed(tcb[t]) \in Tcb
    BY <2>1, TcbExcept DEF Killed, Status, Periodicity, Owners, Queues
  <2>3. tcb' \in [Threads -> Tcb] /\ utilization' \in Int
    BY <1>3, <2>1, <2>2 DEF KillThread, TypeOK
  <2> QED
    BY <1>3, <2>3 DEF KillThread, TypeOK, containers, control
<1>4. ASSUME NEW t \in Threads, NEW delay \in Delays, SuspendOther(t, delay)
      PROVE  TypeOK'
  BY <1>4, SuspendTypes DEF SuspendOther, TypeOK, IsHeap, cpu, control
<1> QED
  BY <1>2, <1>3, <1>4 DEF Api

\* So do the calls that start next_up.
LEMMA EnterTypes == TypeOK /\ Enter => TypeOK'
<1> SUFFICES ASSUME TypeOK, Enter PROVE TypeOK'
  OBVIOUS
<1>1. ASSUME TickEntry
      PROVE  ticks' \in Nat /\ utilization' \in Int /\ tcb' \in [Threads -> Tcb]
  <2>1. PICK u \in Utils : UpdateUtilization(u)
    BY <1>1 DEF TickEntry
  <2>2. u \in Nat
    BY SchedAssumption
  <2>3. CASE curr \in Threads /\ curr # Main /\ tcb[curr].periodicity = "PERIODIC"
    <3>1. tcb[curr] \in Tcb /\ tcb[curr].prev_u \in Nat
      BY <2>3, TcbFields DEF TypeOK
    <3>2. [tcb[curr] EXCEPT !.prev_u = u] \in Tcb
      BY <2>2, <3>1, TcbExcept
    <3>3. /\ ticks' = ticks + 1 /\ utilization' = utilization - tcb[curr].prev_u + u
          /\ tcb' = [tcb EXCEPT ![curr] = [tcb[curr] EXCEPT !.prev_u = u]]
      BY <1>1, <2>1, <2>3 DEF TickEntry, UpdateUtilization
    <3>4. tcb' \in [Threads -> Tcb]
      BY <2>3, <3>2, <3>3, TcbUpdate DEF TypeOK
    <3>5. ticks' \in Nat /\ utilization' \in Int
      BY <2>2, <3>1, <3>3 DEF TypeOK
    <3> QED
      BY <3>4, <3>5
  <2>4. CASE ~(curr # Main /\ tcb[curr].periodicity = "PERIODIC")
    BY <1>1, <2>1, <2>4 DEF TickEntry, UpdateUtilization, TypeOK
  <2> QED
    BY <2>3, <2>4 DEF TypeOK
<1>2. CASE NextThread
  BY <1>1, <1>2 DEF NextThread, StartNextUp, TypeOK, containers, Frames, Phases
<1>3. CASE NextThreadReleasePending
  BY <1>1, <1>3
  DEF NextThreadReleasePending, ForcedMain, TypeOK, containers, control, Frames
<1>4. CASE ThreadExit
  <2>1. curr \in Threads /\ [tcb[curr] EXCEPT !.status = "FINISHED"] \in Tcb
    BY <1>4, TcbExcept DEF ThreadExit, TypeOK, Status
  <2> QED
    BY <1>4, <2>1 DEF ThreadExit, StartNextUp, TypeOK, containers, cpu, Frames, Phases
<1>5. ASSUME NEW delay \in Delays, SuspendSelf(delay) PROVE TypeOK'
  <2>1. curr \in Threads
    BY <1>5 DEF SuspendSelf, TypeOK
  <2>2. tcb' \in [Threads -> Tcb] /\ IsHeap(deadHeap') /\ IsHeap(relHeap')
    BY <1>5, <2>1, SuspendTypes DEF SuspendSelf
  <2> QED
    BY <1>5, <2>1, <2>2 DEF SuspendSelf, StartNextUp, TypeOK, IsHeap, cpu, Frames, Phases
<1> QED
  BY <1>2, <1>3, <1>4, <1>5 DEF Enter

----------------------------------------------------------------------------
(* What the steps of next_up do to the blocks and the containers.          *)

\* The typing facts the lemmas below start from.
LEMMA Typing ==
  ASSUME TypeOK
  PROVE  /\ IsFifos(fifo) /\ IsHeap(deadHeap) /\ IsHeap(relHeap)
         /\ tcb \in [Threads -> Tcb] /\ ticks \in Nat
         /\ \A t \in Threads : tcb[t] \in Tcb
         /\ Classes \subseteq Queues
         /\ "INCOMING_THREADS" \in Queues /\ "OUTGOING_THREADS" \in Queues
BY DEF TypeOK, IsFifos, IsHeap, Queues, Classes

LEMMA ClassOfType == \A p \in Priority : ClassOf(p) \in Classes
BY DEF Priority, ClassOf, Classes

\* The head of the incoming FIFO starts its window now, in its class or heap.
LEMMA AdmitEffect ==
  ASSUME TypeOK, Admit
  PROVE  \E t \in Threads :
    /\ t = Head(fifo["INCOMING_THREADS"]) /\ fifo["INCOMING_THREADS"] # <<>>
    /\ tcb' \in [Threads -> Tcb]
    /\ \A s \in Threads : s # t => tcb'[s] = tcb[s]
    /\ tcb'[t].deadline = ticks + tcb[t].period /\ tcb'[t].release_time = ticks
    /\ tcb'[t].period = tcb[t].period /\ tcb'[t].status = "PENDING" /\ ~tcb'[t].dirty
    /\ \/ /\ tcb'[t].owner \in Classes /\ deadHeap' = deadHeap
          /\ fifo' = Moved("INCOMING_THREADS", tcb'[t].owner)
       \/ /\ tcb'[t].owner = "DEAD_HEAP"
          /\ deadHeap' = Inserted(deadHeap, t, tcb'[t].deadline)
          /\ fifo' = [fifo EXCEPT !["INCOMING_THREADS"] = Tail(@)]
<1> DEFINE t == Head(fifo["INCOMING_THREADS"])
           persistent == tcb[t].periodicity = "PERSISTENT"
           o == IF persistent THEN ClassOf(tcb[t].priority) ELSE "DEAD_HEAP"
           r == [tcb[t] EXCEPT !.deadline = ticks + tcb[t].period,
                               !.release_time = ticks, !.dirty = FALSE,
                               !.status = "PENDING", !.owner = o]
<1>1. t \in Threads /\ fifo["INCOMING_THREADS"] # <<>>
  BY Typing, PopFacts DEF Admit
<1>2. /\ tcb[t] \in Tcb /\ ticks \in Nat /\ tcb[t].period \in Nat
      /\ tcb[t].priority \in Priority
  BY <1>1, Typing, TcbFields
<1>3. o \in Owners /\ (persistent => o \in Classes) /\ (~persistent => o = "DEAD_HEAP")
  BY <1>2, ClassOfType DEF Owners, Queues
<1>4. tcb' = [tcb EXCEPT ![t] = r]
  BY DEF Admit
<1> HIDE DEF o
<1>5. r \in Tcb
  <2>1. ticks + tcb[t].period \in Nat
    BY <1>2
  <2> QED
    BY <1>2, <1>3, <2>1, TcbExcept DEF Status
<1>6. /\ r.deadline = ticks + tcb[t].period /\ r.release_time = ticks /\ r.owner = o
      /\ r.period = tcb[t].period /\ r.status = "PENDING" /\ ~r.dirty
  BY <1>2 DEF Tcb
<1> HIDE DEF r
<1>7. /\ tcb' \in [Threads -> Tcb] /\ tcb'[t] = r
      /\ \A s \in Threads : s # t => tcb'[s] = tcb[s]
  BY <1>1, <1>4, <1>5, TcbUpdate, Typing
<1>8. CASE persistent
  <2>1. fifo' = Moved("INCOMING_THREADS", o) /\ deadHeap' = deadHeap
    BY <1>8 DEF Admit, o
  <2> QED
    BY <1>1, <1>3, <1>6, <1>7, <1>8, <2>1
<1>9. CASE ~persistent
  <2>1. /\ deadHeap' = Inserted(deadHeap, t, ticks + tcb[t].period)
        /\ fifo' = [fifo EXCEPT !["INCOMING_THREADS"] = Tail(@)]
    BY <1>9 DEF Admit
  <2> QED
    BY <1>1, <1>3, <1>6, <1>7, <1>9, <2>1
<1> QED
  BY <1>8, <1>9

\* A due head of the release heap moves to the deadline heap.
LEMMA ReleaseEffect ==
  ASSUME TypeOK, Release
  PROVE  \E t \in Threads :
    /\ t \in DOMAIN relHeap /\ tcb[t].release_time <= ticks
    /\ tcb' \in [Threads -> Tcb]
    /\ \A s \in Threads : s # t => tcb'[s] = tcb[s]
    /\ tcb'[t] = [tcb[t] EXCEPT !.owner = "DEAD_HEAP"]
    /\ relHeap' = Removed(relHeap, t)
    /\ deadHeap' = Inserted(deadHeap, t, tcb[t].deadline)
<1>1. PICK t \in Heads(relHeap) :
        /\ Due(t)
        /\ tcb' = [tcb EXCEPT ![t] = [tcb[t] EXCEPT !.owner = "DEAD_HEAP"]]
        /\ relHeap' = Removed(relHeap, t)
        /\ deadHeap' = Inserted(deadHeap, t, DeadKey(t))
  BY DEF Release
<1>2. t \in Threads /\ t \in DOMAIN relHeap
  BY <1>1, Typing DEF Heads, IsHeap
<1>3. tcb[t] \in Tcb /\ ticks \in Nat /\ tcb[t].release_time \in Nat
  BY <1>2, Typing, TcbFields
<1>4. [tcb[t] EXCEPT !.owner = "DEAD_HEAP"] \in Tcb
  BY <1>3, TcbExcept DEF Owners
<1>5. /\ tcb' \in [Threads -> Tcb] /\ tcb'[t] = [tcb[t] EXCEPT !.owner = "DEAD_HEAP"]
      /\ \A s \in Threads : s # t => tcb'[s] = tcb[s]
  BY <1>1, <1>2, <1>4, TcbUpdate, Typing
<1>6. tcb[t].release_time <= ticks
  BY <1>1, <1>3 DEF Due
<1> QED
  BY <1>1, <1>2, <1>5, <1>6 DEF DeadKey

LEMMA Multiples ==
  ASSUME NEW k \in Nat \ {0}, NEW p \in Nat
  PROVE  k * p \in Nat /\ k * p >= p
<1>1. PICK j \in Nat : k = j + 1
  <2>1. k - 1 \in Nat /\ k = (k - 1) + 1
    OBVIOUS
  <2> QED
    BY <2>1
<1>2. k * p = j * p + p /\ j * p \in Nat
  BY <1>1
<1> QED
  BY <1>2

\* Where the two do-while loops of the re-arming leave a deadline and a release
\* time: later than they were, and still in that order.
LEMMA RearmTimes ==
  ASSUME NEW t \in Threads, tcb[t] \in Tcb, ticks \in Nat,
         NEW d \in Nat, NEW r \in Nat, IsNextDeadline(t, d), IsNextRelease(t, d, r)
  PROVE  /\ d >= tcb[t].deadline + tcb[t].period /\ d > ticks
         /\ r >= tcb[t].release_time
         /\ tcb[t].release_time < tcb[t].deadline /\ tcb[t].period # 0 => r < d
<1>1. /\ tcb[t].period \in Nat /\ tcb[t].deadline \in Nat /\ tcb[t].release_time \in Nat
  BY TcbFields
<1>2. d >= tcb[t].deadline + tcb[t].period /\ d > ticks
  <2>1. PICK k \in 1 .. ticks + 1 : d = tcb[t].deadline + k * tcb[t].period /\ d > ticks
    BY DEF IsNextDeadline
  <2>2. k * tcb[t].period \in Nat /\ k * tcb[t].period >= tcb[t].period
    BY <1>1, <2>1, Multiples
  <2> QED
    BY <1>1, <2>1, <2>2
<1>3. PICK k \in 1 .. d :
        /\ r = tcb[t].release_time + k * tcb[t].period
        /\ k = 1 \/ r - tcb[t].period < d - tcb[t].period
  BY DEF IsNextRelease
<1>4. k * tcb[t].period \in Nat
  BY <1>1, <1>3, Multiples
<1>5. k = 1 => r = tcb[t].release_time + tcb[t].period
  BY <1>1, <1>3
<1> QED
  BY <1>1, <1>2, <1>3, <1>4, <1>5

\* A finished periodic head is armed again, in place or in the release heap.
LEMMA EdfRearmEffect ==
  ASSUME TypeOK, EdfRearm
  PROVE  \E t \in Threads, d, r \in Nat :
    /\ t \in DOMAIN deadHeap /\ IsNextDeadline(t, d) /\ IsNextRelease(t, d, r)
    /\ tcb[t].status = "FINISHED" /\ tcb[t].periodicity = "PERIODIC" /\ ~tcb'[t].dirty
    /\ tcb' \in [Threads -> Tcb]
    /\ \A s \in Threads : s # t => tcb'[s] = tcb[s]
    /\ tcb'[t].deadline = d /\ tcb'[t].release_time = r
    /\ tcb'[t].period = tcb[t].period /\ tcb'[t].status = "PENDING"
    /\ \/ /\ r > ticks /\ tcb'[t].owner = "REL_HEAP"
          /\ deadHeap' = Removed(deadHeap, t) /\ relHeap' = Inserted(relHeap, t, r)
       \/ /\ r <= ticks /\ tcb'[t].owner = tcb[t].owner
          /\ deadHeap' = Rebalanced(deadHeap, t, d) /\ relHeap' = relHeap
<1>1. PICK t \in Heads(deadHeap) :
        /\ tcb[t].status = "FINISHED" /\ tcb[t].periodicity = "PERIODIC"
        /\ \E d, r \in 0 .. Horizon(t) :
             /\ IsNextDeadline(t, d) /\ IsNextRelease(t, d, r)
             /\ tcb' = [tcb EXCEPT ![t] =
                  [tcb[t] EXCEPT !.deadline = d, !.release_time = r, !.dirty = FALSE,
                                 !.status = "PENDING",
                                 !.owner = IF ticks < r THEN "REL_HEAP" ELSE tcb[t].owner]]
             /\ IF ticks < r
                THEN ToRelHeap(t, r)
                ELSE deadHeap' = Rebalanced(deadHeap, t, d) /\ UNCHANGED relHeap
  BY DEF EdfRearm
<1>2. PICK d, r \in 0 .. Horizon(t) :
        /\ IsNextDeadline(t, d) /\ IsNextRelease(t, d, r)
        /\ tcb' = [tcb EXCEPT ![t] =
             [tcb[t] EXCEPT !.deadline = d, !.release_time = r, !.dirty = FALSE,
                            !.status = "PENDING",
                            !.owner = IF ticks < r THEN "REL_HEAP" ELSE tcb[t].owner]]
        /\ IF ticks < r
           THEN ToRelHeap(t, r)
           ELSE deadHeap' = Rebalanced(deadHeap, t, d) /\ UNCHANGED relHeap
  BY <1>1
<1>3. t \in Threads /\ t \in DOMAIN deadHeap
  BY Typing DEF Heads, IsHeap
<1>4. tcb[t] \in Tcb /\ ticks \in Nat /\ tcb[t].owner \in Owners
  BY <1>3, Typing, TcbFields
<1>5. d \in Nat /\ r \in Nat
  OBVIOUS
<1> DEFINE o == IF ticks < r THEN "REL_HEAP" ELSE tcb[t].owner
           new == [tcb[t] EXCEPT !.deadline = d, !.release_time = r, !.dirty = FALSE,
                                 !.status = "PENDING", !.owner = o]
<1>6. tcb' = [tcb EXCEPT ![t] = new]
  BY <1>2
<1>7. o \in Owners
  BY <1>4 DEF Owners
<1> HIDE DEF o
<1>8. new \in Tcb
  BY <1>4, <1>5, <1>7, TcbExcept DEF Status
<1>9. /\ new.deadline = d /\ new.release_time = r /\ new.owner = o
      /\ new.period = tcb[t].period /\ new.status = "PENDING" /\ ~new.dirty
  BY <1>4 DEF Tcb
<1> HIDE DEF new
<1>10. /\ tcb' \in [Threads -> Tcb] /\ tcb'[t] = new
       /\ \A s \in Threads : s # t => tcb'[s] = tcb[s]
  BY <1>3, <1>6, <1>8, TcbUpdate, Typing
<1>11. /\ t \in DOMAIN deadHeap /\ IsNextDeadline(t, d) /\ IsNextRelease(t, d, r)
       /\ tcb[t].status = "FINISHED" /\ tcb[t].periodicity = "PERIODIC"
  BY <1>1, <1>2, <1>3
<1>12. /\ ~tcb'[t].dirty /\ tcb'[t].deadline = d /\ tcb'[t].release_time = r
       /\ tcb'[t].period = tcb[t].period /\ tcb'[t].status = "PENDING"
  BY <1>9, <1>10
<1>13. \/ /\ r > ticks /\ tcb'[t].owner = "REL_HEAP"
          /\ deadHeap' = Removed(deadHeap, t) /\ relHeap' = Inserted(relHeap, t, r)
       \/ /\ r <= ticks /\ tcb'[t].owner = tcb[t].owner
          /\ deadHeap' = Rebalanced(deadHeap, t, d) /\ relHeap' = relHeap
  <2>1. CASE ticks < r
    <3>1. deadHeap' = Removed(deadHeap, t) /\ relHeap' = Inserted(relHeap, t, r)
      BY <1>2, <2>1 DEF ToRelHeap
    <3>2. tcb'[t].owner = "REL_HEAP"
      BY <1>9, <1>10, <2>1 DEF o
    <3> QED
      BY <1>4, <1>5, <2>1, <3>1, <3>2
  <2>2. CASE ~(ticks < r)
    <3>1. deadHeap' = Rebalanced(deadHeap, t, d) /\ relHeap' = relHeap
      BY <1>2, <2>2
    <3>2. tcb'[t].owner = tcb[t].owner
      BY <1>9, <1>10, <2>2 DEF o
    <3>3. r <= ticks
      BY <1>4, <1>5, <2>2
    <3> QED
      BY <3>1, <3>2, <3>3
  <2> QED
    BY <2>1, <2>2
<1> QED
  BY <1>3, <1>5, <1>10, <1>11, <1>12, <1>13

\* A finished aperiodic head is handed over to the outgoing FIFO.
LEMMA EdfRetireEffect ==
  ASSUME TypeOK, EdfRetire
  PROVE  \E t \in Threads :
    /\ t \in DOMAIN deadHeap
    /\ tcb' \in [Threads -> Tcb]
    /\ \A s \in Threads : s # t => tcb'[s] = tcb[s]
    /\ tcb'[t] = [tcb[t] EXCEPT !.owner = "OUTGOING_THREADS"]
    /\ deadHeap' = Removed(deadHeap, t)
    /\ fifo' = [fifo EXCEPT !["OUTGOING_THREADS"] = Append(@, t)]
<1>1. PICK t \in Heads(deadHeap) :
        /\ tcb' = [tcb EXCEPT ![t] = [tcb[t] EXCEPT !.owner = "OUTGOING_THREADS"]]
        /\ deadHeap' = Removed(deadHeap, t)
        /\ fifo' = Pushed("OUTGOING_THREADS", t)
  BY DEF EdfRetire
<1>2. t \in Threads /\ t \in DOMAIN deadHeap
  BY Typing DEF Heads, IsHeap
<1>3. tcb[t] \in Tcb
  BY <1>2, Typing
<1>4. [tcb[t] EXCEPT !.owner = "OUTGOING_THREADS"] \in Tcb
  BY <1>3, TcbExcept DEF Owners, Queues
<1>5. /\ tcb' \in [Threads -> Tcb]
      /\ tcb'[t] = [tcb[t] EXCEPT !.owner = "OUTGOING_THREADS"]
      /\ \A s \in Threads : s # t => tcb'[s] = tcb[s]
  BY <1>1, <1>2, <1>4, TcbUpdate, Typing
<1> QED
  BY <1>1, <1>2, <1>5 DEF Pushed

\* The choice of an EDF thread may mark it dirty, and changes nothing else of it.
LEMMA EdfPickEffect ==
  ASSUME TypeOK, EdfPick
  PROVE  \E t \in Threads :
    /\ t \in DOMAIN deadHeap /\ Pick(t)
    /\ tcb' \in [Threads -> Tcb] /\ missed_deadlines' \in Nat
    /\ \A s \in Threads : s # t => tcb'[s] = tcb[s]
    /\ tcb'[t] \in {tcb[t], [tcb[t] EXCEPT !.dirty = TRUE]}
<1>1. PICK t \in Heads(deadHeap) :
        /\ IF Missed(t)
           THEN /\ tcb' = [tcb EXCEPT ![t] = [tcb[t] EXCEPT !.dirty = TRUE]]
                /\ missed_deadlines' = missed_deadlines + 1
           ELSE UNCHANGED <<tcb, missed_deadlines>>
        /\ Pick(t)
  BY DEF EdfPick
<1>2. t \in Threads /\ t \in DOMAIN deadHeap
  BY Typing DEF Heads, IsHeap
<1>3. tcb[t] \in Tcb /\ missed_deadlines \in Nat
  BY <1>2, Typing DEF TypeOK
<1>4. CASE Missed(t)
  <2>1. [tcb[t] EXCEPT !.dirty = TRUE] \in Tcb
    BY <1>3, TcbExcept
  <2>2. /\ tcb' \in [Threads -> Tcb] /\ tcb'[t] = [tcb[t] EXCEPT !.dirty = TRUE]
        /\ \A s \in Threads : s # t => tcb'[s] = tcb[s]
    BY <1>1, <1>2, <1>4, <2>1, TcbUpdate, Typing
  <2> QED
    BY <1>1, <1>2, <1>3, <1>4, <2>2
<1>5. CASE ~Missed(t)
  BY <1>1, <1>2, <1>3, <1>5, Typing
<1> QED
  BY <1>4, <1>5

\* A turn of a round-robin class counts a tick, opens a new window past the end
\* of the old one, and either chooses the head or sends it to the back.
LEMMA RrTurnEffect ==
  ASSUME TypeOK, NEW c \in Classes, RrTurn(c)
  PROVE  \E t \in Threads :
    /\ t = Head(fifo[c]) /\ fifo[c] # <<>>
    /\ tcb' \in [Threads -> Tcb]
    /\ \A s \in Threads : s # t => tcb'[s] = tcb[s]
    /\ tcb'[t].owner = tcb[t].owner /\ tcb'[t].period = tcb[t].period
    /\ tcb'[t].status = tcb[t].status /\ tcb'[t].dirty = tcb[t].dirty
    /\ \/ /\ tcb'[t].release_time = tcb[t].release_time
          /\ tcb'[t].deadline = tcb[t].deadline
       \/ /\ ticks >= tcb[t].deadline
          /\ tcb'[t].release_time = ticks /\ tcb'[t].deadline = ticks + tcb[t].period
    /\ \/ fifo' = Moved(c, c) /\ UNCHANGED <<curr, control>>
       \/ Pick(t) /\ UNCHANGED fifo
<1> DEFINE t == Head(fifo[c])
           landed == tcb[t].ticks_landed + 1
           expired == ticks >= tcb[t].deadline
           rotate == expired /\ Len(fifo[c]) > 1 /\ landed >= tcb[t].period
           l == IF rotate THEN 0 ELSE landed
           rel == IF expired THEN ticks ELSE tcb[t].release_time
           d == IF expired THEN ticks + tcb[t].period ELSE tcb[t].deadline
           r == [tcb[t] EXCEPT !.ticks_landed = l, !.release_time = rel, !.deadline = d]
<1>1. c \in Queues /\ fifo[c] # <<>>
  BY DEF RrTurn, Queues
<1>2. t \in Threads
  BY <1>1, Typing, PopFacts
<1>3. /\ tcb[t] \in Tcb /\ ticks \in Nat /\ tcb[t].ticks_landed \in Nat
      /\ tcb[t].release_time \in Nat /\ tcb[t].deadline \in Nat /\ tcb[t].period \in Nat
  BY <1>2, Typing, TcbFields
<1>4. l \in Nat /\ rel \in Nat /\ d \in Nat
  BY <1>3, SMTT(40)
<1>5. tcb' = [tcb EXCEPT ![t] = r]
  BY SMTT(40) DEF RrTurn
<1>6. IF rotate THEN fifo' = Moved(c, c) /\ UNCHANGED <<curr, control>>
                ELSE Pick(t) /\ UNCHANGED fifo
  BY DEF RrTurn
<1>7. \/ rel = tcb[t].release_time /\ d = tcb[t].deadline
      \/ ticks >= tcb[t].deadline /\ rel = ticks /\ d = ticks + tcb[t].period
  OBVIOUS
<1> HIDE DEF l, rel, d, rotate
<1>8. r \in Tcb
  BY <1>3, <1>4, TcbExcept
<1>9. /\ r.owner = tcb[t].owner /\ r.period = tcb[t].period /\ r.status = tcb[t].status
      /\ r.release_time = rel /\ r.deadline = d /\ r.dirty = tcb[t].dirty
  BY <1>3 DEF Tcb
<1> HIDE DEF r
<1>10. /\ tcb' \in [Threads -> Tcb] /\ tcb'[t] = r
       /\ \A s \in Threads : s # t => tcb'[s] = tcb[s]
  BY <1>2, <1>5, <1>8, TcbUpdate, Typing
<1> QED
  BY <1>1, <1>2, <1>6, <1>7, <1>9, <1>10

\* The head of the outgoing FIFO goes back to the allocator.
LEMMA ReclaimEffect ==
  ASSUME TypeOK, Reclaim
  PROVE  \E t \in Threads :
    /\ t = Head(fifo["OUTGOING_THREADS"]) /\ fifo["OUTGOING_THREADS"] # <<>>
    /\ tcb' \in [Threads -> Tcb] /\ tcb'[t] = Blank /\ utilization' \in Int
    /\ \A s \in Threads : s # t => tcb'[s] = tcb[s]
    /\ pool' = pool \cup {t}
    /\ frame' = [frame EXCEPT ![t] = "none"]
    /\ fifo' = [fifo EXCEPT !["OUTGOING_THREADS"] = Tail(@)]
<1> DEFINE t == Head(fifo["OUTGOING_THREADS"])
<1>1. fifo["OUTGOING_THREADS"] # <<>> /\ t \in Threads
  BY Typing, PopFacts DEF Reclaim
<1>2. tcb[t].prev_u \in Nat /\ utilization \in Int
  BY <1>1, Typing, TcbFields DEF TypeOK
<1>3. /\ fifo' = [fifo EXCEPT !["OUTGOING_THREADS"] = Tail(@)]
      /\ utilization' = utilization - tcb[t].prev_u
      /\ tcb' = [tcb EXCEPT ![t] = Blank]
      /\ frame' = [frame EXCEPT ![t] = "none"]
      /\ pool' = pool \cup {t}
  BY DEF Reclaim
<1>4. Blank \in Tcb
  BY DEF Blank, Tcb, Status, Periodicity, Priority, Owners, Queues
<1> HIDE DEF t
<1>5. /\ tcb' \in [Threads -> Tcb] /\ tcb'[t] = Blank
      /\ \A s \in Threads : s # t => tcb'[s] = tcb[s]
  BY <1>1, <1>3, <1>4, TcbUpdate, Typing
<1>6. utilization' \in Int
  BY <1>2, <1>3
<1>7. t = Head(fifo["OUTGOING_THREADS"])
  BY DEF t
<1> QED
  BY <1>1, <1>3, <1>5, <1>6, <1>7

\* The switch: nothing but the status of the chosen thread and the frames.
LEMMA DispatchEffect ==
  ASSUME TypeOK, Dispatch
  PROVE  /\ tcb' \in [Threads -> Tcb]
         /\ Chosen \in Threads \cup {Main} /\ curr' = Chosen /\ found' = FALSE
         /\ pc' \in {"idle", "fault"}
         /\ \/ tcb' = tcb
            \/ /\ Chosen \in Threads
               /\ tcb'[Chosen] = [tcb[Chosen] EXCEPT !.status = "RUNNING"]
               /\ \A s \in Threads : s # Chosen => tcb'[s] = tcb[s]
         /\ \/ frame' = frame /\ pc' = "fault"
            \/ frame' = [frame EXCEPT ![Chosen] = "live"] /\ pc' = "idle"
<1>1. Chosen \in Threads \cup {Main}
  BY DEF Chosen, TypeOK
<1>2. curr' = Chosen /\ found' = FALSE
  BY DEF Dispatch
<1>3. CASE ResumeThread
  BY <1>1, <1>2, <1>3, Typing DEF ResumeThread
<1>4. CASE PrimeThread
  <2>1. Chosen \in Threads
    BY <1>1, <1>4 DEF PrimeThread, ChosenStatus
  <2>2. [tcb[Chosen] EXCEPT !.status = "RUNNING"] \in Tcb
    BY <2>1, Typing, TcbExcept DEF Status
  <2>3. tcb' = [tcb EXCEPT ![Chosen] = [tcb[Chosen] EXCEPT !.status = "RUNNING"]]
    BY <1>4 DEF PrimeThread
  <2>4. /\ tcb' \in [Threads -> Tcb]
        /\ tcb'[Chosen] = [tcb[Chosen] EXCEPT !.status = "RUNNING"]
        /\ \A s \in Threads : s # Chosen => tcb'[s] = tcb[s]
    BY <2>1, <2>2, <2>3, TcbUpdate, Typing
  <2> QED
    BY <1>1, <1>2, <1>4, <2>1, <2>4 DEF PrimeThread
<1> QED
  BY <1>3, <1>4 DEF Dispatch

\* Every step of next_up keeps every variable in its type.
LEMMA NextUpTypes == TypeOK /\ NextUp => TypeOK'
<1> SUFFICES ASSUME TypeOK, NextUp PROVE TypeOK'
  OBVIOUS
<1> USE Typing
<1>1. CASE Admit
  <2>1. IsFifos(fifo') /\ IsHeap(deadHeap') /\ tcb' \in [Threads -> Tcb]
    <3>1. PICK t \in Threads :
            /\ fifo["INCOMING_THREADS"] # <<>> /\ tcb' \in [Threads -> Tcb]
            /\ \/ /\ tcb'[t].owner \in Classes /\ deadHeap' = deadHeap
                  /\ fifo' = Moved("INCOMING_THREADS", tcb'[t].owner)
               \/ /\ deadHeap' = Inserted(deadHeap, t, tcb'[t].deadline)
                  /\ fifo' = [fifo EXCEPT !["INCOMING_THREADS"] = Tail(@)]
      BY <1>1, AdmitEffect
    <3>2. tcb'[t].deadline \in Nat
      BY <3>1, TcbFields
    <3>3. CASE tcb'[t].owner \in Classes /\ deadHeap' = deadHeap
               /\ fifo' = Moved("INCOMING_THREADS", tcb'[t].owner)
      BY <3>1, <3>3, MovedFacts
    <3>4. CASE /\ deadHeap' = Inserted(deadHeap, t, tcb'[t].deadline)
               /\ fifo' = [fifo EXCEPT !["INCOMING_THREADS"] = Tail(@)]
      <4>1. IsHeap(deadHeap')
        BY <3>2, <3>4, HeapOps
      <4>2. IsFifos(fifo')
        <5> DEFINE g == [fifo EXCEPT !["INCOMING_THREADS"] = Tail(@)]
        <5>1. IsFifos(g)
          BY <3>1, PopFacts
        <5> QED
          BY <3>4, <5>1
      <4> QED
        BY <3>1, <4>1, <4>2
    <3> QED
      BY <3>1, <3>3, <3>4
  <2> QED
    BY <1>1, <2>1 DEF Admit, TypeOK, IsFifos, IsHeap, cpu, control
<1>2. CASE Release
  <2>1. IsHeap(relHeap') /\ IsHeap(deadHeap') /\ tcb' \in [Threads -> Tcb]
    <3>1. PICK t \in Threads : /\ tcb' \in [Threads -> Tcb]
                               /\ relHeap' = Removed(relHeap, t)
                               /\ deadHeap' = Inserted(deadHeap, t, tcb[t].deadline)
      BY <1>2, ReleaseEffect
    <3>2. tcb[t].deadline \in Nat
      BY TcbFields
    <3> QED
      BY <3>1, <3>2, HeapOps
  <2> QED
    BY <1>2, <2>1 DEF Release, TypeOK, IsHeap, cpu, control
<1>3. CASE EdfRearm
  <2>1. IsHeap(relHeap') /\ IsHeap(deadHeap') /\ tcb' \in [Threads -> Tcb]
    <3>1. PICK t \in Threads, d, r \in Nat :
            /\ tcb' \in [Threads -> Tcb]
            /\ \/ deadHeap' = Removed(deadHeap, t) /\ relHeap' = Inserted(relHeap, t, r)
               \/ deadHeap' = Rebalanced(deadHeap, t, d) /\ relHeap' = relHeap
      BY <1>3, EdfRearmEffect
    <3>2. /\ IsHeap(Removed(deadHeap, t)) /\ IsHeap(Inserted(relHeap, t, r))
          /\ IsHeap(Rebalanced(deadHeap, t, d))
      BY HeapOps
    <3> QED
      BY <3>1, <3>2
  <2> QED
    BY <1>3, <2>1 DEF EdfRearm, TypeOK, IsHeap, cpu, control
<1>4. CASE EdfRetire
  <2>1. IsFifos(fifo') /\ IsHeap(deadHeap') /\ tcb' \in [Threads -> Tcb]
    <3>1. PICK t \in Threads :
            /\ tcb' \in [Threads -> Tcb] /\ deadHeap' = Removed(deadHeap, t)
            /\ fifo' = [fifo EXCEPT !["OUTGOING_THREADS"] = Append(@, t)]
      BY <1>4, EdfRetireEffect
    <3>2. IsFifos(fifo')
      BY <3>1, PushFacts
    <3>3. IsHeap(deadHeap')
      BY <3>1, 0 \in Nat, HeapOps
    <3> QED
      BY <3>1, <3>2, <3>3
  <2> QED
    BY <1>4, <2>1 DEF EdfRetire, TypeOK, IsFifos, IsHeap, cpu, control
<1>5. CASE EdfPick
  <2>1. PICK t \in Threads : /\ Pick(t) /\ tcb' \in [Threads -> Tcb]
                             /\ missed_deadlines' \in Nat
    BY <1>5, EdfPickEffect
  <2> QED
    BY <1>5, <2>1 DEF EdfPick, Pick, TypeOK, containers, Phases
<1>6. ASSUME NEW c \in Classes, RoundRobin(c) PROVE TypeOK'
  <2>1. CASE RrTurn(c)
    <3>1. PICK t \in Threads :
            /\ fifo[c] # <<>> /\ tcb' \in [Threads -> Tcb]
            /\ \/ fifo' = Moved(c, c) /\ UNCHANGED <<curr, control>>
               \/ Pick(t) /\ UNCHANGED fifo
      BY <2>1, RrTurnEffect
    <3>2. IsFifos(fifo')
      BY <3>1, MovedFacts
    <3> QED
      BY <2>1, <3>1, <3>2 DEF RrTurn, Pick, TypeOK, IsFifos, Phases, control
  <2>2. CASE RrRetire(c)
    <3>1. fifo' = Moved(c, "OUTGOING_THREADS") /\ fifo[c] # <<>>
      BY <2>2 DEF RrRetire, RetireTo
    <3>2. IsFifos(fifo')
      BY <3>1, MovedFacts
    <3> QED
      BY <2>2, <3>2 DEF RrRetire, TypeOK, IsFifos, cpu, control
  <2>3. CASE RrDone(c)
    BY <2>3 DEF RrDone, Goto, NextPhase, TypeOK, containers, cpu, Classes, Phases
  <2> QED
    BY <1>6, <2>1, <2>2, <2>3 DEF RoundRobin
<1>7. CASE ReclaimStep
  BY <1>7
  DEF ReclaimStep, AllocatorTaken, ReclaimSkipped, NothingToFree, Goto, TypeOK, containers,
      cpu, Phases
<1>8. CASE Reclaim
  <2>1. PICK t \in Threads :
          /\ fifo["OUTGOING_THREADS"] # <<>> /\ tcb' \in [Threads -> Tcb]
          /\ utilization' \in Int /\ pool' = pool \cup {t}
          /\ frame' = [frame EXCEPT ![t] = "none"]
          /\ fifo' = [fifo EXCEPT !["OUTGOING_THREADS"] = Tail(@)]
    BY <1>8, ReclaimEffect
  <2>2. IsFifos(fifo')
    BY <2>1, PopFacts
  <2> QED
    BY <1>8, <2>1, <2>2 DEF Reclaim, TypeOK, IsFifos, Frames, control
<1>9. CASE Dispatch
  BY <1>9, DispatchEffect DEF Dispatch, TypeOK, containers, Frames, Phases
<1>10. CASE AdmitDone \/ ReleaseDone \/ EdfDone
  BY <1>10
  DEF AdmitDone, ReleaseDone, EdfDone, Goto, TypeOK, containers, cpu, Phases, Classes
<1> QED
  BY <1>1, <1>2, <1>3, <1>4, <1>5, <1>6, <1>7, <1>8, <1>9, <1>10
  DEF NextUp, HighFifo, MedFifo, LowFifo, Classes

\* The initial state is well typed.
LEMMA InitTypes == Init => TypeOK
<1> SUFFICES ASSUME Init PROVE TypeOK
  OBVIOUS
<1>1. Blank \in Tcb
  BY DEF Blank, Tcb, Status, Periodicity, Priority, Owners, Queues
<1>2. IsHeap(deadHeap) /\ IsHeap(relHeap)
  BY EmptyHeapIsHeap DEF Init
<1>3. fifo \in [Queues -> Seq(Threads)]
  <2>1. <<>> \in Seq(Threads)
    BY EmptySeq
  <2> QED
    BY <2>1 DEF Init
<1>4. frame \in [Threads \cup {Main} -> Frames]
  BY DEF Init, Frames
<1>5. /\ tcb \in [Threads -> Tcb] /\ pool \subseteq Threads
      /\ curr \in Threads \cup {Main} /\ ticks \in Nat /\ missed_deadlines \in Nat
      /\ utilization \in Int
  BY <1>1 DEF Init
<1>6. pc \in Phases /\ found \in BOOLEAN /\ caller \in {"tick", "exit", "suspend"}
  BY DEF Init, Phases
<1> QED
  BY <1>2, <1>3, <1>4, <1>5, <1>6 DEF TypeOK, IsHeap

\* So does every step.
LEMMA StepTypes == TypeOK /\ [Next]_vars => TypeOK'
<1> SUFFICES ASSUME TypeOK, [Next]_vars PROVE TypeOK'
  OBVIOUS
<1>1. CASE UNCHANGED vars
  BY <1>1 DEF vars, containers, cpu, control, TypeOK
<1> QED
  BY <1>1, ApiTypes, EnterTypes, NextUpTypes DEF Next, FaultHalt

\* Every variable stays in its type, for any threads, periods and delays.
THEOREM TypeCorrect == Spec => []TypeOK
BY InitTypes, StepTypes, PTL DEF Spec
=============================================================================
