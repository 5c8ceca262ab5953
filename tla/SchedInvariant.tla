--------------------------- MODULE SchedInvariant ---------------------------
(***************************************************************************)
(* The inductive invariant of Sched and what follows from it: where the    *)
(* threads of the core are, their times, and how these may change.         *)
(*                                                                         *)
(* The safety properties are not inductive one by one.  suspend_thread     *)
(* chooses its heap operation by the owner tag, so the times are right     *)
(* only if the tag names the heap the thread is in, which holds only if no *)
(* thread is in two containers.  IInv is their conjunction, restated over  *)
(* In so that the lemmas of SchedTypes apply.                              *)
(***************************************************************************)
EXTENDS SchedTypes

\* Every live thread is in exactly one container, and the tag suspend_thread
\* reads agrees with it.
Place ==
  /\ Distinct(fifo)
  /\ \A t \in Threads, q \in Queues :
       In(fifo, t, q) => t \notin pool /\ t \notin DOMAIN deadHeap /\ t \notin DOMAIN relHeap
  /\ \A t \in Threads :
       /\ t \in DOMAIN deadHeap =>
            /\ t \notin pool /\ t \notin DOMAIN relHeap
            /\ tcb[t].owner \in {"DEAD_HEAP", "OUTGOING_THREADS"}
       /\ t \in DOMAIN relHeap =>
            t \notin pool /\ tcb[t].owner \in {"REL_HEAP", "OUTGOING_THREADS"}
       /\ t \notin pool =>
            /\ (\E q \in Queues : In(fifo, t, q)) \/ t \in DOMAIN deadHeap \/ t \in DOMAIN relHeap
            /\ tcb[t].owner = "DEAD_HEAP" => t \in DOMAIN deadHeap
            /\ tcb[t].owner = "REL_HEAP" => t \in DOMAIN relHeap

\* Released threads are due, keys are never late, windows are open.
TimesOf(t) ==
  /\ t \in DOMAIN deadHeap =>
       tcb[t].release_time <= ticks /\ deadHeap[t] <= tcb[t].deadline
  /\ t \in DOMAIN relHeap => relHeap[t] <= tcb[t].release_time
  /\ t \notin pool => tcb[t].period # 0
  /\ t \notin pool /\ ~In(fifo, t, "INCOMING_THREADS") =>
       tcb[t].release_time < tcb[t].deadline

Times == \A t \in Threads : TimesOf(t)

\* The thread next_up has chosen stays where it was found until the switch.
Current ==
  /\ found => /\ pc \in {"reclaim", "free", "dispatch"} /\ curr \in Threads
              /\ curr \in DOMAIN deadHeap \/ \E c \in Classes : In(fifo, curr, c)
  /\ pc = "idle" => curr \in (Threads \ pool) \cup {Main}

IInv == TypeOK /\ Place /\ Times /\ Current

----------------------------------------------------------------------------
(* How a heap g differs from a heap h after each of the heap operations.   *)

HeapGains(g, h, t, key) ==
  /\ DOMAIN g = DOMAIN h \cup {t} /\ g[t] = key
  /\ \A s \in DOMAIN h : s # t => g[s] = h[s]
HeapLoses(g, h, t) ==
  /\ DOMAIN g = DOMAIN h \ {t}
  /\ \A s \in DOMAIN g : g[s] = h[s]
HeapKeeps(g, h, t, key) ==
  /\ DOMAIN g = DOMAIN h /\ (t \in DOMAIN h => g[t] \in {h[t], key})
  /\ \A s \in DOMAIN h : s # t => g[s] = h[s]

LEMMA InsertedGains == \A h, t, key : HeapGains(Inserted(h, t, key), h, t, key)
BY DEF Inserted, HeapGains

LEMMA RemovedLoses == \A h, t : HeapLoses(Removed(h, t), h, t)
BY DEF Removed, HeapLoses

LEMMA RebalancedKeeps ==
  \A h, t, key : IsHeap(h) => HeapKeeps(Rebalanced(h, t, key), h, t, key)
BY DEF Rebalanced, HeapKeeps, IsHeap

\* The typing facts of a state that satisfies IInv.
LEMMA IInvTyping ==
  ASSUME IInv
  PROVE  /\ IsFifos(fifo) /\ Distinct(fifo) /\ IsHeap(deadHeap) /\ IsHeap(relHeap)
         /\ Classes \subseteq Queues
         /\ "INCOMING_THREADS" \in Queues /\ "OUTGOING_THREADS" \in Queues
<1>1. TypeOK /\ Distinct(fifo)
  BY DEF IInv, Place
<1> QED
  BY <1>1, Typing

----------------------------------------------------------------------------
LEMMA IInvInit == Init => IInv
<1> SUFFICES ASSUME Init PROVE IInv
  OBVIOUS
<1>1. \A q \in Queues : \A t : ~In(fifo, t, q)
  BY DEF Init, In
<1>2. Distinct(fifo)
  BY DEF Init, Distinct
<1>3. DOMAIN deadHeap = {} /\ DOMAIN relHeap = {}
  BY EmptyHeapIsHeap DEF Init
<1> QED
  BY <1>1, <1>2, <1>3, InitTypes DEF IInv, Place, Times, TimesOf, Current, Init

\* A step that moves nothing and changes no time keeps Place and Times.
LEMMA QuietStep ==
  ASSUME IInv, UNCHANGED <<fifo, deadHeap, relHeap, pool>>, ticks' \in Nat, ticks <= ticks',
         \A t \in Threads :
           /\ tcb'[t].owner = tcb[t].owner /\ tcb'[t].period = tcb[t].period
           /\ tcb'[t].release_time = tcb[t].release_time
           /\ tcb'[t].deadline = tcb[t].deadline
  PROVE  Place' /\ Times'
<1>1. Place'
  BY DEF IInv, Place
<1>2. ASSUME NEW t \in Threads, t \in DOMAIN deadHeap PROVE tcb[t].release_time <= ticks'
  BY <1>2, Typing, TcbFields DEF IInv, Times, TimesOf
<1>3. Times'
  BY <1>2 DEF IInv, Times, TimesOf
<1> QED
  BY <1>1, <1>3

\* A new block enters the incoming FIFO.
LEMMA EnqueueStep ==
  ASSUME IInv, NEW t \in Threads, NEW new \in Tcb, Enqueue(t, new),
         new.period # 0, new.owner = "INCOMING_THREADS"
  PROVE  Place' /\ Times'
<1>1. /\ t \in pool /\ pool' = pool \ {t} /\ tcb'[t] = new
      /\ \A s \in Threads : s # t => tcb'[s] = tcb[s]
      /\ fifo' = [fifo EXCEPT !["INCOMING_THREADS"] = Append(@, t)]
      /\ deadHeap' = deadHeap /\ relHeap' = relHeap /\ ticks' = ticks
  BY Typing DEF Enqueue, Pushed, IInv, cpu
<1>2. Nowhere(fifo, t)
  BY <1>1 DEF IInv, Place, Nowhere
<1>3. PICK q \in Queues : q = "INCOMING_THREADS"
  BY IInvTyping
<1>4. fifo' = [fifo EXCEPT ![q] = Append(@, t)]
  BY <1>1, <1>3
<1>5. Distinct(fifo') /\ Gains(fifo', fifo, t, q)
  BY <1>2, <1>4, IInvTyping, PushFacts, ZenonT(60)
<1>6. Place'
  BY <1>1, <1>5 DEF IInv, Place, Gains
<1>7. Times'
  BY <1>1, <1>3, <1>5 DEF IInv, Place, Times, TimesOf, Gains
<1> QED
  BY <1>6, <1>7

\* A suspended thread changes heaps if its tag says so, and only then.
LEMMA SuspendStep ==
  ASSUME IInv, NEW t \in Threads, t \notin pool, NEW delay \in Delays,
         Suspendable(t, delay), Suspend(t, delay), UNCHANGED <<fifo, pool, ticks>>
  PROVE  /\ Place' /\ Times'
         /\ tcb'[t].release_time >= tcb[t].release_time
         /\ tcb'[t].deadline >= tcb[t].deadline
         /\ \A s \in Threads : s # t => tcb'[s] = tcb[s]
<1>1. /\ tcb[t] \in Tcb /\ ticks \in Nat /\ delay \in Nat
      /\ tcb[t].owner \in Owners /\ tcb[t].release_time \in Nat
      /\ tcb[t].deadline \in Nat /\ tcb[t].period \in Nat /\ tcb[t].period # 0
  BY Typing, TcbFields, SchedAssumption DEF IInv, Times, TimesOf
<1> DEFINE release == ticks + delay
           deadline == Postponed(t, delay)
<1>2. /\ tcb' \in [Threads -> Tcb] /\ release \in Nat
      /\ tcb'[t] = [tcb[t] EXCEPT !.release_time = release, !.deadline = deadline,
                                  !.owner = SuspendedOwner(tcb[t].owner)]
      /\ \A s \in Threads : s # t => tcb'[s] = tcb[s]
  BY SuspendTcb DEF IInv
<1>3. deadline > release /\ deadline >= tcb[t].deadline /\ release > tcb[t].release_time
  BY <1>1 DEF Postponed, Suspendable
<1>4. /\ tcb'[t].release_time = release /\ tcb'[t].deadline = deadline
      /\ tcb'[t].period = tcb[t].period
      /\ tcb'[t].owner = SuspendedOwner(tcb[t].owner)
  BY <1>1, <1>2 DEF Tcb
<1>5. tcb[t].owner \notin {"INCOMING_THREADS", "OUTGOING_THREADS"}
  BY DEF Suspendable
<1>6. IsHeap(deadHeap) /\ IsHeap(relHeap)
  BY IInvTyping
<1> HIDE DEF release, deadline
<1>7. CASE tcb[t].owner = "DEAD_HEAP"
  <2>1. deadHeap' = Removed(deadHeap, t) /\ relHeap' = Inserted(relHeap, t, release)
    BY <1>7 DEF Suspend, ToRelHeap, release
  <2>2. HeapLoses(deadHeap', deadHeap, t)
    BY <2>1, RemovedLoses
  <2>3. HeapGains(relHeap', relHeap, t, release)
    BY <2>1, InsertedGains
  <2>4. t \in DOMAIN deadHeap /\ tcb'[t].owner = "REL_HEAP"
    BY <1>4, <1>7 DEF SuspendedOwner, IInv, Place
  <2>5. Place'
    BY <1>2, <2>2, <2>3, <2>4 DEF IInv, Place, HeapLoses, HeapGains
  <2>6. ASSUME NEW s \in Threads, s # t PROVE TimesOf(s)'
    BY <1>2, <2>2, <2>3, <2>6 DEF IInv, Times, TimesOf, HeapLoses, HeapGains
  <2>7. TimesOf(t)'
    BY <1>1, <1>2, <1>3, <1>4, <2>2, <2>3 DEF TimesOf, HeapLoses, HeapGains
  <2>8. Times'
    BY <2>6, <2>7 DEF Times
  <2> QED
    BY <1>1, <1>2, <1>3, <1>4, <2>5, <2>8
<1>8. CASE tcb[t].owner # "DEAD_HEAP"
  <2>1. tcb'[t].owner = tcb[t].owner
    BY <1>4, <1>8 DEF SuspendedOwner
  <2>2. /\ deadHeap' = deadHeap /\ DOMAIN relHeap' = DOMAIN relHeap
        /\ t \in DOMAIN relHeap => relHeap'[t] \in {relHeap[t], release}
        /\ \A s \in DOMAIN relHeap : s # t => relHeap'[s] = relHeap[s]
    <3>1. CASE tcb[t].owner = "REL_HEAP"
      <4>1. deadHeap' = deadHeap /\ relHeap' = Rebalanced(relHeap, t, release)
        BY <3>1 DEF Suspend, release
      <4> QED
        BY <1>6, <4>1, RebalancedKeeps DEF HeapKeeps
    <3>2. CASE tcb[t].owner # "REL_HEAP"
      BY <1>8, <3>2 DEF Suspend
    <3> QED
      BY <3>1, <3>2
  <2>3. t \notin DOMAIN deadHeap
    BY <1>5, <1>8 DEF IInv, Place
  <2>4. Place'
    BY <1>2, <2>1, <2>2 DEF IInv, Place
  <2>5. t \in DOMAIN relHeap => relHeap'[t] <= release
    <3>1. ASSUME t \in DOMAIN relHeap
          PROVE  relHeap[t] \in Nat /\ relHeap[t] <= tcb[t].release_time
      BY <1>6, <3>1 DEF IInv, Times, TimesOf, IsHeap
    <3> QED
      BY <1>1, <1>2, <1>3, <2>2, <3>1
  <2>6. Times'
    BY <1>1, <1>2, <1>3, <1>4, <2>2, <2>3, <2>5 DEF IInv, Times, TimesOf
  <2> QED
    BY <1>1, <1>2, <1>3, <1>4, <2>4, <2>6
<1> QED
  BY <1>7, <1>8

----------------------------------------------------------------------------
(* The steps of next_up.                                                   *)

LEMMA AdmitStep ==
  ASSUME IInv, Admit
  PROVE  /\ Place' /\ Times'
         /\ \A s \in Threads : In(fifo, s, "INCOMING_THREADS") \/ tcb'[s] = tcb[s]
<1>1. PICK t \in Threads :
    /\ t = Head(fifo["INCOMING_THREADS"]) /\ fifo["INCOMING_THREADS"] # <<>>
    /\ tcb' \in [Threads -> Tcb]
    /\ \A s \in Threads : s # t => tcb'[s] = tcb[s]
    /\ tcb'[t].deadline = ticks + tcb[t].period /\ tcb'[t].release_time = ticks
    /\ tcb'[t].period = tcb[t].period /\ tcb'[t].status = "PENDING"
    /\ \/ /\ tcb'[t].owner \in Classes /\ deadHeap' = deadHeap
          /\ fifo' = Moved("INCOMING_THREADS", tcb'[t].owner)
       \/ /\ tcb'[t].owner = "DEAD_HEAP"
          /\ deadHeap' = Inserted(deadHeap, t, tcb'[t].deadline)
          /\ fifo' = [fifo EXCEPT !["INCOMING_THREADS"] = Tail(@)]
  BY AdmitEffect DEF IInv
<1>2. relHeap' = relHeap /\ pool' = pool /\ ticks' = ticks
  BY DEF Admit, cpu
<1>3. PICK q \in Queues : q = "INCOMING_THREADS"
  BY IInvTyping
<1>4. In(fifo, t, q)
  BY <1>1, <1>3, IInvTyping, PopFacts
<1>5. t \notin pool /\ t \notin DOMAIN deadHeap /\ t \notin DOMAIN relHeap
  BY <1>4 DEF IInv, Place
<1>6. tcb[t].period \in Nat /\ tcb[t].period # 0 /\ ticks \in Nat
  BY <1>5, Typing, TcbFields DEF IInv, Times, TimesOf
<1>7. CASE /\ tcb'[t].owner \in Classes /\ deadHeap' = deadHeap
           /\ fifo' = Moved("INCOMING_THREADS", tcb'[t].owner)
  <2>1. PICK c \in Queues : c = tcb'[t].owner /\ c \in Classes
    BY <1>7, IInvTyping
  <2>2. Distinct(fifo') /\ Moves(fifo', fifo, t, c)
    BY <1>1, <1>3, <1>7, <2>1, IInvTyping, MovedFacts
  <2>3. Place'
    BY <1>1, <1>2, <1>5, <1>7, <2>1, <2>2 DEF IInv, Place, Moves, Classes
  <2>4. ASSUME NEW s \in Threads, s # t PROVE TimesOf(s)'
    BY <1>1, <1>2, <1>3, <1>7, <2>2, <2>4 DEF IInv, Times, TimesOf, Moves
  <2>5. TimesOf(t)'
    BY <1>1, <1>2, <1>5, <1>6, <1>7 DEF TimesOf
  <2> QED
    BY <1>1, <1>3, <1>4, <2>3, <2>4, <2>5 DEF Times
<1>8. CASE /\ tcb'[t].owner = "DEAD_HEAP"
           /\ deadHeap' = Inserted(deadHeap, t, tcb'[t].deadline)
           /\ fifo' = [fifo EXCEPT !["INCOMING_THREADS"] = Tail(@)]
  <2>1. fifo' = [fifo EXCEPT ![q] = Tail(@)] /\ t = Head(fifo[q]) /\ fifo[q] # <<>>
    BY <1>1, <1>3, <1>8
  <2>2. Distinct(fifo') /\ Loses(fifo', fifo, t)
    <3> DEFINE g == [fifo EXCEPT ![q] = Tail(@)]
    <3>1. IsFifos(fifo) /\ Distinct(fifo)
      BY IInvTyping
    <3>2. Distinct(g) /\ Loses(g, fifo, t)
      BY <2>1, <3>1, PopFacts, ZenonT(60)
    <3> QED
      BY <2>1, <3>2
  <2>3. HeapGains(deadHeap', deadHeap, t, tcb'[t].deadline)
    BY <1>8, InsertedGains
  <2>4. Place'
    BY <1>1, <1>2, <1>5, <1>8, <2>2, <2>3, ZenonT(60) DEF IInv, Place, Loses, HeapGains
  <2>5. ASSUME NEW s \in Threads, s # t PROVE TimesOf(s)'
    BY <1>1, <1>2, <1>3, <2>2, <2>3, <2>5 DEF IInv, Times, TimesOf, Loses, HeapGains
  <2>6. TimesOf(t)'
    BY <1>1, <1>2, <1>5, <1>6, <2>3 DEF TimesOf, HeapGains
  <2> QED
    BY <1>1, <1>3, <1>4, <2>4, <2>5, <2>6 DEF Times
<1> QED
  BY <1>1, <1>7, <1>8

LEMMA ReleaseStep ==
  ASSUME IInv, Release
  PROVE  /\ Place' /\ Times'
         /\ \A s \in Threads : /\ tcb'[s].release_time = tcb[s].release_time
                              /\ tcb'[s].deadline = tcb[s].deadline
<1>1. PICK t \in Threads :
    /\ t \in DOMAIN relHeap /\ tcb[t].release_time <= ticks
    /\ tcb' \in [Threads -> Tcb]
    /\ \A s \in Threads : s # t => tcb'[s] = tcb[s]
    /\ tcb'[t] = [tcb[t] EXCEPT !.owner = "DEAD_HEAP"]
    /\ relHeap' = Removed(relHeap, t)
    /\ deadHeap' = Inserted(deadHeap, t, tcb[t].deadline)
  BY ReleaseEffect DEF IInv
<1>2. fifo' = fifo /\ pool' = pool /\ ticks' = ticks
  BY DEF Release, cpu
<1>3. /\ tcb'[t].owner = "DEAD_HEAP" /\ tcb'[t].release_time = tcb[t].release_time
      /\ tcb'[t].deadline = tcb[t].deadline /\ tcb'[t].period = tcb[t].period
      /\ tcb[t].deadline \in Nat
  BY <1>1, Typing, TcbFields DEF IInv, Tcb
<1>4. HeapLoses(relHeap', relHeap, t) /\ HeapGains(deadHeap', deadHeap, t, tcb[t].deadline)
  BY <1>1, RemovedLoses, InsertedGains
<1>5. Place'
  BY <1>1, <1>2, <1>3, <1>4 DEF IInv, Place, HeapLoses, HeapGains
<1>6. ASSUME NEW s \in Threads, s # t PROVE TimesOf(s)'
  BY <1>1, <1>2, <1>4, <1>6 DEF IInv, Times, TimesOf, HeapLoses, HeapGains
<1>7. TimesOf(t)'
  BY <1>1, <1>2, <1>3, <1>4 DEF IInv, Times, TimesOf, HeapLoses, HeapGains
<1> QED
  BY <1>1, <1>3, <1>5, <1>6, <1>7 DEF Times

LEMMA EdfRearmStep ==
  ASSUME IInv, EdfRearm
  PROVE  /\ Place' /\ Times'
         /\ \A s \in Threads : /\ tcb'[s].release_time >= tcb[s].release_time
                              /\ tcb'[s].deadline >= tcb[s].deadline
<1>1. PICK t \in Threads, d, r \in Nat :
    /\ t \in DOMAIN deadHeap /\ IsNextDeadline(t, d) /\ IsNextRelease(t, d, r)
    /\ tcb' \in [Threads -> Tcb]
    /\ \A s \in Threads : s # t => tcb'[s] = tcb[s]
    /\ tcb'[t].deadline = d /\ tcb'[t].release_time = r
    /\ tcb'[t].period = tcb[t].period /\ tcb'[t].status = "PENDING"
    /\ \/ /\ r > ticks /\ tcb'[t].owner = "REL_HEAP"
          /\ deadHeap' = Removed(deadHeap, t) /\ relHeap' = Inserted(relHeap, t, r)
       \/ /\ r <= ticks /\ tcb'[t].owner = tcb[t].owner
          /\ deadHeap' = Rebalanced(deadHeap, t, d) /\ relHeap' = relHeap
  BY EdfRearmEffect DEF IInv
<1>2. fifo' = fifo /\ pool' = pool /\ ticks' = ticks
  BY DEF EdfRearm, cpu
<1>3. /\ t \notin pool /\ t \notin DOMAIN relHeap
      /\ \A q \in Queues : ~In(fifo, t, q)
  BY <1>1 DEF IInv, Place
<1>4. /\ tcb[t] \in Tcb /\ ticks \in Nat /\ tcb[t].deadline \in Nat
      /\ tcb[t].release_time \in Nat /\ tcb[t].period \in Nat /\ tcb[t].period # 0
      /\ tcb[t].release_time < tcb[t].deadline
  BY <1>1, <1>3, Typing, TcbFields, IInvTyping DEF IInv, Times, TimesOf
<1>5. d >= tcb[t].deadline /\ r >= tcb[t].release_time /\ r < d
  BY <1>1, <1>4, RearmTimes
<1>6. \A s \in Threads : /\ tcb'[s].release_time >= tcb[s].release_time
                        /\ tcb'[s].deadline >= tcb[s].deadline
  <2>1. ASSUME NEW s \in Threads, s # t
        PROVE  /\ tcb'[s] = tcb[s] /\ tcb[s].release_time \in Nat /\ tcb[s].deadline \in Nat
    BY <1>1, <2>1, Typing, TcbFields DEF IInv
  <2> QED
    BY <1>1, <1>4, <1>5, <2>1
<1>7. CASE /\ r > ticks /\ tcb'[t].owner = "REL_HEAP"
           /\ deadHeap' = Removed(deadHeap, t) /\ relHeap' = Inserted(relHeap, t, r)
  <2>1. HeapLoses(deadHeap', deadHeap, t) /\ HeapGains(relHeap', relHeap, t, r)
    BY <1>7, RemovedLoses, InsertedGains
  <2>2. Place'
    BY <1>1, <1>2, <1>3, <1>7, <2>1 DEF IInv, Place, HeapLoses, HeapGains
  <2>3. ASSUME NEW s \in Threads, s # t PROVE TimesOf(s)'
    BY <1>1, <1>2, <2>1, <2>3 DEF IInv, Times, TimesOf, HeapLoses, HeapGains
  <2>4. TimesOf(t)'
    BY <1>1, <1>2, <1>4, <1>5, <2>1 DEF TimesOf, HeapLoses, HeapGains
  <2> QED
    BY <1>6, <2>2, <2>3, <2>4 DEF Times
<1>8. CASE /\ r <= ticks /\ tcb'[t].owner = tcb[t].owner
           /\ deadHeap' = Rebalanced(deadHeap, t, d) /\ relHeap' = relHeap
  <2>1. HeapKeeps(deadHeap', deadHeap, t, d)
    BY <1>8, IInvTyping, RebalancedKeeps
  <2>2. Place'
    BY <1>1, <1>2, <1>3, <1>8, <2>1 DEF IInv, Place, HeapKeeps
  <2>3. ASSUME NEW s \in Threads, s # t PROVE TimesOf(s)'
    BY <1>1, <1>2, <1>8, <2>1, <2>3 DEF IInv, Times, TimesOf, HeapKeeps
  <2>4. deadHeap'[t] <= d
    <3>1. deadHeap[t] \in Nat /\ deadHeap[t] <= tcb[t].deadline
      BY <1>1, IInvTyping DEF IInv, Times, TimesOf, IsHeap
    <3>2. deadHeap'[t] \in {deadHeap[t], d}
      BY <1>1, <2>1 DEF HeapKeeps
    <3> QED
      BY <1>4, <1>5, <3>1, <3>2
  <2>5. TimesOf(t)'
    BY <1>1, <1>2, <1>3, <1>4, <1>5, <1>8, <2>4 DEF TimesOf
  <2> QED
    BY <1>6, <2>2, <2>3, <2>5 DEF Times
<1> QED
  BY <1>1, <1>7, <1>8

LEMMA EdfRetireStep ==
  ASSUME IInv, EdfRetire
  PROVE  /\ Place' /\ Times'
         /\ \A s \in Threads : /\ tcb'[s].release_time = tcb[s].release_time
                              /\ tcb'[s].deadline = tcb[s].deadline
<1>1. PICK t \in Threads :
    /\ t \in DOMAIN deadHeap
    /\ tcb' \in [Threads -> Tcb]
    /\ \A s \in Threads : s # t => tcb'[s] = tcb[s]
    /\ tcb'[t] = [tcb[t] EXCEPT !.owner = "OUTGOING_THREADS"]
    /\ deadHeap' = Removed(deadHeap, t)
    /\ fifo' = [fifo EXCEPT !["OUTGOING_THREADS"] = Append(@, t)]
  BY EdfRetireEffect DEF IInv
<1>2. relHeap' = relHeap /\ pool' = pool /\ ticks' = ticks
  BY DEF EdfRetire, cpu
<1>3. PICK q \in Queues : q = "OUTGOING_THREADS"
  BY IInvTyping
<1>4. Nowhere(fifo, t) /\ t \notin pool /\ t \notin DOMAIN relHeap
  BY <1>1 DEF IInv, Place, Nowhere
<1>5. Distinct(fifo') /\ Gains(fifo', fifo, t, q)
  <2>1. fifo' = [fifo EXCEPT ![q] = Append(@, t)]
    BY <1>1, <1>3
  <2> QED
    BY <1>4, <2>1, IInvTyping, PushFacts
<1>6. /\ tcb'[t].owner = q /\ tcb'[t].release_time = tcb[t].release_time
      /\ tcb'[t].deadline = tcb[t].deadline /\ tcb'[t].period = tcb[t].period
  BY <1>1, <1>3, Typing DEF IInv, Tcb
<1>7. HeapLoses(deadHeap', deadHeap, t)
  BY <1>1, RemovedLoses
<1>8. Place'
  BY <1>1, <1>2, <1>3, <1>4, <1>5, <1>6, <1>7 DEF IInv, Place, HeapLoses, Gains
<1>9. ASSUME NEW s \in Threads PROVE TimesOf(s)'
  <2>1. In(fifo', s, "INCOMING_THREADS") <=> In(fifo, s, "INCOMING_THREADS")
    BY <1>3, <1>5, IInvTyping DEF Gains
  <2>2. /\ tcb'[s].release_time = tcb[s].release_time
        /\ tcb'[s].deadline = tcb[s].deadline /\ tcb'[s].period = tcb[s].period
    BY <1>1, <1>6
  <2> QED
    BY <1>1, <1>2, <1>7, <2>1, <2>2 DEF IInv, Times, TimesOf, HeapLoses
<1> QED
  BY <1>1, <1>6, <1>8, <1>9 DEF Times

LEMMA RrTurnStep ==
  ASSUME IInv, NEW c \in Classes, RrTurn(c)
  PROVE  /\ Place' /\ Times'
         /\ \A s \in Threads : /\ tcb'[s].release_time >= tcb[s].release_time
                              /\ tcb'[s].deadline >= tcb[s].deadline
<1>1. PICK t \in Threads :
    /\ t = Head(fifo[c]) /\ fifo[c] # <<>>
    /\ \A s \in Threads : s # t => tcb'[s] = tcb[s]
    /\ tcb'[t].owner = tcb[t].owner /\ tcb'[t].period = tcb[t].period
    /\ \/ /\ tcb'[t].release_time = tcb[t].release_time
          /\ tcb'[t].deadline = tcb[t].deadline
       \/ /\ ticks >= tcb[t].deadline
          /\ tcb'[t].release_time = ticks /\ tcb'[t].deadline = ticks + tcb[t].period
    /\ fifo' = Moved(c, c) \/ fifo' = fifo
  BY RrTurnEffect DEF IInv
<1>2. UNCHANGED <<deadHeap, relHeap, pool, ticks>>
  BY DEF RrTurn
<1>3. c \in Queues /\ In(fifo, t, c)
  BY <1>1, IInvTyping, MovedFacts
<1>4. /\ t \notin pool /\ t \notin DOMAIN deadHeap /\ t \notin DOMAIN relHeap
      /\ ~In(fifo, t, "INCOMING_THREADS")
  <2>1. t \notin pool /\ t \notin DOMAIN deadHeap /\ t \notin DOMAIN relHeap
    BY <1>3 DEF IInv, Place
  <2>2. c # "INCOMING_THREADS"
    BY DEF Classes
  <2>3. ASSUME In(fifo, t, "INCOMING_THREADS") PROVE FALSE
    BY <1>3, <2>2, <2>3, IInvTyping DEF In, Distinct
  <2> QED
    BY <2>1, <2>3
<1>5. /\ ticks \in Nat /\ tcb[t].release_time \in Nat /\ tcb[t].deadline \in Nat
      /\ tcb[t].period \in Nat /\ tcb[t].period # 0 /\ tcb[t].release_time < tcb[t].deadline
  BY <1>4, Typing, TcbFields DEF IInv, Times, TimesOf
<1>6. /\ tcb'[t].release_time >= tcb[t].release_time /\ tcb'[t].deadline >= tcb[t].deadline
      /\ tcb'[t].release_time < tcb'[t].deadline
  BY <1>1, <1>5
<1>7. /\ Distinct(fifo')
      /\ \A s \in Threads, q \in Queues : In(fifo', s, q) <=> In(fifo, s, q)
  <2>1. CASE fifo' = Moved(c, c)
    <3>1. Distinct(fifo') /\ Moves(fifo', fifo, t, c)
      BY <1>1, <1>3, <2>1, IInvTyping, MovedFacts
    <3>2. \A q \in Queues : In(fifo, t, q) <=> q = c
      BY <1>3, IInvTyping DEF In, Distinct
    <3> QED
      BY <3>1, <3>2 DEF Moves
  <2>2. CASE fifo' = fifo
    BY <2>2, IInvTyping
  <2> QED
    BY <1>1, <2>1, <2>2
<1>8. Place'
  <2>1. \A s \in Threads : tcb'[s].owner = tcb[s].owner
    BY <1>1
  <2> QED
    BY <1>2, <1>7, <2>1 DEF IInv, Place
<1>9. ASSUME NEW s \in Threads PROVE TimesOf(s)'
  <2>1. CASE s = t
    BY <1>1, <1>2, <1>4, <1>5, <1>6, <2>1 DEF TimesOf
  <2>2. CASE s # t
    <3>1. tcb'[s] = tcb[s]
      BY <1>1, <2>2
    <3>2. In(fifo', s, "INCOMING_THREADS") <=> In(fifo, s, "INCOMING_THREADS")
      BY <1>7, IInvTyping
    <3> QED
      BY <1>2, <3>1, <3>2 DEF IInv, Times, TimesOf
  <2> QED
    BY <2>1, <2>2
<1>10. ASSUME NEW s \in Threads, s # t
       PROVE  /\ tcb'[s] = tcb[s] /\ tcb[s].release_time \in Nat /\ tcb[s].deadline \in Nat
  BY <1>1, <1>10, Typing, TcbFields DEF IInv
<1> QED
  BY <1>6, <1>8, <1>9, <1>10 DEF Times

LEMMA RrRetireStep ==
  ASSUME IInv, NEW c \in Classes, RrRetire(c)
  PROVE  Place' /\ Times' /\ tcb' = tcb
<1>1. PICK to \in Queues : to = "OUTGOING_THREADS"
  BY IInvTyping
<1>2. /\ fifo[c] # <<>> /\ fifo' = Moved(c, to)
      /\ UNCHANGED <<tcb, pool, deadHeap, relHeap, ticks>>
  BY <1>1 DEF RrRetire, RetireTo, cpu
<1>3. PICK t \in Threads : t = Head(fifo[c])
  BY <1>2, IInvTyping, MovedFacts
<1>4. /\ c \in Queues /\ In(fifo, t, c) /\ Distinct(fifo')
      /\ Moves(fifo', fifo, t, to)
  BY <1>2, <1>3, IInvTyping, MovedFacts
<1>5. c # "INCOMING_THREADS" /\ to # "INCOMING_THREADS"
  BY <1>1 DEF Classes
<1>6. ~In(fifo, t, "INCOMING_THREADS")
  BY <1>4, <1>5, IInvTyping DEF In, Distinct
<1>7. Place'
  BY <1>2, <1>4 DEF IInv, Place, Moves
<1>8. \A s : In(fifo', s, "INCOMING_THREADS") <=> In(fifo, s, "INCOMING_THREADS")
  BY <1>4, <1>5, <1>6, IInvTyping DEF Moves
<1>9. Times'
  BY <1>2, <1>8 DEF IInv, Times, TimesOf
<1> QED
  BY <1>2, <1>7, <1>9

\* Only the block that goes back to the allocator changes.
LEMMA FreeStep ==
  ASSUME IInv, Reclaim
  PROVE  /\ Place' /\ Times'
         /\ \A s \in Threads : s \in pool' \/ tcb'[s] = tcb[s]
<1>1. PICK t \in Threads :
    /\ t = Head(fifo["OUTGOING_THREADS"]) /\ fifo["OUTGOING_THREADS"] # <<>>
    /\ \A s \in Threads : s # t => tcb'[s] = tcb[s]
    /\ pool' = pool \cup {t}
    /\ fifo' = [fifo EXCEPT !["OUTGOING_THREADS"] = Tail(@)]
  BY ReclaimEffect DEF IInv
<1>2. UNCHANGED <<deadHeap, relHeap, ticks>>
  BY DEF Reclaim
<1>3. PICK q \in Queues : q = "OUTGOING_THREADS"
  BY IInvTyping
<1>4. Distinct(fifo') /\ Loses(fifo', fifo, t) /\ In(fifo, t, q)
  <2> DEFINE g == [fifo EXCEPT ![q] = Tail(@)]
  <2>1. IsFifos(fifo) /\ Distinct(fifo) /\ fifo[q] # <<>> /\ t = Head(fifo[q])
    BY <1>1, <1>3, IInvTyping
  <2>2. Distinct(g) /\ Loses(g, fifo, t) /\ In(fifo, t, q)
    BY <2>1, PopFacts
  <2> QED
    BY <1>1, <1>3, <2>2
<1>5. t \notin DOMAIN deadHeap /\ t \notin DOMAIN relHeap
  BY <1>4 DEF IInv, Place
<1>6. Place'
  BY <1>1, <1>2, <1>4, <1>5 DEF IInv, Place, Loses
<1>7. ASSUME NEW s \in Threads PROVE TimesOf(s)'
  <2>1. CASE s = t
    BY <1>1, <1>2, <1>5, <2>1 DEF TimesOf
  <2>2. CASE s # t
    <3>1. tcb'[s] = tcb[s] /\ (s \in pool' <=> s \in pool)
      BY <1>1, <2>2
    <3>2. In(fifo', s, "INCOMING_THREADS") <=> In(fifo, s, "INCOMING_THREADS")
      BY <1>4, <2>2, IInvTyping DEF Loses
    <3> QED
      BY <1>2, <3>1, <3>2 DEF IInv, Times, TimesOf
  <2> QED
    BY <2>1, <2>2
<1> QED
  BY <1>1, <1>6, <1>7 DEF Times

LEMMA KillStep ==
  ASSUME IInv, NEW t \in Threads, KillThread(t)
  PROVE  /\ Place' /\ Times'
         /\ \A s \in Threads : /\ tcb'[s].release_time = tcb[s].release_time
                              /\ tcb'[s].deadline = tcb[s].deadline
<1>1. /\ tcb' = [tcb EXCEPT ![t] = Killed(tcb[t])]
      /\ UNCHANGED <<pool, fifo, deadHeap, relHeap, ticks>>
  BY DEF KillThread, containers
<1>2. tcb \in [Threads -> Tcb] /\ tcb[t] \in Tcb
  BY Typing DEF IInv
<1>3. /\ tcb'[t].owner = "OUTGOING_THREADS" /\ tcb'[t].period = tcb[t].period
      /\ tcb'[t].release_time = tcb[t].release_time /\ tcb'[t].deadline = tcb[t].deadline
      /\ \A s \in Threads : s # t => tcb'[s] = tcb[s]
  BY <1>1, <1>2 DEF Killed, Tcb
<1>4. Place'
  BY <1>1, <1>3 DEF IInv, Place
<1>5. Times'
  BY <1>1, <1>3 DEF IInv, Times, TimesOf
<1> QED
  BY <1>3, <1>4, <1>5

----------------------------------------------------------------------------
(* All steps together.                                                     *)

\* The times of admitted threads go forward.
Forward ==
  \A t \in Threads :
    \/ t \in pool \/ t \in pool' \/ In(fifo, t, "INCOMING_THREADS")
    \/ /\ tcb'[t].release_time >= tcb[t].release_time
       /\ tcb'[t].deadline >= tcb[t].deadline

\* Steps that leave the times of every thread as they are.
LEMMA SameTimes ==
  ASSUME TypeOK, \A t \in Threads : /\ tcb'[t].release_time = tcb[t].release_time
                                   /\ tcb'[t].deadline = tcb[t].deadline
  PROVE  Forward
<1>1. \A t \in Threads : tcb[t].release_time \in Nat /\ tcb[t].deadline \in Nat
  BY Typing, TcbFields
<1> QED
  BY <1>1 DEF Forward

\* In particular its times go forward.
LEMMA SuspendForward ==
  ASSUME IInv, NEW t \in Threads, t \notin pool, NEW delay \in Delays,
         Suspendable(t, delay), Suspend(t, delay), UNCHANGED <<fifo, pool, ticks>>
  PROVE  Place' /\ Times' /\ Forward
<1>1. /\ Place' /\ Times'
      /\ tcb'[t].release_time >= tcb[t].release_time
      /\ tcb'[t].deadline >= tcb[t].deadline
      /\ \A s \in Threads : s # t => tcb'[s] = tcb[s]
  BY SuspendStep
<1>2. \A s \in Threads : tcb[s].release_time \in Nat /\ tcb[s].deadline \in Nat
  BY Typing, TcbFields DEF IInv
<1> QED
  BY <1>1, <1>2 DEF Forward

LEMMA ApiStep ==
  ASSUME IInv, Api
  PROVE  Place' /\ Times' /\ Forward
<1>1. ASSUME NEW t \in Threads, EnqueueNewThread(t) \/ EnqueueNewPersistentThread(t)
      PROVE  Place' /\ Times' /\ Forward
  <2>1. PICK new \in Tcb :
          Enqueue(t, new) /\ new.period # 0 /\ new.owner = "INCOMING_THREADS"
    <3>1. Blank \in Tcb /\ Blank.owner = "INCOMING_THREADS"
      BY DEF Blank, Tcb, Status, Periodicity, Priority, Owners, Queues
    <3>2. ASSUME NEW p \in Nat \ {0}, NEW kind \in Periodicity
          PROVE  LET new == [Blank EXCEPT !.period = p, !.periodicity = kind]
                 IN  new \in Tcb /\ new.period # 0 /\ new.owner = "INCOMING_THREADS"
      BY <3>1, <3>2 DEF Tcb
    <3>3. ASSUME NEW p \in Nat \ {0}, NEW kind \in Periodicity, NEW prio \in Priority
          PROVE  LET new == [Blank EXCEPT !.period = p, !.periodicity = kind, !.priority = prio]
                 IN  new \in Tcb /\ new.period # 0 /\ new.owner = "INCOMING_THREADS"
      BY <3>1, <3>3 DEF Tcb
    <3>4. CASE EnqueueNewThread(t)
      <4>1. PICK p \in Periods, kind \in Kinds :
              Enqueue(t, [Blank EXCEPT !.period = p, !.periodicity = kind])
        BY <3>4 DEF EnqueueNewThread
      <4>2. p \in Nat \ {0} /\ kind \in Periodicity
        BY SchedAssumption DEF Periodicity
      <4> QED
        BY <3>2, <4>1, <4>2
    <3>5. CASE EnqueueNewPersistentThread(t)
      <4>1. PICK prio \in Priorities :
              Enqueue(t, [Blank EXCEPT !.period = PERSISTENT_SLICE_TICKS,
                                       !.periodicity = "PERSISTENT", !.priority = prio])
        BY <3>5 DEF EnqueueNewPersistentThread
      <4>2. /\ PERSISTENT_SLICE_TICKS \in Nat \ {0} /\ "PERSISTENT" \in Periodicity
            /\ prio \in Priority
        BY SchedAssumption DEF Periodicity, Priority
      <4> QED
        BY <3>3, <4>1, <4>2
    <3> QED
      BY <1>1, <3>4, <3>5
  <2>2. Place' /\ Times'
    BY <2>1, EnqueueStep
  <2>3. tcb' = [tcb EXCEPT ![t] = new] /\ t \in pool
    BY <2>1 DEF Enqueue
  <2>4. \A s \in Threads : s # t => tcb'[s] = tcb[s]
    BY <2>3, Typing DEF IInv
  <2>5. \A s \in Threads : tcb[s].release_time \in Nat /\ tcb[s].deadline \in Nat
    BY Typing, TcbFields DEF IInv
  <2>6. Forward
    BY <2>3, <2>4, <2>5 DEF Forward
  <2> QED
    BY <2>2, <2>6
<1>2. ASSUME NEW t \in Threads, KillThread(t) PROVE Place' /\ Times' /\ Forward
  BY <1>2, KillStep, SameTimes DEF IInv
<1>3. ASSUME NEW t \in Threads, NEW delay \in Delays, SuspendOther(t, delay)
      PROVE  Place' /\ Times' /\ Forward
  <2>1. /\ t \notin pool /\ Suspendable(t, delay) /\ Suspend(t, delay)
        /\ UNCHANGED <<fifo, pool, ticks>>
    BY <1>3 DEF SuspendOther, Live, cpu
  <2> QED
    BY <2>1, SuspendForward
<1> QED
  BY <1>1, <1>2, <1>3 DEF Api

LEMMA EnterStep ==
  ASSUME IInv, Enter
  PROVE  Place' /\ Times' /\ Forward
<1>1. ASSUME TickEntry, UNCHANGED <<fifo, deadHeap, relHeap, pool>>
      PROVE  Place' /\ Times' /\ Forward
  <2>1. PICK u \in Utils : UpdateUtilization(u)
    BY <1>1 DEF TickEntry
  <2>2. ticks \in Nat /\ ticks' \in Nat /\ ticks <= ticks'
    BY <1>1, Typing DEF TickEntry, IInv
  <2>3. \A t \in Threads :
          /\ tcb'[t].owner = tcb[t].owner /\ tcb'[t].period = tcb[t].period
          /\ tcb'[t].release_time = tcb[t].release_time
          /\ tcb'[t].deadline = tcb[t].deadline
    <3>1. tcb' = tcb \/ tcb' = [tcb EXCEPT ![curr] = [tcb[curr] EXCEPT !.prev_u = u]]
      BY <2>1 DEF UpdateUtilization
    <3>2. tcb \in [Threads -> Tcb]
      BY Typing DEF IInv
    <3> QED
      BY <3>1, <3>2 DEF Tcb
  <2> QED
    BY <1>1, <2>2, <2>3, QuietStep, SameTimes DEF IInv
<1>2. CASE NextThread
  BY <1>1, <1>2 DEF NextThread, containers
<1>3. CASE NextThreadReleasePending
  BY <1>1, <1>3 DEF NextThreadReleasePending, containers
<1>4. CASE ThreadExit
  <2>1. /\ tcb' = [tcb EXCEPT ![curr] = [tcb[curr] EXCEPT !.status = "FINISHED"]]
        /\ UNCHANGED <<fifo, deadHeap, relHeap, pool>> /\ ticks' = ticks
    BY <1>4 DEF ThreadExit, containers, cpu
  <2>2. tcb \in [Threads -> Tcb] /\ ticks \in Nat
    BY Typing DEF IInv
  <2>3. \A t \in Threads :
          /\ tcb'[t].owner = tcb[t].owner /\ tcb'[t].period = tcb[t].period
          /\ tcb'[t].release_time = tcb[t].release_time
          /\ tcb'[t].deadline = tcb[t].deadline
    BY <2>1, <2>2 DEF Tcb
  <2> QED
    BY <2>1, <2>2, <2>3, QuietStep, SameTimes DEF IInv
<1>5. ASSUME NEW delay \in Delays, SuspendSelf(delay)
      PROVE  Place' /\ Times' /\ Forward
  <2>1. /\ pc = "idle" /\ curr # Main /\ Suspendable(curr, delay) /\ Suspend(curr, delay)
        /\ UNCHANGED <<fifo, pool, ticks>>
    BY <1>5 DEF SuspendSelf, cpu
  <2>2. curr \in Threads /\ curr \notin pool
    BY <2>1 DEF IInv, Current
  <2> QED
    BY <2>1, <2>2, SuspendForward
<1> QED
  BY <1>2, <1>3, <1>4, <1>5 DEF Enter

LEMMA NextUpStep ==
  ASSUME IInv, NextUp
  PROVE  Place' /\ Times' /\ Forward
<1>0. TypeOK /\ \A s \in Threads : tcb[s].release_time \in Nat /\ tcb[s].deadline \in Nat
  BY Typing, TcbFields DEF IInv
<1>1. CASE Admit
  BY <1>0, <1>1, AdmitStep DEF Forward
<1>2. CASE Release
  BY <1>0, <1>2, ReleaseStep, SameTimes
<1>3. CASE EdfRearm
  BY <1>3, EdfRearmStep DEF Forward
<1>4. CASE EdfRetire
  BY <1>0, <1>4, EdfRetireStep, SameTimes
<1>5. CASE EdfPick
  <2>1. PICK t \in Threads :
          /\ \A s \in Threads : s # t => tcb'[s] = tcb[s]
          /\ tcb'[t] \in {tcb[t], [tcb[t] EXCEPT !.dirty = TRUE]}
    BY <1>0, <1>5, EdfPickEffect
  <2>2. UNCHANGED <<fifo, deadHeap, relHeap, pool>> /\ ticks' = ticks /\ ticks \in Nat
    BY <1>0, <1>5, Typing DEF EdfPick, containers
  <2>3. \A s \in Threads :
          /\ tcb'[s].owner = tcb[s].owner /\ tcb'[s].period = tcb[s].period
          /\ tcb'[s].release_time = tcb[s].release_time
          /\ tcb'[s].deadline = tcb[s].deadline
    BY <1>0, <2>1, Typing DEF Tcb
  <2> QED
    BY <1>0, <2>2, <2>3, QuietStep, SameTimes
<1>6. ASSUME NEW c \in Classes, RoundRobin(c) PROVE Place' /\ Times' /\ Forward
  <2>1. CASE RrTurn(c)
    BY <2>1, RrTurnStep DEF Forward
  <2>2. CASE RrRetire(c)
    BY <1>0, <2>2, RrRetireStep, SameTimes
  <2>3. CASE RrDone(c)
    BY <1>0, <2>3, SameTimes DEF RrDone, IInv, Place, Times, TimesOf, containers, cpu
  <2> QED
    BY <1>6, <2>1, <2>2, <2>3 DEF RoundRobin
<1>7. CASE AdmitDone \/ ReleaseDone \/ EdfDone \/ ReclaimStep
  <2>1. UNCHANGED <<tcb, pool, containers, cpu>>
    BY <1>7 DEF AdmitDone, ReleaseDone, EdfDone, ReclaimStep
  <2> QED
    BY <1>0, <2>1, SameTimes DEF IInv, Place, Times, TimesOf, containers, cpu
<1>8. CASE Reclaim
  BY <1>0, <1>8, FreeStep DEF Forward
<1>9. CASE Dispatch
  <2>1. \A s \in Threads : tcb'[s] \in {tcb[s], [tcb[s] EXCEPT !.status = "RUNNING"]}
    BY <1>0, <1>9, DispatchEffect
  <2>2. UNCHANGED <<fifo, deadHeap, relHeap, pool>> /\ ticks' = ticks /\ ticks \in Nat
    BY <1>0, <1>9, Typing DEF Dispatch, containers
  <2>3. \A s \in Threads :
          /\ tcb'[s].owner = tcb[s].owner /\ tcb'[s].period = tcb[s].period
          /\ tcb'[s].release_time = tcb[s].release_time
          /\ tcb'[s].deadline = tcb[s].deadline
    BY <1>0, <2>1, Typing DEF Tcb
  <2> QED
    BY <1>0, <2>2, <2>3, QuietStep, SameTimes
<1> QED
  BY <1>1, <1>2, <1>3, <1>4, <1>5, <1>6, <1>7, <1>8, <1>9
  DEF NextUp, HighFifo, MedFifo, LowFifo, Classes

\* The chosen thread is not freed before the switch to it, the executing one
\* not at all.
LEMMA CurrentStep ==
  ASSUME IInv, Next
  PROVE  Current'
<1>1. /\ curr \in Threads \cup {Main} /\ Main \notin Threads
      /\ pc = "idle" => curr \in (Threads \ pool) \cup {Main}
      /\ found => pc \in {"reclaim", "free", "dispatch"}
  BY SchedAssumption DEF IInv, TypeOK, Current
<1>2. CASE Api \/ FaultHalt
  <2>1. UNCHANGED <<curr, pc, found>> /\ pool' \subseteq pool /\ (pc = "idle" \/ UNCHANGED vars)
    BY <1>2 DEF Api, EnqueueNewThread, EnqueueNewPersistentThread, Enqueue, KillThread,
                SuspendOther, FaultHalt, vars, cpu, control
  <2>2. CASE pc = "idle"
    BY <1>1, <2>1, <2>2 DEF Current
  <2>3. CASE UNCHANGED vars
    BY <2>3 DEF IInv, Current, vars, containers, cpu, control
  <2> QED
    BY <2>1, <2>2, <2>3
<1>3. CASE Enter
  <2>1. \/ found' = FALSE /\ pc' = "admit"
        \/ UNCHANGED <<pc, found>> /\ pc = "idle" /\ curr' = Main
    BY <1>3 DEF Enter, NextThread, NextThreadReleasePending, TickEntry, ThreadExit,
                SuspendSelf, StartNextUp, control
  <2> QED
    BY <1>1, <2>1 DEF Current
<1>4. CASE AdmitDone \/ ReleaseDone \/ EdfDone \/ Admit \/ Release \/ EdfRearm \/ EdfRetire
  <2>1. found' = found /\ pc \in {"admit", "release", "edf"} /\ pc' # "idle"
    BY <1>4 DEF AdmitDone, ReleaseDone, EdfDone, Admit, Release, EdfRearm, EdfRetire, Goto,
                control
  <2> QED
    BY <1>1, <2>1 DEF Current
<1>5. CASE EdfPick
  <2>1. PICK t \in Threads : t \in DOMAIN deadHeap /\ Pick(t)
    BY <1>5, EdfPickEffect DEF IInv
  <2>2. deadHeap' = deadHeap
    BY <1>5 DEF EdfPick, containers
  <2> QED
    BY <2>1, <2>2 DEF Current, Pick
<1>6. ASSUME NEW c \in Classes, RoundRobin(c) PROVE Current'
  <2>1. pc = c /\ c \notin {"idle", "reclaim", "free", "dispatch"} /\ ~found
    BY <1>1, <1>6 DEF RoundRobin, RrTurn, RrRetire, RrDone, Classes
  <2>2. CASE RrTurn(c)
    <3>1. PICK t \in Threads :
            /\ t = Head(fifo[c]) /\ fifo[c] # <<>>
            /\ \/ UNCHANGED <<curr, control>>
               \/ Pick(t) /\ fifo' = fifo
      BY <2>2, RrTurnEffect DEF IInv
    <3>2. In(fifo, t, c)
      BY <3>1, IInvTyping, MovedFacts
    <3> QED
      BY <2>1, <3>1, <3>2 DEF Current, Pick, control
  <2>3. CASE RrRetire(c)
    BY <2>1, <2>3 DEF RrRetire, Current, control
  <2>4. CASE RrDone(c)
    <3>1. found' = found /\ pc' = NextPhase(c)
      BY <2>4 DEF RrDone, Goto
    <3>2. NextPhase(c) # "idle"
      BY DEF NextPhase, Classes
    <3> QED
      BY <2>1, <3>1, <3>2 DEF Current
  <2> QED
    BY <1>6, <2>2, <2>3, <2>4 DEF RoundRobin
<1>7. CASE ReclaimStep
  <2>1. /\ UNCHANGED <<found, curr, fifo, deadHeap>>
        /\ pc' \in {"free", "dispatch"}
    BY <1>7 DEF ReclaimStep, AllocatorTaken, ReclaimSkipped, NothingToFree, Goto, containers, cpu
  <2> QED
    BY <2>1 DEF IInv, Current
<1>8. CASE Reclaim
  <2>1. /\ UNCHANGED <<found, curr, deadHeap, pc>> /\ pc = "free"
        /\ fifo' = [fifo EXCEPT !["OUTGOING_THREADS"] = Tail(@)]
    BY <1>8 DEF Reclaim, control
  <2>2. ASSUME NEW c \in Classes, In(fifo, curr, c) PROVE In(fifo', curr, c)
    <3>1. fifo'[c] = fifo[c]
      BY <2>1, IInvTyping DEF Classes, IsFifos
    <3> QED
      BY <2>2, <2>1, <3>1 DEF In
  <2> QED
    BY <2>1, <2>2 DEF IInv, Current
<1>9. CASE Dispatch
  <2>1. curr' = Chosen /\ found' = FALSE /\ pool' = pool
    BY <1>9 DEF Dispatch
  <2>2. Chosen \in (Threads \ pool) \cup {Main}
    <3>1. CASE found
      <4>1. curr \in Threads
            /\ (curr \in DOMAIN deadHeap \/ \E c \in Classes : In(fifo, curr, c))
        BY <3>1 DEF IInv, Current
      <4>2. curr \notin pool
        BY <4>1, IInvTyping DEF IInv, Place
      <4> QED
        BY <3>1, <4>1, <4>2 DEF Chosen
    <3>2. CASE ~found
      BY <3>2 DEF Chosen
    <3> QED
      BY <3>1, <3>2
  <2> QED
    BY <2>1, <2>2 DEF Current
<1> QED
  BY <1>2, <1>3, <1>4, <1>5, <1>6, <1>7, <1>8, <1>9
  DEF Next, NextUp, HighFifo, MedFifo, LowFifo, Classes

\* IInv is inductive, and steps take times forward.
LEMMA IInvStep == IInv /\ [Next]_vars => IInv' /\ Forward
<1> SUFFICES ASSUME IInv, [Next]_vars PROVE IInv' /\ Forward
  OBVIOUS
<1>1. TypeOK /\ TypeOK'
  BY StepTypes DEF IInv
<1>2. CASE UNCHANGED vars
  <2>1. Place' /\ Times' /\ Current'
    BY <1>2 DEF IInv, Place, Times, TimesOf, Current, vars, containers, cpu, control
  <2>2. tcb' = tcb
    BY <1>2 DEF vars
  <2> QED
    BY <1>1, <2>1, <2>2, SameTimes DEF IInv
<1>3. CASE Next
  <2>1. CASE FaultHalt
    BY <1>2, <2>1 DEF FaultHalt
  <2> QED
    BY <1>1, <1>3, <2>1, ApiStep, EnterStep, NextUpStep, CurrentStep DEF Next, IInv
<1> QED
  BY <1>2, <1>3

\* The strengthened invariant holds in every reachable state.
THEOREM Invariant == Spec => []IInv
<1>1. IInv /\ [Next]_vars => IInv'
  BY IInvStep
<1> QED
  BY IInvInit, <1>1, PTL DEF Spec

----------------------------------------------------------------------------
(* Tags and keys: what more than IInv the owner tags and the keys say.     *)

\* Which FIFO a tag may stand for, and that only the dead carry the tag of the
\* outgoing one.
TagOf(t) ==
  LET owner == tcb[t].owner
  IN  t \notin pool =>
        /\ owner \in Classes =>
             \/ In(fifo, t, owner)
             \/ In(fifo, t, "OUTGOING_THREADS") /\ tcb[t].status = "FINISHED"
        /\ owner = "INCOMING_THREADS" => In(fifo, t, "INCOMING_THREADS")
        /\ owner = "OUTGOING_THREADS" =>
             tcb[t].status = "FINISHED" /\ tcb[t].periodicity = "APERIODIC"

Tags == \A t \in Threads : TagOf(t)

\* A key that is not the deadline has passed.
KeyOf(t) == t \in DOMAIN deadHeap => deadHeap[t] = tcb[t].deadline \/ deadHeap[t] <= ticks

Keys == \A t \in Threads : KeyOf(t)

\* What keeps the tag of t right: nothing of it changes but its times, the mark
\* and the share; it may end; and it stays in its FIFO.
SameTag(t) ==
  t \notin pool' =>
    /\ t \notin pool /\ tcb'[t].owner = tcb[t].owner
    /\ tcb[t].status = "FINISHED" => tcb'[t].status = "FINISHED"
    /\ tcb[t].periodicity = "APERIODIC" => tcb'[t].periodicity = "APERIODIC"
    /\ \A q \in Queues : In(fifo, t, q) => In(fifo', t, q)

\* What keeps the key of t right.
SameKey(t) ==
  /\ ticks <= ticks'
  /\ t \in DOMAIN deadHeap' =>
       /\ t \in DOMAIN deadHeap /\ deadHeap'[t] = deadHeap[t]
       /\ tcb'[t].deadline = tcb[t].deadline

LEMMA TagKept == ASSUME IInv, NEW t \in Threads, TagOf(t), SameTag(t) PROVE TagOf(t)'
BY IInvTyping DEF TagOf, SameTag

LEMMA KeyKept ==
  ASSUME IInv, IInv', NEW t \in Threads, KeyOf(t), SameKey(t) PROVE KeyOf(t)'
<1>1. ASSUME t \in DOMAIN deadHeap PROVE deadHeap[t] \in Nat
  BY <1>1, IInvTyping DEF IsHeap
<1>2. ticks \in Nat /\ ticks' \in Nat
  BY DEF IInv, TypeOK
<1> QED
  BY <1>1, <1>2 DEF KeyOf, SameKey

\* Steps that move nothing.
LEMMA QuietTag ==
  ASSUME IInv, IInv', Tags, Keys, UNCHANGED <<fifo, pool, deadHeap>>, ticks <= ticks',
         \A t \in Threads :
           /\ tcb'[t].owner = tcb[t].owner /\ tcb'[t].deadline = tcb[t].deadline
           /\ tcb[t].status = "FINISHED" => tcb'[t].status = "FINISHED"
           /\ tcb[t].periodicity = "APERIODIC" => tcb'[t].periodicity = "APERIODIC"
  PROVE  Tags' /\ Keys'
<1>1. ASSUME NEW t \in Threads PROVE TagOf(t)' /\ KeyOf(t)'
  <2>1. SameTag(t) /\ SameKey(t)
    BY DEF SameTag, SameKey
  <2> QED
    BY <2>1, TagKept, KeyKept DEF Tags, Keys
<1> QED
  BY <1>1 DEF Tags, Keys

\* A suspended thread keeps its tag or enters the release heap, and is in the
\* deadline heap no longer.
LEMMA SuspendTag ==
  ASSUME IInv, IInv', Tags, Keys, NEW t \in Threads, NEW delay \in Delays,
         Suspendable(t, delay), Suspend(t, delay), UNCHANGED <<fifo, pool, ticks>>
  PROVE  Tags' /\ Keys'
<1>1. /\ tcb[t] \in Tcb /\ ticks \in Nat
      /\ tcb'[t] = [tcb[t] EXCEPT !.release_time = ticks + delay,
                                  !.deadline = Postponed(t, delay),
                                  !.owner = SuspendedOwner(tcb[t].owner)]
      /\ \A s \in Threads : s # t => tcb'[s] = tcb[s]
  BY SuspendTcb, Typing DEF IInv
<1>2. /\ tcb'[t].status = tcb[t].status /\ tcb'[t].periodicity = tcb[t].periodicity
      /\ tcb'[t].owner = SuspendedOwner(tcb[t].owner)
  BY <1>1 DEF Tcb
<1>3. DOMAIN deadHeap' \subseteq DOMAIN deadHeap \ {t}
      /\ \A s \in DOMAIN deadHeap' : deadHeap'[s] = deadHeap[s]
  <2>1. CASE tcb[t].owner = "DEAD_HEAP"
    <3>1. deadHeap' = Removed(deadHeap, t)
      BY <2>1 DEF Suspend, ToRelHeap
    <3> QED
      BY <3>1, RemovedLoses DEF HeapLoses
  <2>2. CASE tcb[t].owner # "DEAD_HEAP"
    <3>1. deadHeap' = deadHeap
      BY <2>2 DEF Suspend
    <3>2. tcb[t].owner # "OUTGOING_THREADS"
      BY DEF Suspendable
    <3> QED
      BY <2>2, <3>1, <3>2 DEF IInv, Place
  <2> QED
    BY <2>1, <2>2
<1>4. ASSUME NEW s \in Threads PROVE TagOf(s)' /\ KeyOf(s)'
  <2>1. CASE s = t
    <3>1. KeyOf(s)'
      BY <1>3, <2>1 DEF KeyOf
    <3>2. CASE tcb[t].owner = "DEAD_HEAP"
      BY <1>2, <2>1, <3>1, <3>2 DEF SuspendedOwner, TagOf, Classes
    <3>3. CASE tcb[t].owner # "DEAD_HEAP"
      <4>1. SameTag(s)
        BY <1>2, <2>1, <3>3 DEF SuspendedOwner, SameTag
      <4> QED
        BY <3>1, <4>1, TagKept DEF Tags
    <3> QED
      BY <3>2, <3>3
  <2>2. CASE s # t
    <3>1. SameTag(s) /\ SameKey(s)
      BY <1>1, <1>3, <2>2 DEF SameTag, SameKey
    <3> QED
      BY <3>1, TagKept, KeyKept DEF Tags, Keys
  <2> QED
    BY <2>1, <2>2
<1> QED
  BY <1>4 DEF Tags, Keys

LEMMA ApiTags ==
  ASSUME IInv, IInv', Tags, Keys, Api
  PROVE  Tags' /\ Keys'
<1>0. tcb \in [Threads -> Tcb] /\ ticks \in Nat
  BY Typing DEF IInv
<1>1. ASSUME NEW t \in Threads, NEW new, Enqueue(t, new), new.owner = "INCOMING_THREADS"
      PROVE  Tags' /\ Keys'
  <2>1. /\ t \in pool /\ pool' = pool \ {t} /\ tcb'[t] = new
        /\ \A s \in Threads : s # t => tcb'[s] = tcb[s]
        /\ fifo' = [fifo EXCEPT !["INCOMING_THREADS"] = Append(@, t)]
        /\ deadHeap' = deadHeap /\ ticks' = ticks
    BY <1>0, <1>1 DEF Enqueue, Pushed, cpu
  <2>2. PICK q \in Queues : q = "INCOMING_THREADS"
    BY IInvTyping
  <2>3. Gains(fifo', fifo, t, q)
    <3>1. fifo' = [fifo EXCEPT ![q] = Append(@, t)]
      BY <2>1, <2>2
    <3> QED
      BY <3>1, IInvTyping, PushFacts
  <2>4. t \notin DOMAIN deadHeap
    BY <2>1 DEF IInv, Place
  <2>5. In(fifo', t, "INCOMING_THREADS")
    BY <2>2, <2>3 DEF Gains
  <2>6. ASSUME NEW s \in Threads PROVE TagOf(s)' /\ KeyOf(s)'
    <3>1. CASE s = t
      BY <1>1, <2>1, <2>4, <2>5, <3>1 DEF TagOf, KeyOf, Classes
    <3>2. CASE s # t
      <4>1. \A p \in Queues : In(fifo, s, p) => In(fifo', s, p)
        BY <2>3 DEF Gains
      <4>2. SameTag(s)
        BY <2>1, <3>2, <4>1 DEF SameTag
      <4>3. SameKey(s)
        BY <1>0, <2>1, <3>2 DEF SameKey
      <4> QED
        BY <4>2, <4>3, TagKept, KeyKept DEF Tags, Keys
    <3> QED
      BY <3>1, <3>2
  <2> QED
    BY <2>6 DEF Tags, Keys
<1>2. ASSUME NEW t \in Threads, EnqueueNewThread(t) PROVE Tags' /\ Keys'
  <2>1. PICK p \in Periods, kind \in Kinds :
          Enqueue(t, [Blank EXCEPT !.period = p, !.periodicity = kind])
    BY <1>2 DEF EnqueueNewThread
  <2>2. [Blank EXCEPT !.period = p, !.periodicity = kind].owner = "INCOMING_THREADS"
    BY DEF Blank
  <2> QED
    BY <1>1, <2>1, <2>2
<1>3. ASSUME NEW t \in Threads, EnqueueNewPersistentThread(t) PROVE Tags' /\ Keys'
  <2>1. PICK prio \in Priorities :
          Enqueue(t, [Blank EXCEPT !.period = PERSISTENT_SLICE_TICKS,
                                   !.periodicity = "PERSISTENT", !.priority = prio])
    BY <1>3 DEF EnqueueNewPersistentThread
  <2>2. [Blank EXCEPT !.period = PERSISTENT_SLICE_TICKS,
                      !.periodicity = "PERSISTENT", !.priority = prio].owner
          = "INCOMING_THREADS"
    BY DEF Blank
  <2> QED
    BY <1>1, <2>1, <2>2
<1>4. ASSUME NEW t \in Threads, KillThread(t) PROVE Tags' /\ Keys'
  <2>1. /\ tcb' = [tcb EXCEPT ![t] = Killed(tcb[t])]
        /\ UNCHANGED <<pool, fifo, deadHeap>> /\ ticks' = ticks
    BY <1>4 DEF KillThread, containers
  <2>2. /\ tcb'[t].owner = "OUTGOING_THREADS" /\ tcb'[t].status = "FINISHED"
        /\ tcb'[t].periodicity = "APERIODIC" /\ tcb'[t].deadline = tcb[t].deadline
        /\ \A s \in Threads : s # t => tcb'[s] = tcb[s]
    BY <1>0, <2>1 DEF Killed, Tcb
  <2>3. ASSUME NEW s \in Threads PROVE TagOf(s)' /\ KeyOf(s)'
    <3>1. SameKey(s)
      BY <1>0, <2>1, <2>2 DEF SameKey
    <3>2. CASE s = t
      BY <2>2, <3>1, <3>2, KeyKept DEF TagOf, Keys, Classes
    <3>3. CASE s # t
      <4>1. SameTag(s)
        BY <2>1, <2>2, <3>3 DEF SameTag
      <4> QED
        BY <3>1, <4>1, TagKept, KeyKept DEF Tags, Keys
    <3> QED
      BY <3>2, <3>3
  <2> QED
    BY <2>3 DEF Tags, Keys
<1>5. ASSUME NEW t \in Threads, NEW delay \in Delays, SuspendOther(t, delay)
      PROVE  Tags' /\ Keys'
  BY <1>5, SuspendTag DEF SuspendOther, cpu
<1> QED
  BY <1>2, <1>3, <1>4, <1>5 DEF Api

LEMMA EnterTags ==
  ASSUME IInv, IInv', Tags, Keys, Enter
  PROVE  Tags' /\ Keys'
<1>0. tcb \in [Threads -> Tcb] /\ ticks \in Nat
  BY Typing DEF IInv
<1>1. ASSUME TickEntry, UNCHANGED <<fifo, deadHeap, pool>>
      PROVE  Tags' /\ Keys'
  <2>1. PICK u \in Utils : UpdateUtilization(u)
    BY <1>1 DEF TickEntry
  <2>2. ticks <= ticks'
    BY <1>0, <1>1 DEF TickEntry
  <2>3. \A t \in Threads :
          /\ tcb'[t].owner = tcb[t].owner /\ tcb'[t].deadline = tcb[t].deadline
          /\ tcb'[t].status = tcb[t].status /\ tcb'[t].periodicity = tcb[t].periodicity
    <3>1. tcb' = tcb \/ tcb' = [tcb EXCEPT ![curr] = [tcb[curr] EXCEPT !.prev_u = u]]
      BY <2>1 DEF UpdateUtilization
    <3> QED
      BY <1>0, <3>1 DEF Tcb
  <2> QED
    BY <1>1, <2>2, <2>3, QuietTag
<1>2. CASE NextThread \/ NextThreadReleasePending
  BY <1>1, <1>2 DEF NextThread, NextThreadReleasePending, containers
<1>3. CASE ThreadExit
  <2>1. /\ tcb' = [tcb EXCEPT ![curr] = [tcb[curr] EXCEPT !.status = "FINISHED"]]
        /\ UNCHANGED <<fifo, deadHeap, pool>> /\ ticks <= ticks'
    BY <1>0, <1>3 DEF ThreadExit, containers, cpu
  <2>2. \A t \in Threads :
          /\ tcb'[t].owner = tcb[t].owner /\ tcb'[t].deadline = tcb[t].deadline
          /\ tcb[t].status = "FINISHED" => tcb'[t].status = "FINISHED"
          /\ tcb'[t].periodicity = tcb[t].periodicity
    BY <1>0, <2>1 DEF Tcb
  <2> QED
    BY <2>1, <2>2, QuietTag
<1>4. ASSUME NEW delay \in Delays, SuspendSelf(delay) PROVE Tags' /\ Keys'
  <2>1. /\ pc = "idle" /\ curr # Main /\ Suspendable(curr, delay) /\ Suspend(curr, delay)
        /\ UNCHANGED <<fifo, pool, ticks>>
    BY <1>4 DEF SuspendSelf, cpu
  <2>2. curr \in Threads
    BY <2>1 DEF IInv, Current
  <2> QED
    BY <2>1, <2>2, SuspendTag
<1> QED
  BY <1>2, <1>3, <1>4 DEF Enter

LEMMA AdmitTags ==
  ASSUME IInv, IInv', Tags, Keys, Admit
  PROVE  Tags' /\ Keys'
<1>1. PICK t \in Threads :
    /\ t = Head(fifo["INCOMING_THREADS"]) /\ fifo["INCOMING_THREADS"] # <<>>
    /\ \A s \in Threads : s # t => tcb'[s] = tcb[s]
    /\ \/ /\ tcb'[t].owner \in Classes /\ deadHeap' = deadHeap
          /\ fifo' = Moved("INCOMING_THREADS", tcb'[t].owner)
       \/ /\ tcb'[t].owner = "DEAD_HEAP"
          /\ deadHeap' = Inserted(deadHeap, t, tcb'[t].deadline)
          /\ fifo' = [fifo EXCEPT !["INCOMING_THREADS"] = Tail(@)]
  BY AdmitEffect DEF IInv
<1>2. pool' = pool /\ ticks' = ticks /\ ticks \in Nat
  BY Typing DEF Admit, cpu, IInv
<1>3. PICK q \in Queues : q = "INCOMING_THREADS"
  BY IInvTyping
<1>4. t \notin DOMAIN deadHeap
  <2>1. In(fifo, t, q)
    BY <1>1, <1>3, IInvTyping, PopFacts
  <2> QED
    BY <2>1 DEF IInv, Place
<1>5. CASE /\ tcb'[t].owner \in Classes /\ deadHeap' = deadHeap
           /\ fifo' = Moved("INCOMING_THREADS", tcb'[t].owner)
  <2>1. PICK c \in Queues : c = tcb'[t].owner /\ c \in Classes
    BY <1>5, IInvTyping
  <2>2. Moves(fifo', fifo, t, c)
    BY <1>1, <1>3, <1>5, <2>1, IInvTyping, MovedFacts
  <2>3. In(fifo', t, c)
    BY <2>2 DEF Moves
  <2>4. TagOf(t)' /\ KeyOf(t)'
    BY <1>4, <1>5, <2>1, <2>3 DEF TagOf, KeyOf, Classes
  <2>5. ASSUME NEW s \in Threads, s # t PROVE SameTag(s) /\ SameKey(s)
    BY <1>1, <1>2, <1>5, <2>2, <2>5 DEF SameTag, SameKey, Moves
  <2> QED
    BY <2>4, <2>5, TagKept, KeyKept DEF Tags, Keys
<1>6. CASE /\ tcb'[t].owner = "DEAD_HEAP"
           /\ deadHeap' = Inserted(deadHeap, t, tcb'[t].deadline)
           /\ fifo' = [fifo EXCEPT !["INCOMING_THREADS"] = Tail(@)]
  <2>1. Loses(fifo', fifo, t)
    <3>1. fifo' = [fifo EXCEPT ![q] = Tail(@)] /\ t = Head(fifo[q]) /\ fifo[q] # <<>>
      BY <1>1, <1>3, <1>6
    <3> QED
      BY <3>1, IInvTyping, PopFacts
  <2>2. HeapGains(deadHeap', deadHeap, t, tcb'[t].deadline)
    BY <1>6, InsertedGains
  <2>3. TagOf(t)' /\ KeyOf(t)'
    BY <1>6, <2>2 DEF TagOf, KeyOf, HeapGains, Classes
  <2>4. ASSUME NEW s \in Threads, s # t PROVE SameTag(s) /\ SameKey(s)
    BY <1>1, <1>2, <2>1, <2>2, <2>4 DEF SameTag, SameKey, Loses, HeapGains
  <2> QED
    BY <2>3, <2>4, TagKept, KeyKept DEF Tags, Keys
<1> QED
  BY <1>1, <1>5, <1>6

LEMMA EdfTags ==
  ASSUME IInv, IInv', Tags, Keys, Release \/ EdfRearm \/ EdfRetire \/ EdfPick
  PROVE  Tags' /\ Keys'
<1>0. /\ TypeOK /\ tcb \in [Threads -> Tcb] /\ ticks \in Nat
      /\ \A t \in Threads : tcb[t] \in Tcb
  BY Typing DEF IInv
<1>1. CASE Release
  <2>1. PICK t \in Threads :
      /\ \A s \in Threads : s # t => tcb'[s] = tcb[s]
      /\ tcb'[t] = [tcb[t] EXCEPT !.owner = "DEAD_HEAP"]
      /\ deadHeap' = Inserted(deadHeap, t, tcb[t].deadline)
    BY <1>0, <1>1, ReleaseEffect
  <2>2. fifo' = fifo /\ pool' = pool /\ ticks' = ticks
    BY <1>1 DEF Release, cpu
  <2>3. tcb'[t].owner = "DEAD_HEAP" /\ tcb'[t].deadline = tcb[t].deadline
    BY <1>0, <2>1 DEF Tcb
  <2>4. HeapGains(deadHeap', deadHeap, t, tcb[t].deadline)
    BY <2>1, InsertedGains
  <2>5. TagOf(t)' /\ KeyOf(t)'
    BY <2>3, <2>4 DEF TagOf, KeyOf, HeapGains, Classes
  <2>6. ASSUME NEW s \in Threads, s # t PROVE SameTag(s) /\ SameKey(s)
    BY <1>0, <2>1, <2>2, <2>4, <2>6 DEF SameTag, SameKey, HeapGains
  <2> QED
    BY <2>5, <2>6, TagKept, KeyKept DEF Tags, Keys
<1>2. CASE EdfRearm
  <2>1. PICK t \in Threads, d, r \in Nat :
      /\ t \in DOMAIN deadHeap /\ IsNextDeadline(t, d) /\ IsNextRelease(t, d, r)
      /\ tcb[t].periodicity = "PERIODIC"
      /\ \A s \in Threads : s # t => tcb'[s] = tcb[s]
      /\ tcb'[t].deadline = d
      /\ \/ /\ r > ticks /\ tcb'[t].owner = "REL_HEAP"
            /\ deadHeap' = Removed(deadHeap, t)
         \/ /\ r <= ticks /\ tcb'[t].owner = tcb[t].owner
            /\ deadHeap' = Rebalanced(deadHeap, t, d)
    BY <1>0, <1>2, EdfRearmEffect
  <2>2. fifo' = fifo /\ pool' = pool /\ ticks' = ticks
    BY <1>2 DEF EdfRearm, cpu
  <2>3. HeapKeeps(deadHeap', deadHeap, t, d) \/ HeapLoses(deadHeap', deadHeap, t)
    BY <2>1, IInvTyping, RemovedLoses, RebalancedKeeps
  <2>4. ASSUME NEW s \in Threads, s # t PROVE SameTag(s) /\ SameKey(s)
    BY <1>0, <2>1, <2>2, <2>3, <2>4 DEF SameTag, SameKey, HeapKeeps, HeapLoses
  <2>5. KeyOf(t)'
    <3>1. CASE deadHeap' = Removed(deadHeap, t)
      <4>1. HeapLoses(deadHeap', deadHeap, t)
        BY <3>1, RemovedLoses
      <4> QED
        BY <4>1 DEF KeyOf, HeapLoses
    <3>2. CASE r <= ticks /\ deadHeap' = Rebalanced(deadHeap, t, d)
      <4>1. deadHeap'[t] \in {deadHeap[t], d}
        BY <2>1, <3>2, IInvTyping, RebalancedKeeps DEF HeapKeeps
      <4>2. /\ deadHeap[t] \in Nat /\ deadHeap[t] <= tcb[t].deadline
            /\ tcb[t].deadline \in Nat /\ tcb[t].period \in Nat
        BY <1>0, <2>1, IInvTyping, TcbFields DEF IInv, Times, TimesOf, IsHeap
      <4>3. d >= tcb[t].deadline + tcb[t].period
        BY <1>0, <2>1, RearmTimes
      <4>4. r \in Nat /\ d \in Nat /\ r >= d - tcb[t].period
        BY <2>1 DEF IsNextRelease
      <4>5. deadHeap[t] <= ticks
        BY <1>0, <3>2, <4>2, <4>3, <4>4
      <4> QED
        BY <2>1, <2>2, <4>1, <4>5 DEF KeyOf
    <3> QED
      BY <2>1, <3>1, <3>2
  <2>6. TagOf(t)'
    <3>1. CASE tcb'[t].owner = "REL_HEAP"
      BY <3>1 DEF TagOf, Classes
    <3>2. CASE tcb'[t].owner = tcb[t].owner
      <4>1. tcb[t].owner \in {"DEAD_HEAP", "OUTGOING_THREADS"} /\ t \notin pool
        BY <2>1 DEF IInv, Place
      <4>2. tcb[t].owner # "OUTGOING_THREADS"
        BY <2>1, <4>1 DEF Tags, TagOf
      <4> QED
        BY <3>2, <4>1, <4>2 DEF TagOf, Classes
    <3> QED
      BY <2>1, <3>1, <3>2
  <2> QED
    BY <2>4, <2>5, <2>6, TagKept, KeyKept DEF Tags, Keys
<1>3. CASE EdfRetire
  <2>1. PICK t \in Heads(deadHeap) :
      /\ tcb[t].status = "FINISHED" /\ tcb[t].periodicity = "APERIODIC"
      /\ tcb' = [tcb EXCEPT ![t] = [tcb[t] EXCEPT !.owner = "OUTGOING_THREADS"]]
      /\ deadHeap' = Removed(deadHeap, t) /\ fifo' = Pushed("OUTGOING_THREADS", t)
    BY <1>3 DEF EdfRetire
  <2>2. t \in Threads /\ pool' = pool /\ ticks' = ticks
    BY <1>3, IInvTyping DEF Heads, IsHeap, EdfRetire, cpu
  <2>3. /\ tcb'[t].status = "FINISHED" /\ tcb'[t].periodicity = "APERIODIC"
        /\ tcb'[t].owner = "OUTGOING_THREADS"
        /\ \A s \in Threads : s # t => tcb'[s] = tcb[s]
    BY <1>0, <2>1, <2>2 DEF Tcb
  <2>4. HeapLoses(deadHeap', deadHeap, t)
    BY <2>1, RemovedLoses
  <2>5. \A s \in Threads, p \in Queues : In(fifo, s, p) => In(fifo', s, p)
    <3>1. PICK q \in Queues : q = "OUTGOING_THREADS"
      BY IInvTyping
    <3>2. fifo' = [fifo EXCEPT ![q] = Append(@, t)]
      BY <2>1, <3>1 DEF Pushed
    <3>3. Gains(fifo', fifo, t, q)
      BY <2>2, <3>2, IInvTyping, PushFacts
    <3> QED
      BY <3>3 DEF Gains
  <2>6. TagOf(t)' /\ KeyOf(t)'
    BY <2>3, <2>4 DEF TagOf, KeyOf, HeapLoses, Classes
  <2>7. ASSUME NEW s \in Threads, s # t PROVE SameTag(s) /\ SameKey(s)
    BY <1>0, <2>2, <2>3, <2>4, <2>5, <2>7 DEF SameTag, SameKey, HeapLoses
  <2> QED
    BY <2>6, <2>7, TagKept, KeyKept DEF Tags, Keys
<1>4. CASE EdfPick
  <2>1. PICK t \in Threads :
          /\ \A s \in Threads : s # t => tcb'[s] = tcb[s]
          /\ tcb'[t] \in {tcb[t], [tcb[t] EXCEPT !.dirty = TRUE]}
    BY <1>0, <1>4, EdfPickEffect
  <2>2. UNCHANGED <<fifo, pool, deadHeap>> /\ ticks <= ticks'
    BY <1>0, <1>4 DEF EdfPick, containers
  <2>3. \A s \in Threads :
          /\ tcb'[s].owner = tcb[s].owner /\ tcb'[s].deadline = tcb[s].deadline
          /\ tcb'[s].status = tcb[s].status /\ tcb'[s].periodicity = tcb[s].periodicity
    BY <1>0, <2>1 DEF Tcb
  <2> QED
    BY <2>2, <2>3, QuietTag
<1> QED
  BY <1>1, <1>2, <1>3, <1>4

LEMMA RoundRobinTags ==
  ASSUME IInv, IInv', Tags, Keys, NEW c \in Classes, RoundRobin(c)
  PROVE  Tags' /\ Keys'
<1>0. /\ TypeOK /\ tcb \in [Threads -> Tcb] /\ ticks \in Nat
      /\ c \in Queues /\ "OUTGOING_THREADS" \in Queues
  BY Typing DEF IInv
<1>1. pool' = pool /\ ticks' = ticks /\ deadHeap' = deadHeap
  BY DEF RoundRobin, RrTurn, RrRetire, RrDone, containers, cpu
<1>2. CASE RrTurn(c)
  <2>1. PICK t \in Threads :
      /\ t = Head(fifo[c]) /\ fifo[c] # <<>>
      /\ fifo' = Moved(c, c) \/ fifo' = fifo
      /\ \A s \in Threads : s # t => tcb'[s] = tcb[s]
      /\ tcb'[t].owner = tcb[t].owner /\ tcb'[t].status = tcb[t].status
      /\ tcb'[t].periodicity = tcb[t].periodicity
    <3> DEFINE t == Head(fifo[c])
    <3>1. t \in Threads
      BY <1>0, <1>2, IInvTyping, MovedFacts DEF RrTurn
    <3>2. PICK l, r, d :
            tcb' = [tcb EXCEPT ![t] =
              [tcb[t] EXCEPT !.ticks_landed = l, !.release_time = r, !.deadline = d]]
      BY <1>2 DEF RrTurn
    <3>3. fifo[c] # <<>> /\ (fifo' = Moved(c, c) \/ fifo' = fifo)
      BY <1>2 DEF RrTurn
    <3> HIDE DEF t
    <3> DEFINE new == [tcb[t] EXCEPT !.ticks_landed = l, !.release_time = r, !.deadline = d]
    <3>4. tcb[t] \in Tcb
      BY <1>0, <3>1
    <3>5. /\ new.owner = tcb[t].owner /\ new.status = tcb[t].status
          /\ new.periodicity = tcb[t].periodicity
      BY <3>4 DEF Tcb
    <3> HIDE DEF new
    <3>6. tcb'[t] = new /\ \A s \in Threads : s # t => tcb'[s] = tcb[s]
      BY <1>0, <3>1, <3>2 DEF new
    <3> QED
      BY <3>1, <3>3, <3>5, <3>6 DEF t
  <2>2. \A s \in Threads :
          /\ tcb'[s].owner = tcb[s].owner /\ tcb'[s].status = tcb[s].status
          /\ tcb'[s].periodicity = tcb[s].periodicity
          /\ s # t => tcb'[s].deadline = tcb[s].deadline
    BY <2>1
  <2>3. In(fifo, t, c)
    BY <1>0, <2>1, IInvTyping, MovedFacts
  <2>4. \A s \in Threads, q \in Queues : In(fifo, s, q) => In(fifo', s, q)
    <3>1. CASE fifo' = Moved(c, c)
      <4>1. Moves(fifo', fifo, t, c)
        BY <1>0, <2>1, <3>1, IInvTyping, MovedFacts
      <4>2. \A q \in Queues : In(fifo, t, q) => q = c
        BY <1>0, <2>3, IInvTyping DEF In, Distinct
      <4> QED
        BY <4>1, <4>2 DEF Moves
    <3> QED
      BY <2>1, <3>1
  <2>5. t \notin DOMAIN deadHeap
    BY <1>0, <2>3 DEF IInv, Place
  <2>6. ASSUME NEW s \in Threads PROVE SameTag(s) /\ SameKey(s)
    <3>1. /\ tcb'[s].owner = tcb[s].owner /\ tcb'[s].status = tcb[s].status
          /\ tcb'[s].periodicity = tcb[s].periodicity
      BY <2>2
    <3>2. SameTag(s)
      BY <1>1, <2>4, <3>1 DEF SameTag
    <3>3. s \in DOMAIN deadHeap => tcb'[s].deadline = tcb[s].deadline
      BY <2>2, <2>5
    <3>4. SameKey(s)
      BY <1>0, <1>1, <3>3 DEF SameKey
    <3> QED
      BY <3>2, <3>4
  <2> QED
    BY <2>6, TagKept, KeyKept DEF Tags, Keys
<1>3. CASE RrRetire(c)
  <2>1. PICK t \in Threads : t = Head(fifo[c])
    BY <1>0, <1>3, IInvTyping, MovedFacts DEF RrRetire
  <2>2. /\ tcb[t].status = "FINISHED" /\ fifo[c] # <<>> /\ tcb' = tcb
        /\ fifo' = Moved(c, "OUTGOING_THREADS")
    BY <1>3, <2>1 DEF RrRetire, RetireTo
  <2>3. PICK q \in Queues : q = "OUTGOING_THREADS"
    BY <1>0
  <2>4. In(fifo, t, c) /\ Moves(fifo', fifo, t, q)
    BY <1>0, <2>1, <2>2, <2>3, IInvTyping, MovedFacts
  <2>5. In(fifo', t, "OUTGOING_THREADS")
    BY <2>3, <2>4 DEF Moves
  <2>6. ~In(fifo, t, "INCOMING_THREADS")
    BY <1>0, <2>4, IInvTyping DEF In, Distinct, Classes
  <2>7. TagOf(t)'
    BY <1>1, <2>2, <2>5, <2>6 DEF Tags, TagOf
  <2>8. KeyOf(t)'
    BY <1>1, <2>2 DEF Keys, KeyOf
  <2>9. ASSUME NEW s \in Threads, s # t PROVE SameTag(s) /\ SameKey(s)
    BY <1>0, <1>1, <2>2, <2>4, <2>9 DEF SameTag, SameKey, Moves
  <2> QED
    BY <2>7, <2>8, <2>9, TagKept, KeyKept DEF Tags, Keys
<1>4. CASE RrDone(c)
  <2>1. UNCHANGED <<fifo, pool, deadHeap>> /\ ticks <= ticks' /\ tcb' = tcb
    BY <1>0, <1>1, <1>4 DEF RrDone, containers
  <2> QED
    BY <2>1, QuietTag
<1> QED
  BY <1>2, <1>3, <1>4 DEF RoundRobin

LEMMA NextUpTags ==
  ASSUME IInv, IInv', Tags, Keys, NextUp
  PROVE  Tags' /\ Keys'
<1>0. /\ TypeOK /\ tcb \in [Threads -> Tcb] /\ ticks \in Nat
  BY Typing DEF IInv
<1>1. CASE AdmitDone \/ ReleaseDone \/ EdfDone \/ ReclaimStep
  <2>1. UNCHANGED <<fifo, pool, deadHeap>> /\ ticks <= ticks' /\ tcb' = tcb
    BY <1>0, <1>1 DEF AdmitDone, ReleaseDone, EdfDone, ReclaimStep, containers, cpu
  <2> QED
    BY <2>1, QuietTag
<1>2. CASE Reclaim
  <2>1. PICK t \in Threads :
      /\ t = Head(fifo["OUTGOING_THREADS"]) /\ fifo["OUTGOING_THREADS"] # <<>>
      /\ \A s \in Threads : s # t => tcb'[s] = tcb[s]
      /\ pool' = pool \cup {t}
      /\ fifo' = [fifo EXCEPT !["OUTGOING_THREADS"] = Tail(@)]
    BY <1>0, <1>2, ReclaimEffect
  <2>2. deadHeap' = deadHeap /\ ticks' = ticks
    BY <1>2 DEF Reclaim
  <2>3. PICK q \in Queues : q = "OUTGOING_THREADS"
    BY IInvTyping
  <2>4. Loses(fifo', fifo, t) /\ In(fifo, t, q)
    <3>1. fifo' = [fifo EXCEPT ![q] = Tail(@)] /\ t = Head(fifo[q]) /\ fifo[q] # <<>>
      BY <2>1, <2>3
    <3> QED
      BY <3>1, IInvTyping, PopFacts
  <2>5. TagOf(t)' /\ KeyOf(t)'
    <3>1. t \notin DOMAIN deadHeap
      BY <2>4 DEF IInv, Place
    <3>2. t \in pool'
      BY <2>1
    <3> QED
      BY <2>2, <3>1, <3>2 DEF TagOf, KeyOf
  <2>6. ASSUME NEW s \in Threads, s # t PROVE SameTag(s) /\ SameKey(s)
    <3>1. \A p \in Queues : In(fifo, s, p) => In(fifo', s, p)
      BY <2>4, <2>6 DEF Loses
    <3>2. tcb'[s] = tcb[s] /\ (s \in pool => s \in pool')
      BY <2>1, <2>6
    <3>3. SameTag(s)
      BY <3>1, <3>2 DEF SameTag
    <3>4. SameKey(s)
      BY <1>0, <2>2, <3>2 DEF SameKey
    <3> QED
      BY <3>3, <3>4
  <2> QED
    BY <2>5, <2>6, TagKept, KeyKept DEF Tags, Keys
<1>3. CASE Dispatch
  <2>1. UNCHANGED <<fifo, pool, deadHeap>> /\ ticks' = ticks
    BY <1>3 DEF Dispatch, containers
  <2>2. \/ tcb' = tcb
        \/ /\ Chosen \in Threads /\ tcb[Chosen].status = "PENDING"
           /\ tcb' = [tcb EXCEPT ![Chosen] = [tcb[Chosen] EXCEPT !.status = "RUNNING"]]
    <3>1. CASE PrimeThread
      <4>1. Chosen \in Threads \cup {Main}
        BY <1>0, <1>3, DispatchEffect
      <4> QED
        BY <3>1, <4>1 DEF PrimeThread, ChosenStatus
    <3>2. CASE ResumeThread
      BY <3>2 DEF ResumeThread
    <3> QED
      BY <1>3, <3>1, <3>2 DEF Dispatch
  <2>3. \A s \in Threads :
          /\ tcb'[s].owner = tcb[s].owner /\ tcb'[s].deadline = tcb[s].deadline
          /\ tcb[s].status = "FINISHED" => tcb'[s].status = "FINISHED"
          /\ tcb'[s].periodicity = tcb[s].periodicity
    BY <1>0, <2>2 DEF Tcb
  <2> QED
    BY <1>0, <2>1, <2>3, QuietTag
<1> QED
  BY <1>1, <1>2, <1>3, AdmitTags, EdfTags, RoundRobinTags
  DEF NextUp, HighFifo, MedFifo, LowFifo, Classes

LEMMA TagsInv == Spec => [](Tags /\ Keys)
<1>1. Init => Tags /\ Keys
  BY EmptyHeapIsHeap DEF Init, Tags, TagOf, Keys, KeyOf
<1>2. ASSUME IInv, IInv', Tags, Keys, [Next]_vars PROVE Tags' /\ Keys'
  <2>1. CASE UNCHANGED vars
    BY <1>2, <2>1 DEF vars, containers, cpu, Tags, TagOf, Keys, KeyOf, In
  <2> QED
    BY <1>2, <2>1, ApiTags, EnterTags, NextUpTags DEF Next, FaultHalt
<1> QED
  BY Invariant, <1>1, <1>2, PTL DEF Spec

----------------------------------------------------------------------------
(* What follows.                                                           *)

\* Most properties of SchedProps are parts of IInv.
LEMMA IInvImplies ==
  ASSUME IInv
  PROVE  /\ NoSharing /\ NothingLost /\ CurrentIsLive /\ NeverBeforeRelease /\ WindowOpen
<1>1. NoSharing
  BY Typing DEF IInv, Place, NoSharing, Distinct, In, InQueue, Queued, Heaped, Live, TypeOK
<1>2. NothingLost
  BY DEF IInv, Place, NothingLost, In, InQueue, Queued, Heaped, Live
<1>3. CurrentIsLive
  BY DEF IInv, Current, CurrentIsLive, Live
<1>4. NeverBeforeRelease
  BY DEF IInv, TypeOK, Times, TimesOf, NeverBeforeRelease
<1>5. WindowOpen
  BY DEF IInv, Times, TimesOf, WindowOpen, Admitted, InQueue, In, Live
<1> QED
  BY <1>1, <1>2, <1>3, <1>4, <1>5

\* The containers never share a thread, nor keep one that was freed.
THEOREM SharesNothing == Spec => []NoSharing
<1>1. IInv => NoSharing
  BY IInvImplies
<1> QED
  BY Invariant, <1>1, PTL

\* Every live thread stays in some container.
THEOREM LosesNothing == Spec => []NothingLost
<1>1. IInv => NothingLost
  BY IInvImplies
<1> QED
  BY Invariant, <1>1, PTL

\* The tag suspend_thread trusts names the container the thread is in, save for
\* the finished and the killed.
THEOREM OwnerTagRight == Spec => []OwnerIsContainer
<1>1. ASSUME IInv, Tags PROVE OwnerIsContainer
  <2>1. ASSUME NEW t \in Threads, t \notin pool
        PROVE  LET owner == tcb[t].owner
               IN  CASE owner = "DEAD_HEAP" -> t \in DOMAIN deadHeap
                     [] owner = "REL_HEAP"  -> t \in DOMAIN relHeap
                     [] owner = "INCOMING_THREADS" -> InQueue(t, owner)
                     [] owner = "OUTGOING_THREADS" ->
                          tcb[t].status = "FINISHED" /\ tcb[t].periodicity = "APERIODIC"
                     [] OTHER ->
                          \/ InQueue(t, owner)
                          \/ InQueue(t, "OUTGOING_THREADS") /\ tcb[t].status = "FINISHED"
    <3>1. tcb[t].owner \in Owners
      BY <1>1, Typing, TcbFields DEF IInv
    <3>2. TagOf(t)
      BY <1>1 DEF Tags
    <3>3. /\ tcb[t].owner = "DEAD_HEAP" => t \in DOMAIN deadHeap
          /\ tcb[t].owner = "REL_HEAP" => t \in DOMAIN relHeap
      BY <1>1, <2>1 DEF IInv, Place
    <3> QED
      BY <2>1, <3>1, <3>2, <3>3 DEF TagOf, In, InQueue, Owners, Queues, Classes
  <2> QED
    BY <2>1 DEF OwnerIsContainer, Live
<1> QED
  BY Invariant, TagsInv, <1>1, PTL

\* The core never executes a freed thread_t.
THEOREM ExecutesLive == Spec => []CurrentIsLive
<1>1. IInv => CurrentIsLive
  BY IInvImplies
<1> QED
  BY Invariant, <1>1, PTL

\* No EDF thread is eligible before its release time.
THEOREM ReleaseRespected == Spec => []NeverBeforeRelease
<1>1. IInv => NeverBeforeRelease
  BY IInvImplies
<1> QED
  BY Invariant, <1>1, PTL

\* The deadline heap is in deadline order but for threads that overran.
THEOREM EdfOrder == Spec => []EdfUnlessOverrun
<1>1. ASSUME IInv, Keys PROVE EdfUnlessOverrun
  <2>1. ASSUME NEW s \in DOMAIN deadHeap, NEW t \in DOMAIN deadHeap,
               deadHeap[s] <= deadHeap[t]
        PROVE  tcb[s].deadline <= tcb[t].deadline \/ Overrun(s)
    <3>1. s \in Threads /\ t \in Threads /\ ticks \in Nat
      BY <1>1, Typing DEF IInv, IsHeap
    <3>2. deadHeap[s] \in Nat /\ deadHeap[t] \in Nat
      BY <1>1, Typing DEF IInv, IsHeap
    <3>3. tcb[s].deadline \in Nat /\ tcb[t].deadline \in Nat
      BY <1>1, <3>1, Typing, TcbFields DEF IInv
    <3>4. deadHeap[s] <= tcb[s].deadline /\ deadHeap[t] <= tcb[t].deadline
      BY <1>1, <3>1 DEF IInv, Times, TimesOf
    <3>5. deadHeap[s] = tcb[s].deadline \/ deadHeap[s] <= ticks
      BY <1>1, <3>1 DEF Keys, KeyOf
    <3> QED
      BY <2>1, <3>2, <3>3, <3>4, <3>5 DEF Overrun
  <2> QED
    BY <2>1 DEF EdfUnlessOverrun
<1> QED
  BY Invariant, TagsInv, <1>1, PTL

\* Every admitted thread has its release before its deadline.
THEOREM WindowsOpen == Spec => []WindowOpen
<1>1. IInv => WindowOpen
  BY IInvImplies
<1> QED
  BY Invariant, <1>1, PTL

\* No step of any caller pulls a release or a deadline back in time.
THEOREM TimesForward == Spec => TimesMonotone
<1> DEFINE Mono ==
      \A t \in Threads :
        Admitted(t) /\ Admitted(t)' =>
          /\ tcb[t].release_time <= tcb'[t].release_time
          /\ tcb[t].deadline <= tcb'[t].deadline
<1>1. ASSUME IInv, [Next]_vars PROVE Mono
  <2>1. Forward
    BY <1>1, IInvStep
  <2>2. ASSUME NEW t \in Threads, Admitted(t), Admitted(t)'
        PROVE  /\ tcb[t].release_time <= tcb'[t].release_time
               /\ tcb[t].deadline <= tcb'[t].deadline
    <3>1. t \notin pool /\ t \notin pool' /\ ~In(fifo, t, "INCOMING_THREADS")
      BY <2>2 DEF Admitted, Live, InQueue, In
    <3>2. /\ tcb[t].release_time \in Nat /\ tcb[t].deadline \in Nat
          /\ tcb'[t].release_time \in Nat /\ tcb'[t].deadline \in Nat
      <4>1. tcb[t] \in Tcb /\ tcb'[t] \in Tcb
        BY <1>1, StepTypes DEF IInv, TypeOK
      <4> QED
        BY <4>1, TcbFields
    <3> QED
      BY <2>1, <3>1, <3>2 DEF Forward
  <2> QED
    BY <2>2
<1>2. IInv /\ [Next]_vars => [Mono]_vars
  BY <1>1
<1> QED
  BY Invariant, <1>2, PTL DEF Spec, TimesMonotone
=============================================================================
