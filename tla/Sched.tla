------------------------------- MODULE Sched -------------------------------
(***************************************************************************)
(* The Kairos scheduler of one core (src/kernel/sched.c): the timer tick   *)
(* next_thread, thread_exit, suspend_thread, kill_thread and the add_*     *)
(* calls, and next_up, the routine the first three share that moves        *)
(* threads between the containers of the core and picks the one to run.    *)
(*                                                                         *)
(* Every entry point runs under the core's thread_mutex.  The short ones   *)
(* are one action each.  The three that call next_up start it (pc leaves   *)
(* "idle") and next_up then takes one action per iteration of its loops,   *)
(* in the order of the code:                                               *)
(*                                                                         *)
(*   admit -> release -> edf -> FIFO_HIGH -> FIFO_MED -> FIFO_LOW          *)
(*         -> reclaim (-> free) -> dispatch -> idle                        *)
(*                                                                         *)
(* A heap is the function KeyedHeap describes, a FIFO is a sequence;       *)
(* MinHeap and ThreadFifo show that the arrays of the code implement them. *)
(***************************************************************************)
EXTENDS Integers, FiniteSets, SequencesExt, KeyedHeap

CONSTANTS
  Threads,                \* the thread_t blocks the allocator can hand out
  Main,                   \* the core's main_thread
  Kinds,                  \* periodicities the callers of add_periodic_thread ask for
  Priorities,             \* priorities the callers of add_persistent_thread ask for
  Periods,                \* periods the callers of add_periodic_thread ask for
  PERSISTENT_SLICE_TICKS, \* the slice of a round-robin thread
  Delays,                 \* delays the callers of suspend_thread ask for
  Utils,                  \* values ci_av / ti_av can take at a tick
  MAX_THREADS,            \* capacity of every heap and FIFO
  MaxTick                 \* bound on ticks, for model checking

\* MAX_THREADS bounds the live threads, so no insert_node or fifo_push of this
\* module meets a full container.
ASSUME SchedAssumption ==
  /\ Main \notin Threads
  /\ IsFiniteSet(Threads) /\ Cardinality(Threads) <= MAX_THREADS
  /\ Kinds \subseteq {"APERIODIC", "PERIODIC"}
  /\ Priorities \subseteq {"LOW_PRIORITY", "MED_PRIORITY", "HIGH_PRIORITY"}
  /\ Periods \subseteq Nat \ {0}
  /\ PERSISTENT_SLICE_TICKS \in Nat \ {0}
  /\ Delays \subseteq Nat
  /\ Utils \subseteq Nat
  /\ MaxTick \in Nat

VARIABLES
  tcb,              \* the fields of every thread_t
  pool,             \* blocks the allocator has free
  fifo,             \* the five FIFOs of the core, by the owner tag they stand for
  deadHeap,         \* released EDF threads -> key (a deadline)
  relHeap,          \* EDF threads waiting for their release -> key (a release time)
  curr,             \* curr_thread
  ticks,
  missed_deadlines,
  utilization,
  frame,            \* what each thread's sp points at
  pc,               \* "idle": mutex free, curr executes; else where next_up is
  found,            \* thread_found of next_up
  caller            \* who called next_up

containers == <<fifo, deadHeap, relHeap>>
cpu == <<curr, ticks, missed_deadlines, utilization>>
control == <<pc, found, caller>>
vars == <<tcb, pool, containers, cpu, frame, control>>

Status == {"PENDING", "RUNNING", "FINISHED"}
Periodicity == {"APERIODIC", "PERIODIC", "PERSISTENT"}
Priority == {"LOW_PRIORITY", "MED_PRIORITY", "HIGH_PRIORITY"}
Classes == {"FIFO_LOW", "FIFO_MED", "FIFO_HIGH"}
Queues == Classes \cup {"INCOMING_THREADS", "OUTGOING_THREADS"}
Owners == Queues \cup {"DEAD_HEAP", "REL_HEAP"}

\* "none": no saved context (new or finished thread), "saved": a context that
\* can be popped, "live": the thread is executing.
Frames == {"none", "saved", "live"}

Phases == Classes \cup {"idle", "admit", "release", "edf", "reclaim", "free",
                        "dispatch", "fault"}

Tcb == [status: Status, periodicity: Periodicity, priority: Priority,
        owner: Owners, period: Nat, release_time: Nat, deadline: Nat,
        ticks_landed: Nat, dirty: BOOLEAN, prev_u: Nat]

\* A block as kMalloc leaves it: nothing reads a field before it is written.
Blank == [status |-> "PENDING", periodicity |-> "APERIODIC",
          priority |-> "LOW_PRIORITY", owner |-> "INCOMING_THREADS",
          period |-> 0, release_time |-> 0, deadline |-> 0,
          ticks_landed |-> 0, dirty |-> FALSE, prev_u |-> 0]

Live == Threads \ pool

----------------------------------------------------------------------------
(* Heaps and FIFOs (min_heap.c, thread_fifo.c).                            *)

ToRelHeapKept(t, release) ==  \* mutant: the node stays in the dead heap
  relHeap' = Inserted(relHeap, t, release) /\ UNCHANGED deadHeap

ToRelHeapDropped(t, release) ==  \* mutant: the insertion is forgotten
  deadHeap' = Removed(deadHeap, t) /\ UNCHANGED relHeap

ToRelHeap(t, release) ==
  /\ deadHeap' = Removed(deadHeap, t)
  /\ relHeap' = Inserted(relHeap, t, release)

Pushed(q, t) == [fifo EXCEPT ![q] = Append(@, t)]

\* fifo_push(to, fifo_pop(from)), the two may be the same FIFO
Moved(from, to) ==
  LET t == Head(fifo[from])
      popped == [fifo EXCEPT ![from] = Tail(@)]
  IN  [popped EXCEPT ![to] = Append(@, t)]

ClassOf(priority) == CASE priority = "LOW_PRIORITY"  -> "FIFO_LOW"
                       [] priority = "MED_PRIORITY"  -> "FIFO_MED"
                       [] priority = "HIGH_PRIORITY" -> "FIFO_HIGH"

----------------------------------------------------------------------------
Init ==
  /\ tcb = [t \in Threads |-> Blank]
  /\ pool = Threads
  /\ fifo = [q \in Queues |-> <<>>]
  /\ deadHeap = EmptyHeap /\ relHeap = EmptyHeap
  /\ curr = Main
  /\ ticks = 0 /\ missed_deadlines = 0 /\ utilization = 0
  /\ frame = [t \in Threads \cup {Main} |-> IF t = Main THEN "live" ELSE "none"]
  /\ pc = "idle" /\ found = FALSE /\ caller = "tick"

----------------------------------------------------------------------------
(* The calls of the API that do not reschedule.  Any thread of any core    *)
(* may make them, whenever the mutex is free.                              *)

Enqueue(t, new) ==
  /\ pc = "idle" /\ t \in pool
  /\ tcb' = [tcb EXCEPT ![t] = new]
  /\ pool' = pool \ {t}
  /\ fifo' = Pushed("INCOMING_THREADS", t)
  /\ UNCHANGED <<deadHeap, relHeap, cpu, frame, control>>

\* add_periodic_thread: a period of 0 is refused
EnqueueNewThread(t) ==
  \E p \in Periods, kind \in Kinds :
    Enqueue(t, [Blank EXCEPT !.period = p, !.periodicity = kind])

EnqueueNewPersistentThread(t) ==
  \E prio \in Priorities :
    Enqueue(t, [Blank EXCEPT !.period = PERSISTENT_SLICE_TICKS,
                             !.periodicity = "PERSISTENT", !.priority = prio])

KilledKeepsU(r) ==  \* mutant: prev_u is not cleared
  [r EXCEPT !.periodicity = "APERIODIC", !.status = "FINISHED",
            !.owner = "OUTGOING_THREADS"]

Killed(r) ==
  [r EXCEPT !.periodicity = "APERIODIC", !.status = "FINISHED",
            !.owner = "OUTGOING_THREADS", !.prev_u = 0]

KillThread(t) ==
  /\ pc = "idle" /\ t \in Live
  /\ tcb' = [tcb EXCEPT ![t] = Killed(@)]
  /\ utilization' = utilization - tcb[t].prev_u
  /\ UNCHANGED <<pool, containers, curr, ticks, missed_deadlines, frame, control>>

SuspendableAnytime(t, delay) ==  \* mutant: the release time is not compared
  /\ ~(tcb[t].status = "FINISHED" /\ tcb[t].periodicity = "APERIODIC")
  /\ tcb[t].owner \notin {"OUTGOING_THREADS", "INCOMING_THREADS"}

\* The two tests that make suspend_thread return SYS_ERROR
Suspendable(t, delay) ==
  /\ ~(tcb[t].status = "FINISHED" /\ tcb[t].periodicity = "APERIODIC")
  /\ tcb[t].owner \notin {"OUTGOING_THREADS", "INCOMING_THREADS"}
  /\ tcb[t].release_time < ticks + delay

PostponedSwapped(t, delay) ==  \* mutant: the remaining time is negated
  ticks + delay + (IF ticks >= tcb[t].deadline THEN tcb[t].period
                                               ELSE ticks - tcb[t].deadline)

\* The deadline after a suspension: a full period when the old one has passed,
\* else what was left of it.
Postponed(t, delay) ==
  ticks + delay + (IF ticks >= tcb[t].deadline THEN tcb[t].period
                                               ELSE tcb[t].deadline - ticks)

OwnerKept(owner) == owner  \* mutant: the tag is not updated

SuspendedOwner(owner) == IF owner = "DEAD_HEAP" THEN "REL_HEAP" ELSE owner

Suspend(t, delay) ==
  /\ tcb' = [tcb EXCEPT ![t] = [@ EXCEPT !.release_time = ticks + delay,
                                         !.deadline = Postponed(t, delay),
                                         !.owner = SuspendedOwner(tcb[t].owner)]]
  /\ CASE tcb[t].owner = "DEAD_HEAP" -> ToRelHeap(t, ticks + delay)
       [] tcb[t].owner = "REL_HEAP" ->
            /\ relHeap' = Rebalanced(relHeap, t, ticks + delay)
            /\ UNCHANGED deadHeap
       [] OTHER -> UNCHANGED <<deadHeap, relHeap>>

\* suspend_thread on a thread that is not the caller.  t = curr is the call
\* another core makes on the thread running here: no switch is forced.
SuspendOther(t, delay) ==
  /\ pc = "idle" /\ t \in Live /\ Suspendable(t, delay)
  /\ Suspend(t, delay)
  /\ UNCHANGED <<pool, fifo, cpu, frame, control>>

----------------------------------------------------------------------------
(* The three callers of next_up.                                           *)

StartNextUp(who) == pc' = "admit" /\ found' = FALSE /\ caller' = who

\* suspend_thread on the calling thread: its context is pushed on its stack
SuspendSelf(delay) ==
  /\ pc = "idle" /\ curr # Main /\ Suspendable(curr, delay)
  /\ Suspend(curr, delay)
  /\ frame' = [frame EXCEPT ![curr] = "saved"]
  /\ StartNextUp("suspend")
  /\ UNCHANGED <<pool, fifo, cpu>>

ThreadExit ==
  /\ pc = "idle" /\ curr # Main
  /\ tcb' = [tcb EXCEPT ![curr] = [@ EXCEPT !.status = "FINISHED"]]
  /\ frame' = [frame EXCEPT ![curr] = "none"]
  /\ StartNextUp("exit")
  /\ UNCHANGED <<pool, containers, cpu>>

\* update_utilization of the thread the tick interrupts.  u is the quotient of
\* its execution and inter-arrival averages, any value here.
UpdateUtilization(u) ==
  IF curr # Main /\ tcb[curr].periodicity = "PERIODIC"
  THEN /\ utilization' = utilization - tcb[curr].prev_u + u
       /\ tcb' = [tcb EXCEPT ![curr] = [@ EXCEPT !.prev_u = u]]
  ELSE UNCHANGED <<utilization, tcb>>

TickEntry ==
  /\ pc = "idle" /\ ticks < MaxTick
  /\ \E u \in Utils : UpdateUtilization(u)
  /\ ticks' = ticks + 1

NextThread ==
  /\ TickEntry
  /\ frame' = [frame EXCEPT ![curr] = "saved"]
  /\ StartNextUp("tick")
  /\ UNCHANGED <<pool, containers, curr, missed_deadlines>>

ForcedMainUnsaved == [frame EXCEPT ![Main] = "live"]  \* mutant: no SAVE_SYS_SP

ForcedMain == [frame EXCEPT ![curr] = "saved", ![Main] = "live"]

\* next_thread under MODE_TEST while the host's release is pending: main is
\* resumed without a scheduling decision.
NextThreadReleasePending ==
  /\ TickEntry
  /\ frame' = ForcedMain
  /\ curr' = Main
  /\ UNCHANGED <<pool, containers, missed_deadlines, control>>

----------------------------------------------------------------------------
(* next_up: admission of the incoming threads.                             *)

Goto(phase) == pc' = phase /\ UNCHANGED <<found, caller>>

Admit ==
  /\ pc = "admit" /\ fifo["INCOMING_THREADS"] # <<>>
  /\ LET t == Head(fifo["INCOMING_THREADS"])
         deadline == ticks + tcb[t].period
         persistent == tcb[t].periodicity = "PERSISTENT"
         owner == IF persistent THEN ClassOf(tcb[t].priority) ELSE "DEAD_HEAP"
     IN  /\ tcb' = [tcb EXCEPT ![t] = [@ EXCEPT !.deadline = deadline,
                                                !.release_time = ticks,
                                                !.dirty = FALSE,
                                                !.status = "PENDING",
                                                !.owner = owner]]
         /\ IF persistent
            THEN /\ fifo' = Moved("INCOMING_THREADS", owner)
                 /\ UNCHANGED deadHeap
            ELSE /\ fifo' = [fifo EXCEPT !["INCOMING_THREADS"] = Tail(@)]
                 /\ deadHeap' = Inserted(deadHeap, t, deadline)
  /\ UNCHANGED <<pool, relHeap, cpu, frame, control>>

AdmitDone ==
  /\ pc = "admit" /\ fifo["INCOMING_THREADS"] = <<>>
  /\ Goto("release")
  /\ UNCHANGED <<tcb, pool, containers, cpu, frame>>

(* Release: the head of the release heap, while its release time is due.   *)
DueEarly(t) == ticks + 1 >= tcb[t].release_time  \* mutant: off by one

Due(t) == ticks >= tcb[t].release_time

RenewedKey(t) == ticks + tcb[t].period  \* mutant: key from the release, not the deadline

DeadKey(t) == tcb[t].deadline

Release ==
  /\ pc = "release"
  /\ \E t \in Heads(relHeap) :
       /\ Due(t)
       /\ tcb' = [tcb EXCEPT ![t] = [@ EXCEPT !.owner = "DEAD_HEAP"]]
       /\ relHeap' = Removed(relHeap, t)
       /\ deadHeap' = Inserted(deadHeap, t, DeadKey(t))
  /\ UNCHANGED <<pool, fifo, cpu, frame, control>>

ReleaseDone ==
  /\ pc = "release"
  /\ relHeap = EmptyHeap \/ \E t \in Heads(relHeap) : ~Due(t)
  /\ Goto("edf")
  /\ UNCHANGED <<tcb, pool, containers, cpu, frame>>

(* EDF: finished heads are re-armed or retired until a runnable one shows. *)

\* the do-while of lines 165-168 leaves this deadline
IsNextDeadline(t, d) ==
  \E k \in 1 .. ticks + 1 :
    /\ d = tcb[t].deadline + k * tcb[t].period
    /\ d > ticks
    /\ k = 1 \/ d - tcb[t].period <= ticks

IsNextReleaseLate(t, d, r) ==  \* mutant: compared with the deadline itself
  \E k \in 1 .. d :
    /\ r = tcb[t].release_time + k * tcb[t].period
    /\ r >= d
    /\ k = 1 \/ r - tcb[t].period < d

\* and the one of lines 170-173 this release time
IsNextRelease(t, d, r) ==
  \E k \in 1 .. d :
    /\ r = tcb[t].release_time + k * tcb[t].period
    /\ r >= d - tcb[t].period
    /\ k = 1 \/ r - tcb[t].period < d - tcb[t].period

Horizon(t) == tcb[t].deadline + ticks + tcb[t].period

EdfRearm ==
  /\ pc = "edf"
  /\ \E t \in Heads(deadHeap) :
       /\ tcb[t].status = "FINISHED" /\ tcb[t].periodicity = "PERIODIC"
       /\ \E d, r \in 0 .. Horizon(t) :
            /\ IsNextDeadline(t, d) /\ IsNextRelease(t, d, r)
            /\ tcb' = [tcb EXCEPT ![t] =
                 [@ EXCEPT !.deadline = d, !.release_time = r, !.dirty = FALSE,
                           !.status = "PENDING",
                           !.owner = IF ticks < r THEN "REL_HEAP" ELSE tcb[t].owner]]
            /\ IF ticks < r
               THEN ToRelHeap(t, r)
               ELSE /\ deadHeap' = Rebalanced(deadHeap, t, d)
                    /\ UNCHANGED relHeap
  /\ UNCHANGED <<pool, fifo, cpu, frame, control>>

EdfRetire ==
  /\ pc = "edf"
  /\ \E t \in Heads(deadHeap) :
       /\ tcb[t].status = "FINISHED" /\ tcb[t].periodicity = "APERIODIC"
       /\ tcb' = [tcb EXCEPT ![t] = [@ EXCEPT !.owner = "OUTGOING_THREADS"]]
       /\ deadHeap' = Removed(deadHeap, t)
       /\ fifo' = Pushed("OUTGOING_THREADS", t)
  /\ UNCHANGED <<pool, relHeap, cpu, frame, control>>

Pick(t) == curr' = t /\ found' = TRUE /\ pc' = "reclaim" /\ UNCHANGED caller

MissedAgain(t) == ticks >= tcb[t].deadline  \* mutant: the mark is not looked at

Missed(t) == ticks >= tcb[t].deadline /\ ~tcb[t].dirty

EdfPick ==
  /\ pc = "edf"
  /\ \E t \in Heads(deadHeap) :
       /\ tcb[t].status # "FINISHED"
       /\ IF Missed(t)
          THEN /\ tcb' = [tcb EXCEPT ![t] = [@ EXCEPT !.dirty = TRUE]]
               /\ missed_deadlines' = missed_deadlines + 1
          ELSE UNCHANGED <<tcb, missed_deadlines>>
       /\ Pick(t)
  /\ UNCHANGED <<pool, containers, ticks, utilization, frame>>

EdfDone ==
  /\ pc = "edf" /\ deadHeap = EmptyHeap
  /\ Goto("FIFO_HIGH")
  /\ UNCHANGED <<tcb, pool, containers, cpu, frame>>

----------------------------------------------------------------------------
(* next_up: the round-robin classes.  The code repeats one block for each  *)
(* of the three FIFOs.                                                     *)

NextPhaseSwapped(c) ==  \* mutant: MED and LOW swapped
  CASE c = "FIFO_HIGH" -> "FIFO_LOW"
    [] c = "FIFO_LOW"  -> "FIFO_MED"
    [] c = "FIFO_MED"  -> "reclaim"

NextPhase(c) == CASE c = "FIFO_HIGH" -> "FIFO_MED"
                  [] c = "FIFO_MED"  -> "FIFO_LOW"
                  [] c = "FIFO_LOW"  -> "reclaim"

\* The head of the FIFO earns a tick.  Past the end of its window it opens a
\* new one, and goes to the back once it has used up a whole slice.
RrTurn(c) ==
  /\ pc = c /\ fifo[c] # <<>>
  /\ LET t == Head(fifo[c])
         landed == tcb[t].ticks_landed + 1
         expired == ticks >= tcb[t].deadline
         rotate == expired /\ Len(fifo[c]) > 1 /\ landed >= tcb[t].period
     IN  /\ tcb[t].status # "FINISHED"
         /\ tcb' = [tcb EXCEPT ![t] =
              [@ EXCEPT
                 !.ticks_landed = IF rotate THEN 0 ELSE landed,
                 !.release_time = IF expired THEN ticks ELSE tcb[t].release_time,
                 !.deadline = IF expired THEN ticks + tcb[t].period ELSE tcb[t].deadline]]
         /\ IF rotate
            THEN fifo' = Moved(c, c) /\ UNCHANGED <<curr, control>>
            ELSE Pick(t) /\ UNCHANGED fifo
  /\ UNCHANGED <<pool, deadHeap, relHeap, ticks, missed_deadlines, utilization, frame>>

BackOfTheFifo(c) == c  \* mutant: a finished thread is rotated

RetireTo(c) == "OUTGOING_THREADS"

\* A finished head moves to the outgoing FIFO (its owner tag is left alone).
RrRetire(c) ==
  /\ pc = c /\ fifo[c] # <<>>
  /\ tcb[Head(fifo[c])].status = "FINISHED"
  /\ fifo' = Moved(c, RetireTo(c))
  /\ UNCHANGED <<tcb, pool, deadHeap, relHeap, cpu, frame, control>>

RrDone(c) ==
  /\ pc = c /\ fifo[c] = <<>>
  /\ Goto(NextPhase(c))
  /\ UNCHANGED <<tcb, pool, containers, cpu, frame>>

RoundRobin(c) == RrTurn(c) \/ RrRetire(c) \/ RrDone(c)

HighFifo == RoundRobin("FIFO_HIGH")
MedFifo == RoundRobin("FIFO_MED")
LowFifo == RoundRobin("FIFO_LOW")

----------------------------------------------------------------------------
(* next_up: reclaiming the outgoing threads, only if the allocator's mutex *)
(* can be had at once.                                                     *)

AllocatorTaken == pc = "reclaim" /\ fifo["OUTGOING_THREADS"] # <<>> /\ Goto("free")
NothingToFree == pc = "free" /\ fifo["OUTGOING_THREADS"] = <<>> /\ Goto("dispatch")

\* nothing is outgoing, or somebody else holds g_allocator_mutex
ReclaimSkipped == pc = "reclaim" /\ Goto("dispatch")

ReclaimStep ==
  /\ AllocatorTaken \/ ReclaimSkipped \/ NothingToFree
  /\ UNCHANGED <<tcb, pool, containers, cpu, frame>>

Reclaim ==
  /\ pc = "free" /\ fifo["OUTGOING_THREADS"] # <<>>
  /\ LET t == Head(fifo["OUTGOING_THREADS"])
     IN  /\ fifo' = [fifo EXCEPT !["OUTGOING_THREADS"] = Tail(@)]
         /\ utilization' = utilization - tcb[t].prev_u
         /\ tcb' = [tcb EXCEPT ![t] = Blank]
         /\ frame' = [frame EXCEPT ![t] = "none"]
         /\ pool' = pool \cup {t}
  /\ UNCHANGED <<deadHeap, relHeap, curr, ticks, missed_deadlines, control>>

----------------------------------------------------------------------------
(* The end of the three callers: the context of the chosen thread.         *)

ChosenStays == curr  \* mutant: no fall back to main

Chosen == IF found THEN curr ELSE Main

ChosenStatus == IF Chosen = Main THEN "RUNNING" ELSE tcb[Chosen].status

\* The tick and thread_exit forge a first frame for a PENDING thread.
PrimeThread ==
  /\ caller # "suspend" /\ ChosenStatus = "PENDING"
  /\ tcb' = [tcb EXCEPT ![Chosen] = [@ EXCEPT !.status = "RUNNING"]]
  /\ frame' = [frame EXCEPT ![Chosen] = "live"]
  /\ pc' = "idle"

\* A RUNNING thread is resumed from its saved frame; suspend_thread resumes
\* whatever was chosen that way.  Popping a frame that is not there leaves
\* the core with a wild pc.
ResumeThread ==
  /\ caller = "suspend" \/ ChosenStatus = "RUNNING"
  /\ IF frame[Chosen] = "saved"
     THEN frame' = [frame EXCEPT ![Chosen] = "live"] /\ pc' = "idle"
     ELSE UNCHANGED frame /\ pc' = "fault"
  /\ UNCHANGED tcb

Dispatch ==
  /\ pc = "dispatch"
  /\ PrimeThread \/ ResumeThread
  /\ curr' = Chosen /\ found' = FALSE
  /\ UNCHANGED <<pool, containers, ticks, missed_deadlines, utilization, caller>>

\* fault_halt: the core spins for ever
FaultHalt == pc = "fault" /\ UNCHANGED vars

----------------------------------------------------------------------------
Api ==
  \/ \E t \in Threads : EnqueueNewThread(t) \/ EnqueueNewPersistentThread(t) \/ KillThread(t)
  \/ \E t \in Threads, delay \in Delays : SuspendOther(t, delay)

Enter ==
  \/ NextThread \/ NextThreadReleasePending \/ ThreadExit
  \/ \E delay \in Delays : SuspendSelf(delay)

NextUp ==
  \/ Admit \/ AdmitDone \/ Release \/ ReleaseDone
  \/ EdfRearm \/ EdfRetire \/ EdfPick \/ EdfDone
  \/ HighFifo \/ MedFifo \/ LowFifo
  \/ ReclaimStep \/ Reclaim \/ Dispatch

Next == Api \/ Enter \/ NextUp \/ FaultHalt

Spec == Init /\ [][Next]_vars

\* next_up runs with the mutex held and the tick masked or refused: nothing
\* but its own next step can happen, and the processor takes it.
FairSpec == Spec /\ WF_vars(NextUp)
=============================================================================
