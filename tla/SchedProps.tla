----------------------------- MODULE SchedProps -----------------------------
(***************************************************************************)
(* What the scheduler of one core promises, over the state of Sched.  The  *)
(* last section states what comments and documents of the repository say   *)
(* that the code does not do.                                              *)
(***************************************************************************)
EXTENDS Sched

TypeOK ==
  /\ tcb \in [Threads -> Tcb]
  /\ pool \subseteq Threads
  /\ fifo \in [Queues -> Seq(Threads)]
  /\ DOMAIN deadHeap \subseteq Threads /\ deadHeap \in [DOMAIN deadHeap -> Nat]
  /\ DOMAIN relHeap \subseteq Threads /\ relHeap \in [DOMAIN relHeap -> Nat]
  /\ curr \in Threads \cup {Main}
  /\ ticks \in Nat /\ missed_deadlines \in Nat /\ utilization \in Int
  /\ frame \in [Threads \cup {Main} -> Frames]
  /\ pc \in Phases /\ found \in BOOLEAN /\ caller \in {"tick", "exit", "suspend"}

----------------------------------------------------------------------------
(* Where a thread is.                                                      *)

InQueue(t, q) == \E i \in DOMAIN fifo[q] : fifo[q][i] = t
Queued(t) == \E q \in Queues : InQueue(t, q)
Heaped(t) == t \in DOMAIN deadHeap \/ t \in DOMAIN relHeap

\* Admitted threads have left the incoming FIFO: their times are meaningful.
Admitted(t) == t \in Live /\ ~InQueue(t, "INCOMING_THREADS")

\* The EDF and round-robin work of the core that could run now
Runnable(c) == {t \in Threads : InQueue(t, c) /\ tcb[t].status # "FINISHED"}

\* A thread is never in two containers, nor twice in one FIFO, nor freed while
\* some container still points at it: next_up, suspend_thread and the add_*
\* calls hand the same thread_t from container to container.
NoSharing ==
  /\ \A q1, q2 \in Queues : \A i \in DOMAIN fifo[q1], j \in DOMAIN fifo[q2] :
       fifo[q1][i] = fifo[q2][j] => q1 = q2 /\ i = j
  /\ \A t \in Threads : Queued(t) => t \in Live /\ ~Heaped(t)
  /\ \A t \in Threads : Heaped(t) => t \in Live
  /\ DOMAIN deadHeap \cap DOMAIN relHeap = {}

\* No live thread falls out of every container: it would never run again and
\* never be freed.
NothingLost == \A t \in Live : Queued(t) \/ Heaped(t)

\* suspend_thread chooses the heap operation by md.owner alone.  The tag names
\* the container of the thread, with two exceptions: kill_thread tags a thread
\* OUTGOING_THREADS wherever it is, and a finished round-robin thread keeps the
\* tag of its class in the outgoing FIFO.
OwnerIsContainer ==
  \A t \in Live :
    LET owner == tcb[t].owner
    IN  CASE owner = "DEAD_HEAP" -> t \in DOMAIN deadHeap
          [] owner = "REL_HEAP"  -> t \in DOMAIN relHeap
          [] owner = "INCOMING_THREADS" -> InQueue(t, owner)
          [] owner = "OUTGOING_THREADS" ->
               tcb[t].status = "FINISHED" /\ tcb[t].periodicity = "APERIODIC"
          [] OTHER ->
               \/ InQueue(t, owner)
               \/ InQueue(t, "OUTGOING_THREADS") /\ tcb[t].status = "FINISHED"

\* The core never executes a thread_t that reclaim has handed back to kFree.
CurrentIsLive == pc = "idle" => curr \in Live \cup {Main}

\* The load the balancer reads is the sum over the live threads, however kills,
\* updates and reclaims interleave; an imbalance would wrap the unsigned field.
UtilizationIsSum ==
  utilization = MapThenSumSet(LAMBDA t : tcb[t].prev_u, Threads)

----------------------------------------------------------------------------
(* Time.                                                                   *)

\* Only released threads are in the heap next_up picks from: no EDF thread runs
\* before its release time, suspended ones included.
NeverBeforeRelease == \A t \in DOMAIN deadHeap : tcb[t].release_time <= ticks

\* The key of a job that was re-armed in place, alone in the deadline heap: a
\* deadline of an earlier job of the thread, which has passed.
Overrun(t) == deadHeap[t] <= ticks /\ deadHeap[t] < tcb[t].deadline

\* balance_node on a heap of one leaves a stale key, and a thread with one may go
\* ahead of a more urgent one (EarliestDeadlineFirst fails).  The damage ends
\* there: the heap puts a later deadline first only for a thread whose key is
\* stale because it overran, whatever suspensions moved the deadlines.
EdfUnlessOverrun ==
  \A s, t \in DOMAIN deadHeap :
    deadHeap[s] <= deadHeap[t] => tcb[s].deadline <= tcb[t].deadline \/ Overrun(s)

\* Suspensions and re-arming leave every job at least one tick between its
\* release and its deadline.
WindowOpen == \A t \in Threads : Admitted(t) => tcb[t].release_time < tcb[t].deadline

\* An EDF thread that executes at or past its deadline carries the mark.
LateJobMarked ==
  (pc = "idle" /\ curr \in DOMAIN deadHeap /\ tcb[curr].deadline <= ticks)
    => tcb[curr].dirty

Marked(t) == ~tcb[t].dirty /\ tcb'[t].dirty
Unmarked(t) == tcb[t].dirty /\ ~tcb'[t].dirty

\* missed_deadlines counts late jobs, each once: it rises by one when a thread is
\* marked and never else, only a job that gets the core late is marked, one
\* that executes late always is, and the mark goes only when a job starts (the
\* thread is admitted or re-armed) or the block is freed.  It does not count
\* deadlines: suspend_thread gives a job a later deadline and leaves the mark,
\* so the job counts once even if it misses both.
LateJobsCountedOnce ==
  [][/\ missed_deadlines' =
          missed_deadlines + (IF \E t \in Live : Marked(t) THEN 1 ELSE 0)
     /\ \A t \in Live :
          /\ Marked(t) => curr' = t /\ t \in DOMAIN deadHeap /\ tcb[t].deadline <= ticks
          /\ Unmarked(t) => \/ t \in pool'
                            \/ InQueue(t, "INCOMING_THREADS")
                            \/ tcb[t].status = "FINISHED" /\ tcb'[t].status = "PENDING"
     /\ LateJobMarked]_vars

\* No step, of whatever caller, pulls an admitted thread's release or deadline
\* back in time.
TimesMonotone ==
  [][\A t \in Threads :
       Admitted(t) /\ Admitted(t)' =>
         /\ tcb[t].release_time <= tcb'[t].release_time
         /\ tcb[t].deadline <= tcb'[t].deadline]_vars

----------------------------------------------------------------------------
(* The switch.                                                             *)

\* Every RUNNING thread but the one executing has a saved context to resume
\* from, whichever of the three ways of losing the core it took.
RunningHasFrame ==
  \A t \in Live :
    tcb[t].status = "RUNNING" /\ pc # "fault" =>
      frame[t] = IF pc = "idle" /\ t = curr THEN "live" ELSE "saved"

Rank == [c \in Classes |-> CASE c = "FIFO_HIGH" -> 3
                             [] c = "FIFO_MED"  -> 2
                             [] c = "FIFO_LOW"  -> 1]

\* A thread before t in the release heap whose key has come and whose release
\* has not: a suspension moved it while it was alone there, and balance_node left
\* the key.
Hidden(t) == \E h \in DOMAIN relHeap : relHeap[h] <= relHeap[t] /\ relHeap[h] <= ticks /\ ~Due(h)

\* A round-robin thread is chosen only when no EDF thread is in the deadline heap
\* and no higher class has a runnable thread, main only when nothing is runnable.
\* Every due thread was moved to the deadline heap first, but for those hidden
\* behind a stale key, which such a choice overlooks: writeup.md step 4 says that
\* releasable threads are always seen the first cycle they are.
StrictClasses ==
  pc = "dispatch" =>
    /\ \A t \in DOMAIN relHeap : Due(t) => Hidden(t)
    /\ ~(found /\ curr \in DOMAIN deadHeap) => DOMAIN deadHeap = {}
    /\ \A c \in Classes :
         found /\ InQueue(curr, c) =>
           \A d \in Classes : Rank[d] > Rank[c] => Runnable(d) = {}
    /\ ~found => \A c \in Classes : Runnable(c) = {}

\* next_up runs with the mutex held and interrupts off: its loops, which rotate
\* FIFOs and re-arm heap heads in place, always come to an end.
NextUpEnds == (pc # "idle") ~> (pc \in {"idle", "fault"})

----------------------------------------------------------------------------
(* Said of the program, and not so.                                        *)

\* writeup.md step 5: the thread taken from the deadline heap has the earliest
\* deadline of the released threads.
EarliestDeadlineFirst ==
  pc = "dispatch" /\ found /\ curr \in DOMAIN deadHeap =>
    \A t \in DOMAIN deadHeap : tcb[curr].deadline <= tcb[t].deadline

\* The assertions of next_thread and next_up: a thread never executes with its
\* sp outside its stack, where popping a frame that was never pushed puts it.
ActiveSpInStack == pc # "fault"

\* suspend_thread's comment: a FINISHED APERIODIC thread will not run again.
KilledNeverRevived ==
  [][\A t \in Threads :
       tcb[t].status = "FINISHED" /\ tcb[t].periodicity = "APERIODIC"
         => tcb'[t].status = "FINISHED" \/ t \in pool']_vars
=============================================================================
