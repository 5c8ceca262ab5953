---------------------------- MODULE SchedSwitch ----------------------------
(***************************************************************************)
(* What the switch relies on, proved: the context of every running thread, *)
(* and the priority between the classes.  And what it accounts: the late   *)
(* jobs, each counted once, and the load of the core, a sum over its       *)
(* threads.                                                                *)
(***************************************************************************)
EXTENDS SchedInvariant, FiniteSetTheorems, WellFoundedInduction

\* Only ticks, re-arming, suspension, admission and new windows move a deadline,
\* none while next_up has a thread chosen.  So a chosen or executing thread past
\* its deadline has its mark.
LateMarked ==
  (found \/ pc = "idle") /\ curr \in DOMAIN deadHeap /\ tcb[curr].deadline <= ticks
    => tcb[curr].dirty

\* The phases of next_up leave their container empty behind them.
Passed(c) ==
  CASE c = "FIFO_HIGH" -> {"FIFO_MED", "FIFO_LOW"}
    [] c = "FIFO_MED"  -> {"FIFO_LOW"}
    [] c = "FIFO_LOW"  -> {}

PhasesDone ==
  /\ pc \in Classes => DOMAIN deadHeap = {} /\ \A c \in Classes : pc \in Passed(c) => fifo[c] = <<>>
  /\ found /\ curr \notin DOMAIN deadHeap =>
       /\ DOMAIN deadHeap = {}
       /\ \E c \in Classes :
            In(fifo, curr, c) /\ \A d \in Classes : c \in Passed(d) => fifo[d] = <<>>
  /\ pc \in {"reclaim", "free", "dispatch"} /\ ~found =>
       DOMAIN deadHeap = {} /\ \A c \in Classes : fifo[c] = <<>>

\* The phases after the release leave no due thread behind but a hidden one.
PastRelease == {"edf", "reclaim", "free", "dispatch"} \cup Classes

ReleasesDone == pc \in PastRelease => \A t \in DOMAIN relHeap : Due(t) => Hidden(t)

----------------------------------------------------------------------------
(* Contexts.                                                               *)

\* Steps that save and restore nothing keep what they find.
LEMMA KeepContexts ==
  ASSUME RunningHasFrame, frame' = frame, pc # "fault",
         \/ pc' = pc /\ curr' = curr
         \/ pc # "idle" /\ pc' # "idle",
         \A t \in Threads \ pool' :
           tcb'[t].status = "RUNNING" => t \notin pool /\ tcb[t].status = "RUNNING"
  PROVE  RunningHasFrame'
BY DEF RunningHasFrame, Live

LEMMA ApiContexts ==
  ASSUME IInv, Api, RunningHasFrame
  PROVE  RunningHasFrame'
<1>1. pc = "idle" /\ pc' = pc /\ curr' = curr /\ frame' = frame
  BY DEF Api, EnqueueNewThread, EnqueueNewPersistentThread, Enqueue, KillThread,
         SuspendOther, cpu, control
<1>2. tcb \in [Threads -> Tcb]
  BY Typing DEF IInv
<1>3. \A t \in Threads \ pool' :
        tcb'[t].status = "RUNNING" => t \notin pool /\ tcb[t].status = "RUNNING"
  <2>1. ASSUME NEW t \in Threads, EnqueueNewThread(t) \/ EnqueueNewPersistentThread(t)
        PROVE  \A s \in Threads \ pool' :
                 tcb'[s].status = "RUNNING" => s \notin pool /\ tcb[s].status = "RUNNING"
    <3>1. PICK new : Enqueue(t, new) /\ new.status = "PENDING"
      <4>1. CASE EnqueueNewThread(t)
        <5>1. PICK p \in Periods, kind \in Kinds :
                Enqueue(t, [Blank EXCEPT !.period = p, !.periodicity = kind])
          BY <4>1 DEF EnqueueNewThread
        <5>2. [Blank EXCEPT !.period = p, !.periodicity = kind].status = "PENDING"
          BY DEF Blank
        <5> QED
          BY <5>1, <5>2
      <4>2. CASE EnqueueNewPersistentThread(t)
        <5>1. PICK prio \in Priorities :
                Enqueue(t, [Blank EXCEPT !.period = PERSISTENT_SLICE_TICKS,
                                         !.periodicity = "PERSISTENT", !.priority = prio])
          BY <4>2 DEF EnqueueNewPersistentThread
        <5>2. [Blank EXCEPT !.period = PERSISTENT_SLICE_TICKS,
                            !.periodicity = "PERSISTENT", !.priority = prio].status = "PENDING"
          BY DEF Blank
        <5> QED
          BY <5>1, <5>2
      <4> QED
        BY <2>1, <4>1, <4>2
    <3>2. tcb' = [tcb EXCEPT ![t] = new] /\ pool' = pool \ {t} /\ t \in pool
      BY <3>1 DEF Enqueue
    <3> QED
      BY <1>2, <3>1, <3>2
  <2>2. ASSUME NEW t \in Threads, KillThread(t)
        PROVE  \A s \in Threads \ pool' :
                 tcb'[s].status = "RUNNING" => s \notin pool /\ tcb[s].status = "RUNNING"
    <3>1. tcb' = [tcb EXCEPT ![t] = Killed(tcb[t])] /\ pool' = pool
      BY <2>2 DEF KillThread
    <3>2. Killed(tcb[t]).status = "FINISHED"
      BY <1>2 DEF Killed, Tcb
    <3> QED
      BY <1>2, <3>1, <3>2
  <2>3. ASSUME NEW t \in Threads, NEW delay \in Delays, SuspendOther(t, delay)
        PROVE  \A s \in Threads \ pool' :
                 tcb'[s].status = "RUNNING" => s \notin pool /\ tcb[s].status = "RUNNING"
    <3>1. Suspend(t, delay) /\ pool' = pool
      BY <2>3 DEF SuspendOther
    <3>2. tcb'[t].status = tcb[t].status /\ \A s \in Threads : s # t => tcb'[s] = tcb[s]
      BY <1>2, <3>1, SuspendTcb DEF IInv, Tcb
    <3> QED
      BY <3>1, <3>2
  <2> QED
    BY <2>1, <2>2, <2>3 DEF Api
<1> QED
  BY <1>1, <1>3, KeepContexts

LEMMA EnterContexts ==
  ASSUME IInv, Enter, RunningHasFrame
  PROVE  RunningHasFrame'
<1>1. /\ tcb \in [Threads -> Tcb] /\ frame \in [Threads \cup {Main} -> Frames]
      /\ curr \in Threads \cup {Main} /\ Main \notin Threads
  BY SchedAssumption DEF IInv, TypeOK
<1>2. /\ pool' = pool /\ pc = "idle"
  BY DEF Enter, NextThread, NextThreadReleasePending, TickEntry, ThreadExit, SuspendSelf
<1>3. ASSUME NEW t \in Threads, t \notin pool, t # curr, tcb[t].status = "RUNNING"
      PROVE  frame[t] = "saved"
  BY <1>2, <1>3 DEF RunningHasFrame, Live
<1>4. CASE NextThread \/ NextThreadReleasePending
  <2>1. PICK u \in Utils : UpdateUtilization(u)
    BY <1>4 DEF NextThread, NextThreadReleasePending, TickEntry
  <2>2. tcb' = tcb \/ tcb' = [tcb EXCEPT ![curr] = [tcb[curr] EXCEPT !.prev_u = u]]
    BY <2>1 DEF UpdateUtilization
  <2>3. \A t \in Threads : tcb'[t].status = tcb[t].status
    BY <1>1, <2>2 DEF Tcb
  <2>4. \A t \in Threads : frame'[t] = IF t = curr THEN "saved" ELSE frame[t]
    BY <1>1, <1>4 DEF NextThread, NextThreadReleasePending, ForcedMain
  <2>5. pc' = "admit" \/ curr' = Main
    BY <1>4 DEF NextThread, NextThreadReleasePending, StartNextUp
  <2> QED
    BY <1>1, <1>2, <1>3, <2>3, <2>4, <2>5 DEF RunningHasFrame, Live
<1>5. CASE ThreadExit
  <2>1. /\ tcb' = [tcb EXCEPT ![curr] = [tcb[curr] EXCEPT !.status = "FINISHED"]]
        /\ frame' = [frame EXCEPT ![curr] = "none"] /\ pc' = "admit" /\ curr \in Threads
    BY <1>1, <1>5 DEF ThreadExit, StartNextUp
  <2>2. tcb'[curr].status = "FINISHED" /\ \A t \in Threads : t # curr => tcb'[t] = tcb[t]
    BY <1>1, <2>1 DEF Tcb
  <2> QED
    BY <1>1, <1>2, <1>3, <2>1, <2>2 DEF RunningHasFrame, Live
<1>6. ASSUME NEW delay \in Delays, SuspendSelf(delay) PROVE RunningHasFrame'
  <2>1. /\ Suspend(curr, delay) /\ frame' = [frame EXCEPT ![curr] = "saved"]
        /\ pc' = "admit" /\ curr \in Threads
    BY <1>1, <1>6 DEF SuspendSelf, StartNextUp
  <2>2. tcb'[curr].status = tcb[curr].status /\ \A t \in Threads : t # curr => tcb'[t] = tcb[t]
    BY <1>1, <2>1, SuspendTcb DEF IInv, Tcb
  <2> QED
    BY <1>1, <1>2, <1>3, <2>1, <2>2 DEF RunningHasFrame, Live
<1> QED
  BY <1>4, <1>5, <1>6 DEF Enter

LEMMA NextUpContexts ==
  ASSUME IInv, NextUp, RunningHasFrame
  PROVE  RunningHasFrame'
<1>1. TypeOK /\ tcb \in [Threads -> Tcb] /\ frame \in [Threads \cup {Main} -> Frames]
  BY DEF IInv, TypeOK
<1>2. ASSUME \A t \in Threads : tcb'[t].status \in {tcb[t].status, "PENDING"},
             pool' = pool, frame' = frame, pc \notin {"idle", "fault"}, pc' # "idle"
      PROVE  RunningHasFrame'
  BY <1>2, KeepContexts
<1>3. CASE Admit \/ Release \/ EdfRearm \/ EdfRetire \/ EdfPick
  <2>1. \A t \in Threads : tcb'[t].status \in {tcb[t].status, "PENDING"}
    <3>1. CASE Admit
      <4>1. PICK t \in Threads : /\ \A s \in Threads : s # t => tcb'[s] = tcb[s]
                                 /\ tcb'[t].status = "PENDING"
        BY <1>1, <3>1, AdmitEffect
      <4> QED
        BY <4>1
    <3>2. CASE Release
      <4>1. PICK t \in Threads : /\ \A s \in Threads : s # t => tcb'[s] = tcb[s]
                                 /\ tcb'[t] = [tcb[t] EXCEPT !.owner = "DEAD_HEAP"]
        BY <1>1, <3>2, ReleaseEffect
      <4> QED
        BY <1>1, <4>1 DEF Tcb
    <3>3. CASE EdfRearm
      <4>1. PICK t \in Threads : /\ \A s \in Threads : s # t => tcb'[s] = tcb[s]
                                 /\ tcb'[t].status = "PENDING"
        BY <1>1, <3>3, EdfRearmEffect
      <4> QED
        BY <4>1
    <3>4. CASE EdfRetire
      <4>1. PICK t \in Threads : /\ \A s \in Threads : s # t => tcb'[s] = tcb[s]
                                 /\ tcb'[t] = [tcb[t] EXCEPT !.owner = "OUTGOING_THREADS"]
        BY <1>1, <3>4, EdfRetireEffect
      <4> QED
        BY <1>1, <4>1 DEF Tcb
    <3>5. CASE EdfPick
      <4>1. PICK t \in Threads : /\ \A s \in Threads : s # t => tcb'[s] = tcb[s]
                                 /\ tcb'[t] \in {tcb[t], [tcb[t] EXCEPT !.dirty = TRUE]}
        BY <1>1, <3>5, EdfPickEffect
      <4> QED
        BY <1>1, <4>1 DEF Tcb
    <3> QED
      BY <1>3, <3>1, <3>2, <3>3, <3>4, <3>5
  <2>2. /\ pool' = pool /\ frame' = frame /\ pc \in {"admit", "release", "edf"}
        /\ pc' # "idle"
    BY <1>3 DEF Admit, Release, EdfRearm, EdfRetire, EdfPick, Pick, control
  <2> QED
    BY <1>2, <2>1, <2>2
<1>4. CASE AdmitDone \/ ReleaseDone \/ EdfDone \/ ReclaimStep
  <2>1. /\ tcb' = tcb /\ pool' = pool /\ frame' = frame
        /\ pc \in {"admit", "release", "edf", "reclaim", "free"} /\ pc' # "idle"
    BY <1>4 DEF AdmitDone, ReleaseDone, EdfDone, ReclaimStep, AllocatorTaken, NothingToFree,
                ReclaimSkipped, Goto
  <2> QED
    BY <1>2, <2>1
<1>5. ASSUME NEW c \in Classes, RoundRobin(c) PROVE RunningHasFrame'
  <2>1. pool' = pool /\ frame' = frame /\ pc = c /\ c \notin {"idle", "fault"}
    BY <1>5 DEF RoundRobin, RrTurn, RrRetire, RrDone, Classes
  <2>2. pc' # "idle"
    BY <1>5, <2>1 DEF RoundRobin, RrTurn, RrRetire, RrDone, Pick, Goto, NextPhase, Classes,
                      control
  <2>3. \A t \in Threads : tcb'[t].status = tcb[t].status
    <3>1. CASE RrTurn(c)
      BY <1>1, <3>1, RrTurnEffect
    <3>2. CASE RrRetire(c) \/ RrDone(c)
      BY <3>2 DEF RrRetire, RrDone
    <3> QED
      BY <1>5, <3>1, <3>2 DEF RoundRobin
  <2> QED
    BY <1>2, <2>1, <2>2, <2>3
<1>6. CASE Reclaim
  <2>1. PICK t \in Threads :
          /\ \A s \in Threads : s # t => tcb'[s] = tcb[s]
          /\ pool' = pool \cup {t} /\ frame' = [frame EXCEPT ![t] = "none"]
    BY <1>1, <1>6, ReclaimEffect
  <2>2. pc = "free" /\ pc' = pc
    BY <1>6 DEF Reclaim, control
  <2> QED
    BY <1>1, <2>1, <2>2 DEF RunningHasFrame, Live
<1>7. CASE Dispatch
  <2>1. pc = "dispatch" /\ pool' = pool /\ curr' = Chosen
    BY <1>7 DEF Dispatch
  <2>2. \A t \in Threads \ pool : tcb[t].status = "RUNNING" => frame[t] = "saved"
    BY <2>1 DEF RunningHasFrame, Live
  <2>3. \A t \in Threads : t # Chosen => tcb'[t] = tcb[t]
    BY <1>1, <1>7, DispatchEffect
  <2>4. \/ pc' = "fault"
        \/ frame' = [frame EXCEPT ![Chosen] = "live"] /\ pc' = "idle"
    BY <1>1, <1>7, DispatchEffect
  <2>5. ASSUME pc' # "fault", NEW t \in Threads, t \notin pool, tcb'[t].status = "RUNNING"
        PROVE  frame'[t] = IF t = Chosen THEN "live" ELSE "saved"
    BY <1>1, <2>2, <2>3, <2>4, <2>5
  <2> QED
    BY <2>1, <2>4, <2>5 DEF RunningHasFrame, Live
<1> QED
  BY <1>3, <1>4, <1>5, <1>6, <1>7
  DEF NextUp, HighFifo, MedFifo, LowFifo, Classes

\* Every RUNNING thread that is not executing has a saved context.
THEOREM ContextsKept == Spec => []RunningHasFrame
<1>1. Init => RunningHasFrame
  BY DEF Init, RunningHasFrame, Live
<1>2. ASSUME IInv, RunningHasFrame, [Next]_vars PROVE RunningHasFrame'
  <2>1. CASE UNCHANGED vars
    BY <1>2, <2>1 DEF vars, cpu, control, RunningHasFrame, Live
  <2> QED
    BY <1>2, <2>1, ApiContexts, EnterContexts, NextUpContexts DEF Next, FaultHalt
<1> QED
  BY Invariant, <1>1, <1>2, PTL DEF Spec

----------------------------------------------------------------------------
(* Missed deadlines.                                                       *)

\* The executing or chosen thread keeps its deadline and its mark, or leaves the
\* deadline heap, or is no longer executing.
LEMMA KeepMark ==
  ASSUME LateMarked, found' = found, pc' = pc, curr' = curr, ticks' = ticks,
         curr \in DOMAIN deadHeap' =>
           /\ curr \in DOMAIN deadHeap
           /\ tcb'[curr].deadline = tcb[curr].deadline
           /\ tcb'[curr].dirty = tcb[curr].dirty
  PROVE  LateMarked'
BY DEF LateMarked

LEMMA ApiMarks ==
  ASSUME IInv, Api, LateMarked
  PROVE  LateMarked'
<1>1. found' = found /\ pc' = pc /\ curr' = curr /\ ticks' = ticks
  BY DEF Api, EnqueueNewThread, EnqueueNewPersistentThread, Enqueue, KillThread,
         SuspendOther, cpu, control
<1>2. tcb \in [Threads -> Tcb] /\ DOMAIN deadHeap \subseteq Threads
  BY Typing DEF IInv, IsHeap
<1>3. ASSUME NEW t \in Threads, EnqueueNewThread(t) \/ EnqueueNewPersistentThread(t)
      PROVE  LateMarked'
  <2>1. PICK new : Enqueue(t, new)
    BY <1>3 DEF EnqueueNewThread, EnqueueNewPersistentThread
  <2>2. tcb' = [tcb EXCEPT ![t] = new] /\ t \in pool /\ deadHeap' = deadHeap
    BY <2>1 DEF Enqueue
  <2>3. t \notin DOMAIN deadHeap
    BY <2>2 DEF IInv, Place
  <2>4. \A s \in DOMAIN deadHeap : tcb'[s] = tcb[s]
    BY <1>2, <2>2, <2>3
  <2> QED
    BY <1>1, <2>2, <2>4, KeepMark
<1>4. ASSUME NEW t \in Threads, KillThread(t) PROVE LateMarked'
  <2>1. tcb' = [tcb EXCEPT ![t] = Killed(tcb[t])] /\ deadHeap' = deadHeap
    BY <1>4 DEF KillThread, containers
  <2>2. \A s \in Threads : /\ tcb'[s].deadline = tcb[s].deadline
                          /\ tcb'[s].dirty = tcb[s].dirty
    BY <1>2, <2>1 DEF Killed, Tcb
  <2> QED
    BY <1>1, <1>2, <2>1, <2>2, KeepMark
<1>5. ASSUME NEW t \in Threads, NEW delay \in Delays, SuspendOther(t, delay)
      PROVE  LateMarked'
  <2>1. Suspend(t, delay) /\ Suspendable(t, delay)
    BY <1>5 DEF SuspendOther
  <2>2. \A s \in Threads : s # t => tcb'[s] = tcb[s]
    BY <2>1, SuspendTcb DEF IInv
  <2>3. t \notin DOMAIN deadHeap' /\ DOMAIN deadHeap' \subseteq DOMAIN deadHeap
    <3>1. CASE tcb[t].owner = "DEAD_HEAP"
      <4>1. deadHeap' = Removed(deadHeap, t)
        BY <2>1, <3>1 DEF Suspend, ToRelHeap
      <4> QED
        BY <4>1, RemovedLoses DEF HeapLoses
    <3>2. CASE tcb[t].owner # "DEAD_HEAP"
      <4>1. deadHeap' = deadHeap
        BY <2>1, <3>2 DEF Suspend
      <4>2. tcb[t].owner # "OUTGOING_THREADS"
        BY <2>1 DEF Suspendable
      <4> QED
        BY <3>2, <4>1, <4>2 DEF IInv, Place
    <3> QED
      BY <3>1, <3>2
  <2> QED
    BY <1>1, <1>2, <2>2, <2>3, KeepMark
<1> QED
  BY <1>3, <1>4, <1>5 DEF Api

LEMMA EnterMarks ==
  ASSUME IInv, Enter
  PROVE  LateMarked'
<1>1. \/ found' = FALSE /\ pc' = "admit"
      \/ curr' = Main /\ deadHeap' = deadHeap
  BY DEF Enter, NextThread, NextThreadReleasePending, ThreadExit, SuspendSelf, StartNextUp,
         containers
<1>2. DOMAIN deadHeap \subseteq Threads /\ Main \notin Threads
  BY Typing, SchedAssumption DEF IInv, IsHeap
<1> QED
  BY <1>1, <1>2 DEF LateMarked

LEMMA NextUpMarks ==
  ASSUME IInv, NextUp, LateMarked
  PROVE  LateMarked'
<1>0. /\ TypeOK /\ DOMAIN deadHeap \subseteq Threads /\ Main \notin Threads
      /\ tcb \in [Threads -> Tcb] /\ ticks \in Nat
      /\ found => pc \in {"reclaim", "free", "dispatch"}
  BY Typing, SchedAssumption DEF IInv, IsHeap, Current
<1>1. CASE AdmitDone \/ ReleaseDone \/ EdfDone \/ Admit \/ Release \/ EdfRearm \/ EdfRetire
  <2>1. found' = found /\ pc \in {"admit", "release", "edf"} /\ pc' # "idle"
    BY <1>1 DEF AdmitDone, ReleaseDone, EdfDone, Admit, Release, EdfRearm, EdfRetire, Goto,
                control
  <2> QED
    BY <1>0, <2>1 DEF LateMarked
<1>2. CASE EdfPick
  <2>1. PICK t \in Heads(deadHeap) :
          /\ IF Missed(t) THEN tcb' = [tcb EXCEPT ![t] = [tcb[t] EXCEPT !.dirty = TRUE]]
                          ELSE tcb' = tcb
          /\ Pick(t)
    BY <1>2 DEF EdfPick
  <2>2. t \in Threads /\ tcb[t] \in Tcb
    BY <1>0 DEF Heads
  <2>3. curr' = t /\ ticks' = ticks
    BY <1>2, <2>1 DEF Pick, EdfPick
  <2>4. tcb'[t].deadline = tcb[t].deadline /\ (Missed(t) => tcb'[t].dirty)
    BY <1>0, <2>1, <2>2 DEF Tcb
  <2>5. ~Missed(t) => tcb'[t] = tcb[t]
    BY <2>1
  <2>6. tcb[t].deadline \in Nat
    BY <2>2, TcbFields
  <2> QED
    BY <1>0, <2>3, <2>4, <2>5, <2>6 DEF LateMarked, Missed
<1>3. ASSUME NEW c \in Classes, RoundRobin(c) PROVE LateMarked'
  <2>1. pc = c /\ ~found /\ deadHeap' = deadHeap /\ c # "idle"
    BY <1>0, <1>3 DEF RoundRobin, RrTurn, RrRetire, RrDone, Classes, containers
  <2>2. CASE RrTurn(c)
    <3>1. PICK t \in Threads :
            /\ t = Head(fifo[c]) /\ fifo[c] # <<>>
            /\ UNCHANGED <<curr, control>> \/ Pick(t)
      BY <1>0, <2>2, RrTurnEffect
    <3>2. In(fifo, t, c)
      BY <3>1, IInvTyping, MovedFacts
    <3>3. t \notin DOMAIN deadHeap
      BY <3>2, IInvTyping DEF IInv, Place
    <3> QED
      BY <2>1, <3>1, <3>3 DEF LateMarked, Pick, control
  <2>3. CASE RrRetire(c)
    BY <2>1, <2>3 DEF RrRetire, LateMarked, control
  <2>4. CASE RrDone(c)
    <3>1. found' = found /\ pc' = NextPhase(c) /\ NextPhase(c) # "idle"
      BY <2>4 DEF RrDone, Goto, NextPhase, Classes
    <3> QED
      BY <2>1, <3>1 DEF LateMarked
  <2> QED
    BY <1>3, <2>2, <2>3, <2>4 DEF RoundRobin
<1>4. CASE ReclaimStep
  <2>1. /\ UNCHANGED <<found, curr, deadHeap, tcb, ticks>>
        /\ pc' # "idle"
    BY <1>4 DEF ReclaimStep, AllocatorTaken, ReclaimSkipped, NothingToFree, Goto, containers, cpu
  <2> QED
    BY <2>1 DEF LateMarked
<1>5. CASE Reclaim
  <2>1. PICK t \in Threads :
          /\ t = Head(fifo["OUTGOING_THREADS"]) /\ fifo["OUTGOING_THREADS"] # <<>>
          /\ \A s \in Threads : s # t => tcb'[s] = tcb[s]
    BY <1>0, <1>5, ReclaimEffect
  <2>2. PICK q \in Queues : q = "OUTGOING_THREADS"
    BY IInvTyping
  <2>3. In(fifo, t, q)
    BY <2>1, <2>2, IInvTyping, MovedFacts
  <2>4. t \notin DOMAIN deadHeap
    BY <2>3 DEF IInv, Place
  <2>5. UNCHANGED <<found, pc, curr, deadHeap, ticks>>
    BY <1>5 DEF Reclaim, control
  <2> QED
    BY <1>0, <2>1, <2>4, <2>5, KeepMark
<1>6. CASE Dispatch
  <2>1. /\ curr' = Chosen /\ deadHeap' = deadHeap /\ ticks' = ticks
    BY <1>6 DEF Dispatch, containers
  <2>2. \A s \in Threads : tcb'[s] \in {tcb[s], [tcb[s] EXCEPT !.status = "RUNNING"]}
    BY <1>0, <1>6, DispatchEffect
  <2>3. \A s \in Threads : /\ tcb'[s].deadline = tcb[s].deadline
                          /\ tcb'[s].dirty = tcb[s].dirty
    BY <1>0, <2>2 DEF Tcb
  <2>4. Chosen \in Threads => found /\ Chosen = curr
    BY <1>0 DEF Chosen
  <2> QED
    BY <1>0, <2>1, <2>3, <2>4 DEF LateMarked
<1> QED
  BY <1>1, <1>2, <1>3, <1>4, <1>5, <1>6
  DEF NextUp, HighFifo, MedFifo, LowFifo, Classes

\* What one step does to the count and to the marks of the live threads.
MarkGoesAtStart(t) ==
  \/ t \in pool'
  \/ InQueue(t, "INCOMING_THREADS")
  \/ tcb[t].status = "FINISHED" /\ tcb'[t].status = "PENDING"

Counted ==
  /\ missed_deadlines' = missed_deadlines + (IF \E t \in Live : Marked(t) THEN 1 ELSE 0)
  /\ \A t \in Live :
       /\ Marked(t) => curr' = t /\ t \in DOMAIN deadHeap /\ tcb[t].deadline <= ticks
       /\ Unmarked(t) => MarkGoesAtStart(t)

\* Steps that mark nobody do not count.
LEMMA NobodyMarked ==
  ASSUME missed_deadlines \in Nat, missed_deadlines' = missed_deadlines,
         \A t \in Live : ~Marked(t) /\ (Unmarked(t) => MarkGoesAtStart(t))
  PROVE  Counted
BY DEF Counted

LEMMA SameMark ==
  ASSUME NEW t, tcb'[t].dirty = tcb[t].dirty
  PROVE  ~Marked(t) /\ ~Unmarked(t)
BY Zenon DEF Marked, Unmarked

LEMMA SameMarks ==
  ASSUME missed_deadlines \in Nat, missed_deadlines' = missed_deadlines,
         \A t \in Live : tcb'[t].dirty = tcb[t].dirty
  PROVE  Counted
BY SameMark, NobodyMarked

\* One thread loses its mark, for a reason; the others keep theirs.
LEMMA OneUnmarked ==
  ASSUME missed_deadlines \in Nat, missed_deadlines' = missed_deadlines, NEW t \in Threads,
         ~tcb'[t].dirty, t \in Live => MarkGoesAtStart(t),
         \A s \in Threads : s # t => tcb'[s] = tcb[s]
  PROVE  Counted
<1>1. ~Marked(t)
  BY Zenon DEF Marked
<1>2. \A s \in Live : s # t => ~Marked(s) /\ ~Unmarked(s)
  BY SameMark DEF Live
<1> QED
  BY <1>1, <1>2, NobodyMarked

LEMMA ApiCounts ==
  ASSUME IInv, Api
  PROVE  Counted
<1>0. tcb \in [Threads -> Tcb] /\ missed_deadlines \in Nat /\ Live \subseteq Threads
  BY DEF IInv, TypeOK, Live
<1>1. ASSUME NEW t \in Threads, EnqueueNewThread(t) \/ EnqueueNewPersistentThread(t)
      PROVE  Counted
  <2>1. PICK new : Enqueue(t, new)
    BY <1>1 DEF EnqueueNewThread, EnqueueNewPersistentThread
  <2>2. tcb' = [tcb EXCEPT ![t] = new] /\ t \notin Live /\ missed_deadlines' = missed_deadlines
    BY <2>1 DEF Enqueue, Live, cpu
  <2>3. \A s \in Live : tcb'[s] = tcb[s]
    BY <1>0, <2>2
  <2> QED
    BY <1>0, <2>2, <2>3, SameMarks
<1>2. ASSUME NEW t \in Threads, KillThread(t) PROVE Counted
  <2>1. tcb' = [tcb EXCEPT ![t] = Killed(tcb[t])] /\ missed_deadlines' = missed_deadlines
    BY <1>2 DEF KillThread
  <2>2. \A s \in Threads : tcb'[s].dirty = tcb[s].dirty
    BY <1>0, <2>1 DEF Killed, Tcb
  <2> QED
    BY <1>0, <2>1, <2>2, SameMarks
<1>3. ASSUME NEW t \in Threads, NEW delay \in Delays, SuspendOther(t, delay) PROVE Counted
  <2>1. Suspend(t, delay) /\ missed_deadlines' = missed_deadlines
    BY <1>3 DEF SuspendOther, cpu
  <2>2. \A s \in Threads : tcb'[s].dirty = tcb[s].dirty
    BY <1>0, <2>1 DEF Suspend, Tcb
  <2> QED
    BY <1>0, <2>1, <2>2, SameMarks
<1> QED
  BY <1>1, <1>2, <1>3 DEF Api

LEMMA EnterCounts ==
  ASSUME IInv, Enter
  PROVE  Counted
<1>0. /\ tcb \in [Threads -> Tcb] /\ missed_deadlines \in Nat /\ Live \subseteq Threads
      /\ missed_deadlines' = missed_deadlines
  BY DEF IInv, TypeOK, Live, Enter, NextThread, NextThreadReleasePending, ThreadExit,
         SuspendSelf, cpu
<1>1. CASE NextThread \/ NextThreadReleasePending
  <2>1. PICK u \in Utils : UpdateUtilization(u)
    BY <1>1 DEF NextThread, NextThreadReleasePending, TickEntry
  <2>2. tcb' = tcb \/ tcb' = [tcb EXCEPT ![curr] = [tcb[curr] EXCEPT !.prev_u = u]]
    BY <2>1 DEF UpdateUtilization
  <2>3. \A t \in Threads : tcb'[t].dirty = tcb[t].dirty
    BY <1>0, <2>2 DEF Tcb
  <2> QED
    BY <1>0, <2>3, SameMarks
<1>2. CASE ThreadExit
  <2>1. tcb' = [tcb EXCEPT ![curr] = [tcb[curr] EXCEPT !.status = "FINISHED"]]
    BY <1>2 DEF ThreadExit
  <2>2. \A t \in Threads : tcb'[t].dirty = tcb[t].dirty
    BY <1>0, <2>1 DEF Tcb
  <2> QED
    BY <1>0, <2>2, SameMarks
<1>3. ASSUME NEW delay \in Delays, SuspendSelf(delay) PROVE Counted
  <2>1. Suspend(curr, delay)
    BY <1>3 DEF SuspendSelf
  <2>2. \A t \in Threads : tcb'[t].dirty = tcb[t].dirty
    BY <1>0, <2>1 DEF Suspend, Tcb
  <2> QED
    BY <1>0, <2>2, SameMarks
<1> QED
  BY <1>1, <1>2, <1>3 DEF Enter

LEMMA NextUpCounts ==
  ASSUME IInv, NextUp
  PROVE  Counted
<1>0. /\ TypeOK /\ tcb \in [Threads -> Tcb] /\ missed_deadlines \in Nat
      /\ Live \subseteq Threads
  BY DEF IInv, TypeOK, Live
<1>1. CASE AdmitDone \/ ReleaseDone \/ EdfDone \/ ReclaimStep
  BY <1>0, <1>1, SameMarks DEF AdmitDone, ReleaseDone, EdfDone, ReclaimStep, cpu
<1>2. CASE Admit
  <2>1. PICK t \in Threads :
          /\ t = Head(fifo["INCOMING_THREADS"]) /\ fifo["INCOMING_THREADS"] # <<>>
          /\ ~tcb'[t].dirty /\ \A s \in Threads : s # t => tcb'[s] = tcb[s]
    BY <1>0, <1>2, AdmitEffect
  <2>2. InQueue(t, "INCOMING_THREADS")
    BY <2>1, IInvTyping, PopFacts DEF In, InQueue
  <2> QED
    BY <1>0, <1>2, <2>1, <2>2, OneUnmarked DEF Admit, cpu, MarkGoesAtStart
<1>3. CASE Release
  <2>1. PICK t \in Threads : /\ \A s \in Threads : s # t => tcb'[s] = tcb[s]
                             /\ tcb'[t] = [tcb[t] EXCEPT !.owner = "DEAD_HEAP"]
    BY <1>0, <1>3, ReleaseEffect
  <2>2. \A s \in Threads : tcb'[s].dirty = tcb[s].dirty
    BY <1>0, <2>1 DEF Tcb
  <2> QED
    BY <1>0, <1>3, <2>2, SameMarks DEF Release, cpu
<1>4. CASE EdfRearm
  <2>1. PICK t \in Threads :
          /\ tcb[t].status = "FINISHED" /\ tcb'[t].status = "PENDING" /\ ~tcb'[t].dirty
          /\ \A s \in Threads : s # t => tcb'[s] = tcb[s]
    BY <1>0, <1>4, EdfRearmEffect
  <2> QED
    BY <1>0, <1>4, <2>1, OneUnmarked DEF EdfRearm, cpu, MarkGoesAtStart
<1>5. CASE EdfRetire
  <2>1. PICK t \in Threads : /\ \A s \in Threads : s # t => tcb'[s] = tcb[s]
                             /\ tcb'[t] = [tcb[t] EXCEPT !.owner = "OUTGOING_THREADS"]
    BY <1>0, <1>5, EdfRetireEffect
  <2>2. \A s \in Threads : tcb'[s].dirty = tcb[s].dirty
    BY <1>0, <2>1 DEF Tcb
  <2> QED
    BY <1>0, <1>5, <2>2, SameMarks DEF EdfRetire, cpu
<1>6. CASE EdfPick
  <2>1. PICK t \in Heads(deadHeap) :
          /\ IF Missed(t)
             THEN /\ tcb' = [tcb EXCEPT ![t] = [tcb[t] EXCEPT !.dirty = TRUE]]
                  /\ missed_deadlines' = missed_deadlines + 1
             ELSE UNCHANGED <<tcb, missed_deadlines>>
          /\ Pick(t)
    BY <1>6 DEF EdfPick
  <2>2. /\ t \in DOMAIN deadHeap /\ t \in Threads /\ tcb[t] \in Tcb /\ curr' = t
        /\ t \in Live
    BY <1>0, <2>1, IInvTyping DEF Heads, IsHeap, Pick, IInv, Place, Live
  <2>3. CASE ~Missed(t)
    BY <1>0, <2>1, <2>3, SameMarks
  <2>4. CASE Missed(t)
    <3>1. /\ tcb'[t] = [tcb[t] EXCEPT !.dirty = TRUE]
          /\ \A s \in Threads : s # t => tcb'[s] = tcb[s]
      BY <1>0, <2>1, <2>2, <2>4
    <3>2. tcb'[t].dirty
      BY <2>2, <3>1 DEF Tcb
    <3>3. tcb[t].deadline <= ticks /\ ~tcb[t].dirty
      BY <1>0, <2>2, <2>4, TcbFields DEF Missed, TypeOK
    <3>4. Marked(t) /\ ~Unmarked(t)
      BY <3>2, <3>3, Zenon DEF Marked, Unmarked
    <3>5. \A s \in Live : s # t => ~Marked(s) /\ ~Unmarked(s)
      BY <1>0, <3>1, SameMark
    <3>6. missed_deadlines' = missed_deadlines + (IF \E s \in Live : Marked(s) THEN 1 ELSE 0)
      BY <2>1, <2>2, <2>4, <3>4
    <3> QED
      BY <2>2, <3>3, <3>4, <3>5, <3>6 DEF Counted
  <2> QED
    BY <2>3, <2>4
<1>7. ASSUME NEW c \in Classes, RoundRobin(c) PROVE Counted
  <2>1. CASE RrTurn(c)
    <3>1. PICK t \in Threads : /\ \A s \in Threads : s # t => tcb'[s] = tcb[s]
                               /\ tcb'[t].dirty = tcb[t].dirty
      BY <1>0, <2>1, RrTurnEffect
    <3>2. \A s \in Threads : tcb'[s].dirty = tcb[s].dirty
      BY <3>1
    <3> QED
      BY <1>0, <2>1, <3>2, SameMarks DEF RrTurn
  <2>2. CASE RrRetire(c) \/ RrDone(c)
    BY <1>0, <2>2, SameMarks DEF RrRetire, RrDone, cpu
  <2> QED
    BY <1>7, <2>1, <2>2 DEF RoundRobin
<1>8. CASE Reclaim
  <2>1. PICK t \in Threads :
          /\ tcb'[t] = Blank /\ pool' = pool \cup {t}
          /\ \A s \in Threads : s # t => tcb'[s] = tcb[s]
    BY <1>0, <1>8, ReclaimEffect
  <2>2. ~tcb'[t].dirty
    BY <2>1 DEF Blank
  <2> QED
    BY <1>0, <1>8, <2>1, <2>2, OneUnmarked DEF Reclaim, MarkGoesAtStart
<1>9. CASE Dispatch
  <2>1. \A s \in Threads : tcb'[s] = tcb[s] \/ tcb'[s] = [tcb[s] EXCEPT !.status = "RUNNING"]
    BY <1>0, <1>9, DispatchEffect
  <2>2. \A s \in Threads : tcb'[s].dirty = tcb[s].dirty
    BY <1>0, <2>1 DEF Tcb
  <2> QED
    BY <1>0, <1>9, <2>2, SameMarks DEF Dispatch
<1> QED
  BY <1>1, <1>2, <1>3, <1>4, <1>5, <1>6, <1>7, <1>8, <1>9
  DEF NextUp, HighFifo, MedFifo, LowFifo, Classes

\* missed_deadlines counts the late jobs, each once, and misses none that runs.
THEOREM LateJobsCounted == Spec => LateJobsCountedOnce
<1>1. Init => LateMarked
  BY EmptyHeapIsHeap DEF Init, LateMarked
<1>2. ASSUME IInv, LateMarked, [Next]_vars PROVE LateMarked'
  <2>1. CASE UNCHANGED vars
    BY <1>2, <2>1 DEF vars, containers, cpu, control, LateMarked
  <2> QED
    BY <1>2, <2>1, ApiMarks, EnterMarks, NextUpMarks DEF Next, FaultHalt
<1>3. LateMarked => LateJobMarked
  BY DEF LateMarked, LateJobMarked
<1>4. ASSUME IInv, [Next]_vars PROVE UNCHANGED vars \/ Counted
  BY <1>4, ApiCounts, EnterCounts, NextUpCounts DEF Next, FaultHalt
<1>5. ASSUME Counted, LateJobMarked
      PROVE  /\ missed_deadlines' =
                  missed_deadlines + (IF \E t \in Live : Marked(t) THEN 1 ELSE 0)
             /\ \A t \in Live :
                  /\ Marked(t) => curr' = t /\ t \in DOMAIN deadHeap /\ tcb[t].deadline <= ticks
                  /\ Unmarked(t) => \/ t \in pool'
                                    \/ InQueue(t, "INCOMING_THREADS")
                                    \/ tcb[t].status = "FINISHED" /\ tcb'[t].status = "PENDING"
             /\ LateJobMarked
  BY <1>5 DEF Counted, MarkGoesAtStart
<1> QED
  BY Invariant, <1>1, <1>2, <1>3, <1>4, <1>5, PTL DEF Spec, LateJobsCountedOnce

----------------------------------------------------------------------------
(* The classes.                                                            *)

LEMMA PhasesStep ==
  ASSUME IInv, PhasesDone, Next
  PROVE  PhasesDone'
<1>0. /\ TypeOK
      /\ found => pc \in {"reclaim", "free", "dispatch"}
  BY DEF IInv, Current
<1>1. CASE Api \/ Enter \/ FaultHalt
  <2>1. ~found' \/ UNCHANGED vars
    BY <1>0, <1>1 DEF Api, EnqueueNewThread, EnqueueNewPersistentThread, Enqueue, KillThread,
      SuspendOther, Enter, NextThread, NextThreadReleasePending, TickEntry, ThreadExit,
      SuspendSelf, StartNextUp, FaultHalt, control
  <2>2. pc' \in {"idle", "admit"} \/ UNCHANGED vars
    BY <1>1 DEF Api, EnqueueNewThread, EnqueueNewPersistentThread, Enqueue, KillThread,
      SuspendOther, Enter, NextThread, NextThreadReleasePending, TickEntry, ThreadExit,
      SuspendSelf, StartNextUp, FaultHalt, control
  <2>3. CASE UNCHANGED vars
    BY <2>3 DEF PhasesDone, vars, containers, cpu, control, In
  <2> QED
    BY <2>1, <2>2, <2>3 DEF PhasesDone, Classes
<1>2. CASE AdmitDone \/ ReleaseDone \/ Admit \/ Release \/ EdfRearm \/ EdfRetire
  <2>1. found' = found /\ ~found /\ pc' \in {"admit", "release", "edf"}
    BY <1>0, <1>2 DEF AdmitDone, ReleaseDone, Admit, Release, EdfRearm, EdfRetire, Goto, control
  <2> QED
    BY <2>1 DEF PhasesDone, Classes
<1>3. CASE EdfPick
  <2>1. PICK t \in Threads : t \in DOMAIN deadHeap /\ Pick(t)
    BY <1>0, <1>3, EdfPickEffect
  <2>2. deadHeap' = deadHeap
    BY <1>3 DEF EdfPick, containers
  <2> QED
    BY <2>1, <2>2 DEF PhasesDone, Pick, Classes
<1>4. CASE EdfDone
  <2>1. /\ ~found /\ found' = found /\ pc' = "FIFO_HIGH" /\ DOMAIN deadHeap' = {}
    BY <1>0, <1>4, EmptyHeapIsHeap DEF EdfDone, Goto, containers
  <2>2. \A c \in Classes : "FIFO_HIGH" \notin Passed(c)
    BY DEF Classes, Passed
  <2> QED
    BY <2>1, <2>2 DEF PhasesDone
<1>5. ASSUME NEW c \in Classes, RoundRobin(c) PROVE PhasesDone'
  <2>1. /\ pc = c /\ c \notin {"reclaim", "free", "dispatch"} /\ ~found
        /\ deadHeap' = deadHeap /\ DOMAIN deadHeap = {}
        /\ \A d \in Classes : c \in Passed(d) => fifo[d] = <<>>
    BY <1>0, <1>5 DEF RoundRobin, RrTurn, RrRetire, RrDone, Classes, containers, PhasesDone
  <2>2. \A d \in Classes : c \in Passed(d) => d # c /\ d # "OUTGOING_THREADS"
    BY DEF Classes, Passed
  <2>3. fifo \in [Queues -> Seq(Threads)] /\ Classes \subseteq Queues
    BY <1>0, Typing DEF IsFifos
  <2>4. CASE RrTurn(c)
    <3>1. PICK t \in Threads :
            /\ t = Head(fifo[c]) /\ fifo[c] # <<>>
            /\ \/ fifo' = Moved(c, c) /\ UNCHANGED <<curr, control>>
               \/ Pick(t) /\ UNCHANGED fifo
      BY <1>0, <2>4, RrTurnEffect
    <3>2. CASE fifo' = Moved(c, c) /\ UNCHANGED <<curr, control>>
      <4>1. \A d \in Classes : d # c => fifo'[d] = fifo[d]
        BY <2>3, <3>2 DEF Moved
      <4> QED
        BY <2>1, <2>2, <3>2, <4>1 DEF PhasesDone, control
    <3>3. CASE Pick(t) /\ UNCHANGED fifo
      <4>1. In(fifo, t, c)
        BY <3>1, IInvTyping, MovedFacts
      <4>2. pc' = "reclaim" /\ found' /\ curr' = t
        BY <3>3 DEF Pick
      <4> QED
        BY <2>1, <3>3, <4>1, <4>2 DEF PhasesDone, Classes
    <3> QED
      BY <3>1, <3>2, <3>3
  <2>5. CASE RrRetire(c)
    <3>1. fifo' = Moved(c, "OUTGOING_THREADS") /\ UNCHANGED <<found, pc>>
      BY <2>5 DEF RrRetire, RetireTo, control
    <3>2. \A d \in Classes : d # c /\ d # "OUTGOING_THREADS" => fifo'[d] = fifo[d]
      BY <2>3, <3>1 DEF Moved
    <3> QED
      BY <2>1, <2>2, <3>1, <3>2 DEF PhasesDone
  <2>6. CASE RrDone(c)
    <3>1. fifo[c] = <<>> /\ fifo' = fifo /\ found' = found /\ pc' = NextPhase(c)
      BY <2>6 DEF RrDone, Goto, containers
    <3>2. NextPhase(c) \in Classes =>
            \A d \in Classes : NextPhase(c) \in Passed(d) => d = c \/ c \in Passed(d)
      BY DEF NextPhase, Passed, Classes
    <3>3. NextPhase(c) \notin Classes => \A d \in Classes : d = c \/ c \in Passed(d)
      BY DEF NextPhase, Passed, Classes
    <3>4. NextPhase(c) \in Classes => NextPhase(c) \notin {"reclaim", "free", "dispatch"}
      BY DEF Classes
    <3> QED
      BY <2>1, <3>1, <3>2, <3>3, <3>4 DEF PhasesDone
  <2> QED
    BY <1>5, <2>4, <2>5, <2>6 DEF RoundRobin
<1>6. CASE ReclaimStep
  <2>1. /\ UNCHANGED <<found, curr, fifo, deadHeap>>
        /\ pc \in {"reclaim", "free"} /\ pc' \in {"free", "dispatch"}
    BY <1>6 DEF ReclaimStep, AllocatorTaken, ReclaimSkipped, NothingToFree, Goto, containers, cpu
  <2> QED
    BY <2>1 DEF PhasesDone, Classes
<1>7. CASE Reclaim
  <2>1. /\ UNCHANGED <<found, curr, deadHeap, pc>> /\ pc = "free"
        /\ fifo' = [fifo EXCEPT !["OUTGOING_THREADS"] = Tail(@)]
    BY <1>7 DEF Reclaim, control
  <2>2. \A d \in Classes : fifo'[d] = fifo[d]
    BY <2>1, IInvTyping DEF IsFifos, Classes
  <2>3. \A d \in Classes : In(fifo', curr, d) <=> In(fifo, curr, d)
    BY <2>2 DEF In
  <2> QED
    BY <2>1, <2>2, <2>3 DEF PhasesDone, Classes
<1>8. CASE Dispatch
  <2>1. found' = FALSE /\ pc' \in {"idle", "fault"}
    BY <1>0, <1>8, DispatchEffect
  <2> QED
    BY <2>1 DEF PhasesDone, Classes
<1> QED
  BY <1>1, <1>2, <1>3, <1>4, <1>5, <1>6, <1>7, <1>8
  DEF Next, NextUp, HighFifo, MedFifo, LowFifo, Classes

\* Steps that move no release time leave what the release phase left.
LEMMA KeepReleases ==
  ASSUME ReleasesDone, pc \in PastRelease, relHeap' = relHeap, ticks' = ticks,
         \A t \in DOMAIN relHeap : tcb'[t].release_time = tcb[t].release_time
  PROVE  ReleasesDone'
<1>1. \A t \in DOMAIN relHeap : Due(t)' <=> Due(t)
  BY DEF Due
<1>2. \A t \in DOMAIN relHeap : Hidden(t) => Hidden(t)'
  BY <1>1 DEF Hidden
<1>3. \A t \in DOMAIN relHeap : Due(t) => Hidden(t)
  BY DEF ReleasesDone
<1> QED
  BY <1>1, <1>2, <1>3 DEF ReleasesDone

\* The head is not due when the release phase ends, and no key is after the
\* release time of its thread: a due thread is behind the head.
LEMMA ReleaseDoneStep ==
  ASSUME IInv, ReleaseDone
  PROVE  ReleasesDone'
<1>1. relHeap' = relHeap /\ tcb' = tcb /\ ticks' = ticks
  BY DEF ReleaseDone, containers, cpu
<1>2. ASSUME NEW t \in DOMAIN relHeap, Due(t) PROVE Hidden(t)
  <2>1. DOMAIN relHeap # {}
    BY <1>2
  <2>2. PICK h \in Heads(relHeap) : ~Due(h)
    BY <2>1, EmptyHeapIsHeap DEF ReleaseDone
  <2>3. h \in DOMAIN relHeap /\ relHeap[h] <= relHeap[t]
    BY <1>2 DEF Heads
  <2>4. /\ t \in Threads /\ relHeap[h] \in Nat /\ relHeap[t] \in Nat
        /\ ticks \in Nat /\ relHeap[t] <= tcb[t].release_time
    BY <1>2, <2>3, Typing DEF IInv, Times, TimesOf, IsHeap
  <2>5. tcb[t].release_time \in Nat
    BY <2>4, Typing, TcbFields DEF IInv
  <2>6. relHeap[h] <= ticks
    BY <1>2, <2>3, <2>4, <2>5 DEF Due
  <2> QED
    BY <2>2, <2>3, <2>6 DEF Hidden
<1>3. \A t \in DOMAIN relHeap : Due(t)' = Due(t) /\ (Hidden(t) => Hidden(t)')
  BY <1>1 DEF Due, Hidden
<1> QED
  BY <1>1, <1>2, <1>3 DEF ReleasesDone

\* A thread re-armed into the release heap is not due, and hides nobody less.
LEMMA EdfRearmReleases ==
  ASSUME IInv, ReleasesDone, EdfRearm
  PROVE  ReleasesDone'
<1>1. PICK t \in Threads, d, r \in Nat :
        /\ t \in DOMAIN deadHeap /\ tcb'[t].release_time = r
        /\ \A s \in Threads : s # t => tcb'[s] = tcb[s]
        /\ \/ r > ticks /\ relHeap' = Inserted(relHeap, t, r)
           \/ relHeap' = relHeap
  BY EdfRearmEffect DEF IInv
<1>2. /\ t \notin DOMAIN relHeap /\ DOMAIN relHeap \subseteq Threads /\ ticks \in Nat
      /\ pc \in PastRelease /\ ticks' = ticks
  BY <1>1, Typing DEF IInv, Place, IsHeap, EdfRearm, PastRelease, cpu
<1>3. \A s \in DOMAIN relHeap : tcb'[s].release_time = tcb[s].release_time
  BY <1>1, <1>2
<1>4. CASE relHeap' = relHeap
  BY <1>2, <1>3, <1>4, KeepReleases
<1>5. CASE r > ticks /\ relHeap' = Inserted(relHeap, t, r)
  <2>1. HeapGains(relHeap', relHeap, t, r)
    BY <1>5, InsertedGains
  <2>2. ~Due(t)'
    BY <1>1, <1>2, <1>5 DEF Due
  <2>3. \A s \in DOMAIN relHeap : Due(s)' <=> Due(s)
    BY <1>2, <1>3 DEF Due
  <2>4. \A s \in DOMAIN relHeap : s \in DOMAIN relHeap' /\ relHeap'[s] = relHeap[s]
    BY <1>2, <2>1 DEF HeapGains
  <2>5. \A s \in DOMAIN relHeap : Hidden(s) => Hidden(s)'
    BY <1>2, <2>3, <2>4 DEF Hidden
  <2>6. \A s \in DOMAIN relHeap : Due(s) => Hidden(s)
    BY <1>2 DEF ReleasesDone
  <2>7. \A s \in DOMAIN relHeap' : s = t \/ s \in DOMAIN relHeap
    BY <2>1 DEF HeapGains
  <2> QED
    BY <2>2, <2>3, <2>5, <2>6, <2>7 DEF ReleasesDone
<1> QED
  BY <1>1, <1>4, <1>5

LEMMA ReleasesStep ==
  ASSUME IInv, ReleasesDone, Next
  PROVE  ReleasesDone'
<1>0. /\ TypeOK /\ DOMAIN relHeap \subseteq Threads /\ tcb \in [Threads -> Tcb]
  BY Typing DEF IInv, IsHeap
<1>1. CASE Api \/ Enter \/ FaultHalt
  <2>1. pc' \in {"idle", "admit"} \/ UNCHANGED vars
    BY <1>1 DEF Api, EnqueueNewThread, EnqueueNewPersistentThread, Enqueue, KillThread,
      SuspendOther, Enter, NextThread, NextThreadReleasePending, TickEntry, ThreadExit,
      SuspendSelf, StartNextUp, FaultHalt, control
  <2>2. CASE UNCHANGED vars
    BY <2>2 DEF vars, containers, cpu, control, ReleasesDone, Due, Hidden
  <2> QED
    BY <2>1, <2>2 DEF ReleasesDone, PastRelease, Classes
<1>2. CASE Admit \/ AdmitDone \/ Release
  <2>1. pc' \in {"admit", "release"}
    BY <1>2 DEF Admit, AdmitDone, Release, Goto, control
  <2> QED
    BY <2>1 DEF ReleasesDone, PastRelease, Classes
<1>3. CASE EdfRetire \/ EdfPick \/ EdfDone
  <2>1. /\ pc \in PastRelease /\ relHeap' = relHeap /\ ticks' = ticks
    BY <1>3 DEF EdfRetire, EdfPick, EdfDone, PastRelease, containers, cpu
  <2>2. \A t \in Threads : tcb'[t].release_time = tcb[t].release_time
    <3>1. CASE EdfRetire
      <4>1. PICK t \in Threads : /\ \A s \in Threads : s # t => tcb'[s] = tcb[s]
                                 /\ tcb'[t] = [tcb[t] EXCEPT !.owner = "OUTGOING_THREADS"]
        BY <1>0, <3>1, EdfRetireEffect
      <4> QED
        BY <1>0, <4>1 DEF Tcb
    <3>2. CASE EdfPick
      <4>1. PICK t \in Threads : /\ \A s \in Threads : s # t => tcb'[s] = tcb[s]
                                 /\ tcb'[t] \in {tcb[t], [tcb[t] EXCEPT !.dirty = TRUE]}
        BY <1>0, <3>2, EdfPickEffect
      <4> QED
        BY <1>0, <4>1 DEF Tcb
    <3>3. CASE EdfDone
      BY <3>3 DEF EdfDone
    <3> QED
      BY <1>3, <3>1, <3>2, <3>3
  <2> QED
    BY <1>0, <2>1, <2>2, KeepReleases
<1>4. ASSUME NEW c \in Classes, RoundRobin(c) PROVE ReleasesDone'
  <2>1. pc \in PastRelease /\ relHeap' = relHeap /\ ticks' = ticks
    BY <1>4 DEF RoundRobin, RrTurn, RrRetire, RrDone, PastRelease, containers, cpu
  <2>2. CASE RrTurn(c)
    <3>1. PICK t \in Threads :
            /\ t = Head(fifo[c]) /\ fifo[c] # <<>>
            /\ \A s \in Threads : s # t => tcb'[s] = tcb[s]
      BY <1>0, <2>2, RrTurnEffect
    <3>2. In(fifo, t, c) /\ c \in Queues
      BY <3>1, IInvTyping, PopFacts
    <3>3. t \notin DOMAIN relHeap
      BY <3>2 DEF IInv, Place
    <3> QED
      BY <1>0, <2>1, <3>1, <3>3, KeepReleases
  <2>3. CASE RrRetire(c) \/ RrDone(c)
    <3>1. tcb' = tcb
      BY <2>3 DEF RrRetire, RrDone
    <3> QED
      BY <2>1, <3>1, KeepReleases
  <2> QED
    BY <1>4, <2>2, <2>3 DEF RoundRobin
<1>5. CASE ReclaimStep
  <2>1. pc \in PastRelease /\ relHeap' = relHeap /\ ticks' = ticks /\ tcb' = tcb
    BY <1>5 DEF ReclaimStep, AllocatorTaken, ReclaimSkipped, NothingToFree, PastRelease,
                containers, cpu
  <2> QED
    BY <2>1, KeepReleases
<1>6. CASE Reclaim
  <2>1. PICK t \in Threads :
          /\ t = Head(fifo["OUTGOING_THREADS"]) /\ fifo["OUTGOING_THREADS"] # <<>>
          /\ \A s \in Threads : s # t => tcb'[s] = tcb[s]
    BY <1>0, <1>6, ReclaimEffect
  <2>2. PICK q \in Queues : q = "OUTGOING_THREADS"
    BY IInvTyping
  <2>3. In(fifo, t, q)
    BY <2>1, <2>2, IInvTyping, PopFacts
  <2>4. t \notin DOMAIN relHeap
    BY <2>3 DEF IInv, Place
  <2>5. pc \in PastRelease /\ relHeap' = relHeap /\ ticks' = ticks
    BY <1>6 DEF Reclaim, PastRelease
  <2> QED
    BY <1>0, <2>1, <2>4, <2>5, KeepReleases
<1>7. CASE Dispatch
  <2>1. pc' \in {"idle", "fault"}
    BY <1>0, <1>7, DispatchEffect
  <2> QED
    BY <2>1 DEF ReleasesDone, PastRelease, Classes
<1> QED
  BY <1>1, <1>2, <1>3, <1>4, <1>5, <1>6, <1>7, ReleaseDoneStep, EdfRearmReleases
  DEF Next, NextUp, HighFifo, MedFifo, LowFifo, Classes

LEMMA PhasesImply ==
  ASSUME IInv, PhasesDone, ReleasesDone
  PROVE  StrictClasses
<1> SUFFICES ASSUME pc = "dispatch" PROVE StrictClasses
  BY DEF StrictClasses
<1>1. ~found => DOMAIN deadHeap = {} /\ \A c \in Classes : fifo[c] = <<>>
  BY DEF PhasesDone
<1>2. \A c \in Classes : fifo[c] = <<>> => Runnable(c) = {}
  BY DEF Runnable, InQueue
<1>3. ASSUME NEW c \in Classes, found, InQueue(curr, c), NEW d \in Classes, Rank[d] > Rank[c]
      PROVE  Runnable(d) = {}
  <2>1. In(fifo, curr, c) /\ curr \in Threads
    BY <1>3 DEF InQueue, In, IInv, Current
  <2>2. curr \notin DOMAIN deadHeap
    BY <2>1, IInvTyping DEF IInv, Place
  <2>3. PICK e \in Classes :
          In(fifo, curr, e) /\ \A b \in Classes : e \in Passed(b) => fifo[b] = <<>>
    BY <1>3, <2>2 DEF PhasesDone
  <2>4. e = c
    BY <2>1, <2>3, IInvTyping DEF In, Distinct
  <2>5. c \in Passed(d)
    BY <1>3 DEF Rank, Passed, Classes
  <2> QED
    BY <1>2, <2>3, <2>4, <2>5
<1>4. found /\ curr \notin DOMAIN deadHeap => DOMAIN deadHeap = {}
  BY DEF PhasesDone
<1>5. \A t \in DOMAIN relHeap : Due(t) => Hidden(t)
  BY DEF ReleasesDone, PastRelease
<1> QED
  BY <1>1, <1>2, <1>3, <1>4, <1>5 DEF StrictClasses

\* The chosen thread is of the highest class that has something to run, but for
\* due threads that a stale key of the release heap hides.
THEOREM ClassesStrict == Spec => []StrictClasses
<1>1. Init => PhasesDone
  BY DEF Init, PhasesDone, Classes
<1>2. ASSUME IInv, PhasesDone, [Next]_vars PROVE PhasesDone'
  <2>1. CASE UNCHANGED vars
    BY <2>1, <1>2 DEF PhasesDone, vars, containers, cpu, control, In
  <2> QED
    BY <1>2, <2>1, PhasesStep
<1>3. IInv /\ PhasesDone /\ ReleasesDone => StrictClasses
  BY PhasesImply
<1>4. Init => ReleasesDone
  BY DEF Init, ReleasesDone, PastRelease, Classes
<1>5. ASSUME IInv, ReleasesDone, [Next]_vars PROVE ReleasesDone'
  <2>1. CASE UNCHANGED vars
    BY <2>1, <1>5 DEF vars, containers, cpu, control, ReleasesDone, Due, Hidden
  <2> QED
    BY <1>5, <2>1, ReleasesStep
<1> QED
  BY Invariant, <1>1, <1>2, <1>3, <1>4, <1>5, PTL DEF Spec

----------------------------------------------------------------------------
(* Sums over the threads.  The fold takes the elements in the order CHOOSE *)
(* gives; the lemmas show that it exists and that the order is immaterial. *)

\* F sums w over every set of threads, whichever element is taken first.
Sums(F, w) ==
  /\ F \in [SUBSET Threads -> Int] /\ F[{}] = 0
  /\ \A S \in SUBSET Threads : \A t \in S : F[S] = w[t] + F[S \ {t}]

\* One level of the fold's recursion.
First(S) == CHOOSE t \in S : TRUE
Level(F, w, S) == IF S = {} THEN 0 ELSE w[First(S)] + F[S \ {First(S)}]

\* Among sets of threads there is a smallest: induction over finite sets.
LEMMA SmallestSet ==
  ASSUME NEW P \in SUBSET (SUBSET Threads), P # {}
  PROVE  \E S \in P : \A U \in P : U \subseteq S => U = S
<1>1. FiniteSubsetsOf(Threads) = SUBSET Threads
  BY SchedAssumption, FS_FiniteSubsetsOfFinite
<1>2. IsWellFoundedOn(StrictSubsetOrdering(Threads), SUBSET Threads)
  BY <1>1, FS_StrictSubsetOrderingWellFounded
<1>3. PICK S \in P : \A U \in P : ~(<<U, S>> \in StrictSubsetOrdering(Threads))
  BY <1>2, WFMin, Zenon
<1>4. \A U \in P : U \subseteq S => U = S
  BY <1>3 DEF StrictSubsetOrdering
<1> QED
  BY <1>4

\* The least-number principle.
LEMMA Least ==
  ASSUME NEW T \in SUBSET Nat, T # {}
  PROVE  \E m \in T : \A n \in T : m <= n
<1>1. PICK m \in T : \A n \in T : ~ (<<n, m>> \in OpToRel(<, Nat))
  BY NatLessThanWellFounded, WFMin, Zenon
<1>2. \A n \in T : ~ (n < m)
  BY <1>1, Zenon DEF OpToRel
<1>3. m \in Nat /\ \A n \in T : n \in Nat
  OBVIOUS
<1> QED
  BY <1>2, <1>3

LEMMA FirstIn == \A S : S # {} => First(S) \in S
BY DEF First

\* Cardinalities of sets of threads.
LEMMA SetSizes ==
  \A S \in SUBSET Threads :
    /\ Cardinality(S) \in Nat /\ Cardinality(S) <= Cardinality(Threads)
    /\ \A t \in S : Cardinality(S \ {t}) = Cardinality(S) - 1
    /\ Cardinality(S) = 0 => S = {}
<1> SUFFICES ASSUME NEW S \in SUBSET Threads
             PROVE  /\ Cardinality(S) \in Nat /\ Cardinality(S) <= Cardinality(Threads)
                    /\ \A t \in S : Cardinality(S \ {t}) = Cardinality(S) - 1
                    /\ Cardinality(S) = 0 => S = {}
  OBVIOUS
<1>1. IsFiniteSet(S) /\ Cardinality(S) <= Cardinality(Threads)
  BY SchedAssumption, FS_Subset
<1> QED
  BY <1>1, FS_CardinalityType, FS_RemoveElement, FS_EmptySet

\* The recursion has a solution: one for the sets of at most n threads is
\* extended to those of n + 1.
LEMMA SolutionExists ==
  ASSUME NEW w \in [Threads -> Int]
  PROVE  \E F : F = [S \in SUBSET Threads |-> Level(F, w, S)]
<1> DEFINE Solves(F, n) ==
             \A S \in SUBSET Threads : Cardinality(S) <= n => F[S] = Level(F, w, S)
           Missing == {n \in Nat : ~ \E F : Solves(F, n)}
<1>1. 0 \notin Missing
  <2>1. Solves([S \in SUBSET Threads |-> 0], 0)
    BY SetSizes DEF Level
  <2> QED
    BY <2>1
<1>2. ASSUME NEW n \in Nat, n \notin Missing PROVE n + 1 \notin Missing
  <2>1. PICK F : Solves(F, n)
    BY <1>2
  <2> DEFINE G == [S \in SUBSET Threads |-> Level(F, w, S)]
  <2>2. ASSUME NEW S \in SUBSET Threads, Cardinality(S) <= n + 1
        PROVE  G[S] = Level(G, w, S)
    <3>1. CASE S = {}
      BY <3>1 DEF Level
    <3>2. CASE S # {}
      <4> DEFINE U == S \ {First(S)}
      <4>1. U \in SUBSET Threads /\ Cardinality(U) <= n
        BY <2>2, <3>2, FirstIn, SetSizes
      <4>2. G[U] = F[U]
        BY <2>1, <4>1
      <4> HIDE DEF U
      <4>3. G[S] = w[First(S)] + F[U]
        BY <3>2 DEF Level, U
      <4>4. Level(G, w, S) = w[First(S)] + G[U]
        BY <3>2 DEF Level, U
      <4> QED
        BY <4>2, <4>3, <4>4
    <3> QED
      BY <3>1, <3>2
  <2>3. Solves(G, n + 1)
    BY <2>2
  <2> QED
    BY <2>3
<1>3. Missing = {}
  <2> HIDE DEF Missing
  <2>1. Missing \in SUBSET Nat
    BY DEF Missing
  <2> SUFFICES ASSUME Missing # {} PROVE FALSE
    OBVIOUS
  <2>2. PICK m \in Missing : \A n \in Missing : m <= n
    BY <2>1, Least
  <2>3. m \in Nat /\ m # 0
    BY <1>1, <2>1
  <2>4. m - 1 \in Nat /\ m - 1 \notin Missing
    BY <2>2, <2>3
  <2>5. (m - 1) + 1 \notin Missing
    BY <1>2, <2>4
  <2> QED
    BY <2>3, <2>5
<1>4. PICK F : Solves(F, Cardinality(Threads))
  BY <1>3, SetSizes
<1> DEFINE G == [S \in SUBSET Threads |-> Level(F, w, S)]
<1>5. ASSUME NEW S \in SUBSET Threads PROVE Level(F, w, S) = Level(G, w, S)
  <2>1. CASE S = {}
    BY <2>1 DEF Level
  <2>2. CASE S # {}
    <3> DEFINE U == S \ {First(S)}
    <3>1. U \in SUBSET Threads /\ Cardinality(U) <= Cardinality(Threads)
      BY SetSizes
    <3>2. G[U] = F[U]
      BY <1>4, <3>1
    <3> QED
      BY <2>2, <3>2 DEF Level
  <2> QED
    BY <2>1, <2>2
<1>6. G = [S \in SUBSET Threads |-> Level(G, w, S)]
  BY <1>5
<1> QED
  BY <1>6

\* A solution sums: the first element may be any.
LEMMA SolutionSums ==
  ASSUME NEW w \in [Threads -> Int], NEW F, F = [S \in SUBSET Threads |-> Level(F, w, S)]
  PROVE  Sums(F, w)
<1>1. \A S \in SUBSET Threads : F[S] = Level(F, w, S)
  <2> DEFINE G == [S \in SUBSET Threads |-> Level(F, w, S)]
  <2>1. \A S \in SUBSET Threads : G[S] = Level(F, w, S)
    OBVIOUS
  <2> QED
    BY <2>1
<1>2. F[{}] = 0
  BY <1>1 DEF Level
<1>3. ASSUME NEW S \in SUBSET Threads, S # {}
      PROVE  /\ First(S) \in S /\ First(S) \in Threads
             /\ F[S] = w[First(S)] + F[S \ {First(S)}]
  BY <1>1, <1>3, FirstIn DEF Level
<1>4. \A S \in SUBSET Threads : F[S] \in Int
  <2> DEFINE P == {S \in SUBSET Threads : F[S] \notin Int}
  <2> SUFFICES ASSUME P # {} PROVE FALSE
    OBVIOUS
  <2>0. P \in SUBSET (SUBSET Threads)
    OBVIOUS
  <2>1. PICK S \in P : \A U \in P : U \subseteq S => U = S
    <3> HIDE DEF P
    <3> QED
      BY <2>0, SmallestSet
  <2>2. S \in SUBSET Threads /\ F[S] \notin Int /\ S # {}
    <3>1. S \in SUBSET Threads /\ F[S] \notin Int
      OBVIOUS
    <3>2. F[{}] \in Int
      BY <1>2
    <3> QED
      BY <3>1, <3>2, Zenon
  <2>3. F[S \ {First(S)}] \in Int
    <3>1. S \ {First(S)} \notin P
      BY <1>3, <2>1, <2>2
    <3> QED
      BY <2>2, <3>1
  <2>4. w[First(S)] \in Int /\ F[S] = w[First(S)] + F[S \ {First(S)}]
    BY <1>3, <2>2
  <2> QED
    BY <2>2, <2>3, <2>4
<1>5. \A S \in SUBSET Threads : \A t \in S : F[S] = w[t] + F[S \ {t}]
  <2> DEFINE P == {S \in SUBSET Threads : \E t \in S : F[S] # w[t] + F[S \ {t}]}
  <2> SUFFICES ASSUME P # {} PROVE FALSE
    OBVIOUS
  <2>0. P \in SUBSET (SUBSET Threads)
    OBVIOUS
  <2>1. PICK S \in P : \A U \in P : U \subseteq S => U = S
    <3> HIDE DEF P
    <3> QED
      BY <2>0, SmallestSet
  <2>2. PICK t \in S : F[S] # w[t] + F[S \ {t}]
    OBVIOUS
  <2> DEFINE c == First(S)
  <2>3. c \in S /\ F[S] = w[c] + F[S \ {c}] /\ S \in SUBSET Threads
    BY <1>3
  <2>4. c # t
    BY <2>2, <2>3
  <2> HIDE DEF c
  <2>5. S \ {c} \notin P /\ S \ {t} \notin P /\ S \ {c} \in SUBSET Threads /\ S \ {t} \in SUBSET Threads
    BY <2>1, <2>3
  <2>6. F[S \ {c}] = w[t] + F[(S \ {c}) \ {t}]
    BY <2>4, <2>5
  <2>7. F[S \ {t}] = w[c] + F[(S \ {t}) \ {c}]
    BY <2>3, <2>4, <2>5
  <2>8. (S \ {t}) \ {c} = (S \ {c}) \ {t} /\ (S \ {c}) \ {t} \in SUBSET Threads
    OBVIOUS
  <2>9. F[(S \ {c}) \ {t}] \in Int /\ w[t] \in Int /\ w[c] \in Int
    BY <1>4, <2>3, <2>8
  <2> DEFINE x == F[(S \ {c}) \ {t}]
             y == w[t]
             z == w[c]
  <2>10. F[S] = z + (y + x) /\ F[S \ {t}] = z + x
    BY <2>3, <2>6, <2>7, <2>8
  <2>11. x \in Int /\ y \in Int /\ z \in Int /\ F[S] # y + F[S \ {t}]
    BY <2>2, <2>9
  <2> HIDE DEF x, y, z
  <2> QED
    BY <2>10, <2>11
<1> QED
  BY <1>1, <1>2, <1>4, <1>5 DEF Sums

\* Two loads that differ at t only differ by that in their sums.
LEMMA SumsDiffer ==
  ASSUME NEW w \in [Threads -> Int], NEW v \in [Threads -> Int], NEW F, NEW G,
         Sums(F, w), Sums(G, v), NEW t \in Threads,
         \A s \in Threads : s # t => w[s] = v[s]
  PROVE  G[Threads] = F[Threads] - w[t] + v[t]
<1>1. ASSUME NEW S \in SUBSET Threads, t \notin S PROVE F[S] = G[S]
  <2> DEFINE P == {U \in SUBSET Threads : t \notin U /\ F[U] # G[U]}
  <2> SUFFICES ASSUME P # {} PROVE FALSE
    BY <1>1
  <2>0. P \in SUBSET (SUBSET Threads)
    OBVIOUS
  <2>1. PICK U \in P : \A V \in P : V \subseteq U => V = U
    <3> HIDE DEF P
    <3> QED
      BY <2>0, SmallestSet
  <2>2. PICK s \in U : TRUE
    BY DEF Sums
  <2>3. U \ {s} \notin P
    BY <2>1, <2>2
  <2>4. F[U \ {s}] = G[U \ {s}]
    BY <2>3
  <2>5. w[s] = v[s] /\ F[U] = w[s] + F[U \ {s}] /\ G[U] = v[s] + G[U \ {s}]
    BY DEF Sums
  <2> QED
    BY <2>4, <2>5
<1>2. /\ F[Threads] = w[t] + F[Threads \ {t}] /\ G[Threads] = v[t] + G[Threads \ {t}]
      /\ F[Threads \ {t}] \in Int /\ w[t] \in Int /\ v[t] \in Int
  BY DEF Sums
<1> QED
  BY <1>1, <1>2

\* Loads that agree have one sum.
LEMMA SumsAgree ==
  ASSUME NEW w \in [Threads -> Int], NEW F, NEW G, Sums(F, w), Sums(G, w)
  PROVE  G[Threads] = F[Threads]
<1>1. CASE Threads = {}
  BY <1>1 DEF Sums
<1>2. CASE Threads # {}
  <2>1. PICK t \in Threads : TRUE
    BY <1>2
  <2>2. F[Threads] \in Int /\ w[t] \in Int
    BY DEF Sums
  <2>3. G[Threads] = F[Threads] - w[t] + w[t]
    BY SumsDiffer
  <2> QED
    BY <2>2, <2>3
<1> QED
  BY <1>1, <1>2

\* A load of nothing sums to nothing.
LEMMA SumsZero ==
  ASSUME NEW w \in [Threads -> Int], NEW F, Sums(F, w), \A t \in Threads : w[t] = 0
  PROVE  F[Threads] = 0
<1> DEFINE P == {S \in SUBSET Threads : F[S] # 0}
<1> SUFFICES ASSUME P # {} PROVE FALSE
  OBVIOUS
<1>0. P \in SUBSET (SUBSET Threads)
  OBVIOUS
<1>1. PICK S \in P : \A U \in P : U \subseteq S => U = S
  <2> HIDE DEF P
  <2> QED
    BY <1>0, SmallestSet
<1>2. PICK t \in S : TRUE
  BY DEF Sums
<1>3. S \ {t} \notin P /\ S \ {t} \in SUBSET Threads
  BY <1>1, <1>2
<1>4. F[S \ {t}] = 0 /\ F[S] = w[t] + F[S \ {t}]
  BY <1>3 DEF Sums
<1> QED
  BY <1>4

----------------------------------------------------------------------------
(* The load of the core.                                                   *)

\* prev_u of every thread.
PrevU == [t \in Threads |-> tcb[t].prev_u]

\* The fold UtilizationIsSum compares with is a sum in this sense.
FoldIsSum == \E F : Sums(F, PrevU) /\ (UtilizationIsSum <=> utilization = F[Threads])

LEMMA TheSum == tcb \in [Threads -> Tcb] => PrevU \in [Threads -> Int] /\ FoldIsSum
<1> SUFFICES ASSUME tcb \in [Threads -> Tcb] PROVE PrevU \in [Threads -> Int] /\ FoldIsSum
  OBVIOUS
<1>1. PrevU \in [Threads -> Int]
  BY DEF PrevU, Tcb
<1> DEFINE Fold(F) == [S \in SUBSET Threads |->
                         IF S = {} THEN 0
                         ELSE tcb[CHOOSE t \in S : TRUE].prev_u
                              + F[S \ {CHOOSE t \in S : TRUE}]]
           Sum == CHOOSE F : F = Fold(F)
<1>2. ASSUME NEW F PROVE Fold(F) = [S \in SUBSET Threads |-> Level(F, PrevU, S)]
  <2>1. ASSUME NEW S \in SUBSET Threads
        PROVE  (IF S = {} THEN 0
                ELSE tcb[CHOOSE t \in S : TRUE].prev_u
                              + F[S \ {CHOOSE t \in S : TRUE}]) = Level(F, PrevU, S)
    BY FirstIn DEF Level, First, PrevU
  <2> QED
    BY <2>1
<1>3. \E F : F = Fold(F)
  <2> HIDE DEF Fold
  <2>1. PICK F : F = [S \in SUBSET Threads |-> Level(F, PrevU, S)]
    BY <1>1, SolutionExists
  <2>2. F = Fold(F)
    BY <1>2, <2>1
  <2> QED
    BY <2>2
<1>4. Sum = Fold(Sum)
  BY <1>3
<1>5. Sums(Sum, PrevU)
  <2> HIDE DEF Fold, Sum
  <2>1. Sum = [S \in SUBSET Threads |-> Level(Sum, PrevU, S)]
    BY <1>2, <1>4
  <2> QED
    BY <1>1, <2>1, SolutionSums
<1>6. UtilizationIsSum <=> utilization = Sum[Threads]
  BY DEF UtilizationIsSum, MapThenSumSet, MapThenFoldSet
<1> QED
  BY <1>1, <1>5, <1>6 DEF FoldIsSum

\* The same of the state a step reaches.
LEMMA TheSumThen ==
  (tcb \in [Threads -> Tcb])' => (PrevU \in [Threads -> Int])' /\ FoldIsSum'
BY TheSum, PTL

\* No free block carries a load.
LoadInv == UtilizationIsSum /\ \A t \in pool : tcb[t].prev_u = 0

\* A step that changes the load of one thread and utilization by as much.
LEMMA Balanced ==
  ASSUME tcb \in [Threads -> Tcb], tcb' \in [Threads -> Tcb], UtilizationIsSum, NEW t \in Threads,
         \A s \in Threads : s # t => tcb'[s].prev_u = tcb[s].prev_u,
         utilization' = utilization - tcb[t].prev_u + tcb'[t].prev_u
  PROVE  UtilizationIsSum'
<1>1. PICK F : Sums(F, PrevU) /\ utilization = F[Threads]
  BY TheSum DEF FoldIsSum
<1>2. PICK G : Sums(G, PrevU') /\ (UtilizationIsSum' <=> utilization' = G[Threads])
  BY TheSumThen DEF FoldIsSum
<1>3. PrevU \in [Threads -> Int] /\ PrevU' \in [Threads -> Int]
  BY TheSum, TheSumThen
<1>4. /\ \A s \in Threads : PrevU[s] = tcb[s].prev_u
      /\ \A s \in Threads : PrevU'[s] = tcb'[s].prev_u
  BY DEF PrevU
<1>5. \A s \in Threads : s # t => PrevU[s] = PrevU'[s]
  BY <1>4
<1>6. G[Threads] = F[Threads] - PrevU[t] + PrevU'[t]
  BY <1>1, <1>2, <1>3, <1>5, SumsDiffer
<1> QED
  BY <1>1, <1>2, <1>4, <1>6

\* A step that changes neither.
LEMMA Unloaded ==
  ASSUME tcb \in [Threads -> Tcb], tcb' \in [Threads -> Tcb], UtilizationIsSum,
         \A s \in Threads : tcb'[s].prev_u = tcb[s].prev_u, utilization' = utilization
  PROVE  UtilizationIsSum'
<1>1. PICK F : Sums(F, PrevU) /\ utilization = F[Threads]
  BY TheSum DEF FoldIsSum
<1>2. PICK G : Sums(G, PrevU') /\ (UtilizationIsSum' <=> utilization' = G[Threads])
  BY TheSumThen DEF FoldIsSum
<1>3. PrevU' = PrevU
  BY DEF PrevU
<1>4. G[Threads] = F[Threads]
  BY <1>1, <1>2, <1>3, TheSum, SumsAgree
<1> QED
  BY <1>1, <1>2, <1>4

\* A step that leaves the loads alone.
LEMMA SameLoads ==
  ASSUME TypeOK, TypeOK', LoadInv, utilization' = utilization, pool' = pool,
         \A s \in Threads : tcb'[s].prev_u = tcb[s].prev_u
  PROVE  LoadInv'
<1>1. UtilizationIsSum'
  BY Unloaded DEF TypeOK, LoadInv
<1> QED
  BY <1>1 DEF LoadInv, TypeOK

LEMMA SuspendLoads ==
  ASSUME TypeOK, NEW t \in Threads, NEW delay \in Delays, Suspend(t, delay)
  PROVE  \A s \in Threads : tcb'[s].prev_u = tcb[s].prev_u
BY DEF Suspend, TypeOK, Tcb

LEMMA ApiLoads ==
  ASSUME TypeOK, TypeOK', LoadInv, Api
  PROVE  LoadInv'
<1>0. tcb \in [Threads -> Tcb] /\ tcb' \in [Threads -> Tcb] /\ utilization \in Int /\ pool \subseteq Threads
  BY DEF TypeOK
<1>1. ASSUME NEW t \in Threads, EnqueueNewThread(t) \/ EnqueueNewPersistentThread(t)
      PROVE  LoadInv'
  <2>1. PICK new : Enqueue(t, new) /\ new.prev_u = 0
    <3>1. CASE EnqueueNewThread(t)
      <4>1. PICK p \in Periods, kind \in Kinds :
              Enqueue(t, [Blank EXCEPT !.period = p, !.periodicity = kind])
        BY <3>1 DEF EnqueueNewThread
      <4>2. [Blank EXCEPT !.period = p, !.periodicity = kind].prev_u = 0
        BY DEF Blank
      <4> QED
        BY <4>1, <4>2
    <3>2. CASE EnqueueNewPersistentThread(t)
      <4>1. PICK prio \in Priorities :
              Enqueue(t, [Blank EXCEPT !.period = PERSISTENT_SLICE_TICKS,
                                       !.periodicity = "PERSISTENT", !.priority = prio])
        BY <3>2 DEF EnqueueNewPersistentThread
      <4>2. [Blank EXCEPT !.period = PERSISTENT_SLICE_TICKS,
                          !.periodicity = "PERSISTENT", !.priority = prio].prev_u = 0
        BY DEF Blank
      <4> QED
        BY <4>1, <4>2
    <3> QED
      BY <1>1, <3>1, <3>2
  <2>2. /\ t \in pool /\ pool' = pool \ {t} /\ utilization' = utilization
        /\ tcb'[t] = new /\ \A s \in Threads : s # t => tcb'[s] = tcb[s]
    BY <1>0, <2>1 DEF Enqueue, cpu
  <2>3. tcb[t].prev_u = 0 /\ tcb'[t].prev_u = 0
    BY <2>1, <2>2 DEF LoadInv
  <2>4. UtilizationIsSum'
    BY <1>0, <2>2, <2>3, Unloaded DEF LoadInv
  <2> QED
    BY <1>0, <2>2, <2>4 DEF LoadInv
<1>2. ASSUME NEW t \in Threads, KillThread(t) PROVE LoadInv'
  <2>1. /\ t \notin pool /\ pool' = pool /\ utilization' = utilization - tcb[t].prev_u
        /\ tcb'[t] = Killed(tcb[t]) /\ \A s \in Threads : s # t => tcb'[s] = tcb[s]
    BY <1>0, <1>2 DEF KillThread, Live
  <2>2. tcb'[t].prev_u = 0 /\ tcb[t].prev_u \in Nat
    BY <1>0, <2>1 DEF Killed, Tcb
  <2>3. UtilizationIsSum'
    BY <1>0, <2>1, <2>2, Balanced DEF LoadInv
  <2> QED
    BY <1>0, <2>1, <2>3 DEF LoadInv
<1>3. ASSUME NEW t \in Threads, NEW delay \in Delays, SuspendOther(t, delay) PROVE LoadInv'
  BY <1>3, SuspendLoads, SameLoads DEF SuspendOther, cpu
<1> QED
  BY <1>1, <1>2, <1>3 DEF Api

LEMMA EnterLoads ==
  ASSUME TypeOK, TypeOK', LoadInv, IInv, Enter
  PROVE  LoadInv'
<1>0. /\ tcb \in [Threads -> Tcb] /\ tcb' \in [Threads -> Tcb] /\ utilization \in Int
      /\ pool \subseteq Threads /\ curr \in Threads \cup {Main}
  BY DEF TypeOK
<1>1. ASSUME TickEntry, pool' = pool PROVE LoadInv'
  <2>1. PICK u \in Utils : UpdateUtilization(u)
    BY <1>1 DEF TickEntry
  <2>2. CASE curr # Main /\ tcb[curr].periodicity = "PERIODIC"
    <3>1. curr \in Threads /\ curr \notin pool
      BY <1>0, <1>1, <2>2, IInvImplies DEF CurrentIsLive, TickEntry, Live
    <3>2. /\ tcb'[curr] = [tcb[curr] EXCEPT !.prev_u = u]
          /\ \A s \in Threads : s # curr => tcb'[s] = tcb[s]
          /\ utilization' = utilization - tcb[curr].prev_u + u
      BY <1>0, <2>1, <2>2, <3>1 DEF UpdateUtilization
    <3>3. tcb'[curr].prev_u = u
      BY <1>0, <3>1, <3>2 DEF Tcb
    <3>4. UtilizationIsSum'
      BY <1>0, <3>1, <3>2, <3>3, Balanced DEF LoadInv
    <3> QED
      BY <1>0, <1>1, <3>1, <3>2, <3>4 DEF LoadInv
  <2>3. CASE ~(curr # Main /\ tcb[curr].periodicity = "PERIODIC")
    BY <1>1, <2>1, <2>3, SameLoads DEF UpdateUtilization
  <2> QED
    BY <2>2, <2>3
<1>2. CASE NextThread \/ NextThreadReleasePending
  BY <1>1, <1>2 DEF NextThread, NextThreadReleasePending
<1>3. CASE ThreadExit
  <2>1. \A s \in Threads : tcb'[s].prev_u = tcb[s].prev_u
    BY <1>0, <1>3 DEF ThreadExit, Tcb
  <2> QED
    BY <1>3, <2>1, SameLoads DEF ThreadExit, cpu
<1>4. ASSUME NEW delay \in Delays, SuspendSelf(delay) PROVE LoadInv'
  <2>1. curr \in Threads
    BY <1>0, <1>4 DEF SuspendSelf
  <2> QED
    BY <1>4, <2>1, SuspendLoads, SameLoads DEF SuspendSelf, cpu
<1> QED
  BY <1>2, <1>3, <1>4 DEF Enter

LEMMA NextUpLoads ==
  ASSUME TypeOK, TypeOK', LoadInv, NextUp
  PROVE  LoadInv'
<1>0. /\ tcb \in [Threads -> Tcb] /\ tcb' \in [Threads -> Tcb] /\ utilization \in Int
      /\ pool \subseteq Threads
  BY DEF TypeOK
<1>1. CASE AdmitDone \/ ReleaseDone \/ EdfDone \/ ReclaimStep
  BY <1>1, SameLoads DEF AdmitDone, ReleaseDone, EdfDone, ReclaimStep, cpu
<1>2. CASE Admit
  <2>1. \A s \in Threads : tcb'[s].prev_u = tcb[s].prev_u
    BY <1>0, <1>2 DEF Admit, Tcb
  <2> QED
    BY <1>2, <2>1, SameLoads DEF Admit, cpu
<1>3. CASE Release
  <2>1. \A s \in Threads : tcb'[s].prev_u = tcb[s].prev_u
    BY <1>0, <1>3 DEF Release, Tcb
  <2> QED
    BY <1>3, <2>1, SameLoads DEF Release, cpu
<1>4. CASE EdfRearm
  <2>1. \A s \in Threads : tcb'[s].prev_u = tcb[s].prev_u
    BY <1>0, <1>4 DEF EdfRearm, Tcb
  <2> QED
    BY <1>4, <2>1, SameLoads DEF EdfRearm, cpu
<1>5. CASE EdfRetire
  <2>1. \A s \in Threads : tcb'[s].prev_u = tcb[s].prev_u
    BY <1>0, <1>5 DEF EdfRetire, Tcb
  <2> QED
    BY <1>5, <2>1, SameLoads DEF EdfRetire, cpu
<1>6. CASE EdfPick
  <2>1. \A s \in Threads : tcb'[s].prev_u = tcb[s].prev_u
    BY <1>0, <1>6 DEF EdfPick, Tcb
  <2> QED
    BY <1>6, <2>1, SameLoads DEF EdfPick
<1>7. ASSUME NEW c \in Classes, RoundRobin(c) PROVE LoadInv'
  <2>1. CASE RrTurn(c)
    <3>1. \A s \in Threads : tcb'[s].prev_u = tcb[s].prev_u
      BY <1>0, <2>1 DEF RrTurn, Tcb
    <3> QED
      BY <2>1, <3>1, SameLoads DEF RrTurn
  <2>2. CASE RrRetire(c) \/ RrDone(c)
    BY <2>2, SameLoads DEF RrRetire, RrDone, cpu
  <2> QED
    BY <1>7, <2>1, <2>2 DEF RoundRobin
<1>8. CASE Reclaim
  <2>1. PICK t \in Threads :
          /\ t = Head(fifo["OUTGOING_THREADS"])
          /\ tcb'[t] = Blank /\ pool' = pool \cup {t}
          /\ \A s \in Threads : s # t => tcb'[s] = tcb[s]
    BY <1>8, ReclaimEffect
  <2>2. utilization' = utilization - tcb[t].prev_u
    BY <1>8, <2>1 DEF Reclaim
  <2>3. tcb'[t].prev_u = 0 /\ tcb[t].prev_u \in Nat
    BY <1>0, <2>1 DEF Blank, Tcb
  <2>4. UtilizationIsSum'
    BY <1>0, <2>1, <2>2, <2>3, Balanced DEF LoadInv
  <2> QED
    BY <1>0, <2>1, <2>3, <2>4 DEF LoadInv
<1>9. CASE Dispatch
  <2>1. \A s \in Threads : tcb'[s] = tcb[s] \/ tcb'[s] = [tcb[s] EXCEPT !.status = "RUNNING"]
    BY <1>9, DispatchEffect
  <2>2. \A s \in Threads : tcb'[s].prev_u = tcb[s].prev_u
    BY <1>0, <2>1 DEF Tcb
  <2> QED
    BY <1>9, <2>2, SameLoads DEF Dispatch
<1> QED
  BY <1>1, <1>2, <1>3, <1>4, <1>5, <1>6, <1>7, <1>8, <1>9
  DEF NextUp, HighFifo, MedFifo, LowFifo, Classes

\* The load the balancer reads is the sum over the live threads.
THEOREM LoadIsSum == Spec => []UtilizationIsSum
<1>1. Init => LoadInv
  <2> SUFFICES ASSUME Init PROVE LoadInv
    OBVIOUS
  <2>1. \A t \in Threads : tcb[t].prev_u = 0
    BY DEF Init, Blank
  <2>2. tcb \in [Threads -> Tcb] /\ pool = Threads /\ utilization = 0
    BY InitTypes DEF Init, TypeOK
  <2>3. PICK F : Sums(F, PrevU) /\ (UtilizationIsSum <=> utilization = F[Threads])
    BY <2>2, TheSum DEF FoldIsSum
  <2>4. F[Threads] = 0
    BY <2>1, <2>2, <2>3, TheSum, SumsZero DEF PrevU
  <2> QED
    BY <2>1, <2>2, <2>3, <2>4 DEF LoadInv
<1>2. ASSUME IInv, IInv', LoadInv, [Next]_vars PROVE LoadInv'
  <2>1. TypeOK /\ TypeOK'
    BY <1>2 DEF IInv
  <2>2. CASE UNCHANGED vars
    BY <1>2, <2>1, <2>2, SameLoads DEF vars, cpu
  <2> QED
    BY <1>2, <2>1, <2>2, ApiLoads, EnterLoads, NextUpLoads DEF Next, FaultHalt
<1>3. LoadInv => UtilizationIsSum
  BY DEF LoadInv
<1> QED
  BY Invariant, <1>1, <1>2, <1>3, PTL DEF Spec
=============================================================================
