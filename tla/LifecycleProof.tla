--------------------------- MODULE LifecycleProof ---------------------------
(***************************************************************************)
(* The safety properties of Lifecycle for any size of the heap and any     *)
(* number of calls and threads, and the invariant behind them.             *)
(***************************************************************************)
EXTENDS Lifecycle, TLAPS

Containers == {"incoming", "heaps", "rr", "outgoing"}
Serving    == {"ci_lock", "ci_alloc", "ci_publish", "cd_lock", "ack"}
Labels     == BootLabels \cup Serving \cup
              {"post2", "sev2", "loop", "in_call", "clear_spin", "send", "test", "wfi",
               "asleep", "restore", "idle", "add_push", "none", "schedule", "teardown"}

(* Where each context can be: only CPU0's main context calls the           *)
(* scheduler, and only CPU1's handler is asked to.                         *)
Places ==
    /\ pc \in [Contexts -> Labels]
    /\ pc[Main(CPU0)] \in {"await_ready", "post1", "sev1", "poll2", "wfe2", "clear",
                           "ci_lock", "ci_alloc", "ci_publish", "cd_lock", "clear_spin",
                           "send", "test", "wfi", "asleep", "restore", "idle", "add_push"}
    /\ pc[Main(CPU1)] \in {"publish", "wfe1", "poll1", "startup", "post2", "sev2", "loop", "in_call"}
    /\ pc[Irq(CPU0)] \in {"none", "schedule", "teardown"}
    /\ pc[Irq(CPU1)] \in {"none", "schedule", "teardown"} \cup Serving

Data ==
    /\ sched_init \in [Cores -> BOOLEAN]
    /\ request_terminate \in [Cores -> BOOLEAN]
    /\ failed \in [Cores -> BOOLEAN]
    /\ main_thread \in [Cores -> Blocks \cup {NULL}]
    /\ DOMAIN where \subseteq Blocks
    /\ \A b \in DOMAIN where : where[b] \in Cores \X Containers
    /\ \A b \in forgotten : b \in DOMAIN where /\ where[b][2] \in {"incoming", "outgoing"}
    /\ allocated \subseteq Blocks
    /\ thread_mutex \in [Cores -> Contexts \cup {Nobody}]
    /\ pending \in [Cores -> SUBSET {"init", "deinit", "ack"}]
    /\ pending[CPU0] \subseteq {"ack"} /\ pending[CPU1] \subseteq {"init", "deinit"}
    /\ call \in {"init", "deinit"}
    /\ up \in BOOLEAN
    /\ inits \in Nat

(* enqueue_new_thread has its block and its core until it has pushed it.   *)
Adding == IF pc[Main(CPU0)] = "add_push" THEN new \in Blocks \X Cores ELSE new = Nobody

TypeOK == Places /\ Data /\ Adding

LEMMA Names ==
    /\ CPU0 \in Cores /\ CPU1 \in Cores /\ CPU0 # CPU1
    /\ \A c \in Cores : c = CPU0 \/ c = CPU1
    /\ \A c, d \in Cores : /\ Main(c) # Irq(d)
                           /\ Main(c) = Main(d) => c = d
                           /\ Irq(c) = Irq(d) => c = d
    /\ \A c \in Cores : /\ Main(c) \in Contexts /\ Irq(c) \in Contexts
                        /\ Main(c)[1] = c /\ Irq(c)[1] = c
                        /\ Main(c)[2] = "main" /\ Irq(c)[2] = "irq"
  BY DEF Contexts, Main, Irq, Cores, CPU0, CPU1

LEMMA ContextIs == \A x \in Contexts : \E c \in Cores : x[1] = c /\ (x = Main(c) \/ x = Irq(c))
  BY DEF Contexts, Main, Irq

LEMMA NobodyIsNobody ==
    /\ \A c \in Cores : Main(c) # Nobody /\ Irq(c) # Nobody
    /\ \A b, c : <<b, c>> # Nobody
  BY DEF Main, Irq, Nobody

LEMMA OtherIs == Other(CPU0) = CPU1 /\ Other(CPU1) = CPU0
  BY DEF Other, CPU0, CPU1

(* k_malloc gives a block that nobody has, or NULL.                        *)
LEMMA Fresh ==
    ASSUME allocated \subseteq Blocks
    PROVE  /\ kMalloc \in Blocks \cup {NULL}
           /\ kMalloc # NULL => kMalloc \in Blocks \ allocated
           /\ NULL \notin Blocks
  <1>1. NULL \notin Blocks BY LifecycleAssumption DEF NULL, Blocks
  <1>2. CASE heap_up /\ allocated # Blocks
    <2>1. \E b \in Blocks : b \notin allocated BY <1>2
    <2> QED BY <1>1, <1>2, <2>1 DEF kMalloc
  <1>3. CASE ~(heap_up /\ allocated # Blocks)
    BY <1>1, <1>3 DEF kMalloc
  <1> QED BY <1>2, <1>3

LEMMA InitTypeOK == Init => TypeOK
  <1> SUFFICES ASSUME Init PROVE Places /\ Data /\ Adding BY DEF TypeOK
  <1> USE Names DEF Init
  <1>1. /\ pc[Main(CPU0)] = "await_ready" /\ pc[Main(CPU1)] = "publish"
        /\ \A c \in Cores : pc[Irq(c)] = "none"
    OBVIOUS
  <1>a. pc \in [Contexts -> Labels]
    BY DEF Labels, BootLabels
  <1>3. Places BY <1>1, <1>a DEF Places
  <1>2. Data BY DEF Data
  <1>4. Adding BY <1>1 DEF Adding
  <1> QED BY <1>2, <1>3, <1>4

(* What the steps do to the places.                                        *)
LEMMA Went ==
    ASSUME Places, NEW x \in Contexts, NEW l \in Labels, Goto(x, l)
    PROVE  /\ pc' \in [Contexts -> Labels]
           /\ pc'[x] = l
           /\ \A y \in Contexts : y # x => pc'[y] = pc[y]
  BY DEF Places, Goto

LEMMA WasInterrupted ==
    ASSUME Places, NEW c \in Cores, NEW l \in Labels, Interrupted(c, l)
    PROVE  /\ pc' \in [Contexts -> Labels]
           /\ pc'[Irq(c)] = l
           /\ pc'[Main(c)] = (IF pc[Main(c)] = "asleep" THEN "test" ELSE pc[Main(c)])
           /\ \A d \in Cores : d # c => pc'[Main(d)] = pc[Main(d)] /\ pc'[Irq(d)] = pc[Irq(d)]
  <1>1. /\ Main(c) \in Contexts /\ Irq(c) \in Contexts /\ Main(c) # Irq(c)
        /\ \A d \in Cores : d # c => /\ Main(d) \in Contexts /\ Irq(d) \in Contexts
                                     /\ Main(d) \notin {Main(c), Irq(c)}
                                     /\ Irq(d) \notin {Main(c), Irq(c)}
    BY Names
  <1>2. pc \in [Contexts -> Labels] BY DEF Places
  <1> DEFINE to == IF pc[Main(c)] = "asleep" THEN "test" ELSE pc[Main(c)]
  <1>3. to \in Labels
    <2>1. pc[Main(c)] \in Labels BY <1>1, <1>2
    <2>2. "test" \in Labels BY DEF Labels
    <2>3. to = "test" \/ to = pc[Main(c)] OBVIOUS
    <2> QED BY <2>1, <2>2, <2>3
  <1>4. pc' = [pc EXCEPT ![Irq(c)] = l, ![Main(c)] = to]
    BY <1>1, <1>2 DEF Interrupted
  <1> HIDE DEF to
  <1>5. /\ pc' \in [Contexts -> Labels]
        /\ pc'[Irq(c)] = l /\ pc'[Main(c)] = to
        /\ \A d \in Cores : d # c => pc'[Main(d)] = pc[Main(d)] /\ pc'[Irq(d)] = pc[Irq(d)]
    BY <1>1, <1>2, <1>3, <1>4
  <1> QED BY <1>5 DEF to

(* Each step leaves every context where it can be.                         *)
LEMMA NextPlaces == TypeOK /\ [Next]_vars => Places'
  <1> SUFFICES ASSUME TypeOK, [Next]_vars PROVE Places' OBVIOUS
  <1> USE Names DEF TypeOK, At
  <1>1. CASE Boot0
    <2> USE DEF Places, Labels, BootLabels
    <2>1. CASE AwaitReady BY <2>1, Went DEF AwaitReady
    <2>2. CASE Post(CPU0, "post1", "sev1", 1) BY <2>2, Went DEF Post
    <2>3. CASE Sev(CPU0, "sev1", "poll2") BY <2>3, Went DEF Sev
    <2>4. CASE Poll(CPU0, "poll2", Answered, "clear", "wfe2") BY <2>4, Went DEF Poll
    <2>5. CASE Wfe(CPU0, "wfe2", "poll2") BY <2>5, Went DEF Wfe
    <2>6. CASE Post(CPU0, "clear", "ci_lock", 0) BY <2>6, Went DEF Post, Serving
    <2> QED BY <1>1, <2>1, <2>2, <2>3, <2>4, <2>5, <2>6 DEF Boot0
  <1>2. CASE Boot1
    BY <1>2, Went DEF Boot1, Publish, Post, Sev, Poll, Wfe, Places, Labels, BootLabels
  <1>3. ASSUME NEW x \in {Main(CPU0), Irq(CPU0), Irq(CPU1)}, CoreCalls(x) PROVE Places'
    <2>1. CASE x = Main(CPU0)
      BY <1>3, <2>1, Went DEF CoreCalls, CiLock, CiAlloc, CiPublish, CdLock, Places, Labels, Serving
    <2>2. CASE x = Irq(CPU0)
      BY <1>3, <2>2 DEF CoreCalls, CiLock, CiAlloc, CiPublish, CdLock, Places, Serving
    <2>3. CASE x = Irq(CPU1)
      BY <1>3, <2>3, Went DEF CoreCalls, CiLock, CiAlloc, CiPublish, CdLock, Places, Labels, Serving
    <2> QED BY <2>1, <2>2, <2>3
  <1>4. CASE ClearSpin \/ SendRequest \/ TestSpin \/ Wfi \/ Restore \/ AddPush
    BY <1>4, Went DEF ClearSpin, SendRequest, TestSpin, Wfi, Poll, Restore, AddPush, Places, Labels
  <1>5. CASE MainCall
    BY <1>5, Went DEF MainCall, CallInit, CallDeinit, HeapDestroy, HeapInit, AddAlloc, Idle,
          Places, Labels, Serving
  <1>6. CASE ThreadLocks \/ ThreadUnlocks
    BY <1>6, Went DEF ThreadLocks, ThreadUnlocks, Places, Labels
  <1>7. ASSUME NEW c \in Cores, Schedule(c) \/ Teardown(c) \/ SendAck(c) PROVE Places'
    BY <1>7, Went DEF Schedule, Teardown, SendAck, Places, Labels
  <1>8. ASSUME NEW c \in Cores, TickSchedules(c) \/ TickTearsDown(c) \/ TickIsLost(c) \/ SgiAck(c)
        PROVE  Places'
    BY <1>8, WasInterrupted DEF TickSchedules, TickTearsDown, TickIsLost, SgiAck, Places, Labels
  <1>9. ASSUME NEW c \in Cores, NEW s \in {"init", "deinit"}, SgiRequest(c, s) PROVE Places'
    BY <1>9, WasInterrupted DEF SgiRequest, Data, Places, Labels, Serving
  <1>10. CASE UNCHANGED vars
    BY <1>10 DEF vars, Places
  <1> QED BY <1>1, <1>2, <1>3, <1>4, <1>5, <1>6, <1>7, <1>8, <1>9, <1>10
          DEF Next, MainStep, Handler, Sgi, Tick


(* psched_core_init takes the blocks of its core out of the containers,    *)
(* those in the slots of the two FIFOs excepted.                           *)
LEMMA CiLockLeaves ==
    ASSUME Data, NEW x \in Contexts, CiLock(x)
    PROVE  /\ DOMAIN where' \subseteq DOMAIN where
           /\ \A b \in DOMAIN where' : where'[b] = where[b]
           /\ \A b \in forgotten' : b \in DOMAIN where' /\ where[b][2] \in {"incoming", "outgoing"}
  <1> DEFINE left == {b \in DOMAIN where : where[b] \in {x[1]} \X {"incoming", "outgoing"}}
             kept == {b \in DOMAIN where : where[b][1] # x[1]}
  <1>1. where' = [b \in left \cup kept |-> where[b]] /\ forgotten' = forgotten \cup left
    BY DEF CiLock
  <1>2. left \subseteq DOMAIN where /\ kept \subseteq DOMAIN where OBVIOUS
  <1>3. \A b \in left : where[b][2] \in {"incoming", "outgoing"} OBVIOUS
  <1>4. \A b \in forgotten : b \in left \cup kept
    <2> SUFFICES ASSUME NEW b \in forgotten, b \notin kept PROVE b \in left OBVIOUS
    <2>1. /\ b \in DOMAIN where /\ where[b] \in Cores \X Containers
          /\ where[b][2] \in {"incoming", "outgoing"}
      BY DEF Data
    <2>2. where[b][1] = x[1] BY <2>1
    <2> QED BY <2>1, <2>2
  <1> HIDE DEF left, kept
  <1>5. DOMAIN where' = left \cup kept BY <1>1
  <1> QED BY <1>1, <1>2, <1>3, <1>4, <1>5 DEF Data

(* What a push overwrites.                                                 *)
LEMMA OverwrittenIs ==
    ASSUME Data, NEW c, NEW f, NEW s \in Overwritten(c, f)
    PROVE  s \subseteq forgotten /\ s \subseteq DOMAIN where
  BY DEF Overwritten, Data

(* A round of the scheduler moves no thread, one that may overwrite a      *)
(* forgotten one, or gives one back.                                       *)
MovesOne(c, b, to, s) ==
    /\ where' = [d \in DOMAIN where \ s |-> IF d = b THEN <<c, to>> ELSE where[d]]
    /\ forgotten' = forgotten \ s
    /\ lost' = lost \cup s
    /\ UNCHANGED allocated

Reclaims(b) ==
    /\ where' = [d \in DOMAIN where \ {b} |-> where[d]]
    /\ allocated' = allocated \ {b}
    /\ UNCHANGED <<forgotten, lost>>

LEMMA ScheduleDoes ==
    ASSUME NEW c \in Cores, Schedule(c)
    PROVE  \/ UNCHANGED <<where, forgotten, allocated, lost>>
           \/ \E b \in DOMAIN where \ forgotten : \E to \in {"heaps", "rr", "outgoing"} :
                 \E s \in SUBSET forgotten : MovesOne(c, b, to, s)
           \/ \E b \in DOMAIN where \ forgotten : Reclaims(b)
  <1>1. CASE UNCHANGED <<where, forgotten, allocated, lost>> BY <1>1
  <1>2. ASSUME NEW b \in DOMAIN where \ forgotten, NEW to \in Moves(where[b][2]),
               NEW s \in IF to = "outgoing" THEN Overwritten(c, to) ELSE {{}},
               MovesOne(c, b, to, s)
        PROVE  \E t \in {"heaps", "rr", "outgoing"} : \E r \in SUBSET forgotten : MovesOne(c, b, t, r)
    <2>1. to \in {"heaps", "rr", "outgoing"} BY DEF Moves
    <2>2. s \in SUBSET forgotten
      <3>1. s \in Overwritten(c, to) \/ s = {} OBVIOUS
      <3> QED BY <3>1 DEF Overwritten
    <2> QED BY <1>2, <2>1, <2>2, Zenon
  <1>3. ASSUME NEW b \in DOMAIN where \ forgotten,
               where' = [d \in DOMAIN where \ {b} |-> where[d]],
               allocated' = allocated \ {b}, UNCHANGED <<forgotten, lost>>
        PROVE  Reclaims(b)
    BY <1>3 DEF Reclaims
  <1> QED BY <1>1, <1>2, <1>3, ZenonT(60) DEF Schedule, MovesOne

(* A set of threads that loses or gains members keeps its type.            *)
LEMMA NextData == TypeOK /\ [Next]_vars => Data'
  <1> SUFFICES ASSUME TypeOK, [Next]_vars PROVE Data' OBVIOUS
  <1> USE Names DEF TypeOK, At
  <1>0. ASSUME UNCHANGED <<flags, where, forgotten, allocated, thread_mutex, pending, call, up, inits>>
        PROVE  Data'
    BY <1>0 DEF Data, flags
  <1> USE DEF flags, heap, locks, boot, hand, calls
  <1>1. CASE Boot0 \/ Boot1
    BY <1>0, <1>1 DEF Boot0, Boot1, AwaitReady, Publish, Post, Sev, Poll, Wfe
  <1>2. ASSUME NEW x \in Contexts, CiLock(x) PROVE Data'
    <2>1. DOMAIN where' \subseteq DOMAIN where /\ \A b \in DOMAIN where' : where'[b] = where[b]
      BY <1>2, CiLockLeaves
    <2>2. \A b \in forgotten' : b \in DOMAIN where' /\ where[b][2] \in {"incoming", "outgoing"}
      BY <1>2, CiLockLeaves
    <2>3. x[1] \in Cores /\ UNCHANGED <<flags, allocated, pending, call, up, inits>>
      BY <1>2, ContextIs DEF CiLock
    <2>4. thread_mutex' \in [Cores -> Contexts \cup {Nobody}]
      BY <1>2, <2>3 DEF CiLock, Data
    <2> QED BY <2>1, <2>2, <2>3, <2>4 DEF Data
  <1>3. ASSUME NEW x \in Contexts, CiAlloc(x) PROVE Data'
    BY <1>3, ContextIs, Fresh DEF CiAlloc, Data
  <1>4. ASSUME NEW x \in Contexts, CiPublish(x) PROVE Data'
    <2>1. x[1] \in Cores BY ContextIs
    <2> DEFINE ok == main_thread[x[1]] # NULL
    <2>2. ok \in BOOLEAN OBVIOUS
    <2>3. sched_init' \in [Cores -> BOOLEAN]
      BY <1>4, <2>1, <2>2, Zenon DEF CiPublish, Data
    <2>4. request_terminate' \in [Cores -> BOOLEAN]
      BY <1>4, <2>1, <2>2, Zenon DEF CiPublish, Data
    <2>5. failed' \in [Cores -> BOOLEAN]
      BY <1>4, <2>1, <2>2, Zenon DEF CiPublish, Data
    <2> QED BY <1>4, <2>1, <2>3, <2>4, <2>5 DEF CiPublish, Data
  <1>4a. ASSUME NEW x \in Contexts, CdLock(x) PROVE Data'
    BY <1>4a, ContextIs DEF CdLock, Data
  <1>5. CASE ClearSpin \/ TestSpin \/ Wfi
    BY <1>0, <1>5 DEF ClearSpin, TestSpin, Wfi, Poll
  <1>6. CASE SendRequest
    BY <1>6 DEF SendRequest, Data
  <1>7. CASE Restore
    BY <1>7 DEF Restore, Data
  <1>8. CASE AddPush
    <2>1. new[1] \in Blocks /\ new[2] \in Cores BY <1>8 DEF AddPush, Adding
    <2>2. PICK s \in Overwritten(new[2], "incoming") :
             /\ where' = [b \in (DOMAIN where \ s) \cup {new[1]} |->
                             IF b = new[1] THEN <<new[2], "incoming">> ELSE where[b]]
             /\ forgotten' = forgotten \ s
      BY <1>8 DEF AddPush
    <2>3. \A b \in DOMAIN where' : b = new[1] \/ b \in DOMAIN where BY <2>2
    <2>4. \A b \in forgotten' : b \in DOMAIN where' /\ where'[b][2] \in {"incoming", "outgoing"}
      BY <2>2 DEF Data
    <2>5. \A b \in DOMAIN where' : where'[b] \in Cores \X Containers
      BY <2>1, <2>2, <2>3 DEF Data, Containers
    <2>6. UNCHANGED <<flags, allocated, thread_mutex, pending, call, up, inits>>
      BY <1>8 DEF AddPush
    <2> QED BY <2>1, <2>3, <2>4, <2>5, <2>6 DEF Data
  <1>9. CASE CallInit \/ CallDeinit \/ HeapInit
    BY <1>9 DEF CallInit, CallDeinit, HeapInit, Data
  <1>10. CASE HeapDestroy
    BY <1>10 DEF HeapDestroy, Data
  <1>11. ASSUME NEW c \in Cores, AddAlloc(c) PROVE Data'
    BY <1>11, Fresh DEF AddAlloc, Data
  <1>12. CASE ThreadLocks \/ ThreadUnlocks
    BY <1>12 DEF ThreadLocks, ThreadUnlocks, Data
  <1>13. ASSUME NEW c \in Cores, TickSchedules(c) \/ TickTearsDown(c) \/ TickIsLost(c) PROVE Data'
    BY <1>13 DEF TickSchedules, TickTearsDown, TickIsLost, Data
  <1>14. ASSUME NEW c \in Cores, Schedule(c) PROVE Data'
    <2>1. UNCHANGED <<flags, pending, call, up, inits>> BY <1>14 DEF Schedule
    <2>2. thread_mutex' \in [Cores -> Contexts \cup {Nobody}] BY <1>14 DEF Schedule, Data
    <2>3. /\ DOMAIN where' \subseteq DOMAIN where
          /\ \A b \in DOMAIN where' : where'[b] \in Cores \X Containers
          /\ \A b \in forgotten' : b \in DOMAIN where' /\ where'[b][2] \in {"incoming", "outgoing"}
      <3>1. CASE UNCHANGED <<where, forgotten>> BY <3>1 DEF Data
      <3>2. ASSUME NEW b \in DOMAIN where \ forgotten, NEW to \in {"heaps", "rr", "outgoing"},
                   NEW s \in SUBSET forgotten, MovesOne(c, b, to, s)
            PROVE  <2>3
        BY <3>2 DEF MovesOne, Data, Containers
      <3>3. ASSUME NEW b \in DOMAIN where \ forgotten, Reclaims(b) PROVE <2>3
        BY <3>3 DEF Reclaims, Data
      <3> QED BY <1>14, <3>1, <3>2, <3>3, ScheduleDoes
    <2>4. allocated' \subseteq allocated
      <3>1. allocated' = allocated \/ \E b \in DOMAIN where : allocated' = allocated \ {b}
        BY <1>14, ScheduleDoes DEF MovesOne, Reclaims
      <3> QED BY <3>1
    <2> QED BY <2>1, <2>2, <2>3, <2>4 DEF Data
  <1>15. ASSUME NEW c \in Cores, Teardown(c) PROVE Data'
    BY <1>15 DEF Teardown, ClearsFlags, GivesBack, Data
  <1>16. ASSUME NEW c \in Cores, SgiAck(c) PROVE Data'
    BY <1>16 DEF SgiAck, Data
  <1>17. ASSUME NEW c \in Cores, NEW s \in {"init", "deinit"}, SgiRequest(c, s) PROVE Data'
    BY <1>17 DEF SgiRequest, Data
  <1>18. ASSUME NEW c \in Cores, SendAck(c) PROVE Data'
    BY <1>18, OtherIs DEF SendAck, Data, Places
  <1>19. CASE UNCHANGED vars
    BY <1>0, <1>19 DEF vars
  <1> QED BY <1>1, <1>2, <1>3, <1>4, <1>4a, <1>5, <1>6, <1>7, <1>8, <1>9, <1>10, <1>11, <1>12, <1>13,
             <1>14, <1>15, <1>16, <1>17, <1>18, <1>19
          DEF Next, MainStep, MainCall, Handler, Sgi, Tick, CoreCalls


LEMMA NextAdding == TypeOK /\ [Next]_vars => Adding'
  <1> SUFFICES ASSUME TypeOK, [Next]_vars PROVE Adding' OBVIOUS
  <1> USE Names DEF TypeOK, At
  <1>0. ASSUME new' = new, pc'[Main(CPU0)] = pc[Main(CPU0)]
        PROVE  Adding'
    BY <1>0 DEF Adding
  <1>a. ASSUME new' = new, pc'[Main(CPU0)] # "add_push", pc[Main(CPU0)] # "add_push"
        PROVE  Adding'
    BY <1>a DEF Adding
  <1> USE DEF calls
  <1>1. CASE Boot0
    BY <1>a, <1>1, Went DEF Boot0, AwaitReady, Post, Sev, Poll, Wfe, Labels, BootLabels, Serving
  <1>2. CASE Boot1
    BY <1>0, <1>2, Went DEF Boot1, Publish, Post, Sev, Poll, Wfe, Labels, BootLabels
  <1>3. ASSUME NEW x \in {Main(CPU0), Irq(CPU0), Irq(CPU1)}, CoreCalls(x) PROVE Adding'
    <2>1. CASE x = Main(CPU0)
      BY <1>a, <1>3, <2>1, Went DEF CoreCalls, CiLock, CiAlloc, CiPublish, CdLock, Labels, Serving
    <2>2. CASE x = Irq(CPU0) \/ x = Irq(CPU1)
      BY <1>0, <1>3, <2>2, Went DEF CoreCalls, CiLock, CiAlloc, CiPublish, CdLock, Labels, Serving
    <2> QED BY <2>1, <2>2
  <1>4. CASE ClearSpin \/ SendRequest \/ TestSpin \/ Wfi \/ Restore
    BY <1>a, <1>4, Went DEF ClearSpin, SendRequest, TestSpin, Wfi, Poll, Restore, Labels
  <1>4a. CASE AddPush
    BY <1>4a, Went DEF AddPush, Adding, Labels
  <1>5. CASE CallInit \/ CallDeinit \/ HeapDestroy \/ HeapInit
    BY <1>a, <1>5, Went DEF CallInit, CallDeinit, HeapDestroy, HeapInit, Idle, Labels, Serving
  <1>5a. ASSUME NEW c \in Cores, AddAlloc(c) PROVE Adding'
    BY <1>5a, Went, Fresh DEF AddAlloc, Idle, Labels, Adding, Data
  <1>6. CASE ThreadLocks \/ ThreadUnlocks
    BY <1>0, <1>6, Went DEF ThreadLocks, ThreadUnlocks, Labels
  <1>7. ASSUME NEW c \in Cores, Schedule(c) \/ Teardown(c) \/ SendAck(c) PROVE Adding'
    BY <1>0, <1>7, Went DEF Schedule, Teardown, SendAck, Labels
  <1>8. ASSUME NEW c \in Cores, NEW l \in Labels, Interrupted(c, l), UNCHANGED new PROVE Adding'
    <2>1. CASE pc[Main(CPU0)] = "asleep" BY <1>a, <1>8, <2>1, WasInterrupted
    <2>2. CASE pc[Main(CPU0)] # "asleep" BY <1>0, <1>8, <2>2, WasInterrupted
    <2> QED BY <2>1, <2>2
  <1>9. ASSUME NEW c \in Cores, TickSchedules(c) \/ TickTearsDown(c) \/ TickIsLost(c) \/ SgiAck(c)
        PROVE  Adding'
    BY <1>8, <1>9 DEF TickSchedules, TickTearsDown, TickIsLost, SgiAck, Labels
  <1>10. ASSUME NEW c \in Cores, NEW s \in {"init", "deinit"}, SgiRequest(c, s) PROVE Adding'
    BY <1>8, <1>10 DEF SgiRequest, Labels, Serving
  <1>11. CASE UNCHANGED vars
    BY <1>0, <1>11 DEF vars
  <1> QED BY <1>1, <1>2, <1>3, <1>4, <1>4a, <1>5, <1>5a, <1>6, <1>7, <1>9, <1>10, <1>11
          DEF Next, MainStep, MainCall, Handler, Sgi, Tick


-----------------------------------------------------------------------------
(* A mutex is held exactly by the context that is inside its section, so   *)
(* that a core's handler and its other context are never both in one.      *)
InSection(x) == pc[x] \in {"ci_alloc", "ci_publish", "in_call", "schedule", "teardown"}

Locked ==
    /\ \A c \in Cores :
          /\ thread_mutex[c] \in {Main(c), Irq(c), Nobody}
          /\ thread_mutex[c] = Main(c) <=> InSection(Main(c))
          /\ thread_mutex[c] = Irq(c) <=> InSection(Irq(c))
          /\ allocator_mutex = Irq(c) <=> pc[Irq(c)] = "teardown"
    /\ allocator_mutex \in {Irq(CPU0), Irq(CPU1), Nobody}

LEMMA OneSection ==
    ASSUME Locked, NEW c \in Cores
    PROVE  /\ ~(InSection(Main(c)) /\ InSection(Irq(c)))
           /\ pc[Irq(CPU0)] # "teardown" \/ pc[Irq(CPU1)] # "teardown"
  BY Names DEF Locked

LEMMA NextLocked == TypeOK /\ Locked /\ [Next]_vars => Locked'
  <1> SUFFICES ASSUME TypeOK, Locked, [Next]_vars PROVE Locked' OBVIOUS
  <1> USE Names, NobodyIsNobody DEF TypeOK, At
  <1>0. ASSUME UNCHANGED locks,
               \A c \in Cores : /\ InSection(Main(c))' = InSection(Main(c))
                                /\ InSection(Irq(c))' = InSection(Irq(c))
                                /\ (pc'[Irq(c)] = "teardown") = (pc[Irq(c)] = "teardown")
        PROVE  Locked'
    BY <1>0 DEF Locked, locks
  <1>a. ASSUME UNCHANGED locks, NEW x \in Contexts, NEW l \in Labels, Goto(x, l),
               ~InSection(x), l \notin {"ci_alloc", "ci_publish", "in_call", "schedule", "teardown"}
        PROVE  Locked'
    <2>1. \A y \in Contexts : pc'[y] = IF y = x THEN l ELSE pc[y] BY <1>a, Went
    <2> QED BY <1>0, <1>a, <2>1 DEF InSection
  <1>b. ASSUME UNCHANGED locks, NEW c \in Cores, NEW l \in Labels, Interrupted(c, l),
               pc[Irq(c)] = "none",
               l \notin {"ci_alloc", "ci_publish", "in_call", "schedule", "teardown"}
        PROVE  Locked'
    BY <1>0, <1>b, WasInterrupted DEF InSection
  <1>1. CASE Boot0 \/ Boot1
    BY <1>a, <1>1 DEF Boot0, Boot1, AwaitReady, Publish, Post, Sev, Poll, Wfe, InSection,
          Labels, BootLabels, Serving
  <1>2. ASSUME NEW c \in Cores, NEW x \in {Main(c), Irq(c)}, CiLock(x) PROVE Locked'
    BY <1>2, Went, SMTT(40) DEF CiLock, Labels, Serving, Locked, InSection, Data
  <1>3. ASSUME NEW c \in Cores, NEW x \in {Main(c), Irq(c)}, CiAlloc(x) PROVE Locked'
    BY <1>3, <1>0, Went DEF CiAlloc, Labels, Serving, InSection
  <1>4. ASSUME NEW c \in Cores, NEW x \in {Main(c), Irq(c)}, CiPublish(x) PROVE Locked'
    BY <1>4, Went DEF CiPublish, Labels, Serving, Locked, InSection, Data
  <1>5. ASSUME NEW c \in Cores, NEW x \in {Main(c), Irq(c)}, CdLock(x) PROVE Locked'
    BY <1>5, <1>a DEF CdLock, Labels, Serving, InSection, locks
  <1>6. CASE ClearSpin \/ SendRequest \/ TestSpin \/ Wfi \/ Restore \/ AddPush
    BY <1>a, <1>6 DEF ClearSpin, SendRequest, TestSpin, Wfi, Poll, Restore, AddPush, InSection, Labels
  <1>7. CASE CallInit \/ CallDeinit
    BY <1>a, <1>7 DEF CallInit, CallDeinit, Idle, InSection, Labels, Serving
  <1>8. CASE HeapDestroy \/ HeapInit
    BY <1>0, <1>8 DEF HeapDestroy, HeapInit, InSection
  <1>9. ASSUME NEW c \in Cores, AddAlloc(c) PROVE Locked'
    BY <1>a, <1>9 DEF AddAlloc, Idle, InSection, Labels
  <1>10. CASE ThreadLocks \/ ThreadUnlocks
    BY <1>10, Went DEF ThreadLocks, ThreadUnlocks, Labels, Locked, InSection, Data
  <1>11. ASSUME NEW c \in Cores, Schedule(c) PROVE Locked'
    <2>1. /\ pc[Irq(c)] = "schedule" /\ Goto(Irq(c), "none")
          /\ thread_mutex' = [thread_mutex EXCEPT ![c] = Nobody]
          /\ UNCHANGED allocator_mutex
      BY <1>11 DEF Schedule
    <2> QED BY <2>1, Went DEF Labels, Locked, InSection, Data
  <1>12. ASSUME NEW c \in Cores, Teardown(c) PROVE Locked'
    <2>1. /\ pc[Irq(c)] = "teardown" /\ Goto(Irq(c), "none")
          /\ thread_mutex' = [thread_mutex EXCEPT ![c] = Nobody]
          /\ allocator_mutex' = Nobody
      BY <1>12 DEF Teardown, GivesBack
    <2> QED BY <2>1, Went DEF Labels, Locked, InSection, Data
  <1>13. ASSUME NEW c \in Cores, SendAck(c) PROVE Locked'
    BY <1>a, <1>13 DEF SendAck, InSection, Labels
  <1>14. ASSUME NEW c \in Cores, TickSchedules(c) PROVE Locked'
    BY <1>14, WasInterrupted DEF TickSchedules, MayInterrupt, Labels, Locked, InSection, Data
  <1>15. ASSUME NEW c \in Cores, TickTearsDown(c) PROVE Locked'
    BY <1>15, WasInterrupted DEF TickTearsDown, MayInterrupt, Labels, Locked, InSection, Data
  <1>16. ASSUME NEW c \in Cores, TickIsLost(c) \/ SgiAck(c) PROVE Locked'
    BY <1>b, <1>16 DEF TickIsLost, SgiAck, MayInterrupt, Labels
  <1>17. ASSUME NEW c \in Cores, NEW s \in {"init", "deinit"}, SgiRequest(c, s) PROVE Locked'
    BY <1>b, <1>17 DEF SgiRequest, MayInterrupt, Labels, Serving
  <1>18. CASE UNCHANGED vars
    BY <1>0, <1>18 DEF vars, InSection
  <1> QED BY <1>1, <1>2, <1>3, <1>4, <1>5, <1>6, <1>7, <1>8, <1>9, <1>10, <1>11, <1>12, <1>13,
             <1>14, <1>15, <1>16, <1>17, <1>18
          DEF Next, MainStep, MainCall, Handler, Sgi, Tick, CoreCalls


-----------------------------------------------------------------------------
(* Boot.  CPU0 is past the mailbox only when CPU1 has answered.            *)
CpuOneUp == pc[Main(CPU1)] \in {"sev2", "loop", "in_call"}

Booted ==
    g_cpu_mailbox = 2 \/ pc[Main(CPU0)] = "clear" \/ pc[Main(CPU0)] \notin BootLabels => CpuOneUp

LEMMA NextBooted == TypeOK /\ Booted /\ [Next]_vars => Booted'
  <1> SUFFICES ASSUME TypeOK, Booted, [Next]_vars PROVE Booted' OBVIOUS
  <1> USE Names DEF TypeOK, At
  <1>0. ASSUME UNCHANGED g_cpu_mailbox, CpuOneUp => CpuOneUp',
               pc[Main(CPU0)] \in BootLabels => pc'[Main(CPU0)] = pc[Main(CPU0)]
        PROVE  Booted'
    BY <1>0 DEF Booted
  <1>a. ASSUME UNCHANGED g_cpu_mailbox, NEW x \in Contexts, x # Main(CPU1), NEW l \in Labels, Goto(x, l),
               x # Main(CPU0) \/ pc[x] \notin BootLabels
        PROVE  Booted'
    BY <1>0, <1>a, Went DEF CpuOneUp
  <1>b. ASSUME UNCHANGED g_cpu_mailbox, NEW c \in Cores, NEW l \in Labels, Interrupted(c, l)
        PROVE  Booted'
    <2>1. \A d \in Cores : pc'[Main(d)] = IF d = c /\ pc[Main(d)] = "asleep" THEN "test" ELSE pc[Main(d)]
      BY <1>b, WasInterrupted
    <2>2. CpuOneUp => CpuOneUp' BY <2>1 DEF CpuOneUp
    <2>3. pc[Main(CPU0)] \in BootLabels => pc'[Main(CPU0)] = pc[Main(CPU0)]
      BY <2>1 DEF BootLabels
    <2> QED BY <1>0, <1>b, <2>2, <2>3
  <1> USE DEF flags, heap, locks, boot, hand, calls
  <1>1. CASE Boot0
    <2> USE DEF CpuOneUp, Booted, Labels, BootLabels
    <2>1. CASE AwaitReady BY <2>1, Went DEF AwaitReady
    <2>2. CASE Post(CPU0, "post1", "sev1", 1) BY <2>2, Went DEF Post
    <2>3. CASE Sev(CPU0, "sev1", "poll2") BY <2>3, Went DEF Sev
    <2>4. CASE Poll(CPU0, "poll2", Answered, "clear", "wfe2") BY <2>4, Went DEF Poll, Answered
    <2>5. CASE Wfe(CPU0, "wfe2", "poll2") BY <2>5, Went DEF Wfe
    <2>6. CASE Post(CPU0, "clear", "ci_lock", 0) BY <2>6, Went DEF Post, Serving
    <2> QED BY <1>1, <2>1, <2>2, <2>3, <2>4, <2>5, <2>6 DEF Boot0
  <1>2. CASE Boot1
    <2> USE DEF CpuOneUp, Booted, Labels, BootLabels
    <2>1. CASE Publish BY <2>1, Went DEF Publish
    <2>2. CASE Wfe(CPU1, "wfe1", "poll1") BY <2>2, Went DEF Wfe
    <2>3. CASE Poll(CPU1, "poll1", g_cpu_mailbox # 0, "startup", "wfe1") BY <2>3, Went DEF Poll
    <2>4. CASE Poll(CPU1, "startup", TRUE, "post2", "post2") BY <2>4, Went DEF Poll
    <2>5. CASE Post(CPU1, "post2", "sev2", 2) BY <2>5, Went DEF Post
    <2>6. CASE Sev(CPU1, "sev2", "loop") BY <2>6, Went DEF Sev
    <2> QED BY <1>2, <2>1, <2>2, <2>3, <2>4, <2>5, <2>6 DEF Boot1
  <1>3. ASSUME NEW x \in {Main(CPU0), Irq(CPU0), Irq(CPU1)}, CoreCalls(x) PROVE Booted'
    BY <1>3, <1>a DEF CoreCalls, CiLock, CiAlloc, CiPublish, CdLock, BootLabels, Labels, Serving
  <1>4. CASE ClearSpin \/ SendRequest \/ TestSpin \/ Wfi \/ Restore \/ AddPush
    BY <1>4, <1>a DEF ClearSpin, SendRequest, TestSpin, Wfi, Poll, Restore, AddPush, Labels, BootLabels
  <1>5. CASE MainCall
    BY <1>5, <1>0, <1>a DEF MainCall, CallInit, CallDeinit, HeapDestroy, HeapInit, AddAlloc, Idle,
          CpuOneUp, Labels, BootLabels, Serving
  <1>6. CASE ThreadLocks \/ ThreadUnlocks
    BY <1>6, <1>0, Went DEF ThreadLocks, ThreadUnlocks, Labels, CpuOneUp
  <1>7. ASSUME NEW c \in Cores, Schedule(c) \/ Teardown(c) \/ SendAck(c) PROVE Booted'
    BY <1>7, <1>a DEF Schedule, Teardown, SendAck, Labels
  <1>8. ASSUME NEW c \in Cores, TickSchedules(c) \/ TickTearsDown(c) \/ TickIsLost(c) \/ SgiAck(c)
        PROVE  Booted'
    BY <1>8, <1>b DEF TickSchedules, TickTearsDown, TickIsLost, SgiAck, Labels
  <1>9. ASSUME NEW c \in Cores, NEW s \in {"init", "deinit"}, SgiRequest(c, s) PROVE Booted'
    BY <1>9, <1>b DEF SgiRequest, Labels, Serving
  <1>10. CASE UNCHANGED vars
    BY <1>0, <1>10 DEF vars, CpuOneUp
  <1> QED BY <1>1, <1>2, <1>3, <1>4, <1>5, <1>6, <1>7, <1>8, <1>9, <1>10
          DEF Next, MainStep, Handler, Sgi, Tick


-----------------------------------------------------------------------------
(* The handshake of psched_init and psched_deinit: one request is on its   *)
(* way to CPU1, being served, being answered or answered, and none outlives*)
(* the call that made it.                                                  *)
Waiting == pc[Main(CPU0)] \in {"test", "wfi", "asleep"}

Handshake ==
    /\ g_spin_exit \in {0, 1}
    /\ pc[Main(CPU0)] = "cd_lock" => call = "deinit"
    /\ pc[Main(CPU0)] \in {"ci_lock", "ci_alloc", "ci_publish"} \cup BootLabels => call = "init"
    /\ pc[Main(CPU0)] \in {"send", "test", "wfi", "asleep", "restore"} => prev = 0
    /\ pc[Main(CPU0)] = "restore" => g_spin_exit = 1
    /\ pc[Main(CPU0)] \notin {"test", "wfi", "asleep", "restore"} => g_spin_exit = 0
    /\ pending[CPU1] \subseteq {call}
    /\ pending[CPU1] # {} => Waiting /\ pending[CPU0] = {} /\ g_spin_exit = 0
                             /\ pc[Irq(CPU1)] \notin Serving
    /\ pc[Irq(CPU1)] \in Serving => Waiting /\ pending[CPU0] = {} /\ g_spin_exit = 0
    /\ pc[Irq(CPU1)] \in {"ci_lock", "ci_alloc", "ci_publish"} => call = "init"
    /\ pc[Irq(CPU1)] = "cd_lock" => call = "deinit"
    /\ pending[CPU0] # {} => Waiting /\ g_spin_exit = 0

LEMMA NextHandshake == TypeOK /\ Handshake /\ [Next]_vars => Handshake'
  <1> SUFFICES ASSUME TypeOK, Handshake, [Next]_vars PROVE Handshake' OBVIOUS
  <1> USE Names DEF TypeOK, At
  (* Frames: neither of the two contexts of the handshake moves in it.      *)
  <1>0. ASSUME UNCHANGED <<g_spin_exit, prev, pending, call>>,
               pc'[Main(CPU0)] = pc[Main(CPU0)],
               \/ pc'[Irq(CPU1)] = pc[Irq(CPU1)]
               \/ pc'[Irq(CPU1)] \notin Serving
        PROVE  Handshake'
    BY <1>0 DEF Handshake, Waiting, Serving
  <1>a. ASSUME UNCHANGED <<g_spin_exit, prev, pending, call>>,
               NEW x \in Contexts, NEW l \in Labels, Goto(x, l), x # Main(CPU0),
               x = Irq(CPU1) => l \notin Serving
        PROVE  Handshake'
    BY <1>0, <1>a, Went
  <1>b. ASSUME UNCHANGED <<g_spin_exit, prev, pending, call>>, NEW c \in Cores,
               NEW l \in Labels \ Serving, Interrupted(c, l)
        PROVE  Handshake'
    <2>1. \/ pc'[Main(CPU0)] = pc[Main(CPU0)]
          \/ pc[Main(CPU0)] = "asleep" /\ pc'[Main(CPU0)] = "test"
      BY <1>b, WasInterrupted
    <2>2. pc'[Irq(CPU1)] = pc[Irq(CPU1)] \/ pc'[Irq(CPU1)] \notin Serving
      BY <1>b, WasInterrupted
    <2> QED BY <1>b, <2>1, <2>2 DEF Handshake, Waiting, Serving, BootLabels
  <1> USE DEF flags, heap, locks, boot, hand, calls
  <1>1. CASE Boot0
    <2> USE DEF Handshake, Waiting, Serving, Labels, BootLabels
    <2>1. CASE AwaitReady BY <2>1, Went DEF AwaitReady
    <2>2. CASE Post(CPU0, "post1", "sev1", 1) BY <2>2, Went DEF Post
    <2>3. CASE Sev(CPU0, "sev1", "poll2") BY <2>3, Went DEF Sev
    <2>4. CASE Poll(CPU0, "poll2", Answered, "clear", "wfe2") BY <2>4, Went DEF Poll
    <2>5. CASE Wfe(CPU0, "wfe2", "poll2") BY <2>5, Went DEF Wfe
    <2>6. CASE Post(CPU0, "clear", "ci_lock", 0) BY <2>6, Went DEF Post
    <2> QED BY <1>1, <2>1, <2>2, <2>3, <2>4, <2>5, <2>6 DEF Boot0
  <1>2. CASE Boot1
    BY <1>2, <1>a DEF Boot1, Publish, Post, Sev, Poll, Wfe, Labels, BootLabels
  <1>3. ASSUME NEW x \in {Main(CPU0), Irq(CPU0), Irq(CPU1)}, CoreCalls(x) PROVE Handshake'
    <2>0. UNCHANGED <<g_spin_exit, prev, pending, call>>
      BY <1>3 DEF CoreCalls, CiLock, CiAlloc, CiPublish, CdLock
    <2> USE DEF CoreCalls, CiLock, CiAlloc, CiPublish, CdLock, Labels, Serving
    <2>1. CASE x = Main(CPU0)
      BY <1>3, <2>0, <2>1, Went DEF Handshake, Waiting, BootLabels
    <2>2. CASE x = Irq(CPU0)
      BY <1>3, <2>2 DEF Places
    <2>3. CASE x = Irq(CPU1)
      BY <1>3, <2>0, <2>3, Went DEF Handshake, Waiting
    <2> QED BY <2>1, <2>2, <2>3
  <1>4. CASE ClearSpin BY <1>4, Went DEF ClearSpin, Handshake, Waiting, Labels, BootLabels, Serving
  <1>5. CASE SendRequest
    <2>1. /\ pending'[CPU1] = pending[CPU1] \cup {call} /\ pending'[CPU0] = pending[CPU0]
          /\ UNCHANGED <<g_spin_exit, prev, call>>
          /\ pc[Main(CPU0)] = "send" /\ Goto(Main(CPU0), "test")
      BY <1>5 DEF SendRequest, Data
    <2> QED BY <2>1, Went DEF Handshake, Waiting, Labels, BootLabels, Serving
  <1>6. CASE TestSpin \/ Wfi
    BY <1>6, Went DEF TestSpin, Wfi, Poll, Handshake, Waiting, Labels, BootLabels, Serving
  <1>7. CASE Restore BY <1>7, Went DEF Restore, Handshake, Waiting, Labels, BootLabels, Serving
  <1>8. CASE AddPush BY <1>8, Went DEF AddPush, Handshake, Waiting, Labels, BootLabels, Serving
  <1>9. CASE CallInit \/ CallDeinit
    BY <1>9, Went DEF CallInit, CallDeinit, Idle, Handshake, Waiting, Labels, BootLabels, Serving
  <1>10. CASE HeapDestroy \/ HeapInit
    BY <1>10, <1>0 DEF HeapDestroy, HeapInit
  <1>11. ASSUME NEW c \in Cores, AddAlloc(c) PROVE Handshake'
    BY <1>11, Went DEF AddAlloc, Idle, Handshake, Waiting, Labels, BootLabels, Serving
  <1>12. CASE ThreadLocks \/ ThreadUnlocks
    BY <1>12, <1>a DEF ThreadLocks, ThreadUnlocks, Labels
  <1>13. ASSUME NEW c \in Cores, Schedule(c) \/ Teardown(c) PROVE Handshake'
    BY <1>13, <1>a DEF Schedule, Teardown, Labels, Serving
  <1>14. ASSUME NEW c \in Cores, SendAck(c) PROVE Handshake'
    <2>1. c = CPU1 /\ Goto(Irq(CPU1), "none") /\ pc[Irq(CPU1)] = "ack" BY <1>14 DEF SendAck, Places
    <2>2. /\ pending'[CPU1] = pending[CPU1] /\ pending'[CPU0] = pending[CPU0] \cup {"ack"}
          /\ UNCHANGED <<g_spin_exit, prev, call>>
      BY <1>14, <2>1, OtherIs DEF SendAck, Data
    <2> QED BY <2>1, <2>2, Went DEF Handshake, Waiting, Labels, BootLabels, Serving
  <1>15. ASSUME NEW c \in Cores, TickSchedules(c) \/ TickTearsDown(c) \/ TickIsLost(c) PROVE Handshake'
    BY <1>15, <1>b DEF TickSchedules, TickTearsDown, TickIsLost, Labels, Serving
  <1>16. ASSUME NEW c \in Cores, SgiAck(c) PROVE Handshake'
    <2>1. c = CPU0 /\ "ack" \in pending[CPU0] BY <1>16 DEF SgiAck, Data
    <2>2. /\ pending'[CPU1] = pending[CPU1] /\ pending'[CPU0] = {}
          /\ g_spin_exit' = 1 /\ UNCHANGED <<prev, call>> /\ Interrupted(CPU0, "none")
      BY <1>16, <2>1 DEF SgiAck, Data
    <2>3. /\ pc'[Main(CPU0)] = (IF pc[Main(CPU0)] = "asleep" THEN "test" ELSE pc[Main(CPU0)])
          /\ pc'[Irq(CPU1)] = pc[Irq(CPU1)]
      BY <2>2, WasInterrupted DEF Labels
    <2> QED BY <2>1, <2>2, <2>3 DEF Handshake, Waiting, BootLabels, Serving
  <1>17. ASSUME NEW c \in Cores, NEW s \in {"init", "deinit"}, SgiRequest(c, s) PROVE Handshake'
    <2> DEFINE l == IF s = "init" THEN "ci_lock" ELSE "cd_lock"
    <2>0. l \in Labels BY DEF Labels, Serving
    <2>1. c = CPU1 /\ s \in pending[CPU1] BY <1>17 DEF SgiRequest, Data
    <2>2. s = call BY <2>1 DEF Handshake
    <2>3. /\ pending'[CPU0] = pending[CPU0] /\ pending'[CPU1] = {}
          /\ UNCHANGED <<g_spin_exit, prev, call>> /\ Interrupted(CPU1, l)
      BY <1>17, <2>1, <2>2 DEF SgiRequest, Data, Handshake
    <2>4. pc'[Main(CPU0)] = pc[Main(CPU0)] /\ pc'[Irq(CPU1)] = l
      BY <2>0, <2>3, WasInterrupted
    <2> QED BY <2>1, <2>2, <2>3, <2>4 DEF Handshake, Waiting, BootLabels, Serving
  <1>18. CASE UNCHANGED vars
    BY <1>0, <1>18 DEF vars
  <1> QED BY <1>1, <1>2, <1>3, <1>4, <1>5, <1>6, <1>7, <1>8, <1>9, <1>10, <1>11, <1>12, <1>13,
             <1>14, <1>15, <1>16, <1>17, <1>18
          DEF Next, MainStep, MainCall, Handler, Sgi, Tick


-----------------------------------------------------------------------------
(* A core that was asked has done what it was asked for, and a tick in     *)
(* between cannot undo it: a teardown only follows a request to terminate, *)
(* and a core is asked to terminate only after its psched_init.            *)
IsUp(c) == failed[c] \/ ReadyToRun(c)
IsDown(c) == request_terminate[c] \/ ~sched_init[c]
Done(c) == IF call = "init" THEN IsUp(c) ELSE IsDown(c)

Answers ==
    /\ \A c \in Cores : pc[Irq(c)] = "teardown" => request_terminate[c]
    /\ pc[Main(CPU0)] \in {"clear_spin", "send", "test", "wfi", "asleep", "restore"} => Done(CPU0)
    /\ pc[Irq(CPU1)] = "ack" \/ pending[CPU0] # {} \/ g_spin_exit = 1 => Done(CPU1)

Rounds ==
    /\ inits > 0
    /\ call = "deinit" => inits > 1
    /\ inits = 1 => \A c \in Cores : ~request_terminate[c]
    /\ up /\ call = "init" => pc[Main(CPU0)] \in {"idle", "add_push"} /\ \A c \in Cores : IsUp(c)
    /\ up /\ call = "deinit" => pc[Main(CPU0)] \notin {"idle", "add_push"}
    /\ pc[Main(CPU0)] = "cd_lock" => IsUp(CPU0)
    /\ call = "deinit" /\ \/ pc[Main(CPU0)] \in {"cd_lock", "clear_spin", "send"}
                          \/ pending[CPU1] # {}
                          \/ pc[Irq(CPU1)] = "cd_lock"
          => IsUp(CPU1)

Standing == TypeOK /\ Handshake /\ Answers /\ Rounds

(* What the steps that write a core's flags do to them.                    *)
LEMMA Publishes ==
    ASSUME TypeOK, NEW c \in Cores, NEW x \in {Main(c), Irq(c)}, CiPublish(x)
    PROVE  /\ IsUp(c)'
           /\ request_terminate'[c] => request_terminate[c]
           /\ \A d \in Cores : d # c => /\ sched_init'[d] = sched_init[d]
                                        /\ request_terminate'[d] = request_terminate[d]
                                        /\ failed'[d] = failed[d]
  <1> DEFINE ok == main_thread[c] # NULL
  <1>0. x[1] = c BY Names
  <1>1. /\ sched_init' = [sched_init EXCEPT ![c] = @ \/ ok]
        /\ request_terminate' = [request_terminate EXCEPT ![c] = @ /\ ~ok]
        /\ failed' = [failed EXCEPT ![c] = ~ok]
    BY <1>0 DEF CiPublish
  <1>2. /\ sched_init'[c] = (sched_init[c] \/ ok)
        /\ request_terminate'[c] = (request_terminate[c] /\ ~ok)
        /\ failed'[c] = ~ok
    BY <1>1 DEF TypeOK, Data
  <1>3. \A d \in Cores : d # c => /\ sched_init'[d] = sched_init[d]
                                  /\ request_terminate'[d] = request_terminate[d]
                                  /\ failed'[d] = failed[d]
    BY <1>1 DEF TypeOK, Data
  <1> HIDE DEF ok
  <1> QED BY <1>2, <1>3 DEF IsUp, ReadyToRun

LEMMA AsksToTerminate ==
    ASSUME TypeOK, NEW c \in Cores, NEW x \in {Main(c), Irq(c)}, CdLock(x)
    PROVE  /\ UNCHANGED <<sched_init, failed>>
           /\ request_terminate'[c]
           /\ \A d \in Cores : d # c => request_terminate'[d] = request_terminate[d]
  <1>1. x[1] = c BY Names
  <1>2. /\ UNCHANGED <<sched_init, failed>>
        /\ request_terminate' = [request_terminate EXCEPT ![c] = TRUE]
    BY <1>1 DEF CdLock
  <1> QED BY <1>2 DEF TypeOK, Data

LEMMA TearsDown ==
    ASSUME TypeOK, NEW c \in Cores, Teardown(c)
    PROVE  /\ UNCHANGED failed
           /\ ~sched_init'[c] /\ ~request_terminate'[c]
           /\ \A d \in Cores : d # c => /\ sched_init'[d] = sched_init[d]
                                        /\ request_terminate'[d] = request_terminate[d]
  BY DEF Teardown, ClearsFlags, TypeOK, Data


LEMMA NextStanding == Standing /\ Locked /\ [Next]_vars => Answers' /\ Rounds'
  <1> SUFFICES ASSUME Standing, Locked, [Next]_vars PROVE Answers' /\ Rounds' OBVIOUS
  <1> USE Names DEF Standing, TypeOK, At
  (* Frames: the flags stay, and no context comes to a place of interest.   *)
  <1>0. ASSUME UNCHANGED <<sched_init, request_terminate, failed, g_spin_exit, pending, call, up, inits>>,
               \/ pc'[Main(CPU0)] = pc[Main(CPU0)]
               \/ pc[Main(CPU0)] \in BootLabels /\ pc'[Main(CPU0)] \in BootLabels
               \/ pc[Main(CPU0)] = "asleep" /\ pc'[Main(CPU0)] = "test",
               \A c \in Cores : \/ pc'[Irq(c)] = pc[Irq(c)]
                                \/ pc'[Irq(c)] \in {"none", "schedule", "ci_alloc", "ci_publish"}
        PROVE  Answers' /\ Rounds'
    <2>1. \A c \in Cores : IsUp(c)' = IsUp(c) /\ IsDown(c)' = IsDown(c) /\ Done(c)' = Done(c)
      BY <1>0 DEF IsUp, IsDown, Done, ReadyToRun
    <2>2. pc'[Main(CPU0)] \in {"idle", "add_push"} <=> pc[Main(CPU0)] \in {"idle", "add_push"}
      BY <1>0 DEF BootLabels
    <2>3. \A l \in {"cd_lock", "clear_spin", "send", "restore"} :
             pc'[Main(CPU0)] = l <=> pc[Main(CPU0)] = l
      BY <1>0 DEF BootLabels
    <2>4. pc'[Main(CPU0)] \in {"test", "wfi", "asleep"} => pc[Main(CPU0)] \in {"test", "wfi", "asleep"}
      BY <1>0 DEF BootLabels
    <2>5. Answers' BY <1>0, <2>1, <2>3, <2>4 DEF Answers
    <2>6. Rounds' BY <1>0, <2>1, <2>2, <2>3 DEF Rounds
    <2> QED BY <2>5, <2>6
  <1>a. ASSUME UNCHANGED <<sched_init, request_terminate, failed, g_spin_exit, pending, call, up, inits>>,
               NEW x \in Contexts, x # Main(CPU0), NEW l \in Labels, Goto(x, l),
               l \notin {"teardown", "ack", "cd_lock"}, x \in {Irq(CPU0), Irq(CPU1)} => l \in {"none", "schedule", "ci_alloc", "ci_publish"}
        PROVE  Answers' /\ Rounds'
    BY <1>0, <1>a, Went
  <1>b. ASSUME UNCHANGED <<sched_init, request_terminate, failed, g_spin_exit, pending, call, up, inits>>,
               NEW c \in Cores, NEW l \in {"none", "schedule"}, Interrupted(c, l)
        PROVE  Answers' /\ Rounds'
    <2>1. l \in Labels BY DEF Labels
    <2>2. \/ pc'[Main(CPU0)] = pc[Main(CPU0)]
          \/ pc[Main(CPU0)] = "asleep" /\ pc'[Main(CPU0)] = "test"
      BY <1>b, <2>1, WasInterrupted
    <2>3. \A d \in Cores : pc'[Irq(d)] = pc[Irq(d)] \/ pc'[Irq(d)] \in {"none", "schedule"}
      BY <1>b, <2>1, WasInterrupted
    <2> QED BY <1>0, <1>b, <2>2, <2>3
  <1> USE DEF flags, heap, locks, boot, hand, calls
  (* The steps of CPU0's main context that leave the flags alone.           *)
  <1>c. ASSUME UNCHANGED <<sched_init, request_terminate, failed>>
        PROVE  \A c \in Cores : IsUp(c)' = IsUp(c) /\ IsDown(c)' = IsDown(c)
    BY <1>c DEF IsUp, IsDown, ReadyToRun
  <1>1. CASE Boot0
    <2> USE DEF Labels, BootLabels
    <2>0. UNCHANGED <<sched_init, request_terminate, failed, g_spin_exit, pending, call, up, inits>>
      BY <1>1 DEF Boot0, AwaitReady, Post, Sev, Poll, Wfe
    <2>1. CASE AwaitReady BY <1>0, <2>0, <2>1, Went DEF AwaitReady
    <2>2. CASE Post(CPU0, "post1", "sev1", 1) BY <1>0, <2>0, <2>2, Went DEF Post
    <2>3. CASE Sev(CPU0, "sev1", "poll2") BY <1>0, <2>0, <2>3, Went DEF Sev
    <2>4. CASE Poll(CPU0, "poll2", Answered, "clear", "wfe2") BY <1>0, <2>0, <2>4, Went DEF Poll
    <2>5. CASE Wfe(CPU0, "wfe2", "poll2") BY <1>0, <2>0, <2>5, Went DEF Wfe
    <2>6. CASE Post(CPU0, "clear", "ci_lock", 0)
      <3>1. /\ pc[Main(CPU0)] = "clear" /\ pc'[Main(CPU0)] = "ci_lock"
            /\ \A c \in Cores : pc'[Irq(c)] = pc[Irq(c)]
        BY <2>6, Went DEF Post, Serving
      <3> QED BY <1>c, <2>0, <3>1 DEF Answers, Rounds, Done, Handshake
    <2> QED BY <1>1, <2>1, <2>2, <2>3, <2>4, <2>5, <2>6 DEF Boot0
  <1>2. CASE Boot1
    BY <1>a, <1>2 DEF Boot1, Publish, Post, Sev, Poll, Wfe, Labels, BootLabels
  <1>3. ASSUME NEW x \in {Main(CPU0), Irq(CPU0), Irq(CPU1)}, CiLock(x) \/ CiAlloc(x)
        PROVE  Answers' /\ Rounds'
    <2>0. UNCHANGED <<sched_init, request_terminate, failed, g_spin_exit, pending, call, up, inits>>
      BY <1>3 DEF CiLock, CiAlloc
    <2>1. CASE x = Main(CPU0)
      <3>1. /\ pc[Main(CPU0)] \in {"ci_lock", "ci_alloc"} /\ pc'[Main(CPU0)] \in {"ci_alloc", "ci_publish"}
            /\ \A c \in Cores : pc'[Irq(c)] = pc[Irq(c)]
        BY <1>3, <2>1, Went DEF CiLock, CiAlloc, Labels, Serving
      <3> QED BY <1>c, <2>0, <3>1 DEF Answers, Rounds, Done, Handshake
    <2>2. CASE x # Main(CPU0)
      BY <1>a, <1>3, <2>0, <2>2 DEF CiLock, CiAlloc, Labels, Serving
    <2> QED BY <2>1, <2>2
  <1>4. CASE ClearSpin
    <2>1. /\ pc[Main(CPU0)] = "clear_spin" /\ pc'[Main(CPU0)] = "send"
          /\ \A c \in Cores : pc'[Irq(c)] = pc[Irq(c)]
          /\ UNCHANGED <<sched_init, request_terminate, failed, pending, call, up, inits>>
          /\ g_spin_exit' = 0
      BY <1>4, Went DEF ClearSpin, Labels
    <2> QED BY <1>c, <2>1 DEF Answers, Rounds, Done
  <1>5. CASE SendRequest
    <2>1. /\ pc[Main(CPU0)] = "send" /\ pc'[Main(CPU0)] = "test"
          /\ \A c \in Cores : pc'[Irq(c)] = pc[Irq(c)]
          /\ UNCHANGED <<sched_init, request_terminate, failed, g_spin_exit, call, up, inits>>
          /\ pending'[CPU0] = pending[CPU0]
      BY <1>5, Went DEF SendRequest, Labels, Data
    <2> QED BY <1>c, <2>1 DEF Answers, Rounds, Done
  <1>6. CASE TestSpin \/ Wfi
    <2>1. /\ pc[Main(CPU0)] \in {"test", "wfi"} /\ pc'[Main(CPU0)] \in {"restore", "wfi", "asleep"}
          /\ \A c \in Cores : pc'[Irq(c)] = pc[Irq(c)]
          /\ UNCHANGED <<sched_init, request_terminate, failed, g_spin_exit, pending, call, up, inits>>
      BY <1>6, Went DEF TestSpin, Wfi, Poll, Labels
    <2> QED BY <1>c, <2>1 DEF Answers, Rounds, Done
  <1>7. CASE Restore
    <2>1. /\ pc[Main(CPU0)] = "restore" /\ pc'[Main(CPU0)] = "idle"
          /\ \A c \in Cores : pc'[Irq(c)] = pc[Irq(c)]
          /\ UNCHANGED <<sched_init, request_terminate, failed, pending, call, inits>>
          /\ g_spin_exit' = 0 /\ up' = (call = "init")
      BY <1>7, Went DEF Restore, Labels, Handshake
    <2>2. g_spin_exit = 1 BY <2>1 DEF Handshake
    <2>3. Done(CPU0) /\ Done(CPU1) BY <2>1, <2>2 DEF Answers
    <2>4. pc[Irq(CPU1)] # "cd_lock" /\ pending[CPU1] = {} /\ pc[Irq(CPU1)] # "ack" /\ pending[CPU0] = {}
      BY <2>1 DEF Handshake, Waiting, Serving
    <2>5. Answers' BY <1>c, <2>1, <2>4 DEF Answers
    <2>6. Rounds' BY <1>c, <2>1, <2>3, <2>4 DEF Rounds, Done
    <2> QED BY <2>5, <2>6
  <1>8. CASE AddPush
    <2>1. /\ pc[Main(CPU0)] = "add_push" /\ pc'[Main(CPU0)] = "idle"
          /\ \A c \in Cores : pc'[Irq(c)] = pc[Irq(c)]
          /\ UNCHANGED <<sched_init, request_terminate, failed, g_spin_exit, pending, call, up, inits>>
      BY <1>8, Went DEF AddPush, Labels
    <2> QED BY <1>c, <2>1 DEF Answers, Rounds, Done
  <1>9. ASSUME NEW c \in Cores, AddAlloc(c) PROVE Answers' /\ Rounds'
    <2>1. /\ pc[Main(CPU0)] = "idle" /\ pc'[Main(CPU0)] = "add_push"
          /\ \A d \in Cores : pc'[Irq(d)] = pc[Irq(d)]
          /\ UNCHANGED <<sched_init, request_terminate, failed, g_spin_exit, pending, call, up, inits>>
      BY <1>9, Went DEF AddAlloc, Idle, Labels
    <2> QED BY <1>c, <2>1 DEF Answers, Rounds, Done
  <1>10. CASE CallInit
    <2>1. /\ pc[Main(CPU0)] = "idle" /\ pc'[Main(CPU0)] = "ci_lock" /\ ~up
          /\ \A d \in Cores : pc'[Irq(d)] = pc[Irq(d)]
          /\ UNCHANGED <<sched_init, request_terminate, failed, g_spin_exit, pending, up>>
          /\ call' = "init" /\ inits' = inits + 1
      BY <1>10, Went DEF CallInit, Idle, Labels, Serving
    <2>2. /\ pc[Irq(CPU1)] \notin Serving /\ pending[CPU1] = {} /\ pending[CPU0] = {}
          /\ g_spin_exit = 0
      BY <2>1 DEF Handshake, Waiting
    <2>3. inits' > 1 BY <2>1 DEF Rounds, Data
    <2> QED BY <1>c, <2>1, <2>2, <2>3 DEF Answers, Rounds, Done, Serving
  <1>11. CASE CallDeinit
    <2>1. /\ pc[Main(CPU0)] = "idle" /\ pc'[Main(CPU0)] = "cd_lock" /\ up /\ inits > 1
          /\ \A d \in Cores : pc'[Irq(d)] = pc[Irq(d)]
          /\ UNCHANGED <<sched_init, request_terminate, failed, g_spin_exit, pending, up, inits>>
          /\ call' = "deinit"
      BY <1>11, Went DEF CallDeinit, Idle, Labels, Serving
    <2>2. /\ pc[Irq(CPU1)] \notin Serving /\ pending[CPU1] = {} /\ pending[CPU0] = {}
          /\ g_spin_exit = 0
      BY <2>1 DEF Handshake, Waiting
    <2>3. call = "init" /\ \A c \in Cores : IsUp(c) BY <2>1 DEF Rounds, Data
    <2> QED BY <1>c, <2>1, <2>2, <2>3 DEF Answers, Rounds, Done, Serving
  <1>12. CASE HeapDestroy
    <2>1. /\ pc[Main(CPU0)] = "idle" /\ inits = 1 /\ ~up'
          /\ UNCHANGED <<pc, request_terminate, failed, g_spin_exit, pending, call, inits>>
      BY <1>12 DEF HeapDestroy, Idle
    <2>2. /\ pc[Irq(CPU1)] \notin Serving /\ pending[CPU1] = {} /\ pending[CPU0] = {}
          /\ g_spin_exit = 0
      BY <2>1 DEF Handshake, Waiting
    <2> QED BY <2>1, <2>2 DEF Answers, Rounds, Serving
  <1>13. CASE HeapInit BY <1>0, <1>13 DEF HeapInit
  <1>14. CASE ThreadLocks \/ ThreadUnlocks BY <1>a, <1>14 DEF ThreadLocks, ThreadUnlocks, Labels
  (* The steps that write the flags.                                        *)
  <1>15. CASE CiPublish(Main(CPU0))
    <2>1. /\ pc[Main(CPU0)] = "ci_publish" /\ pc'[Main(CPU0)] = "clear_spin" /\ pc[Irq(CPU0)] = "none"
          /\ \A d \in Cores : pc'[Irq(d)] = pc[Irq(d)]
          /\ UNCHANGED <<g_spin_exit, pending, call, up, inits>>
      BY <1>15, Went DEF CiPublish, Labels
    <2>2. /\ pc[Irq(CPU1)] \notin Serving /\ pending[CPU1] = {} /\ pending[CPU0] = {}
          /\ g_spin_exit = 0 /\ call = "init"
      BY <2>1 DEF Handshake, Waiting
    <2>3. /\ IsUp(CPU0)' /\ (request_terminate'[CPU0] => request_terminate[CPU0])
          /\ request_terminate'[CPU1] = request_terminate[CPU1]
      BY <1>15, Publishes
    <2>4. Answers' BY <2>1, <2>2, <2>3 DEF Answers, Done, Serving
    <2>5. Rounds' BY <2>1, <2>2, <2>3 DEF Rounds
    <2> QED BY <2>4, <2>5
  <1>16. CASE CiPublish(Irq(CPU1))
    <2>1. /\ pc[Irq(CPU1)] = "ci_publish" /\ pc'[Irq(CPU1)] = "ack"
          /\ pc'[Irq(CPU0)] = pc[Irq(CPU0)] /\ pc'[Main(CPU0)] = pc[Main(CPU0)]
          /\ UNCHANGED <<g_spin_exit, pending, call, up, inits>>
      BY <1>16, Went DEF CiPublish, Labels, Serving
    <2>2. /\ Waiting /\ pending[CPU0] = {} /\ g_spin_exit = 0 /\ pending[CPU1] = {} /\ call = "init"
      BY <2>1 DEF Handshake, Serving
    <2>3. /\ IsUp(CPU1)' /\ (request_terminate'[CPU1] => request_terminate[CPU1])
          /\ request_terminate'[CPU0] = request_terminate[CPU0]
          /\ IsUp(CPU0)' = IsUp(CPU0)
      BY <1>16, Publishes DEF IsUp, ReadyToRun
    <2>4. Answers' BY <2>1, <2>2, <2>3 DEF Answers, Done, Waiting
    <2>5. Rounds' BY <2>1, <2>2, <2>3 DEF Rounds, Waiting
    <2> QED BY <2>4, <2>5
  <1>17. CASE CdLock(Main(CPU0))
    <2>1. /\ pc[Main(CPU0)] = "cd_lock" /\ pc'[Main(CPU0)] = "clear_spin"
          /\ \A d \in Cores : pc'[Irq(d)] = pc[Irq(d)]
          /\ UNCHANGED <<g_spin_exit, pending, call, up, inits>>
      BY <1>17, Went DEF CdLock, Labels
    <2>2. /\ pc[Irq(CPU1)] \notin Serving /\ pending[CPU1] = {} /\ pending[CPU0] = {}
          /\ g_spin_exit = 0 /\ call = "deinit"
      BY <2>1 DEF Handshake, Waiting
    <2>3. /\ UNCHANGED <<sched_init, failed>> /\ request_terminate'[CPU0]
          /\ request_terminate'[CPU1] = request_terminate[CPU1]
      BY <1>17, AsksToTerminate
    <2>4. Answers' BY <2>1, <2>2, <2>3 DEF Answers, Done, IsDown, Serving
    <2>5. Rounds' BY <2>1, <2>2, <2>3 DEF Rounds, IsUp, ReadyToRun
    <2> QED BY <2>4, <2>5
  <1>18. CASE CdLock(Irq(CPU1))
    <2>1. /\ pc[Irq(CPU1)] = "cd_lock" /\ pc'[Irq(CPU1)] = "ack"
          /\ pc'[Irq(CPU0)] = pc[Irq(CPU0)] /\ pc'[Main(CPU0)] = pc[Main(CPU0)]
          /\ UNCHANGED <<g_spin_exit, pending, call, up, inits>>
      BY <1>18, Went DEF CdLock, Labels, Serving
    <2>2. /\ Waiting /\ pending[CPU0] = {} /\ g_spin_exit = 0 /\ pending[CPU1] = {} /\ call = "deinit"
      BY <2>1 DEF Handshake, Serving
    <2>3. /\ UNCHANGED <<sched_init, failed>> /\ request_terminate'[CPU1]
          /\ request_terminate'[CPU0] = request_terminate[CPU0]
      BY <1>18, AsksToTerminate
    <2>4. Answers' BY <2>1, <2>2, <2>3 DEF Answers, Done, IsDown, Waiting
    <2>5. Rounds' BY <2>1, <2>2, <2>3 DEF Rounds, Waiting
    <2> QED BY <2>4, <2>5
  <1>19. ASSUME NEW c \in Cores, Teardown(c) PROVE Answers' /\ Rounds'
    <2>1. /\ pc[Irq(c)] = "teardown" /\ pc'[Irq(c)] = "none" /\ pc'[Main(CPU0)] = pc[Main(CPU0)]
          /\ \A d \in Cores : d # c => pc'[Irq(d)] = pc[Irq(d)]
          /\ UNCHANGED <<g_spin_exit, pending, call, up, inits>>
      BY <1>19, Went DEF Teardown, Labels
    <2>2. /\ UNCHANGED failed /\ ~sched_init'[c] /\ ~request_terminate'[c]
          /\ \A d \in Cores : d # c => /\ sched_init'[d] = sched_init[d]
                                       /\ request_terminate'[d] = request_terminate[d]
      BY <1>19, TearsDown
    <2>3. request_terminate[c] BY <2>1 DEF Answers
    <2>4. \A d \in Cores : (IsUp(d) => IsUp(d)') /\ (IsDown(d) => IsDown(d)')
      BY <2>2, <2>3 DEF IsUp, IsDown, ReadyToRun
    <2>5. Answers' BY <2>1, <2>2, <2>4 DEF Answers, Done
    <2>6. Rounds' BY <2>1, <2>2, <2>4 DEF Rounds
    <2> QED BY <2>5, <2>6
  <1>20. ASSUME NEW c \in Cores, TickTearsDown(c) PROVE Answers' /\ Rounds'
    <2>1. /\ request_terminate[c] /\ pc'[Irq(c)] = "teardown"
          /\ \A d \in Cores : d # c => pc'[Irq(d)] = pc[Irq(d)]
          /\ \/ pc'[Main(CPU0)] = pc[Main(CPU0)]
             \/ pc[Main(CPU0)] = "asleep" /\ pc'[Main(CPU0)] = "test"
          /\ UNCHANGED <<sched_init, request_terminate, failed, g_spin_exit, pending, call, up, inits>>
      BY <1>20, WasInterrupted DEF TickTearsDown, Labels
    <2>2. Answers' BY <1>c, <2>1 DEF Answers, Done
    <2>3. Rounds' BY <1>c, <2>1 DEF Rounds
    <2> QED BY <2>2, <2>3
  <1>21. ASSUME NEW c \in Cores, SendAck(c) PROVE Answers' /\ Rounds'
    <2>1. c = CPU1 BY <1>21 DEF SendAck, Places
    <2>2. /\ pc[Irq(CPU1)] = "ack" /\ pc'[Irq(CPU1)] = "none"
          /\ pc'[Irq(CPU0)] = pc[Irq(CPU0)] /\ pc'[Main(CPU0)] = pc[Main(CPU0)]
          /\ pending'[CPU1] = pending[CPU1]
          /\ UNCHANGED <<sched_init, request_terminate, failed, g_spin_exit, call, up, inits>>
      BY <1>21, <2>1, OtherIs, Went DEF SendAck, Labels, Data
    <2>3. Answers' BY <1>c, <2>2 DEF Answers, Done
    <2>4. Rounds' BY <1>c, <2>2 DEF Rounds
    <2> QED BY <2>3, <2>4
  <1>22. ASSUME NEW c \in Cores, SgiAck(c) PROVE Answers' /\ Rounds'
    <2>1. c = CPU0 /\ "ack" \in pending[CPU0] BY <1>22 DEF SgiAck, Data
    <2>2. /\ pc'[Irq(CPU0)] = "none" /\ pc'[Irq(CPU1)] = pc[Irq(CPU1)]
          /\ \/ pc'[Main(CPU0)] = pc[Main(CPU0)]
             \/ pc[Main(CPU0)] = "asleep" /\ pc'[Main(CPU0)] = "test"
          /\ pending'[CPU1] = pending[CPU1]
          /\ UNCHANGED <<sched_init, request_terminate, failed, call, up, inits>>
      BY <1>22, <2>1, WasInterrupted DEF SgiAck, Labels, Data
    <2>3. Done(CPU1) BY <2>1 DEF Answers
    <2>4. Answers' BY <1>c, <2>2, <2>3 DEF Answers, Done
    <2>5. Rounds' BY <1>c, <2>2 DEF Rounds
    <2> QED BY <2>4, <2>5
  <1>23. ASSUME NEW c \in Cores, NEW s \in {"init", "deinit"}, SgiRequest(c, s) PROVE Answers' /\ Rounds'
    <2> DEFINE l == IF s = "init" THEN "ci_lock" ELSE "cd_lock"
    <2>0. l \in Labels BY DEF Labels, Serving
    <2>1. c = CPU1 /\ s \in pending[CPU1] BY <1>23 DEF SgiRequest, Data
    <2>2. s = call /\ pending[CPU0] = {} /\ g_spin_exit = 0 BY <2>1 DEF Handshake
    <2>3. /\ pending'[CPU0] = pending[CPU0] /\ pending'[CPU1] = {}
          /\ UNCHANGED <<sched_init, request_terminate, failed, g_spin_exit, call, up, inits>>
          /\ Interrupted(CPU1, l)
      BY <1>23, <2>1, <2>2 DEF SgiRequest, Data, Handshake
    <2>4. pc'[Main(CPU0)] = pc[Main(CPU0)] /\ pc'[Irq(CPU0)] = pc[Irq(CPU0)] /\ pc'[Irq(CPU1)] = l
      BY <2>0, <2>3, WasInterrupted
    <2>5. Answers' BY <1>c, <2>2, <2>3, <2>4 DEF Answers, Done
    <2>6. Rounds' BY <1>c, <2>1, <2>2, <2>3, <2>4 DEF Rounds
    <2> QED BY <2>5, <2>6
  <1>24. ASSUME NEW c \in Cores, Schedule(c) PROVE Answers' /\ Rounds'
    BY <1>a, <1>24 DEF Schedule, Labels
  <1>25. ASSUME NEW c \in Cores, TickSchedules(c) \/ TickIsLost(c) PROVE Answers' /\ Rounds'
    BY <1>b, <1>25 DEF TickSchedules, TickIsLost
  <1>26. CASE UNCHANGED vars
    BY <1>0, <1>26 DEF vars
  <1>27. ~CiPublish(Irq(CPU0)) /\ ~CdLock(Irq(CPU0))
    BY DEF CiPublish, CdLock, Places
  <1> QED BY <1>1, <1>2, <1>3, <1>4, <1>5, <1>6, <1>7, <1>8, <1>9, <1>10, <1>11, <1>12, <1>13,
             <1>14, <1>15, <1>16, <1>17, <1>18, <1>19, <1>20, <1>21, <1>22, <1>23, <1>24, <1>25,
             <1>26, <1>27
          DEF Next, MainStep, MainCall, Handler, Sgi, Tick, CoreCalls


-----------------------------------------------------------------------------
(* The blocks.  A block the allocator has given out has one user at most:  *)
(* a container, the call that is adding it, or a core whose main thread it *)
(* is; and no user at all only if it is lost.                              *)
Publishing(c) == pc[Main(c)] = "ci_publish" \/ pc[Irq(c)] = "ci_publish"
Live(c) == (sched_init[c] \/ Publishing(c)) /\ main_thread[c] # NULL

(* b is nobody's thread.                                                   *)
Unthreaded(b) == b \in allocated /\ b \notin lost /\ b \notin DOMAIN where

MainThreads ==
    \A c \in Cores :
        /\ request_terminate[c] => failed[c] \/ sched_init[c]
        /\ ~Publishing(c) /\ failed[c] => main_thread[c] = NULL
        /\ ~Publishing(c) /\ sched_init[c] /\ ~failed[c] => main_thread[c] # NULL

Used ==
    /\ lost \subseteq allocated
    /\ DOMAIN where \subseteq allocated
    /\ DOMAIN where \cap lost = {}
    /\ new # Nobody => Unthreaded(new[1])
    /\ \A c \in Cores : Live(c) => Unthreaded(main_thread[c])
    /\ \A c \in Cores : Live(c) /\ new # Nobody => new[1] # main_thread[c]
    /\ Live(CPU0) /\ Live(CPU1) => main_thread[CPU0] # main_thread[CPU1]

Memory == MainThreads /\ Used /\ NothingElseLeaks

IInv == Standing /\ Locked /\ Booted /\ Memory

Leaked(b) ==
    /\ b \in allocated \ lost /\ b \notin DOMAIN where
    /\ new # Nobody => b # new[1]
    /\ \A c \in Cores : b = main_thread[c] => ~sched_init[c] /\ ~Publishing(c)

LEMMA LeakIs == NothingElseLeaks <=> \A b \in allocated : ~Leaked(b)
  <1>1. \A c \in Cores : Publishing(c) <=> \E x \in Contexts : x[1] = c /\ pc[x] = "ci_publish"
    BY Names, ContextIs DEF Publishing
  <1> QED BY <1>1 DEF NothingElseLeaks, Leaked

LEMMA LeakIsThen == (NothingElseLeaks <=> \A b \in allocated : ~Leaked(b))'
  BY LeakIs, PTL

(* The main thread of a core that is about to be torn down is its own.     *)
LEMMA TornDownIsLive ==
    ASSUME IInv, NEW c \in Cores, pc[Irq(c)] = "teardown"
    PROVE  /\ ~Publishing(c)
           /\ main_thread[c] # NULL => Live(c)
           /\ ~failed[c] => Live(c)
  <1>1. request_terminate[c] BY DEF IInv, Standing, Answers
  <1>2. InSection(Irq(c)) BY DEF InSection
  <1>3. ~InSection(Main(c)) BY <1>2, OneSection DEF IInv
  <1>4. ~Publishing(c) BY <1>3 DEF Publishing, InSection
  <1> QED BY <1>1, <1>4 DEF IInv, Memory, MainThreads, Live

LEMMA NextMainThreads == IInv /\ [Next]_vars => MainThreads'
  <1> SUFFICES ASSUME IInv, [Next]_vars PROVE MainThreads' OBVIOUS
  <1> USE Names DEF IInv, Standing, TypeOK, At, Memory
  <1>0. ASSUME UNCHANGED flags, \A c \in Cores : Publishing(c)' = Publishing(c)
        PROVE  MainThreads'
    BY <1>0 DEF MainThreads, flags
  <1>a. ASSUME UNCHANGED flags, NEW x \in Contexts, NEW l \in Labels, Goto(x, l),
               pc[x] # "ci_publish", l # "ci_publish"
        PROVE  MainThreads'
    <2>1. \A y \in Contexts : pc'[y] = "ci_publish" <=> pc[y] = "ci_publish" BY <1>a, Went
    <2> QED BY <1>0, <1>a, <2>1 DEF Publishing
  <1>b. ASSUME UNCHANGED flags, NEW c \in Cores, NEW l \in Labels \ {"ci_publish"},
               MayInterrupt(c), Interrupted(c, l)
        PROVE  MainThreads'
    BY <1>0, <1>b, WasInterrupted DEF Publishing, MayInterrupt
  <1>1. CASE Boot0 \/ Boot1
    BY <1>a, <1>1 DEF Boot0, Boot1, AwaitReady, Publish, Post, Sev, Poll, Wfe, Labels, BootLabels, Serving
  <1>2. ASSUME NEW c \in Cores, NEW x \in {Main(c), Irq(c)}, CiLock(x) PROVE MainThreads'
    BY <1>a, <1>2 DEF CiLock, Labels, Serving
  <1>3. ASSUME NEW c \in Cores, NEW x \in {Main(c), Irq(c)}, CiAlloc(x) PROVE MainThreads'
    <2>1. x[1] = c BY Names
    <2>2. /\ pc[x] = "ci_alloc" /\ pc'[x] = "ci_publish" /\ \A y \in Contexts : y # x => pc'[y] = pc[y]
          /\ UNCHANGED <<sched_init, request_terminate, failed>>
          /\ \A d \in Cores : d # c => main_thread'[d] = main_thread[d]
      BY <1>3, <2>1, Went DEF CiAlloc, Labels, Serving, Data
    <2>3. Publishing(c)' BY <2>2 DEF Publishing
    <2>4. \A d \in Cores : d # c => Publishing(d)' = Publishing(d) BY <2>2 DEF Publishing
    <2> QED BY <2>2, <2>3, <2>4 DEF MainThreads
  <1>4. ASSUME NEW c \in Cores, NEW x \in {Main(c), Irq(c)}, CiPublish(x) PROVE MainThreads'
    <2> DEFINE ok == main_thread[c] # NULL
    <2>1. x[1] = c BY Names
    <2>2. /\ sched_init' = [sched_init EXCEPT ![c] = @ \/ ok]
          /\ request_terminate' = [request_terminate EXCEPT ![c] = @ /\ ~ok]
          /\ failed' = [failed EXCEPT ![c] = ~ok]
          /\ UNCHANGED main_thread
      BY <1>4, <2>1 DEF CiPublish
    <2>3. /\ request_terminate'[c] = (request_terminate[c] /\ ~ok)
          /\ failed'[c] = ~ok
      BY <2>2 DEF Data
    <2>4. \A d \in Cores : d # c => /\ sched_init'[d] = sched_init[d]
                                    /\ request_terminate'[d] = request_terminate[d]
                                    /\ failed'[d] = failed[d]
      BY <2>2 DEF Data
    <2>5. /\ pc[x] = "ci_publish"
          /\ \A y \in Contexts : y # x => pc'[y] = pc[y]
      BY <1>4, Went DEF CiPublish, Labels, Serving
    <2>6. \A d \in Cores : d # c => Publishing(d)' = Publishing(d) BY <2>5 DEF Publishing
    <2>7. /\ request_terminate'[c] => failed'[c]
          /\ failed'[c] <=> main_thread[c] = NULL
      BY <2>3
    <2>8. UNCHANGED main_thread BY <2>2
    <2> HIDE DEF ok
    <2> QED BY <2>4, <2>6, <2>7, <2>8 DEF MainThreads
  <1>5. ASSUME NEW c \in Cores, NEW x \in {Main(c), Irq(c)}, CdLock(x) PROVE MainThreads'
    <2>1. /\ UNCHANGED <<sched_init, failed>> /\ request_terminate'[c]
          /\ \A d \in Cores : d # c => request_terminate'[d] = request_terminate[d]
      BY <1>5, AsksToTerminate
    <2>2. pc[x] = "cd_lock" /\ x \in Contexts /\ UNCHANGED main_thread BY <1>5 DEF CdLock
    <2>3. IsUp(c)
      <3>1. x = Main(CPU0) \/ x = Irq(CPU1) BY <2>2 DEF Places, Serving
      <3>2. CASE x = Main(CPU0) BY <2>2, <3>2 DEF Rounds
      <3>3. CASE x = Irq(CPU1) BY <2>2, <3>3 DEF Rounds, Handshake
      <3> QED BY <3>1, <3>2, <3>3
    <2>4. \A y \in Contexts : pc'[y] = "ci_publish" <=> pc[y] = "ci_publish"
      BY <1>5, <2>2, Went DEF CdLock, Labels, Serving
    <2>5. \A d \in Cores : Publishing(d)' = Publishing(d) BY <2>4 DEF Publishing
    <2> QED BY <2>1, <2>2, <2>3, <2>5 DEF MainThreads, IsUp, ReadyToRun
  <1>6. CASE ClearSpin \/ SendRequest \/ TestSpin \/ Wfi \/ Restore \/ AddPush
    BY <1>a, <1>6 DEF ClearSpin, SendRequest, TestSpin, Wfi, Poll, Restore, AddPush, Labels
  <1>7. CASE CallInit \/ CallDeinit \/ HeapInit
    BY <1>0, <1>a, <1>7 DEF CallInit, CallDeinit, HeapInit, Idle, Labels, Serving, Publishing
  <1>8. CASE HeapDestroy
    <2>1. /\ \A c \in Cores : ~request_terminate[c]
          /\ UNCHANGED <<pc, request_terminate, main_thread, failed>>
          /\ \A c \in Cores : ~sched_init'[c]
      BY <1>8 DEF HeapDestroy, Rounds
    <2> QED BY <2>1 DEF MainThreads, Publishing
  <1>9. ASSUME NEW c \in Cores, AddAlloc(c) PROVE MainThreads'
    BY <1>a, <1>9 DEF AddAlloc, Idle, Labels
  <1>10. CASE ThreadLocks \/ ThreadUnlocks
    BY <1>a, <1>10 DEF ThreadLocks, ThreadUnlocks, Labels
  <1>11. ASSUME NEW c \in Cores, Schedule(c) \/ SendAck(c) PROVE MainThreads'
    BY <1>a, <1>11 DEF Schedule, SendAck, Labels
  <1>12. ASSUME NEW c \in Cores, Teardown(c) PROVE MainThreads'
    <2>1. /\ UNCHANGED failed /\ ~sched_init'[c] /\ ~request_terminate'[c]
          /\ \A d \in Cores : d # c => /\ sched_init'[d] = sched_init[d]
                                       /\ request_terminate'[d] = request_terminate[d]
      BY <1>12, TearsDown
    <2>2. \A y \in Contexts : pc'[y] = "ci_publish" <=> pc[y] = "ci_publish"
      BY <1>12, Went DEF Teardown, Labels
    <2>3. \A d \in Cores : Publishing(d)' = Publishing(d) BY <2>2 DEF Publishing
    <2>4. UNCHANGED main_thread BY <1>12 DEF Teardown
    <2> QED BY <2>1, <2>3, <2>4 DEF MainThreads
  <1>13. ASSUME NEW c \in Cores, TickSchedules(c) \/ TickTearsDown(c) \/ TickIsLost(c) \/ SgiAck(c)
         PROVE  MainThreads'
    BY <1>b, <1>13 DEF TickSchedules, TickTearsDown, TickIsLost, SgiAck, Labels
  <1>14. ASSUME NEW c \in Cores, NEW s \in {"init", "deinit"}, SgiRequest(c, s) PROVE MainThreads'
    BY <1>b, <1>14 DEF SgiRequest, Labels, Serving
  <1>15. CASE UNCHANGED vars
    BY <1>0, <1>15 DEF vars, Publishing
  <1> QED BY <1>1, <1>2, <1>3, <1>4, <1>5, <1>6, <1>7, <1>8, <1>9, <1>10, <1>11, <1>12, <1>13,
             <1>14, <1>15
          DEF Next, MainStep, MainCall, Handler, Sgi, Tick, CoreCalls


(* A step that gives no block out and takes none back.                     *)
LEMMA SameBlocks ==
    ASSUME Used, NothingElseLeaks, UNCHANGED <<sched_init, main_thread, where, allocated, lost, new>>,
           \A c \in Cores : Publishing(c)' = Publishing(c)
    PROVE  Used' /\ NothingElseLeaks'
  <1>1. \A c \in Cores : Live(c)' = Live(c) BY DEF Live
  <1>2. \A b : Unthreaded(b)' = Unthreaded(b) /\ Leaked(b)' = Leaked(b) BY DEF Unthreaded, Leaked
  <1>3. Used' BY <1>1, <1>2, Names DEF Used
  <1>4. \A b \in allocated' : ~Leaked(b)' BY <1>2, LeakIs
  <1> QED BY <1>3, <1>4, LeakIsThen


(* The steps that move a block, one by one.                                *)
LEMMA CiLockKeepsBlocks ==
    ASSUME IInv, NEW c \in Cores, NEW x \in {Main(c), Irq(c)}, CiLock(x)
    PROVE  Used' /\ NothingElseLeaks'
  <1> USE Names DEF IInv, Standing, TypeOK, At, Memory
  <1>1. x[1] = c OBVIOUS
  <1>2. /\ lost' = lost \cup (DOMAIN where \ DOMAIN where')
        /\ UNCHANGED <<sched_init, main_thread, allocated, new>>
        /\ pc[x] = "ci_lock" /\ Goto(x, "ci_alloc")
    BY <1>1 DEF CiLock, flags, calls
  <1>3. DOMAIN where' \subseteq DOMAIN where BY CiLockLeaves
  <1>4. \A d \in Cores : Publishing(d)' = Publishing(d) BY <1>2, Went DEF Publishing, Labels, Serving
  <1>5. \A d \in Cores : Live(d)' = Live(d) BY <1>2, <1>4 DEF Live
  <1>6. \A b : Unthreaded(b) => Unthreaded(b)' BY <1>2, <1>3 DEF Unthreaded
  <1>7. Used' BY <1>2, <1>3, <1>5, <1>6 DEF Used
  <1>8. \A b \in allocated' : ~Leaked(b)'
    <2>1. \A b \in allocated' : Leaked(b)' => Leaked(b) BY <1>2, <1>4 DEF Leaked
    <2> QED BY <1>2, <2>1, LeakIs
  <1> QED BY <1>7, <1>8, LeakIsThen

LEMMA CiAllocKeepsBlocks ==
    ASSUME IInv, NEW c \in Cores, NEW x \in {Main(c), Irq(c)}, CiAlloc(x)
    PROVE  Used' /\ NothingElseLeaks'
  <1> USE Names DEF IInv, Standing, TypeOK, At, Memory
  <1> DEFINE old == IF sched_init[c] THEN {main_thread[c]} \cap allocated ELSE {}
  <1>1. x[1] = c OBVIOUS
  <1>2. /\ main_thread' = [main_thread EXCEPT ![c] = kMalloc]
        /\ allocated' = allocated \cup ({kMalloc} \ {NULL})
        /\ lost' = lost \cup old
        /\ UNCHANGED <<sched_init, where, new>>
        /\ pc[x] = "ci_alloc" /\ Goto(x, "ci_publish")
    BY <1>1 DEF CiAlloc, calls
  <1>3. main_thread'[c] = kMalloc /\ \A d \in Cores : d # c => main_thread'[d] = main_thread[d]
    BY <1>2 DEF Data
  <1>4. /\ kMalloc # NULL => kMalloc \notin allocated /\ kMalloc \in allocated'
        /\ NULL \notin allocated
    BY <1>2, Fresh DEF Data
  <1>5. \A b \in old : sched_init[c] /\ b = main_thread[c] /\ b \in allocated /\ Live(c)
    BY <1>4 DEF Live
  <1>6. /\ Publishing(c)'
        /\ \A d \in Cores : d # c => Publishing(d)' = Publishing(d)
    BY <1>2, Went DEF Publishing, Labels, Serving
  <1>7. ~Publishing(c)
    <2>1. InSection(x) BY <1>2 DEF InSection
    <2>2. \A y \in {Main(c), Irq(c)} : y # x => ~InSection(y) BY <2>1, OneSection
    <2> QED BY <1>2, <2>2 DEF Publishing, InSection
  <1>8. \A d \in Cores : d # c => Live(d)' = Live(d) BY <1>2, <1>3, <1>6 DEF Live
  <1> HIDE DEF old
  <1>9. \A d \in Cores : d # c /\ Live(d) => main_thread[d] \notin old
    BY <1>5 DEF Used
  <1>10. new # Nobody => new[1] \notin old
    BY <1>5 DEF Used
  <1>11. \A b : Unthreaded(b) /\ b \notin old => Unthreaded(b)' BY <1>2 DEF Unthreaded
  <1>12. Used'
    <2>1. lost' \subseteq allocated' BY <1>2, <1>5 DEF Used
    <2>2. DOMAIN where' \subseteq allocated' BY <1>2 DEF Used
    <2>3. DOMAIN where' \cap lost' = {}
      <3>1. \A b \in old : b \notin DOMAIN where BY <1>5 DEF Used, Unthreaded
      <3> QED BY <1>2, <3>1 DEF Used
    <2>4. new' # Nobody => Unthreaded(new[1])' BY <1>2, <1>10, <1>11 DEF Used
    <2>5. ASSUME NEW d \in Cores, Live(d)' PROVE Unthreaded(main_thread[d])'
      <3>1. CASE d = c
        <4>1. kMalloc # NULL BY <1>3, <2>5, <3>1 DEF Live
        <4>2. kMalloc \notin old BY <1>4, <1>5, <4>1
        <4> QED BY <1>2, <1>3, <1>4, <3>1, <4>1, <4>2 DEF Unthreaded, Used
      <3>2. CASE d # c
        <4>1. Live(d) BY <1>8, <2>5, <3>2
        <4>2. Unthreaded(main_thread[d]) /\ main_thread[d] \notin old
          BY <1>9, <3>2, <4>1 DEF Used
        <4> QED BY <1>3, <1>11, <3>2, <4>2 DEF Unthreaded
      <3> QED BY <3>1, <3>2
    <2>6. ASSUME NEW d \in Cores, Live(d)', new' # Nobody PROVE new'[1] # main_thread'[d]
      <3>1. new[1] \in allocated BY <1>2, <2>6 DEF Used, Unthreaded
      <3>2. CASE d = c BY <1>2, <1>3, <1>4, <2>6, <3>1, <3>2 DEF Live
      <3>3. CASE d # c BY <1>2, <1>3, <1>8, <2>6, <3>3 DEF Used
      <3> QED BY <3>2, <3>3
    <2>7. ASSUME NEW d \in Cores, d # c, Live(d)', Live(c)' PROVE main_thread'[d] # main_thread'[c]
      <3>1. Live(d) BY <1>8, <2>7
      <3>2. main_thread[d] \in allocated BY <3>1 DEF Used, Unthreaded
      <3>3. kMalloc # NULL BY <1>3, <2>7 DEF Live
      <3> QED BY <1>3, <1>4, <2>7, <3>2, <3>3
    <2> QED BY <2>1, <2>2, <2>3, <2>4, <2>5, <2>6, <2>7 DEF Used
  <1>13. ASSUME NEW b \in allocated', Leaked(b)' PROVE FALSE
    <2>1. b # kMalloc BY <1>3, <1>6, <1>13 DEF Leaked
    <2>2. b \in allocated \ lost /\ b \notin old BY <1>2, <1>13, <2>1 DEF Leaked
    <2>3. b = main_thread[c] => ~sched_init[c] BY <2>2 DEF old
    <2>4. \A d \in Cores : d # c /\ b = main_thread[d] => ~sched_init[d] /\ ~Publishing(d)
      BY <1>2, <1>3, <1>6, <1>13 DEF Leaked
    <2>5. b \notin DOMAIN where /\ (new # Nobody => b # new[1]) BY <1>2, <1>13 DEF Leaked
    <2>6. Leaked(b) BY <1>7, <2>2, <2>3, <2>4, <2>5 DEF Leaked
    <2> QED BY <2>2, <2>6, LeakIs
  <1> QED BY <1>12, <1>13, LeakIsThen

LEMMA CiPublishKeepsBlocks ==
    ASSUME IInv, NEW c \in Cores, NEW x \in {Main(c), Irq(c)}, CiPublish(x)
    PROVE  Used' /\ NothingElseLeaks'
  <1> USE Names DEF IInv, Standing, TypeOK, At, Memory
  <1> DEFINE ok == main_thread[c] # NULL
  <1>1. x[1] = c OBVIOUS
  <1>2. /\ sched_init' = [sched_init EXCEPT ![c] = @ \/ ok]
        /\ UNCHANGED <<main_thread, where, allocated, lost, new>>
        /\ pc[x] = "ci_publish"
        /\ \A y \in Contexts : y # x => pc'[y] = pc[y]
    BY <1>1, Went DEF CiPublish, heap, calls, Labels, Serving
  <1>3. /\ sched_init'[c] = (sched_init[c] \/ ok)
        /\ \A d \in Cores : d # c => sched_init'[d] = sched_init[d]
    BY <1>2 DEF Data
  <1>4. sched_init'[c] <=> sched_init[c] \/ main_thread[c] # NULL BY <1>3
  <1> HIDE DEF ok
  <1>5. Publishing(c) /\ \A d \in Cores : d # c => Publishing(d)' = Publishing(d)
    BY <1>2 DEF Publishing
  <1>6. \A d \in Cores : Live(d)' => Live(d)
    BY <1>2, <1>3, <1>5 DEF Live
  <1>7. \A b : Unthreaded(b)' = Unthreaded(b) BY <1>2 DEF Unthreaded
  <1>8. Used' BY <1>2, <1>6, <1>7 DEF Used
  <1>9. ASSUME NEW b \in allocated', Leaked(b)' PROVE FALSE
    <2>1. b # NULL BY <1>2, Fresh DEF Data
    <2>2. b # main_thread[c] BY <1>2, <1>4, <1>9, <2>1 DEF Leaked
    <2>3. Leaked(b) BY <1>2, <1>3, <1>5, <1>9, <2>2 DEF Leaked
    <2> QED BY <1>2, <2>3, LeakIs
  <1> QED BY <1>8, <1>9, LeakIsThen


LEMMA AddsKeepBlocks ==
    ASSUME IInv, AddPush \/ \E c \in Cores : AddAlloc(c)
    PROVE  Used' /\ NothingElseLeaks'
  <1> USE Names DEF IInv, Standing, TypeOK, At, Memory
  <1>1. ASSUME NEW c \in Cores, AddAlloc(c) PROVE Used' /\ NothingElseLeaks'
    <2>1. /\ pc[Main(CPU0)] = "idle" /\ Goto(Main(CPU0), "add_push")
          /\ kMalloc # NULL /\ allocated' = allocated \cup {kMalloc} /\ new' = <<kMalloc, c>>
          /\ UNCHANGED <<sched_init, main_thread, where, lost>>
      BY <1>1 DEF AddAlloc, Idle, flags
    <2>2. \A d \in Cores : Publishing(d)' = Publishing(d) BY <2>1, Went DEF Publishing, Labels
    <2>3. \A d \in Cores : Live(d)' = Live(d) BY <2>1, <2>2 DEF Live
    <2>4. kMalloc \notin allocated BY <2>1, Fresh DEF Data
    <2>5. new = Nobody /\ new' # Nobody /\ new'[1] = kMalloc
      BY <2>1, NobodyIsNobody DEF Adding
    <2>6. \A b : Unthreaded(b) => Unthreaded(b)' BY <2>1 DEF Unthreaded
    <2>8. \A d \in Cores : Live(d) => kMalloc # main_thread[d] BY <2>4 DEF Used, Unthreaded
    <2>9. Unthreaded(new[1])' BY <2>1, <2>4, <2>5 DEF Used, Unthreaded
    <2>10. Used' BY <2>1, <2>3, <2>5, <2>6, <2>8, <2>9 DEF Used
    <2>11. ASSUME NEW b \in allocated', Leaked(b)' PROVE FALSE
      <3>1. b # kMalloc BY <2>5, <2>11 DEF Leaked
      <3>2. Leaked(b) BY <2>1, <2>2, <2>5, <2>11, <3>1 DEF Leaked
      <3> QED BY <2>1, <3>1, <3>2, LeakIs
    <2> QED BY <2>10, <2>11, LeakIsThen
  <1>2. CASE AddPush
    <2>1. /\ pc[Main(CPU0)] = "add_push" /\ Goto(Main(CPU0), "idle") /\ new' = Nobody
          /\ UNCHANGED <<sched_init, main_thread, allocated>>
      BY <1>2 DEF AddPush, flags
    <2>0. PICK s \in Overwritten(new[2], "incoming") :
             /\ DOMAIN where' = (DOMAIN where \ s) \cup {new[1]}
             /\ lost' = lost \cup s
      BY <1>2 DEF AddPush
    <2>a. s \subseteq DOMAIN where BY OverwrittenIs
    <2>2. \A d \in Cores : Publishing(d)' = Publishing(d) BY <2>1, Went DEF Publishing, Labels
    <2>3. \A d \in Cores : Live(d)' = Live(d) BY <2>1, <2>2 DEF Live
    <2>4. new # Nobody
      <3>1. new \in Blocks \X Cores BY <2>1 DEF Adding
      <3> QED BY <3>1, NobodyIsNobody
    <2>5. Unthreaded(new[1]) BY <2>4 DEF Used
    <2>6. \A b : Unthreaded(b) /\ b # new[1] => Unthreaded(b)' BY <2>0, <2>1, <2>a DEF Unthreaded
    <2>7. Used'
      <3>1. /\ lost' \subseteq allocated' /\ DOMAIN where' \subseteq allocated'
            /\ DOMAIN where' \cap lost' = {}
        BY <2>0, <2>1, <2>a, <2>5 DEF Used, Unthreaded
      <3> QED BY <2>1, <2>3, <2>4, <2>6, <3>1 DEF Used
    <2>8. ASSUME NEW b \in allocated', Leaked(b)' PROVE FALSE
      <3>1. Leaked(b) BY <2>0, <2>1, <2>2, <2>a, <2>8 DEF Leaked
      <3> QED BY <2>1, <2>8, <3>1, LeakIs
    <2> QED BY <2>7, <2>8, LeakIsThen
  <1> QED BY <1>1, <1>2

LEMMA HeapDestroyKeepsBlocks ==
    ASSUME IInv, HeapDestroy PROVE Used' /\ NothingElseLeaks'
  <1> USE Names DEF IInv, Standing, TypeOK, At, Memory
  <1>1. /\ pc[Main(CPU0)] = "idle" /\ pc' = pc /\ new' = new
        /\ \A c \in Cores : ~sched_init'[c]
        /\ allocated' = {} /\ lost' = {} /\ DOMAIN where' = {}
    BY DEF HeapDestroy, Idle
  <1>2. pc[Irq(CPU1)] \notin Serving BY <1>1 DEF Handshake, Waiting
  <1>3. \A c \in Cores : ~Publishing(c) BY <1>1, <1>2 DEF Publishing, Places, Serving
  <1>4. \A c \in Cores : ~Live(c)' BY <1>1, <1>3 DEF Live, Publishing
  <1>5. new' = Nobody BY <1>1 DEF Adding
  <1>6. Used' BY <1>1, <1>4, <1>5 DEF Used
  <1> QED BY <1>1, <1>6, LeakIsThen

LEMMA ScheduleKeepsBlocks ==
    ASSUME IInv, NEW c \in Cores, Schedule(c) PROVE Used' /\ NothingElseLeaks'
  <1> USE Names DEF IInv, Standing, TypeOK, At, Memory
  <1>1. /\ pc[Irq(c)] = "schedule" /\ Goto(Irq(c), "none")
        /\ UNCHANGED <<sched_init, main_thread, new>>
    BY DEF Schedule, flags, calls
  <1>2. \A d \in Cores : Publishing(d)' = Publishing(d) BY <1>1, Went DEF Publishing, Labels
  <1> DEFINE Change(s, r) == /\ DOMAIN where' = DOMAIN where \ (s \cup r)
                             /\ lost' = lost \cup s /\ allocated' = allocated \ r
                             /\ s \cap r = {}
  <1>2a. \E s, r \in SUBSET DOMAIN where : Change(s, r)
    <2>1. CASE UNCHANGED <<where, forgotten, allocated, lost>>
      <3>1. Change({}, {}) BY <2>1
      <3> QED BY <3>1
    <2>2. ASSUME NEW b \in DOMAIN where, NEW to, NEW s \in SUBSET forgotten, MovesOne(c, b, to, s)
          PROVE  Change(s, {}) /\ s \subseteq DOMAIN where
      BY <2>2 DEF MovesOne, Data
    <2>3. ASSUME NEW b \in DOMAIN where, Reclaims(b) PROVE Change({}, {b})
      BY <2>3 DEF Reclaims
    <2> HIDE DEF Change
    <2> QED BY <2>1, <2>2, <2>3, ScheduleDoes
  <1>3. PICK s \in SUBSET DOMAIN where, r \in SUBSET DOMAIN where : Change(s, r) BY <1>2a
  <1>4. \A d \in Cores : Live(d)' = Live(d) BY <1>1, <1>2 DEF Live
  <1>5. \A b : Unthreaded(b) => Unthreaded(b)' BY <1>1, <1>3 DEF Unthreaded
  <1>6. /\ lost' \subseteq allocated'
        /\ DOMAIN where' \subseteq allocated' /\ DOMAIN where' \cap lost' = {}
    BY <1>3 DEF Used
  <1>7. Used' BY <1>1, <1>4, <1>5, <1>6 DEF Used
  <1>8. ASSUME NEW b \in allocated', Leaked(b)' PROVE FALSE
    <2>1. b \in allocated /\ b \notin DOMAIN where BY <1>3, <1>8 DEF Leaked
    <2>2. Leaked(b) BY <1>1, <1>2, <1>3, <1>8, <2>1 DEF Leaked
    <2> QED BY <2>1, <2>2, LeakIs
  <1> QED BY <1>7, <1>8, LeakIsThen

LEMMA TeardownKeepsBlocks ==
    ASSUME IInv, NEW c \in Cores, Teardown(c) PROVE Used' /\ NothingElseLeaks'
  <1> USE Names DEF IInv, Standing, TypeOK, At, Memory
  <1> DEFINE rr == {b \in DOMAIN where : where[b] = <<c, "rr">>}
             own == {b \in DOMAIN where : where[b][1] = c /\ where[b][2] # "rr"}
  <1>1. /\ pc[Irq(c)] = "teardown" /\ Goto(Irq(c), "none")
        /\ allocated' = allocated \ (own \cup {main_thread[c]})
        /\ where' = [b \in {b \in DOMAIN where : where[b][1] # c} |-> where[b]]
        /\ lost' = lost \cup rr
        /\ UNCHANGED <<main_thread, new>>
    BY DEF Teardown, Freed, calls
  <1>2. ~sched_init'[c] /\ \A d \in Cores : d # c => sched_init'[d] = sched_init[d]
    BY TearsDown
  <1>3. \A d \in Cores : Publishing(d)' = Publishing(d) BY <1>1, Went DEF Publishing, Labels
  <1>4. ~Publishing(c) /\ (main_thread[c] # NULL => Live(c)) BY <1>1, TornDownIsLive
  <1>5. ~Live(c)' /\ \A d \in Cores : d # c => Live(d)' = Live(d)
    BY <1>1, <1>2, <1>3, <1>4 DEF Live
  <1>6. DOMAIN where' \subseteq DOMAIN where /\ DOMAIN where' \cap (own \cup rr) = {}
    BY <1>1 DEF Data
  <1>7. \A b \in DOMAIN where : b \in DOMAIN where' \/ b \in own \/ b \in rr
    BY <1>1 DEF Data
  <1>8. own \cup rr \subseteq DOMAIN where /\ own \cap rr = {} BY DEF Data
  <1> HIDE DEF own, rr
  <1>9. NULL \notin allocated BY Fresh DEF Data
  <1>10. main_thread[c] \notin DOMAIN where \cup lost
    BY <1>4, <1>9 DEF Used, Unthreaded
  <1>11. /\ lost' \subseteq allocated'
         /\ DOMAIN where' \subseteq allocated' /\ DOMAIN where' \cap lost' = {}
    BY <1>1, <1>6, <1>8, <1>10 DEF Used
  <1>12. \A b : Unthreaded(b) /\ b # main_thread[c] => Unthreaded(b)'
    BY <1>1, <1>6, <1>8 DEF Unthreaded
  <1>13. new # Nobody => new[1] # main_thread[c]
    BY <1>4, <1>9 DEF Used, Unthreaded
  <1>14. \A d \in Cores : d # c /\ Live(d) => main_thread[d] # main_thread[c]
    BY <1>4 DEF Used, Live
  <1>15. Used' BY <1>1, <1>5, <1>11, <1>12, <1>13, <1>14 DEF Used
  <1>16. ASSUME NEW b \in allocated', Leaked(b)' PROVE FALSE
    <2>1. /\ b \in allocated \ lost /\ b \notin own /\ b \notin rr /\ b # main_thread[c]
          /\ b \notin DOMAIN where'
      BY <1>1, <1>16 DEF Leaked
    <2>2. b \notin DOMAIN where BY <1>7, <2>1
    <2>3. Leaked(b) BY <1>1, <1>2, <1>3, <1>16, <2>1, <2>2 DEF Leaked
    <2> QED BY <2>1, <2>3, LeakIs
  <1> QED BY <1>15, <1>16, LeakIsThen


LEMMA NextBlocks == IInv /\ [Next]_vars => Used' /\ NothingElseLeaks'
  <1> SUFFICES ASSUME IInv, [Next]_vars PROVE Used' /\ NothingElseLeaks' OBVIOUS
  <1> USE Names DEF IInv, Standing, TypeOK, At, Memory
  <1>0. ASSUME UNCHANGED <<sched_init, main_thread, where, allocated, lost, new>>,
               \A c \in Cores : Publishing(c)' = Publishing(c)
        PROVE  Used' /\ NothingElseLeaks'
    BY <1>0, SameBlocks
  <1>a. ASSUME UNCHANGED <<sched_init, main_thread, where, allocated, lost, new>>,
               NEW x \in Contexts, NEW l \in Labels, Goto(x, l),
               pc[x] # "ci_publish", l # "ci_publish"
        PROVE  Used' /\ NothingElseLeaks'
    <2>1. \A y \in Contexts : pc'[y] = "ci_publish" <=> pc[y] = "ci_publish" BY <1>a, Went
    <2> QED BY <1>0, <1>a, <2>1 DEF Publishing
  <1>b. ASSUME UNCHANGED <<sched_init, main_thread, where, allocated, lost, new>>,
               NEW c \in Cores, NEW l \in Labels \ {"ci_publish"},
               MayInterrupt(c), Interrupted(c, l)
        PROVE  Used' /\ NothingElseLeaks'
    BY <1>0, <1>b, WasInterrupted DEF Publishing, MayInterrupt
  <1> USE DEF flags, heap, calls
  <1>1. CASE Boot0 \/ Boot1
    BY <1>a, <1>1 DEF Boot0, Boot1, AwaitReady, Publish, Post, Sev, Poll, Wfe, Labels, BootLabels, Serving
  <1>2. ASSUME NEW c \in Cores, NEW x \in {Main(c), Irq(c)}, CoreCalls(x)
        PROVE  Used' /\ NothingElseLeaks'
    <2>1. CASE CdLock(x) BY <1>a, <2>1 DEF CdLock, Labels, Serving
    <2> QED BY <1>2, <2>1, CiLockKeepsBlocks, CiAllocKeepsBlocks, CiPublishKeepsBlocks DEF CoreCalls
  <1>3. CASE ClearSpin \/ SendRequest \/ TestSpin \/ Wfi \/ Restore
    BY <1>a, <1>3 DEF ClearSpin, SendRequest, TestSpin, Wfi, Poll, Restore, Labels
  <1>4. CASE AddPush \/ \E c \in Cores : AddAlloc(c) BY <1>4, AddsKeepBlocks
  <1>5. CASE CallInit \/ CallDeinit
    BY <1>a, <1>5 DEF CallInit, CallDeinit, Idle, Labels, Serving
  <1>6. CASE HeapInit BY <1>0, <1>6 DEF HeapInit, Publishing
  <1>7. CASE HeapDestroy BY <1>7, HeapDestroyKeepsBlocks
  <1>8. CASE ThreadLocks \/ ThreadUnlocks
    BY <1>a, <1>8 DEF ThreadLocks, ThreadUnlocks, Labels
  <1>9. ASSUME NEW c \in Cores, Schedule(c) \/ Teardown(c) PROVE Used' /\ NothingElseLeaks'
    BY <1>9, ScheduleKeepsBlocks, TeardownKeepsBlocks
  <1>10. ASSUME NEW c \in Cores, SendAck(c) PROVE Used' /\ NothingElseLeaks'
    BY <1>a, <1>10 DEF SendAck, Labels
  <1>11. ASSUME NEW c \in Cores, TickSchedules(c) \/ TickTearsDown(c) \/ TickIsLost(c) \/ SgiAck(c)
         PROVE  Used' /\ NothingElseLeaks'
    BY <1>b, <1>11 DEF TickSchedules, TickTearsDown, TickIsLost, SgiAck, Labels
  <1>12. ASSUME NEW c \in Cores, NEW s \in {"init", "deinit"}, SgiRequest(c, s)
         PROVE  Used' /\ NothingElseLeaks'
    BY <1>b, <1>12 DEF SgiRequest, Labels, Serving
  <1>13. CASE UNCHANGED vars BY <1>0, <1>13 DEF vars, Publishing
  <1> QED BY <1>1, <1>2, <1>3, <1>4, <1>5, <1>6, <1>7, <1>8, <1>9, <1>10, <1>11, <1>12, <1>13
          DEF Next, MainStep, MainCall, Handler, Sgi, Tick

-----------------------------------------------------------------------------
LEMMA InitIInv == Init => IInv
  <1> SUFFICES ASSUME Init PROVE IInv OBVIOUS
  <1> USE Names
  <1>1. TypeOK BY InitTypeOK
  <1>2. /\ pc[Main(CPU0)] = "await_ready" /\ pc[Main(CPU1)] = "publish"
        /\ \A c \in Cores : pc[Irq(c)] = "none"
    BY DEF Init
  <1>3. Handshake BY <1>2 DEF Init, Handshake, Waiting, BootLabels, Serving
  <1>4. Answers BY <1>2 DEF Init, Answers
  <1>5. Rounds BY <1>2 DEF Init, Rounds
  <1>6. Locked BY <1>2, NobodyIsNobody DEF Init, Locked, InSection
  <1>7. Booted BY <1>2 DEF Init, Booted, BootLabels
  <1>8. \A c \in Cores : ~Publishing(c) /\ ~Live(c) BY <1>2 DEF Init, Publishing, Live
  <1>9. MainThreads BY <1>8 DEF Init, MainThreads
  <1>10. Used BY <1>8 DEF Init, Used
  <1>11. NothingElseLeaks BY DEF Init, NothingElseLeaks
  <1> QED BY <1>1, <1>3, <1>4, <1>5, <1>6, <1>7, <1>9, <1>10, <1>11 DEF IInv, Standing, Memory

LEMMA Inductive == Spec => []IInv
  <1>1. IInv /\ [Next]_vars => IInv'
    BY NextPlaces, NextData, NextAdding, NextHandshake, NextStanding, NextLocked, NextBooted,
       NextMainThreads, NextBlocks
    DEF IInv, Standing, TypeOK, Memory
  <1> QED BY InitIInv, <1>1, PTL DEF Spec

(* Whatever the interleaving of the two cores at boot, CPU0 is past the    *)
(* mailbox of kernel.s only when CPU1 is set up.                           *)
THEOREM CpuOneIsReadyFirst == Spec => []CpuOneIsReady
  <1>1. IInv => CpuOneIsReady BY DEF IInv, Booted, CpuOneUp, CpuOneIsReady
  <1> QED BY Inductive, <1>1, PTL

(* g_spin_exit is set only when both cores have done what psched_init or   *)
(* psched_deinit asked, and no tick that comes before the caller looks at  *)
(* it undoes that.                                                         *)
THEOREM AcknowledgedIsDone == Spec => []AckMeansDone
  <1>1. ASSUME IInv PROVE AckMeansDone
    <2> SUFFICES ASSUME pc[Main(CPU0)] = "restore", NEW c \in Cores PROVE Done(c)
      BY DEF AckMeansDone, Done, IsUp, IsDown
    <2>1. g_spin_exit = 1 BY <1>1 DEF IInv, Standing, Handshake
    <2> QED BY <1>1, <2>1, Names DEF IInv, Standing, Answers
  <1> QED BY Inductive, <1>1, PTL

(* The teardown that psched_core_deinit asks for frees blocks that are     *)
(* allocated and its core's own, those in stale slots included, whatever   *)
(* calls and ticks came before it, and none that counts as lost.           *)
THEOREM TeardownFreesOnlyItsOwn == Spec => []TeardownFreesItsOwn
  <1>1. ASSUME IInv PROVE TeardownFreesItsOwn
    <2> SUFFICES ASSUME NEW c \in Cores, pc[Irq(c)] = "teardown", ~failed[c]
                 PROVE  /\ Freed(c) \subseteq allocated \ lost
                        /\ main_thread[c] \notin DOMAIN where
                        /\ sched_init[Other(c)] => main_thread[c] # main_thread[Other(c)]
      BY DEF TeardownFreesItsOwn
    <2>1. Live(c) BY <1>1, TornDownIsLive
    <2>2. Unthreaded(main_thread[c]) BY <1>1, <2>1 DEF IInv, Memory, Used
    <2>3. Freed(c) \subseteq allocated \ lost
      BY <1>1, <2>2 DEF IInv, Memory, Used, Unthreaded, Freed
    <2>4. ASSUME sched_init[Other(c)] PROVE main_thread[c] # main_thread[Other(c)]
      <3>1. main_thread[Other(c)] # NULL => Live(Other(c)) BY <2>4 DEF Live
      <3>2. main_thread[c] # NULL BY <2>1 DEF Live
      <3> QED BY <1>1, <2>1, <3>1, <3>2, OtherIs, Names DEF IInv, Memory, Used
    <2> QED BY <2>2, <2>3, <2>4 DEF Unthreaded
  <1> QED BY Inductive, <1>1, PTL

(* The blocks that psched_init, psched_deinit and the teardown leave behind*)
(* are those of the round-robin FIFOs, the main_thread and the heaps of an *)
(* init that overtook its teardown, and threads it left in FIFO slots that *)
(* a later push writes to; no others.                                      *)
THEOREM LeaksAreKnown == Spec => []NothingElseLeaks
  <1>1. IInv => NothingElseLeaks BY DEF IInv, Memory
  <1> QED BY Inductive, <1>1, PTL
=============================================================================
