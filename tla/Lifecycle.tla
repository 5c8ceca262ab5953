----------------------------- MODULE Lifecycle ------------------------------
(***************************************************************************)
(* How the two cores start and how their schedulers come and go: the boot  *)
(* handshake of kernel.s and bsp.c, psched_init and psched_deinit with     *)
(* their inter-processor interrupts (kernel/sched.c, kernel/irq.c), the    *)
(* teardown that a later tick performs, and the heap under them.           *)
(*                                                                         *)
(* CPU0's main context makes the calls; a core's interrupt handler is a    *)
(* second context that runs to its end before the first goes on.  A mutex  *)
(* is taken in one step (Mutex implements Lock).  Scheduling inside a core *)
(* is reduced to what it does to the blocks of threads (Sched has it all). *)
(***************************************************************************)
EXTENDS Integers, FiniteSets

CONSTANTS MaxBlocks,   \* thread_t blocks the heap has room for
          MaxInits,    \* bound: the calls of psched_init
          MaxThreads,  \* bound: the threads added between init and deinit
          LateCalls    \* threads still call the scheduler during psched_deinit

ASSUME LifecycleAssumption ==
    /\ MaxBlocks \in Nat /\ MaxInits \in Nat /\ MaxThreads \in Nat
    /\ LateCalls \in BOOLEAN

CPU0 == 0
CPU1 == 1
Cores == {CPU0, CPU1}
Other(c) == 1 - c
Main(c) == <<c, "main">>
Irq(c)  == <<c, "irq">>
Contexts == Cores \X {"main", "irq"}
Blocks == 1 .. MaxBlocks
NULL == 0
Nobody == <<>>

VARIABLES
    pc,                  \* context -> where it is
    event,               \* core -> its event register
    g_cpu1_ready, g_cpu_mailbox,
    sched_init, request_terminate,   \* core -> flag
    main_thread,         \* core -> block or NULL
    failed,              \* core -> its last psched_core_init returned SYS_ERROR
    where,               \* block of a thread -> its core and container
    forgotten,           \* the blocks a psched_core_init left in FIFO slots
    allocated,           \* the blocks the allocator has given out
    lost,                \* those of them that nothing will come upon any more
    heap_up,             \* g_heap_initialized
    thread_mutex, allocator_mutex,   \* who has them
    g_spin_exit, prev,   \* the flag the caller waits on, and what it restores
    pending,             \* core -> the SGIs pending at its GIC interface
    call,                \* what main is calling
    new,                 \* the thread main is adding: its block and core
    up,                  \* main has called psched_init and not psched_deinit
    inits

flags == <<sched_init, request_terminate, main_thread, failed>>
heap  == <<where, forgotten, allocated, lost, heap_up>>
locks == <<thread_mutex, allocator_mutex>>
boot  == <<event, g_cpu1_ready, g_cpu_mailbox>>
hand  == <<g_spin_exit, prev, pending>>
calls == <<call, new, up, inits>>
vars  == <<pc, flags, heap, locks, boot, hand, calls>>

BootLabels == {"await_ready", "post1", "sev1", "poll2", "wfe2", "clear",
               "publish", "wfe1", "poll1", "startup"}

ReadyToRun(c) == sched_init[c] /\ ~request_terminate[c]

Goto(x, l) == pc' = [pc EXCEPT ![x] = l]

(* The handler of a core comes before the core's other context.            *)
At(x, l) == pc[x] = l /\ (x[2] = "main" => pc[Irq(x[1])] = "none")

-----------------------------------------------------------------------------
(* Boot.  WFE returns, and consumes the event, when one is registered.     *)

Wfe(c, from, to) ==
    /\ At(Main(c), from) /\ event[c]
    /\ event' = [event EXCEPT ![c] = FALSE]
    /\ Goto(Main(c), to)
    /\ UNCHANGED <<flags, heap, locks, g_cpu1_ready, g_cpu_mailbox, hand, calls>>

Sev(c, from, to) ==
    /\ At(Main(c), from)
    /\ event' = [d \in Cores |-> TRUE]
    /\ Goto(Main(c), to)
    /\ UNCHANGED <<flags, heap, locks, g_cpu1_ready, g_cpu_mailbox, hand, calls>>

Post(c, from, to, v) ==
    /\ At(Main(c), from)
    /\ g_cpu_mailbox' = v
    /\ Goto(Main(c), to)
    /\ UNCHANGED <<flags, heap, locks, event, g_cpu1_ready, hand, calls>>

Poll(c, from, there, to, else) ==
    /\ At(Main(c), from)
    /\ Goto(Main(c), IF there THEN to ELSE else)
    /\ UNCHANGED <<flags, heap, locks, boot, hand, calls>>

(* cpu0_startup up to the mailbox: the remaps wait for CPU1 to be off the  *)
(* address 0 alias, and the heap is made.                                  *)
AwaitReady ==
    /\ At(Main(CPU0), "await_ready") /\ g_cpu1_ready
    /\ heap_up' = TRUE
    /\ Goto(Main(CPU0), "post1")
    /\ UNCHANGED <<flags, where, forgotten, allocated, lost, locks, boot, hand, calls>>

(* Mutant of Answered: any mailbox value is taken for the answer.          *)
AnsweredAtAll == g_cpu_mailbox # 0
Answered == g_cpu_mailbox = 2

Boot0 == \/ AwaitReady
         \/ Post(CPU0, "post1", "sev1", 1)
         \/ Sev(CPU0, "sev1", "poll2")
         \/ Poll(CPU0, "poll2", Answered, "clear", "wfe2")
         \/ Wfe(CPU0, "wfe2", "poll2")
         \/ Post(CPU0, "clear", "ci_lock", 0)

(* _cpu1_fork.                                                             *)
Publish ==
    /\ At(Main(CPU1), "publish")
    /\ g_cpu1_ready' = TRUE
    /\ Goto(Main(CPU1), "wfe1")
    /\ UNCHANGED <<flags, heap, locks, event, g_cpu_mailbox, hand, calls>>

Boot1 == \/ Publish
         \/ Wfe(CPU1, "wfe1", "poll1")
         \/ Poll(CPU1, "poll1", g_cpu_mailbox # 0, "startup", "wfe1")
         \/ Poll(CPU1, "startup", TRUE, "post2", "post2")
         \/ Post(CPU1, "post2", "sev2", 2)
         \/ Sev(CPU1, "sev2", "loop")

-----------------------------------------------------------------------------
(* The heap, as far as blocks of threads go.                               *)

kMalloc == IF heap_up /\ allocated # Blocks THEN CHOOSE b \in Blocks : b \notin allocated ELSE NULL

-----------------------------------------------------------------------------
(* psched_core_init, run by main on CPU0 and by the handler on CPU1.       *)

(* The heaps and the FIFOs are emptied as they are found.  The two FIFOs   *)
(* that the teardown frees keep their slots, so that a later teardown      *)
(* still comes upon those threads; on the others nothing does.             *)
CiLock(x) ==
    LET c == x[1]
        left == {b \in DOMAIN where : where[b] \in {c} \X {"incoming", "outgoing"}}
    IN  /\ At(x, "ci_lock") /\ thread_mutex[c] = Nobody
        /\ thread_mutex' = [thread_mutex EXCEPT ![c] = x]
        /\ where' = [b \in left \cup {b \in DOMAIN where : where[b][1] # c} |-> where[b]]
        /\ forgotten' = forgotten \cup left
        /\ lost' = lost \cup (DOMAIN where \ DOMAIN where')
        /\ Goto(x, "ci_alloc")
        /\ UNCHANGED <<flags, allocated, heap_up, allocator_mutex, boot, hand, calls>>

(* A main_thread that is still there, because the teardown has not come    *)
(* yet, is overwritten.                                                    *)
CiAlloc(x) ==
    LET c == x[1]
    IN  /\ At(x, "ci_alloc") /\ allocator_mutex = Nobody
        /\ main_thread' = [main_thread EXCEPT ![c] = kMalloc]
        /\ allocated' = allocated \cup ({kMalloc} \ {NULL})
        /\ lost' = lost \cup (IF sched_init[c] THEN {main_thread[c]} \cap allocated ELSE {})
        /\ Goto(x, "ci_publish")
        /\ UNCHANGED <<sched_init, request_terminate, failed, where, forgotten, heap_up, locks, boot, hand, calls>>

CiPublish(x) ==
    LET c == x[1]
        ok == main_thread[c] # NULL
    IN  /\ At(x, "ci_publish")
        /\ sched_init' = [sched_init EXCEPT ![c] = @ \/ ok]
        /\ request_terminate' = [request_terminate EXCEPT ![c] = @ /\ ~ok]
        /\ failed' = [failed EXCEPT ![c] = ~ok]
        /\ thread_mutex' = [thread_mutex EXCEPT ![c] = Nobody]
        /\ Goto(x, IF x[2] = "irq" THEN "ack" ELSE "clear_spin")
        /\ UNCHANGED <<main_thread, heap, allocator_mutex, boot, hand, calls>>

(* psched_core_deinit only asks for the teardown.                          *)
CdLock(x) ==
    LET c == x[1]
    IN  /\ At(x, "cd_lock") /\ thread_mutex[c] = Nobody
        /\ request_terminate' = [request_terminate EXCEPT ![c] = TRUE]
        /\ Goto(x, IF x[2] = "irq" THEN "ack" ELSE "clear_spin")
        /\ UNCHANGED <<sched_init, main_thread, failed, heap, locks, boot, hand, calls>>

-----------------------------------------------------------------------------
(* psched_init and psched_deinit after the own core: ask CPU1, and wait.   *)

(* Mutant of ClearSpin: the request is sent before the flag is cleared.    *)
SendsFirst ==
    \/ /\ At(Main(CPU0), "clear_spin")
       /\ pending' = [pending EXCEPT ![CPU1] = @ \cup {call}]
       /\ Goto(Main(CPU0), "sent")
       /\ UNCHANGED <<flags, heap, locks, boot, g_spin_exit, prev, calls>>
    \/ /\ At(Main(CPU0), "sent")
       /\ prev' = g_spin_exit
       /\ g_spin_exit' = 0
       /\ Goto(Main(CPU0), "test")
       /\ UNCHANGED <<flags, heap, locks, boot, pending, calls>>

ClearSpin ==
    /\ At(Main(CPU0), "clear_spin")
    /\ prev' = g_spin_exit
    /\ g_spin_exit' = 0
    /\ Goto(Main(CPU0), "send")
    /\ UNCHANGED <<flags, heap, locks, boot, pending, calls>>

SendRequest ==
    /\ At(Main(CPU0), "send")
    /\ pending' = [pending EXCEPT ![CPU1] = @ \cup {call}]
    /\ Goto(Main(CPU0), "test")
    /\ UNCHANGED <<flags, heap, locks, boot, g_spin_exit, prev, calls>>

(* An interrupt between the test and the WFI comes back to the WFI, which  *)
(* then waits for another one.                                             *)
TestSpin == Poll(CPU0, "test", g_spin_exit # 0, "restore", "wfi")

Wfi ==
    /\ At(Main(CPU0), "wfi")
    /\ Goto(Main(CPU0), "asleep")
    /\ UNCHANGED <<flags, heap, locks, boot, hand, calls>>

Restore ==
    /\ At(Main(CPU0), "restore")
    /\ g_spin_exit' = prev
    /\ up' = (call = "init")
    /\ Goto(Main(CPU0), "idle")
    /\ UNCHANGED <<flags, heap, locks, boot, prev, pending, call, new, inits>>

-----------------------------------------------------------------------------
(* The calls main makes, in the order main.c makes them: the allocator's   *)
(* benchmarks destroy and make the heap anew, then each workload calls     *)
(* psched_init, adds its threads and calls psched_deinit.  The psched_init *)
(* of the boot, the first, has no psched_deinit.                           *)

Idle == At(Main(CPU0), "idle")

InThreadCall == pc[Main(CPU1)] = "in_call"

CallInit ==
    /\ Idle /\ ~up /\ heap_up /\ inits < MaxInits
    /\ inits' = inits + 1
    /\ call' = "init"
    /\ Goto(Main(CPU0), "ci_lock")
    /\ UNCHANGED <<flags, heap, locks, boot, hand, new, up>>

CallDeinit ==
    /\ Idle /\ up /\ inits > 1
    /\ LateCalls \/ ~InThreadCall
    /\ call' = "deinit"
    /\ Goto(Main(CPU0), "cd_lock")
    /\ UNCHANGED <<flags, heap, locks, boot, hand, new, up, inits>>

(* The heap goes under the schedulers, whose flags it clears.              *)
HeapDestroy ==
    /\ Idle /\ inits = 1 /\ heap_up
    /\ heap_up' = FALSE
    /\ sched_init' = [c \in Cores |-> FALSE]
    /\ allocated' = {} /\ lost' = {} /\ where' = [b \in {} |-> NULL] /\ forgotten' = {}
    /\ up' = FALSE
    /\ UNCHANGED <<pc, request_terminate, main_thread, failed, locks, boot, hand, call, new, inits>>

HeapInit ==
    /\ Idle /\ ~heap_up
    /\ heap_up' = TRUE
    /\ UNCHANGED <<pc, flags, where, forgotten, allocated, lost, locks, boot, hand, calls>>

(* enqueue_new_thread: the block, then the core's incoming FIFO.           *)
AddAlloc(c) ==
    /\ Idle /\ up /\ inits > 1 /\ Cardinality(DOMAIN where \ forgotten) < MaxThreads
    /\ allocator_mutex = Nobody
    /\ kMalloc # NULL
    /\ allocated' = allocated \cup {kMalloc}
    /\ new' = <<kMalloc, c>>
    /\ Goto(Main(CPU0), "add_push")
    /\ UNCHANGED <<flags, where, forgotten, lost, heap_up, locks, boot, hand, call, up, inits>>

(* A push writes into the next slot, which may hold a forgotten thread.    *)
Overwritten(c, f) == {{}} \cup {{b} : b \in {d \in forgotten : where[d] = <<c, f>>}}

AddPush ==
    /\ At(Main(CPU0), "add_push") /\ thread_mutex[new[2]] = Nobody
    /\ \E s \in Overwritten(new[2], "incoming") :
          /\ where' = [b \in (DOMAIN where \ s) \cup {new[1]} |->
                          IF b = new[1] THEN <<new[2], "incoming">> ELSE where[b]]
          /\ forgotten' = forgotten \ s
          /\ lost' = lost \cup s
    /\ new' = Nobody
    /\ Goto(Main(CPU0), "idle")
    /\ UNCHANGED <<flags, allocated, heap_up, locks, boot, hand, call, up, inits>>

(* A thread of CPU1 is in a call (kill_thread, suspend_thread, an add) that*)
(* holds the thread_mutex of its own core, with interrupts enabled.        *)
ThreadLocks ==
    /\ At(Main(CPU1), "loop") /\ thread_mutex[CPU1] = Nobody
    /\ ReadyToRun(CPU1) /\ \E b \in DOMAIN where : where[b] \in {CPU1} \X {"heaps", "rr"}
    /\ LateCalls \/ (Idle /\ up)
    /\ thread_mutex' = [thread_mutex EXCEPT ![CPU1] = Main(CPU1)]
    /\ Goto(Main(CPU1), "in_call")
    /\ UNCHANGED <<flags, heap, allocator_mutex, boot, hand, calls>>

ThreadUnlocks ==
    /\ At(Main(CPU1), "in_call")
    /\ thread_mutex' = [thread_mutex EXCEPT ![CPU1] = Nobody]
    /\ Goto(Main(CPU1), "loop")
    /\ UNCHANGED <<flags, heap, allocator_mutex, boot, hand, calls>>

-----------------------------------------------------------------------------
(* The interrupt handler.                                                  *)

MayInterrupt(c) == pc[Irq(c)] = "none" /\ pc[Main(c)] \notin BootLabels

(* Mutant of Interrupted: an if in place of the while around the WFI.      *)
InterruptedOnce(c, l) ==
    pc' = [pc EXCEPT ![Irq(c)] = l, ![Main(c)] = IF @ = "asleep" THEN "restore" ELSE @]

(* An interrupt goes to l in the handler and ends the WFI that the other   *)
(* context sleeps in, if it does.                                          *)
Interrupted(c, l) ==
    pc' = [pc EXCEPT ![Irq(c)] = l, ![Main(c)] = IF @ = "asleep" THEN "test" ELSE @]

TickSchedules(c) ==
    /\ MayInterrupt(c) /\ thread_mutex[c] = Nobody /\ ReadyToRun(c)
    /\ thread_mutex' = [thread_mutex EXCEPT ![c] = Irq(c)]
    /\ Interrupted(c, "schedule")
    /\ UNCHANGED <<flags, heap, allocator_mutex, boot, hand, calls>>

TickTearsDown(c) ==
    /\ MayInterrupt(c) /\ thread_mutex[c] = Nobody
    /\ request_terminate[c] /\ allocator_mutex = Nobody
    /\ thread_mutex' = [thread_mutex EXCEPT ![c] = Irq(c)]
    /\ allocator_mutex' = Irq(c)
    /\ Interrupted(c, "teardown")
    /\ UNCHANGED <<flags, heap, boot, hand, calls>>

(* A tick that finds a mutex taken, or nothing to do, is lost.             *)
TickIsLost(c) ==
    /\ MayInterrupt(c)
    /\ \/ thread_mutex[c] # Nobody
       \/ ~ReadyToRun(c) /\ (request_terminate[c] => allocator_mutex # Nobody)
    /\ Interrupted(c, "none")
    /\ UNCHANGED <<flags, heap, locks, boot, hand, calls>>

(* What next_up may do to a thread's block: admit it to a heap or to a     *)
(* round-robin FIFO, retire it, or give it back.                           *)
Moves(from) == CASE from = "incoming" -> {"heaps", "rr"}
                 [] from = "heaps" -> {"outgoing"}
                 [] from = "rr" -> {"outgoing"}
                 [] OTHER -> {}

Schedule(c) ==
    /\ At(Irq(c), "schedule")
    /\ \/ UNCHANGED <<where, forgotten, allocated, lost>>
       \/ \E b \in DOMAIN where \ forgotten : \E to \in Moves(where[b][2]) :
             /\ where[b][1] = c
             /\ \E s \in IF to = "outgoing" THEN Overwritten(c, to) ELSE {{}} :
                   /\ where' = [d \in DOMAIN where \ s |-> IF d = b THEN <<c, to>> ELSE where[d]]
                   /\ forgotten' = forgotten \ s
                   /\ lost' = lost \cup s
             /\ UNCHANGED allocated
       \/ \E b \in DOMAIN where \ forgotten :
             /\ where[b] = <<c, "outgoing">> /\ allocator_mutex = Nobody
             /\ where' = [d \in DOMAIN where \ {b} |-> where[d]]
             /\ allocated' = allocated \ {b}
             /\ UNCHANGED <<forgotten, lost>>
    /\ thread_mutex' = [thread_mutex EXCEPT ![c] = Nobody]
    /\ Goto(Irq(c), "none")
    /\ UNCHANGED <<flags, heap_up, allocator_mutex, boot, hand, calls>>

(* Mutant of Freed: the teardown forgets the main thread.                  *)
FreedButMain(c) == {b \in DOMAIN where : where[b][1] = c /\ where[b][2] # "rr"}

(* What is in a slot of the incoming or the outgoing FIFO, queued or       *)
(* forgotten, and what is in the heaps is freed; the round-robin FIFOs are *)
(* left alone.                                                             *)
Freed(c) == {b \in DOMAIN where : where[b][1] = c /\ where[b][2] # "rr"} \cup {main_thread[c]}

(* Mutant of ClearsFlags: the request to terminate stays.                  *)
ForgetsTheRequest(c) ==
    /\ sched_init' = [sched_init EXCEPT ![c] = FALSE]
    /\ UNCHANGED request_terminate

ClearsFlags(c) ==
    /\ sched_init' = [sched_init EXCEPT ![c] = FALSE]
    /\ request_terminate' = [request_terminate EXCEPT ![c] = FALSE]

(* Mutant of GivesBack: g_allocator_mutex is kept.                         *)
KeepsAllocator(c) ==
    /\ thread_mutex' = [thread_mutex EXCEPT ![c] = Nobody]
    /\ UNCHANGED allocator_mutex

GivesBack(c) ==
    /\ thread_mutex' = [thread_mutex EXCEPT ![c] = Nobody]
    /\ allocator_mutex' = Nobody

Teardown(c) ==
    /\ At(Irq(c), "teardown")
    /\ allocated' = allocated \ Freed(c)
    /\ where' = [b \in {b \in DOMAIN where : where[b][1] # c} |-> where[b]]
    /\ forgotten' = forgotten \cap DOMAIN where'
    /\ lost' = lost \cup {b \in DOMAIN where : where[b] = <<c, "rr">>}
    /\ ClearsFlags(c) /\ GivesBack(c)
    /\ Goto(Irq(c), "none")
    /\ UNCHANGED <<main_thread, failed, heap_up, boot, hand, calls>>

(* c_irq_handler on a software interrupt.                                  *)
SgiRequest(c, s) ==
    /\ MayInterrupt(c) /\ s \in pending[c] \ {"ack"}
    /\ pending' = [pending EXCEPT ![c] = @ \ {s}]
    /\ Interrupted(c, IF s = "init" THEN "ci_lock" ELSE "cd_lock")
    /\ UNCHANGED <<flags, heap, locks, boot, g_spin_exit, prev, calls>>

SgiAck(c) ==
    /\ MayInterrupt(c) /\ "ack" \in pending[c]
    /\ pending' = [pending EXCEPT ![c] = @ \ {"ack"}]
    /\ g_spin_exit' = 1
    /\ Interrupted(c, "none")
    /\ UNCHANGED <<flags, heap, locks, boot, prev, calls>>

SendAck(c) ==
    /\ At(Irq(c), "ack")
    /\ pending' = [pending EXCEPT ![Other(c)] = @ \cup {"ack"}]
    /\ Goto(Irq(c), "none")
    /\ UNCHANGED <<flags, heap, locks, boot, g_spin_exit, prev, calls>>

-----------------------------------------------------------------------------
Init ==
    /\ pc = [x \in Contexts |-> IF x = Main(CPU0) THEN "await_ready"
                                ELSE IF x = Main(CPU1) THEN "publish" ELSE "none"]
    /\ event \in [Cores -> BOOLEAN]
    /\ g_cpu1_ready = FALSE /\ g_cpu_mailbox = 0
    /\ sched_init = [c \in Cores |-> FALSE]
    /\ request_terminate = [c \in Cores |-> FALSE]
    /\ main_thread = [c \in Cores |-> NULL]
    /\ failed = [c \in Cores |-> FALSE]
    /\ where = [b \in {} |-> NULL]
    /\ forgotten = {} /\ allocated = {} /\ lost = {} /\ heap_up = FALSE
    /\ thread_mutex = [c \in Cores |-> Nobody] /\ allocator_mutex = Nobody
    /\ g_spin_exit = 0 /\ prev = 0
    /\ pending = [c \in Cores |-> {}]
    /\ call = "init" /\ new = Nobody /\ up = FALSE /\ inits = 1

CoreCalls(x) == CiLock(x) \/ CiAlloc(x) \/ CiPublish(x) \/ CdLock(x)

(* CPU0's main context inside a call; CPU1's while it boots.               *)
MainStep == \/ Boot0 \/ CoreCalls(Main(CPU0))
            \/ ClearSpin \/ SendRequest \/ TestSpin \/ Wfi \/ Restore \/ AddPush

MainCall == \/ CallInit \/ CallDeinit \/ HeapDestroy \/ HeapInit
            \/ \E c \in Cores : AddAlloc(c)

Handler(c) == \/ CoreCalls(Irq(c)) \/ Schedule(c) \/ Teardown(c) \/ SendAck(c)

Sgi(c) == SgiAck(c) \/ \E s \in {"init", "deinit"} : SgiRequest(c, s)

Tick(c) == TickSchedules(c) \/ TickTearsDown(c) \/ TickIsLost(c)

Next == \/ MainStep \/ MainCall \/ Boot1 \/ ThreadLocks \/ ThreadUnlocks
        \/ \E c \in Cores : Handler(c) \/ Sgi(c) \/ Tick(c)

(* A core executes: its handler to the end, then its other context, which  *)
(* the ticks interrupt for ever but leave time to.  SGIs that are pending  *)
(* again and again are delivered.  The timers tick for ever, and not only  *)
(* while a mutex that is held for microseconds is held: the handlers of    *)
(* the ticks take microseconds of a period and again and again neither     *)
(* core is in one.                                                         *)
Fairness ==
    /\ []<>(\A c \in Cores : pc[Irq(c)] \notin {"schedule", "teardown"})
    /\ SF_vars(MainStep) /\ WF_vars(Boot1) /\ WF_vars(ThreadUnlocks)
    /\ \A c \in Cores : WF_vars(Handler(c)) /\ WF_vars(Tick(c))
    /\ SF_vars(\E c \in Cores : Sgi(c)) /\ SF_vars(\E c \in Cores : TickTearsDown(c))

Spec == Init /\ [][Next]_vars /\ Fairness

-----------------------------------------------------------------------------
(* CPU0 goes on to the scheduler only when CPU1 has set up its translation *)
(* tables, interrupt controller and timer and can take the request.        *)
CpuOneIsReady ==
    pc[Main(CPU0)] \notin BootLabels => pc[Main(CPU1)] \in {"sev2", "loop", "in_call"}

(* Boot and every psched_init and psched_deinit come to an end, whenever   *)
(* the interrupts come.  An acknowledgement is never lost, but the wake-up *)
(* it should be is, when it comes between the test of g_spin_exit and the  *)
(* WFI: the caller then sleeps until the next tick of its core.            *)
CallsReturn == []<>(pc[Main(CPU0)] = "idle")

(* When psched_init is about to return, both cores have their scheduler    *)
(* (or had no memory for it); when psched_deinit is, both are down or      *)
(* will be at a tick.                                                      *)
AckMeansDone ==
    pc[Main(CPU0)] = "restore" =>
        \A c \in Cores :
            IF call = "init" THEN failed[c] \/ ReadyToRun(c)
            ELSE request_terminate[c] \/ ~sched_init[c]

(* A request to terminate is carried out, or withdrawn by a new init.      *)
TerminationHappens ==
    \A c \in Cores : request_terminate[c] ~> ~request_terminate[c]

(* What the teardown of a core is about to free is allocated, and once: the*)
(* threads in its containers, those an init forgot in the slots of the two *)
(* FIFOs, its main_thread, and nothing of the other core, nor what counts  *)
(* as lost below.  Not so when the core's psched_init had no memory for a  *)
(* main_thread: psched_init ignores that, and the teardown then goes       *)
(* through a NULL pointer.                                                 *)
TeardownFreesItsOwn ==
    \A c \in Cores : pc[Irq(c)] = "teardown" /\ ~failed[c] =>
        /\ Freed(c) \subseteq allocated \ lost
        /\ main_thread[c] \notin DOMAIN where
        /\ sched_init[Other(c)] => main_thread[c] # main_thread[Other(c)]

(* Nothing is leaked but what the code leaves behind: threads in the round-*)
(* robin FIFOs at a teardown; of a core whose psched_init came before the  *)
(* tick that would have torn it down, the main_thread and what was in its  *)
(* heaps and round-robin FIFOs; and those of its incoming and outgoing     *)
(* threads whose slots are written to before the next teardown.            *)
NothingElseLeaks ==
    \A b \in allocated \ lost :
        \/ b \in DOMAIN where
        \/ new # Nobody /\ b = new[1]
        \/ \E c \in Cores : b = main_thread[c]
                            /\ (sched_init[c] \/ \E x \in Contexts : x[1] = c /\ pc[x] = "ci_publish")
=============================================================================
