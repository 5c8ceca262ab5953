# Kairos: a TLA+ model of the kernel

Kairos (this repository) is a small real-time kernel for a dual-core Cortex-A9. Each core
schedules its threads earliest-deadline-first, falls back to three round-robin classes, and
then to its `main` thread. This directory holds TLA+ modules of the kernel, the TLC
configurations that check them on small instances, and TLAPS proofs of what matters most
for every value of the constants. Every definition is translated from the C or assembly it
names; `PROJECT.json` gives the lines (`map`), the runs, the hazards each property is aimed
at, and the theorems.

## 1. The system

| Component | State | Operations | Source |
|---|---|---|---|
| scheduler of one core | two heaps, five FIFOs, `curr_thread`, `ticks`, `missed_deadlines`, `utilization`, the metadata of every `thread_t` | `next_thread` (the tick), `thread_exit`, `suspend_thread`, `kill_thread`, `add_*_thread`, and `next_up`, which the first three share | `kernel/sched.c`, `thread.c`, `cpu.c` |
| min-heap | array of (thread, order), back pointers `heap_index` in the threads | insert, remove head, remove node, rebalance a node | `kernel/min_heap.c` |
| thread FIFO | ring buffer, `start`, `end`, `size` | push, pop, destroy | `kernel/thread_fifo.c` |
| mutexes | one word each | try once, spin with `wfe`, try once and suspend, unlock with `sev` | `kernel/mutex.s`, `lock.c` |
| SMP lifecycle | per-core flags, `g_spin_exit` | `psched_init`, `psched_deinit`, the two software interrupts, teardown at the tick | `kernel/sched.c`, `irq.c` |
| load balancer | the utilization of every core, a tie-break counter | `least_loaded_core` | `kernel/sched.c` |
| IRQ entry, context switch | banked stacks, the `sp` of every thread | IRQ entry/exit, SGIs, `prime_thread`, `load_thread` | `kernel/kernel.s`, `irq.c`, `gic.c`, `timers.c` |
| TLSF allocator | block headers, free lists, two levels of bitmaps | `kMalloc`, `kFree`, `heap_init`, `heap_destroy` | `kernel/tlsf.c` |
| boot of CPU 1, MMU | `g_cpu1_ready`, page table | hand-shake at reset, page-table set-up | `kernel/kernel.s`, `bsp/bsp.c` |
| SD loader, fault capture, counters, bring-up | device registers | | `bsp/`, `kernel/fault.c`, `pmu.c` |

How they interact. The private timer of each core raises a tick; `kernel.s` saves the
context and calls `next_thread`, which takes the core's `thread_mutex` (or loses the tick if
it is taken), counts the tick, and calls `next_up`. `next_up` admits the incoming threads,
releases the due ones from the release heap into the deadline heap, walks the deadline heap,
then the FIFOs of the three round-robin classes, and finally gives the blocks of outgoing
threads back to the allocator if `g_allocator_mutex` is free. A thread that returns enters
the same routine through `thread_exit`, one that waits through `suspend_thread`. API calls
may be made for any core from any core: they take that core's `thread_mutex`, and the
`add_*` calls also `g_allocator_mutex` around `kMalloc`. `psched_init`/`psched_deinit` send
software interrupts to CPU 1 and sleep in `wfi` on a flag.

What is hard in it: a thread is handed from container to container by six pieces of code
that must agree with an owner tag `suspend_thread` reads; calls from other threads and cores
land between any two ticks, on a thread in any state; blocks are reclaimed late, when a lock
happens to be free; preemption happens inside critical sections; ticks can be refused; heap
keys are copies of fields that change; 32-bit times wrap. `PROJECT.json` lists each hazard at
its line with the properties aimed at it.

For each component, what makes it correct:

* scheduler - no thread lost, shared or freed in use; the tag agrees with the container;
  nothing runs before its release; priority between EDF, the classes and `main`; every
  RUNNING thread has a context to resume; accounting balances; `next_up` ends;
* min-heap, FIFO - implement a map from threads to keys and a bounded sequence; back
  pointers name their node; a full container is refused without damage;
* mutexes - exclusion, no lost wake-up, nobody waits beside a free mutex;
* lifecycle - `psched_init` and `psched_deinit` return with the cores as promised, a
  teardown frees what is its own and once, nobody waits for ever;
* allocator - blocks are disjoint and cover the arena, no two free neighbours, bitmaps agree
  with the lists, the two size mappings agree;
* boot - CPU 0 goes on only when CPU 1 can take its interrupts, and no event is missed.

## 2. The modules

| Module | What it is |
|---|---|
| `Sched` | the scheduler of one core: every entry point and every loop iteration of `next_up` |
| `SchedProps` | its type invariant, safety, action and liveness properties, and what comments and documents say that is not so |
| `MCSched` | the symmetry set for TLC; the `.cfg` files give the constants |
| `SchedTypes` | lemmas about heaps, FIFOs and single steps; type correctness, proved |
| `SchedInvariant` | the inductive invariant and the safety theorems, proved |
| `SchedSwitch` | contexts, late jobs, strict classes and the load of the core, proved on top of it |
| `KeyedHeap` | a heap as a map from threads to keys: the operators `Sched` and `PriorityMap` share |
| `MinHeap` | the array behind a `heap_t`: back pointers, percolation, keys compared modulo `2 * HALF` |
| `PriorityMap` | what `MinHeap` promises: a bounded map from which a least element is taken |
| `MinHeapProof` | types, back pointers, the order of the array and the refinement of `PriorityMap`, proved |
| `MCMinHeap` | symmetry and view for TLC |
| `ThreadFifo` | the ring buffer behind a `thread_fifo_t` |
| `BoundedFifo` | what `ThreadFifo` promises: a bounded sequence |
| `ThreadFifoProof` | the ring buffer implements the sequence, proved |
| `Mutex` | the three routines of `mutex.s`, an instruction a step, with ticks and thread switches between any two |
| `Lock` | what `Mutex` promises: a mutex is taken only while nobody has it |
| `MutexProof` | types, mutual exclusion, no lost wake-up and the refinement of `Lock`, proved |
| `MCMutex` | two cores, two threads on the first |
| `Tlsf` | the allocator: blocks with boundary tags, free lists, two levels of bitmaps |
| `Arena` | what `Tlsf` promises: aligned, long enough, disjoint ranges |
| `TlsfProof` | types, tiling, coalescing, lists, bitmaps, owners, good fit and the refinement of `Arena`, proved |
| `MCTlsf` | the sizes asked for |
| `Lifecycle` | both cores: boot, `psched_init`, `psched_deinit`, software interrupts, teardown, and the heap under them |
| `LifecycleProof` | the boot order, the acknowledgements, and what a teardown frees and leaks, proved |
| `MCLifecycle` | its instance |

How they fit. `Sched` keeps its heaps as maps and its FIFOs as sequences. That is justified by
the two refinements: `MinHeap` implements `PriorityMap`, whose state and operators are those
`Sched` uses (both extend `KeyedHeap`), and `ThreadFifo` implements `BoundedFifo`. In the
other direction the two containers assume what `Sched` is proved to do: no thread is pushed or
inserted twice (`SharesNothing`), the index in a thread is used only while the tag names that
heap (`OwnerTagRight`), and keys only move forward (`TimesForward`; `Times` in `SchedInvariant`
bounds every key by the time it copies).

### Sched: state and actions

| Variable | Code |
|---|---|
| `tcb` | the `md` and `exec` fields of every `thread_t` that anything reads |
| `pool` | the blocks `kMalloc` can hand out (the allocator is abstracted to this set) |
| `fifo` | the five `thread_fifo_t` of the core, as sequences, indexed by the owner tag they stand for |
| `deadHeap`, `relHeap` | the two `heap_t`, each a function from the threads in it to their `order` |
| `curr`, `ticks`, `missed_deadlines`, `utilization` | the fields of `psched_t` |
| `frame` | what the `sp` of each thread points at: no frame, a saved one, or the thread executes |
| `pc`, `found`, `caller` | where `next_up` is, its `thread_found`, and which of its three callers is running |

Actions: `EnqueueNewThread`, `EnqueueNewPersistentThread`, `KillThread`, `SuspendOther` are the
calls that do not reschedule. `NextThread` (with its test-mode branch
`NextThreadReleasePending`), `ThreadExit` and `SuspendSelf` are the three that do; they set
`pc` to `"admit"`, and from there each action is one iteration of one loop of `next_up`, in
the order of the code: `Admit`, `Release`, `EdfRearm`/`EdfRetire`/`EdfPick`, the three FIFOs
(`RrTurn`/`RrRetire`/`RrDone`), `Reclaim`, and `Dispatch`, the end of whichever caller it is.
`next_up` is split into steps to be able to say that it ends (`NextUpEnds`) and what holds
between its phases; since it runs with the mutex held nothing interleaves with it.

Abstractions of `Sched`. The head of a heap is any thread with the least key: this covers every layout
of the array. The two `do ... while` loops that re-arm a periodic thread are the relations
`IsNextDeadline` and `IsNextRelease` (the first multiple past the limit). The averages behind
`utilization` are arbitrary values of `Utils`. A stack is its frame marker. Times are naturals
(32-bit wrap is outside this module). The constant assumption `Cardinality(Threads) <=
MAX_THREADS` takes the kernel to be sized for its threads: no container of this module is ever
full.

### MinHeap and ThreadFifo: state and actions

`MinHeap` has the array with its stale nodes (`heap`), `curr_index`, the `heap_index` of every
thread, and the node that is moving (`percolate`, `index`). A call (`insert_node`, `pop_heap`
with `remove_head`, `remove_node`, `balance_node`, the loop of the teardown) changes the array
and names a direction; `percolate_up` and `percolate_down` then move the node one level per
step, so that it can be stated what holds while a node is on its way. The next call comes when
the node has settled, since the caller holds the core's mutex. The comparisons are those of the
code: modulo `2 * HALF` (2^32 in the code) while moving (`lt_wrapped`), a plain `<` where
`remove_node` and `balance_node` choose the direction. The two agree on keys less than `HALF`
apart, which `KeysApart` assumes: the keys of one heap are times of live threads, at most a few
periods from the tick counter, so it fails only while the counter itself wraps. Calls on a node
outside the heap, which the code answers with `OP_FAILED`, are left out: no caller makes them.

`ThreadFifo` has `start`, `end`, `size` and the slots; `destroy_threads` frees every slot that
is not `NULL`, whatever `size` says, so the slots are kept and not only the queue.
`initialize_fifo` may come at any time, as `psched_core_init` calls it on FIFOs that hold
threads: on the round-robin ones after any teardown, on all five when it overtakes one. It
resets the indices and leaves the slots as they are; the history variable `forgotten` names the
threads it took out of the queue that way, until a push overwrites their slot or
`destroy_threads` frees them. `BoundedFifo` has the same variable, so that what a teardown hands
out is part of its promise.

### Mutex: state and actions

A context is a thread or a core's tick handler. `word` is the lock word, `monitor` each core's
exclusive monitor (the mutex it has reserved), `event` its event register, `pc` the next
instruction of a context, `want` its `r0`. `PLdrex`, `PWfe`, `PStrex` are
`_lock_mutex_persistent`, `BLdrex`, `BStrex`, `BClrex` are `_lock_mutex_best_effort`, `UStr`,
`USev` are `_unlock_mutex`. `Tick` interrupts the running thread wherever it is, the handler
takes the core's `thread_mutex` with best effort as `next_thread` does, and `NextThread` may
resume another thread of the core, so that an exclusive pair can be cut in two by another one. A `WFE`
is two places: `p_wfe`, about to execute it, and `p_sleep`, asleep in it. A tick brings a thread
that sleeps to the instruction behind its `WFE` and one that has not executed it yet back to the
`WFE`, with the event register as it is then: another thread of the core may have consumed the
event of an unlock in between. No event is assumed to be registered by the return from an
exception. What saves the waiter is that the handler which resumes it has just given back the
core's own `thread_mutex`, and the `SEV` of that unlock registers an event anew; without it
`NoLostWakeup` fails, which is its mutant.
The monitor is not cleared by an exception (the architecture does not do it), and a `STREX`
whose reservation is for another address may go either way: that is why the `CLREX` of the
failing path is needed, and the mutant that drops it breaks mutual exclusion. Memory is
sequentially consistent: the `DMB`s, and the missing `DSB` before `SEV`, are outside the model.

### Tlsf: state and actions

`mem` maps the address of each block's header to the header; `tlsf_array`, `fBitmap`,
`sBitmap` are the code's. `owned` is a history variable: the pointers callers hold, with the
size they asked for. Each call is one step, since the kernel makes it under
`g_allocator_mutex`; within it the order of the code is kept where it shows (`Carve` pushes the
remainder before it unlinks the block, since both may be in one class). `24` octaves and `32`
sub-bins are parameters, with the relations between them the code's constants have
(`TlsfAssumption`: a sub-bin of the linear zone has 4 bytes, there is an octave beyond the first
above that zone, so that a sub-bin of the last one holds a header, and the heap's size fits a
`uint32_t`'s shift), and `ALIGN8` wraps as `size_t` does. A swallowed header stops being a block
in the model; in memory it stays, which is why freeing a pointer into a swallowed block is not
refused by the code (a hazard in the list).

### Lifecycle: state and actions

Each core has two contexts, `main` and `irq`; the second runs to its end before the first goes
on. `pc` says where each is. `Boot0` and `Boot1` are the hand-shake of `cpu0_startup` and
`_cpu1_fork`; `CiLock`, `CiAlloc`, `CiPublish` are `psched_core_init`, run by `main` on CPU 0 and
by the handler on CPU 1, and `CdLock` is `psched_core_deinit`; `ClearSpin`, `SendRequest`,
`TestSpin`, `Restore` are what `psched_init` and `psched_deinit` do after their own core;
`SgiRequest`, `SendAck`, `SgiAck` are the cases of `c_irq_handler`. A tick takes the mutex and
schedules (`TickSchedules`, `Schedule`), tears down (`TickTearsDown`, `Teardown`), or is lost
(`TickIsLost`). `where`, `allocated` and `lost` follow the blocks of threads: which container
of which core points at a block, which blocks the allocator has given out, and which of those
nothing will come upon any more (`lost` is a history variable). A `psched_core_init` that overtakes
the teardown empties the heaps and the FIFOs; the threads whose pointers stay in slots of the
incoming and the outgoing FIFO are `forgotten`, another history variable: the next teardown
frees them with what is queued, unless a push has overwritten the slot (`Overwritten`), and then
they are lost. `Schedule` keeps of `next_up` only what it does to blocks, one at a time. Of the
`while (!g_spin_exit) wfi` the test (`TestSpin`), the `WFI` (`Wfi`) and the sleep are three
places: an acknowledgement between the test and the `WFI` does not end the sleep that follows,
which lasts until the next interrupt of that core. A mutex is taken in one step, as `Lock` allows.
`main` makes its calls in the order `main.c` makes them: the allocator benchmarks destroy and
make the heap, then each workload calls `psched_init`, adds threads and calls `psched_deinit`.
`ThreadLocks`/`ThreadUnlocks` is a thread of CPU 1 inside a call that holds its core's
`thread_mutex`.

## 3. The runs

| Run | Instance | Shows |
|---|---|---|
| `sched_edf` | 2 threads, periods 1 and 3, delay 1, 4 ticks | types; nothing before its release; the deadline heap in deadline order but for threads that overran; windows stay open; late jobs counted, each once; times go forward |
| `sched_containers` | 3 threads, periodic and round-robin, 2 ticks | no sharing, no loss, the tag names the heap or the FIFO, current thread live, contexts kept |
| `sched_rank` | 2 threads, periodic, aperiodic and all three priorities, two utilization values | strict classes, due threads released before a choice but for those behind a stale key, utilization is a sum, `next_up` ends (under fairness) |
| `min_heap` | 7 threads, 6 nodes, keys 0..2 modulo 8 | back pointers name their nodes also while nodes move; every call leaves the array ordered; implements `PriorityMap` |
| `thread_fifo` | 5 threads, 4 slots | the window of the ring is the queue, no other slot holds anything but a forgotten thread; implements `BoundedFifo` |
| `mutex` | 2 cores, 2 + 1 threads, 3 mutexes, 2 ticks | mutual exclusion; no wake-up lost; nobody waits for ever beside a free mutex; implements `Lock` |
| `tlsf` | 256-byte heap, 5 octaves of 4 sub-bins, 6 request sizes, 5 blocks held | blocks tile the heap and are coalesced; lists and bitmaps index the free blocks; requests are refused only for want of a block; owners keep their blocks; implements `Arena` |
| `lifecycle` | 2 cores, 5 blocks, 3 inits, 1 thread | the boot hand-shake; every call returns, with the cores as promised; terminations happen; a teardown frees its own and once, what an initialisation forgot included; nothing else leaks |

Why these bounds are enough to be interesting: two threads with periods 1 and 3 and a delay of
1 overrun, are re-armed in place and through the release heap, and are suspended in every
state; three threads are the least with which one can be reclaimed while another is current
and a third takes its block; one thread of each class suffices for priority, two of one class
for rotation. `MaxTick` is the only bound in a guard (`TickEntry`); runs stop there, and every
state at the bound still has API steps, so deadlock is checked as usual. Six nodes are the least
with which the last node, moved into the place of a removed one in the other subtree, has to
rise; seven threads fill the heap and are refused. `min_heap` takes states that differ only in
what no call reads as one (`VIEW`): stale nodes, the index of a thread without a node, the last
reply. Four slots and five threads let the ring wrap with every fill level and be refused.

`mutex`: two ticks (`MaxTicks`) let a thread be preempted between `LDREX` and `STREX`, another
of its core run its own pair, and the first be resumed; one thread of the other core contends
for the same mutex and tries the first core's `thread_mutex`. `Uses` and `Tries` say which
mutex a thread waits for or tries. The run does not check for deadlock: with the
ticks of the bound used up a core may spin behind a holder it has preempted itself.
`tlsf`: the sizes (`Requests`) are one refused, one of the linear zone, one exact class, one that
is rounded up, the whole heap, and one that wraps in `ALIGN8`. `FL_COUNT` 8 gives the two
octaves above the linear zone in which a split remainder can land in its block's own class;
`MaxHeld` bounds the blocks held, and five small ones leave free blocks on both sides of a taken
one, in one class and in two. `lifecycle`: `MaxInits` 3 is the boot and two workloads, so that
a `psched_init` can overtake the teardown of the one before; `MaxThreads` 1 puts a thread in every
container at that moment, and since a forgotten thread does not count, another can overwrite it,
with blocks (`MaxBlocks` 5) for both and for three main threads. That an initialisation finds no
memory takes a smaller heap: the instance with `MaxBlocks` 4 has it, without the overwriting, and
passes too; the theorems hold for both.

Runs that are expected to fail state what a comment, assertion or document says:

| Run | Statement | What the code does |
|---|---|---|
| `stale_dead_key` | the head of the deadline heap has the earliest deadline (`writeup.md:388`) | `balance_node` on a heap of one keeps the old key, which orders it once a second thread arrives |
| `self_suspend_unprimed` | the active `sp` is in its stack (`sched.c:747`) | `suspend_thread` pops a frame of a `PENDING` thread that never had one |
| `kill_incoming` | a finished aperiodic thread will not run again (`sched.c:639`) | admission overwrites the status `kill_thread` wrote |
| `deinit_deadlock` | no `cpsid` is needed around the core's mutex (`sched.c:408`) | CPU 1's handler of the deinit request waits for a mutex held by the thread it interrupted: `psched_deinit` never returns (the run sets `LateCalls`: threads of CPU 1 still make calls during `psched_deinit`; in `lifecycle`, as in this repository's workloads, none does) |

Also seen while modelling, and not kept as runs:

* `balance_node` of a heap of one keeps the old key in the release heap too (`sched.c:670`), and a
  thread that is due may wait behind a suspended one with a stale key: `writeup.md:386` says that
  releasable threads are always seen the first cycle they are. `StrictClasses` says that nothing
  else is ever overlooked (`Hidden`);
* a round-robin thread that has ended keeps its owner tag until it is reclaimed (`sched.c:257`), and
  is not `APERIODIC`, so `suspend_thread` accepts it, which `sched.c:639` means to refuse.
  `OwnerIsContainer` has it as an exception;
* a round-robin thread that is suspended stays in its FIFO and is chosen again at once
  (`sched.c:668`), and one preempted inside its window can use nearly two slices (`sched.c:236`);
* the plain `<` of `remove_node` and `balance_node` (`min_heap.c:158`, `175`) sends a node the
  wrong way when keys straddle the wrap of the tick counter: `HeapOrdered` holds for keys that
  do not, the instance of `min_heap`;
* the dirty mark of a miss survives a suspension that moves the deadline (`sched.c:652`), so a job
  that misses both deadlines is counted once: what `missed_deadlines` counts is late jobs, and
  that is what `LateJobsCountedOnce` states; re-arming after a suspension can leave a window
  shorter than the period (`sched.c:173`);
* a teardown leaks the threads in the round-robin FIFOs (`sched.c:797`). A `psched_init` that
  comes before the tick that tears down leaks the main thread and the threads in the heaps and
  the round-robin FIFOs (`433`); those in the incoming and outgoing FIFOs stay in the slots, and
  the next teardown frees them unless a push has overwritten the pointer (`thread_fifo.c:11`,
  `22`). `psched_init` ignores that `psched_core_init` had no memory (`sched.c:480`);
* an acknowledgement that comes between the test of `g_spin_exit` and the `wfi` does not end the
  sleep (`sched.c:488`, `509`): `psched_init` or `psched_deinit` then returns at the next tick of
  CPU 0, up to a period later.

Fairness. `sched_rank` assumes weak fairness of `NextUp`: `next_up` runs with the core's mutex
held, either in the tick handler or with interrupts off, so no other step of this core can
happen and the processor executes its next instruction. `mutex` assumes that each context
executes the instruction it is at when it can (weak fairness): nothing else, no tick and no unlock, has
to come. `lifecycle` assumes that a core goes on with its handler (weak) and with its `main`
context, which ticks interrupt for ever but leave time to (strong); that a software
interrupt that is pending again and again is delivered (strong); that the timers tick for ever
(weak), so that a missed wake-up is made good by the next tick, and not only at moments when a mutex
the teardown needs is taken (strong); and that the handlers of the ticks take only part of a
period, so that again and again neither core is in one. The container modules and `tlsf` assume no
fairness.

## 4. The proofs

`SchedTypes!TypeCorrect` proves `Spec => []TypeOK`. `SchedInvariant` proves that
`IInv == TypeOK /\ Place /\ Times /\ Current` is inductive, hence `NoSharing`, `NothingLost`,
`CurrentIsLive`, `NeverBeforeRelease`, `WindowOpen`
(as invariants) and `TimesMonotone` (as an action property), for every set of threads, every
period, delay and slice, and without the tick bound mattering. The only assumption is
`SchedAssumption`. Two properties need two more invariants on top of it: `OwnerIsContainer` needs
`Tags` (a tag that names a FIFO names the one the thread is in, but for the finished and the
killed), and `EdfUnlessOverrun` needs `Keys` (a key of the deadline heap is the deadline of its
thread or has passed: only a thread that overran is re-armed in place).

Why a strengthening is needed: `suspend_thread` picks its heap operation by the owner tag. If
the tag could name the wrong heap, a suspension would insert a thread into the release heap
while it stayed in the deadline heap, and then `NeverBeforeRelease` fails. So the times depend
on the tag, the tag on no thread being in two places, and that on every block of the pool
being in none; `Place` says all three over one relation `In`, `Times` adds that periods are
not 0 and that keys never exceed the field they copy, and `Current` that the thread chosen by
`next_up` stays where it was found until the switch, so that `Reclaim` cannot free it.

The argument is laid out bottom-up. FIFO lemmas (`PushFacts`, `PopFacts`, `MovedFacts`) say how
membership changes (`Gains`, `Loses`, `Moves`); heap lemmas do the same (`HeapGains`,
`HeapLoses`, `HeapKeeps`). One `...Effect` lemma per action extracts what the step does; one
`...Step` lemma per action proves `Place' /\ Times'`. `RearmTimes` proves the two re-arming
loops keep the release before the deadline. `IInvStep` puts them together.

`SchedSwitch` proves four more properties, each from an invariant of its own on top of `IInv`:

* `RunningHasFrame` is inductive with `IInv`: every way of losing the core saves a context, or
  leaves the thread not RUNNING.
* `LateJobsCountedOnce` is an action property. `Counted` says of a step what it says of the counter
  and the marks, and there is a lemma for the steps that mark nobody (`NobodyMarked`) and for the one
  that marks a thread; `LateMarked` says of a thread that `next_up` has chosen but not yet switched to
  that it is marked if it is late: nothing moves a deadline between the choice and the switch.
* `StrictClasses` needs `PhasesDone` (a phase of `next_up` that goes on to the next one leaves
  its container empty, and no later phase fills it again) and `ReleasesDone`: once the release
  loop has ended, a thread that is due and still in the release heap is `Hidden` behind a stale key,
  whatever the re-arming of the deadline heap inserts after it.
* `UtilizationIsSum` needs the blocks of the pool to carry no load (`LoadInv`): a kill takes the
  thread's share out and clears it, so the reclaim that follows takes out nothing. The sum is a fold
  of the community modules, a recursive function over sets that takes the elements in the order
  `CHOOSE` gives. `SolutionExists` shows that the recursion has a solution, `SolutionSums` that the
  order is immaterial, `SumsDiffer` that a change of one thread changes the sum by as much; each is
  an induction done by a least counterexample, a set that no smaller one precedes (`SmallestSet`).

`ThreadFifoProof` proves, for every number of slots and set of threads, `TypeOK`,
`SlotsAreQueue` and that every step of the ring is a step of `BoundedFifo`
(`ImplementsBoundedFifo`), from `RingInv == TypeOK /\ SlotsAreQueue /\ SlotsDistinct`: the
teardown frees what is queued or forgotten, each thread once, only if no slot outside the window
holds any other pointer and no thread is in two slots. `initialize_fifo` is a step of both
specifications whatever is in the queue. All remainders go through one lemma (`Remainder`: one subtraction at
most), and the two that matter follow from it: `SlotNext` (the slot after the i-th is the
(i+1)-th) and `PopShiftsWindow`. The only assumption is `FifoAssumption`.

`MutexProof` proves, for any cores, threads and mutexes and however many ticks, `TypeOK`,
`MutualExclusion` and `ImplementsLock` from
`IInv == TypeOK /\ WordIsHeld /\ MutualExclusion /\ Reservation /\ Unlocks`. Exclusion alone is
not inductive: a `STREX` that stores must find the mutex free, so a reservation that may still be
used has to be for the mutex wanted, and that mutex unlocked (`Reservation`); and since the handler
runs its own pair on the same monitor, no reservation may outlive it, which is what `CLREX` and the
clearing by every `STREX` give. `NoLostWakeup` has an invariant of its own, `WakeInv`: the
thread that is `running` and at or in its `WFE` with no event registered has a locked mutex before it or a `SEV` still to come, in and
out of ticks, except while the handler is at the store of its own unlock, behind which a `SEV` of
its own follows: the one place where `NextThread` may have resumed a thread whose event another has
consumed. A handler is never at a `WFE`, and one that has returned is at its beginning (`CoreOut`),
so no tick discards a `SEV` still to be sent.

`MinHeapProof` proves `TypeOK`, `IndexNamesNode`, `HeapOrdered` and that every step is a step of
`PriorityMap` (`ImplementsPriorityMap`), for any capacity, threads and keys, from
`HeapAssumption` and `KeysApart`. `HeapOrdered` speaks of settled states only; the invariant
(`Repairing`) says what holds while a node moves: every other node is in order with its parent,
and with its grandparent where the moving node stands between, so that one swap restores as much
as it disturbs, and a call whose node has nothing to do leaves the array ordered. That the root
has a least key, which the refinement of `pop_heap` needs, is induction along the parents; it is
done by the least counterexample (`LeastNumber`), since the provers cannot instantiate the
library's induction theorems.

`LifecycleProof` proves `CpuOneIsReady`, `AckMeansDone`, `TeardownFreesItsOwn` and
`NothingElseLeaks` for any number of blocks, inits and threads, and for threads that call at any
time (`LateCalls`). The invariant `IInv` is built in layers, each inductive relative to those
before it:

* `Places` (where each of the four contexts can be), `Data` and `Adding` are the types;
* `Locked`: a mutex is held exactly by the context inside its section, so a core's handler and its
  `main` context are never both in one;
* `Booted`: CPU 0 is past the mailbox only when CPU 1 has answered;
* `Handshake`: of one request there is one copy, pending, being served, being answered or
  answered, only while CPU 0 waits for it, and it asks for what CPU 0 is calling: this is what a
  late or second acknowledgement would break;
* `Answers` and `Rounds`: who was asked has done it, a tick that tears a core down follows a request
  to terminate, and a core is asked to terminate only when it is up (or had no memory);
* `MainThreads`, `Used` and `NothingElseLeaks`: every block that is given out has one user, a
  container, a slot it was forgotten in, the call that is adding it or a core whose main thread it
  is, and none only if it is lost.

`TeardownFreesItsOwn` needs nearly all of them: the main thread that a teardown frees is its core's
because the request to terminate was made of a core that was up, and because no `psched_core_init`
of that core can be between the allocation of its main thread and its flag, the mutex being held.

`TlsfProof` proves every property the run `tlsf` checks, for any number of octaves and sub-bins, any
sizes asked for and any number of blocks held, from `TlsfAssumption`: `TypeOK`, `BlocksTile`,
`Coalesced`, `ListsHoldTheFreeBlocks`, `BitmapsMatchTheLists`, `OwnersKeepTheirBlocks`, `GoodFit`
and `ImplementsArena`, and besides that the ranges held never overlap (`RangesApart`). The
inductive invariant `IInv` has five parts:

* `Headers`: the types;
* `Linked`: a head has no block before it, two linked blocks name each other, both are of one
  class, and a rank falls along the forward links. The rank is what the walk needs: without it a
  ring of blocks that no head reaches satisfies the rest. `Linked` takes the set of listed blocks
  and their classes as parameters, because kMalloc and kFree change marks and sizes before and
  after they change links;
* `Bitmaps`: both levels agree with the heads;
* `Tiles` and `Merged`: the blocks tile the heap and no two neighbours are free;
* `Owners`: the blocks that are not free are those with an owner, and are long enough.

The argument goes bottom-up. Powers of two come first (`Bits`), then the classes: `DownIs` (a size lies
in its class's interval), `Ordered` (the intervals follow each other), `UpIs` (rounding up gives
the first class whose lower bound reaches the size). `GetFreeIs` puts them together with the
bitmaps. `UnlinkIs` and `PushIs` are the two list operations, for any set of listed blocks;
`SplitMemIs` and `JoinMemIs` are what a split and a merge do to the tiling. kFree's two loops go
round at most once (`BackwardIs`, `ForwardIs`), since neighbours were merged before: the recursion
is shown to have the solution that stops after one round (`Settles`). `CarveIs` and `MergeIs` are
the two calls, `Outcomes` names the steps by what they do, and `IInvStep` and the refinement
(`StepIsAnArenaStep`) are read off it. `WalkEnds` shows that a walk of as many steps as there are
blocks has come to its end: a longer one would meet a block twice (`FS_PigeonHole`), against the
rank.

Only model-checked: liveness (`NextUpEnds`, `FreeMutexIsTaken`, `CallsReturn`,
`TerminationHappens`), since fairness and `ENABLED` are outside the prover, and the violations.
Every other property of a passing run is a theorem.

## 5. What is not modelled

Most of this repository's lines are not the kernel: `bsp/sequencer.c` (DRAM calibration, derived
from a vendor's boot loader), the FreeRTOS kernel used as a baseline, and the bench workloads are
some nine tenths of them. The model covers the kernel: `sched.c`, `tlsf.c`,
`min_heap.c`, `thread_fifo.c`, `mutex.s`, `lock.c`, `irq.c`, and the hand-shake of `kernel.s`,
`bsp.c`. Left out:

* DRAM, PLL and pin bring-up, MMU and caches, performance counters: register writes and
  calibration against analogue hardware, with no state the kernel reads;
* the SD loader: one sequential polling loop against a device;
* `least_loaded_core`: the models take any core in place of its choice;
* the register pushes and pops of `kernel.s`: a stack is one marker in `Sched`;
* full containers in `Sched` (`MinHeap` and `ThreadFifo` have them), and 32-bit times: `Sched` has
  naturals, and `MinHeap`, which compares modulo `2 * HALF` where the code does, takes its keys less
  than `HALF` apart (`KeysApart`), so times on both sides of a wrap of the tick counter are in no
  module;
* weak memory: every module is sequentially consistent;
* `lock_mutex_timeout`, which is a best-effort lock followed by `suspend_thread`;
* the `deque` (not compiled), the FreeRTOS baseline, the host tools, and the workloads, which are
  the callers of the kernel: the calls they make are the inputs of `Sched` and `Lifecycle`.

What would come next: a two-core `Sched` over `Lock` (a `suspend_thread` of a thread that runs on
another core, ticks refused because a preempted thread holds the mutex), and full
containers in `Sched`.
