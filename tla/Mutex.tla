------------------------------- MODULE Mutex --------------------------------
(***************************************************************************)
(* The mutexes of the kernel (kernel/mutex.s, kernel/lock.c), one machine  *)
(* instruction a step: LDREX and STREX with each core's exclusive monitor, *)
(* WFE and SEV with each core's event register, and the tick that          *)
(* interrupts a thread between any two instructions, takes its core's      *)
(* thread_mutex with the best-effort lock and may resume another thread.   *)
(*                                                                         *)
(* A core's tick handler is a context of its own and is named by the core. *)
(* Memory is sequentially consistent here: the DMBs of the code, which     *)
(* order the critical section against the lock word, are not modelled.     *)
(***************************************************************************)
EXTENDS Integers, FiniteSets

CONSTANTS Cores, Threads, Mutexes,
          CoreOf,        \* thread -> the core it runs on
          ThreadMutex,   \* core -> g_cpus[core].thread_mutex
          Uses,          \* thread -> the mutexes its code waits for
          Tries,         \* thread -> the mutexes it takes with best effort
          Open,          \* no reservation in the exclusive monitor
          MaxTicks       \* bound: the ticks of a behaviour

Contexts == Threads \cup Cores
On(x) == IF x \in Cores THEN x ELSE CoreOf[x]

ASSUME MutexAssumption ==
    /\ Threads \cap Cores = {}
    /\ Open \notin Mutexes
    /\ CoreOf \in [Threads -> Cores]
    /\ ThreadMutex \in [Cores -> Mutexes]
    /\ Uses \in [Threads -> SUBSET Mutexes]
    /\ Tries \in [Threads -> SUBSET Mutexes]
    /\ MaxTicks \in Nat

locked == 1
unlocked == 0

VARIABLES
    word,     \* mutex -> the word in memory
    monitor,  \* core -> the mutex its monitor has reserved, or Open
    event,    \* core -> its event register
    running,  \* core -> the thread the core runs or has interrupted
    inTick,   \* the cores that are in the tick handler
    pc,       \* context -> its next instruction
    want,     \* context -> the mutex in r0
    held,     \* context -> the mutexes it was told it has
    ticks

vars == <<word, monitor, event, running, inTick, pc, want, held, ticks>>

Pcs == {"idle",                              \* outside the lock's code
        "p_ldrex", "p_wfe", "p_sleep", "p_strex",       \* _lock_mutex_persistent
        "b_ldrex", "b_strex", "b_clrex",     \* _lock_mutex_best_effort
        "body",                              \* next_thread, with the lock
        "u_str", "u_sev"}                    \* _unlock_mutex

Active(c) == IF c \in inTick THEN c ELSE running[c]
Runs(x) == Active(On(x)) = x

Goto(x, l) == pc' = [pc EXCEPT ![x] = l]

At(x, l) == Runs(x) /\ pc[x] = l

-----------------------------------------------------------------------------
(* The machine.                                                            *)

Load(x) == monitor' = [monitor EXCEPT ![On(x)] = want[x]]

(* A store reaches the monitors of the other cores.                        *)
Stored(c, m, v) ==
    /\ word' = [word EXCEPT ![m] = v]
    /\ monitor' = [d \in Cores |-> IF d = c \/ monitor[d] = m THEN Open ELSE monitor[d]]

(* Whether a STREX stores when the reservation is for another address is   *)
(* left to the implementation.                                             *)
StoresAnyway(x) == TRUE      \* mutant of MayStore: a plain STR
MayStore(x) == monitor[On(x)] # Open
MayFail(x) == monitor[On(x)] # want[x]

(* STREX: either outcome ends the reservation.                             *)
Store(x) == /\ MayStore(x)
            /\ Stored(On(x), want[x], locked)
            /\ held' = [held EXCEPT ![x] = @ \cup {want[x]}]

Refuse(x) == /\ MayFail(x)
             /\ monitor' = [monitor EXCEPT ![On(x)] = Open]
             /\ UNCHANGED <<word, held>>

-----------------------------------------------------------------------------
(* _lock_mutex_persistent                                                  *)

LockPersistent(t, m) ==
    /\ At(t, "idle") /\ m \in Uses[t] \ held[t]
    /\ want' = [want EXCEPT ![t] = m]
    /\ Goto(t, "p_ldrex")
    /\ UNCHANGED <<word, monitor, event, running, inTick, held, ticks>>

PLdrex(x) ==
    /\ At(x, "p_ldrex")
    /\ Load(x)
    /\ Goto(x, IF word[want[x]] = locked THEN "p_wfe" ELSE "p_strex")
    /\ UNCHANGED <<word, event, running, inTick, want, held, ticks>>

(* A WFE that finds an event registered consumes it and goes on; another   *)
(* one sleeps.                                                             *)
Consumes(x) ==
    /\ event[On(x)]
    /\ event' = [event EXCEPT ![On(x)] = FALSE]
    /\ Goto(x, "p_ldrex")

PWfe(x) ==
    /\ At(x, "p_wfe")
    /\ \/ Consumes(x)
       \/ ~event[On(x)] /\ Goto(x, "p_sleep") /\ UNCHANGED event
    /\ UNCHANGED <<word, monitor, running, inTick, want, held, ticks>>

PWake(x) ==
    /\ At(x, "p_sleep") /\ Consumes(x)
    /\ UNCHANGED <<word, monitor, running, inTick, want, held, ticks>>

(* Mutant of PStrex: a STREX that failed goes back to the WFE.              *)
PStrexThenWfe(x) ==
    /\ At(x, "p_strex")
    /\ \/ Store(x) /\ Goto(x, "idle")
       \/ Refuse(x) /\ Goto(x, "p_wfe")
    /\ UNCHANGED <<event, running, inTick, want, ticks>>

PStrex(x) ==
    /\ At(x, "p_strex")
    /\ \/ Store(x) /\ Goto(x, "idle")
       \/ Refuse(x) /\ Goto(x, "p_ldrex")
    /\ UNCHANGED <<event, running, inTick, want, ticks>>

-----------------------------------------------------------------------------
(* _lock_mutex_best_effort.  The tick handler goes on with the body of     *)
(* next_thread when it has the lock and returns when it has not.           *)

LockBestEffort(t, m) ==
    /\ At(t, "idle") /\ m \in Tries[t] \ held[t]
    /\ want' = [want EXCEPT ![t] = m]
    /\ Goto(t, "b_ldrex")
    /\ UNCHANGED <<word, monitor, event, running, inTick, held, ticks>>

BLdrex(x) ==
    /\ At(x, "b_ldrex")
    /\ Load(x)
    /\ Goto(x, IF word[want[x]] = locked THEN "b_clrex" ELSE "b_strex")
    /\ UNCHANGED <<word, event, running, inTick, want, held, ticks>>

(* Return with LOCK_FAIL.                                                  *)
Fails(x) == /\ Goto(x, "idle")
            /\ inTick' = inTick \ {x}

BStrex(x) ==
    /\ At(x, "b_strex")
    /\ \/ /\ Store(x)
          /\ Goto(x, IF x \in Cores THEN "body" ELSE "idle")
          /\ UNCHANGED inTick
       \/ Refuse(x) /\ Fails(x)
    /\ UNCHANGED <<event, running, want, ticks>>

(* Mutant of BClrex: LOCK_FAIL without the CLREX.                           *)
NoClrex(x) ==
    /\ At(x, "b_clrex")
    /\ Fails(x)
    /\ UNCHANGED <<word, monitor, event, running, want, held, ticks>>

BClrex(x) ==
    /\ At(x, "b_clrex")
    /\ monitor' = [monitor EXCEPT ![On(x)] = Open]
    /\ Fails(x)
    /\ UNCHANGED <<word, event, running, want, held, ticks>>

-----------------------------------------------------------------------------
(* _unlock_mutex                                                           *)

Unlock(t, m) ==
    /\ At(t, "idle") /\ m \in held[t]
    /\ want' = [want EXCEPT ![t] = m]
    /\ Goto(t, "u_str")
    /\ UNCHANGED <<word, monitor, event, running, inTick, held, ticks>>

UStr(x) ==
    /\ At(x, "u_str")
    /\ Stored(On(x), want[x], unlocked)
    /\ held' = [held EXCEPT ![x] = @ \ {want[x]}]
    /\ Goto(x, "u_sev")
    /\ UNCHANGED <<event, running, inTick, want, ticks>>

(* Mutant of USev: the tick handler gives its mutex back without a SEV.     *)
NoSevFromTick(x) ==
    /\ At(x, "u_sev")
    /\ event' = IF x \in Cores THEN event ELSE [c \in Cores |-> TRUE]
    /\ Goto(x, "idle")
    /\ inTick' = inTick \ {x}
    /\ UNCHANGED <<word, monitor, running, want, held, ticks>>

(* SEV reaches every core; the tick handler then returns.                  *)
USev(x) ==
    /\ At(x, "u_sev")
    /\ event' = [c \in Cores |-> TRUE]
    /\ Goto(x, "idle")
    /\ inTick' = inTick \ {x}
    /\ UNCHANGED <<word, monitor, running, want, held, ticks>>

-----------------------------------------------------------------------------
(* The tick.  An interrupt ends a WFE that sleeps: the thread comes back to*)
(* the instruction behind it.  A thread that has not executed its WFE yet  *)
(* comes back to the WFE: no event is assumed to be registered by the      *)
(* return from an exception, only by the SEV of an unlock.                 *)

Tick(c) ==
    /\ c \notin inTick /\ ticks < MaxTicks
    /\ ticks' = ticks + 1
    /\ inTick' = inTick \cup {c}
    /\ want' = [want EXCEPT ![c] = ThreadMutex[c]]
    /\ pc' = [pc EXCEPT ![c] = "b_ldrex",
                        ![running[c]] = IF @ = "p_sleep" THEN "p_ldrex" ELSE @]
    /\ UNCHANGED <<word, monitor, event, running, held>>

(* Mutant of NextThread: a thread of any core is resumed.                   *)
NextThreadOfAnyCore(c) ==
    /\ At(c, "body")
    /\ \E t \in Threads : running' = [running EXCEPT ![c] = t]
    /\ Goto(c, "u_str")
    /\ UNCHANGED <<word, monitor, event, inTick, want, held, ticks>>

NextThread(c) ==
    /\ At(c, "body")
    /\ \E t \in Threads : CoreOf[t] = c /\ running' = [running EXCEPT ![c] = t]
    /\ Goto(c, "u_str")
    /\ UNCHANGED <<word, monitor, event, inTick, want, held, ticks>>

Init ==
    /\ word = [m \in Mutexes |-> unlocked]
    /\ monitor = [c \in Cores |-> Open]
    /\ event = [c \in Cores |-> FALSE]
    /\ running \in [Cores -> Threads]
    /\ \A c \in Cores : CoreOf[running[c]] = c
    /\ inTick = {}
    /\ pc = [x \in Contexts |-> "idle"]
    /\ want = [x \in Contexts |-> ThreadMutex[On(x)]]
    /\ held = [x \in Contexts |-> {}]
    /\ ticks = 0

Instruction(x) == \/ PLdrex(x) \/ PWfe(x) \/ PWake(x) \/ PStrex(x)
                  \/ BLdrex(x) \/ BStrex(x) \/ BClrex(x)
                  \/ UStr(x) \/ USev(x)

Next == \/ \E x \in Contexts : Instruction(x)
        \/ \E t \in Threads : \/ \E m \in Mutexes : LockPersistent(t, m) \/ LockBestEffort(t, m)
                              \/ \E m \in held[t] : Unlock(t, m)
        \/ \E c \in Cores : Tick(c) \/ NextThread(c)

(* A core executes the instruction it is at.  No thread need ever give a   *)
(* mutex back, and nothing makes a tick come.                              *)
Fairness == /\ \A x \in Contexts : WF_vars(Instruction(x))
            /\ \A c \in Cores : WF_vars(NextThread(c))

Spec == Init /\ [][Next]_vars /\ Fairness

-----------------------------------------------------------------------------
TypeOK ==
    /\ word \in [Mutexes -> {locked, unlocked}]
    /\ monitor \in [Cores -> Mutexes \cup {Open}]
    /\ event \in [Cores -> BOOLEAN]
    /\ running \in [Cores -> Threads]
    /\ \A c \in Cores : CoreOf[running[c]] = c
    /\ inTick \subseteq Cores
    /\ pc \in [Contexts -> Pcs]
    /\ want \in [Contexts -> Mutexes]
    /\ held \in [Contexts -> SUBSET Mutexes]
    /\ ticks \in 0 .. MaxTicks

(* No two contexts have a mutex at once, although a tick may fall between  *)
(* the LDREX and the STREX of a thread, run its own exclusive pair on      *)
(* another mutex and resume another thread.                                *)
MutualExclusion ==
    \A x, y \in Contexts : x # y => held[x] \cap held[y] = {}

(* A context that its core executes at or in a WFE, with no event          *)
(* registered, waits for a mutex that is locked, or whose unlocking has    *)
(* still to send its event.  No wake-up falls between the LDREX that saw   *)
(* the mutex locked and the WFE, not even when a tick comes between the    *)
(* CMP and the WFE and another thread of the core takes the event: the     *)
(* handler that resumes the first one has given its own thread_mutex back, *)
(* and the SEV of that registers an event anew.                            *)
Asleep(x) == Runs(x) /\ pc[x] \in {"p_wfe", "p_sleep"} /\ ~event[On(x)]
NoLostWakeup ==
    \A x \in Contexts : Asleep(x) =>
        \/ word[want[x]] = locked
        \/ \E y \in Contexts : pc[y] = "u_sev"

(* No context waits on its core for ever beside a mutex that is free, even *)
(* if no tick ever comes again.                                            *)
Waits(x) == Runs(x) /\ pc[x] \in {"p_ldrex", "p_wfe", "p_sleep", "p_strex"}
FreeMutexIsTaken ==
    \A t \in Threads : ~ <>[](Waits(t) /\ word[want[t]] = unlocked)

(* The inductive invariant of the proof: the word of a mutex says whether  *)
(* somebody has it; a reservation that a STREX may still use was made for  *)
(* its own mutex, which is still free; and outside an exclusive pair there *)
(* is no reservation, so that none outlives a change of thread.            *)
WordIsHeld == \A m \in Mutexes : word[m] = locked <=> \E x \in Contexts : m \in held[x]

Reservation ==
    \A c \in Cores :
        /\ pc[Active(c)] \in {"p_strex", "b_strex"} /\ monitor[c] # Open =>
              monitor[c] = want[Active(c)] /\ word[want[Active(c)]] = unlocked
        /\ pc[Active(c)] \in {"idle", "body", "u_str", "u_sev"} => monitor[c] = Open

Unlocks == \A x \in Contexts : pc[x] \in {"body", "u_str"} => want[x] \in held[x]

IInv == TypeOK /\ WordIsHeld /\ MutualExclusion /\ Reservation /\ Unlocks

(* The mutexes are locks: Sched and Lifecycle use them as such.            *)
Promise == INSTANCE Lock WITH
    Owners <- Contexts,
    holds <- {h \in Contexts \X Mutexes : h[2] \in held[h[1]]}

ImplementsLock == Promise!Spec
=============================================================================
