----------------------------- MODULE MutexProof -----------------------------
(***************************************************************************)
(* Mutual exclusion of the kernel's mutexes, and that they are locks, for  *)
(* any cores, threads and mutexes.                                         *)
(***************************************************************************)
EXTENDS Mutex, TLAPS

(* The context a core executes is a context of that core.                  *)
LEMMA ActiveIsOn ==
    ASSUME TypeOK, NEW c \in Cores
    PROVE  Active(c) \in Contexts /\ On(Active(c)) = c
  BY MutexAssumption DEF TypeOK, Active, On, Contexts

LEMMA OnIsCore == ASSUME NEW x \in Contexts PROVE On(x) \in Cores
  BY MutexAssumption DEF On, Contexts

LEMMA InitTypeOK == Init => TypeOK
  <1> SUFFICES ASSUME Init PROVE TypeOK OBVIOUS
  <1>1. \A x \in Contexts : On(x) \in Cores BY OnIsCore
  <1> QED BY <1>1, MutexAssumption DEF Init, TypeOK, Pcs, Contexts, locked, unlocked

(* The types are preserved by every step.                                  *)
LEMMA NextTypeOK == TypeOK /\ [Next]_vars => TypeOK'
  <1> SUFFICES ASSUME TypeOK, [Next]_vars PROVE TypeOK' OBVIOUS
  <1> USE MutexAssumption DEF TypeOK, Pcs, locked, unlocked, Goto
  <1>0. \A x \in Contexts : On(x) \in Cores BY OnIsCore
  <1>1. ASSUME NEW x \in Contexts, PLdrex(x) PROVE TypeOK'
    BY <1>0, <1>1 DEF PLdrex, Load
  <1>2. ASSUME NEW x \in Contexts, PWfe(x) \/ PWake(x) PROVE TypeOK'
    BY <1>0, <1>2 DEF PWfe, PWake, Consumes
  <1>3. ASSUME NEW x \in Contexts, PStrex(x) PROVE TypeOK'
    BY <1>0, <1>3 DEF PStrex, Store, Stored, Refuse
  <1>4. ASSUME NEW x \in Contexts, BLdrex(x) PROVE TypeOK'
    BY <1>0, <1>4 DEF BLdrex, Load
  <1>5. ASSUME NEW x \in Contexts, BStrex(x) PROVE TypeOK'
    BY <1>0, <1>5 DEF BStrex, Store, Stored, Refuse, Fails
  <1>6. ASSUME NEW x \in Contexts, BClrex(x) PROVE TypeOK'
    BY <1>0, <1>6 DEF BClrex, Fails
  <1>7. ASSUME NEW x \in Contexts, UStr(x) PROVE TypeOK'
    BY <1>0, <1>7 DEF UStr, Stored
  <1>8. ASSUME NEW x \in Contexts, USev(x) PROVE TypeOK'
    BY <1>0, <1>8 DEF USev
  <1>9. ASSUME NEW t \in Threads, NEW m \in Mutexes, LockPersistent(t, m) PROVE TypeOK'
    BY <1>9 DEF LockPersistent, Contexts
  <1>10. ASSUME NEW t \in Threads, NEW m \in Mutexes, LockBestEffort(t, m) PROVE TypeOK'
    BY <1>10 DEF LockBestEffort, Contexts
  <1>11. ASSUME NEW t \in Threads, NEW m \in held[t], Unlock(t, m) PROVE TypeOK'
    BY <1>11 DEF Unlock, Contexts
  <1>12. ASSUME NEW c \in Cores, Tick(c) PROVE TypeOK'
    BY <1>12 DEF Tick, Contexts
  <1>13. ASSUME NEW c \in Cores, NextThread(c) PROVE TypeOK'
    <2>1. /\ running' \in [Cores -> Threads]
          /\ \A d \in Cores : CoreOf[running'[d]] = d
      BY <1>13 DEF NextThread
    <2> QED BY <1>13, <2>1 DEF NextThread, Contexts
  <1>14. ASSUME UNCHANGED vars PROVE TypeOK'
    BY <1>14 DEF vars
  <1> QED BY <1>1, <1>2, <1>3, <1>4, <1>5, <1>6, <1>7, <1>8, <1>9, <1>10,
             <1>11, <1>12, <1>13, <1>14 DEF Next, Instruction
-----------------------------------------------------------------------------
(* Who has what.  Only a STREX that finds its own reservation intact, on a *)
(* mutex that is still free, gives a mutex away.                           *)

LEMMA StoreIsSafe ==
    ASSUME IInv, NEW x \in Contexts, Runs(x), pc[x] \in {"p_strex", "b_strex"}, MayStore(x)
    PROVE  word[want[x]] = unlocked /\ \A y \in Contexts : want[x] \notin held[y]
  <1>1. On(x) \in Cores BY OnIsCore
  <1>2. word[want[x]] = unlocked
    BY <1>1 DEF IInv, Reservation, Runs, MayStore
  <1> QED BY <1>2 DEF IInv, TypeOK, WordIsHeld, locked, unlocked

LEMMA NextWordIsHeld == IInv /\ [Next]_vars => WordIsHeld'
  <1> SUFFICES ASSUME IInv, [Next]_vars PROVE WordIsHeld' OBVIOUS
  <1> USE MutexAssumption DEF IInv, TypeOK, WordIsHeld, At, locked, unlocked
  <1>0. \A x \in Contexts : On(x) \in Cores BY OnIsCore
  <1>1. ASSUME NEW x \in Contexts, PStrex(x) \/ BStrex(x) PROVE WordIsHeld'
    <2>1. CASE Store(x)
      <3>1. word[want[x]] = unlocked /\ \A y \in Contexts : want[x] \notin held[y]
        BY <1>1, <2>1, StoreIsSafe DEF PStrex, BStrex, Store
      <3> QED BY <2>1, <3>1 DEF Store, Stored
    <2>2. CASE Refuse(x)
      BY <2>2 DEF Refuse
    <2> QED BY <1>1, <2>1, <2>2 DEF PStrex, BStrex
  <1>2. ASSUME NEW x \in Contexts, UStr(x) PROVE WordIsHeld'
    <2>1. want[x] \in held[x] /\ \A y \in Contexts : y # x => want[x] \notin held[y]
      BY <1>2 DEF UStr, Unlocks, MutualExclusion
    <2> QED BY <1>2, <2>1 DEF UStr, Stored
  <1>3. CASE UNCHANGED <<word, held>>
    BY <1>3
  <1> QED BY <1>1, <1>2, <1>3 DEF Next, Instruction, PLdrex, PWfe, PWake, Consumes, BLdrex, BClrex, USev,
            LockPersistent, LockBestEffort, Unlock, Tick, NextThread, vars

LEMMA NextMutualExclusion == IInv /\ [Next]_vars => MutualExclusion'
  <1> SUFFICES ASSUME IInv, [Next]_vars PROVE MutualExclusion' OBVIOUS
  <1> USE DEF IInv, TypeOK, MutualExclusion, At
  <1>1. ASSUME NEW x \in Contexts, PStrex(x) \/ BStrex(x) PROVE MutualExclusion'
    <2>1. CASE Store(x)
      <3>1. \A y \in Contexts : want[x] \notin held[y]
        BY <1>1, <2>1, StoreIsSafe DEF PStrex, BStrex, Store
      <3> QED BY <2>1, <3>1 DEF Store
    <2>2. CASE Refuse(x)
      BY <2>2 DEF Refuse
    <2> QED BY <1>1, <2>1, <2>2 DEF PStrex, BStrex
  <1>2. ASSUME NEW x \in Contexts, UStr(x) PROVE MutualExclusion'
    BY <1>2 DEF UStr
  <1>3. CASE UNCHANGED held
    BY <1>3
  <1> QED BY <1>1, <1>2, <1>3 DEF Next, Instruction, PLdrex, PWfe, PWake, Consumes, BLdrex, BClrex, USev,
            LockPersistent, LockBestEffort, Unlock, Tick, NextThread, vars

LEMMA NextUnlocks == IInv /\ [Next]_vars => Unlocks'
  <1> SUFFICES ASSUME IInv, [Next]_vars PROVE Unlocks' OBVIOUS
  <1> USE MutexAssumption DEF IInv, TypeOK, Unlocks, At, Goto
  <1>1. ASSUME NEW x \in Contexts, PStrex(x) \/ BStrex(x) PROVE Unlocks'
    BY <1>1 DEF PStrex, BStrex, Store, Refuse, Fails
  <1>2. ASSUME NEW x \in Contexts, UStr(x) PROVE Unlocks'
    <2>1. ASSUME NEW y \in Contexts, pc'[y] \in {"body", "u_str"} PROVE y # x
      BY <1>2, <2>1 DEF UStr
    <2> QED BY <1>2, <2>1 DEF UStr
  <1>3. ASSUME NEW x \in Contexts, PLdrex(x) \/ PWfe(x) \/ PWake(x) \/ BLdrex(x) \/ BClrex(x) \/ USev(x)
        PROVE  Unlocks'
    BY <1>3 DEF PLdrex, PWfe, PWake, Consumes, BLdrex, BClrex, USev, Fails
  <1>4. ASSUME NEW t \in Threads, NEW m \in Mutexes, LockPersistent(t, m) \/ LockBestEffort(t, m)
        PROVE  Unlocks'
    BY <1>4 DEF LockPersistent, LockBestEffort, Contexts
  <1>5. ASSUME NEW t \in Threads, NEW m \in held[t], Unlock(t, m) PROVE Unlocks'
    BY <1>5 DEF Unlock, Contexts
  <1>6. ASSUME NEW c \in Cores, Tick(c) PROVE Unlocks'
    <2>1. ASSUME NEW y \in Contexts, pc'[y] \in {"body", "u_str"} PROVE y # c /\ pc'[y] = pc[y]
      BY <1>6, <2>1 DEF Tick, Contexts
    <2> QED BY <1>6, <2>1 DEF Tick
  <1>7. ASSUME NEW c \in Cores, NextThread(c) PROVE Unlocks'
    BY <1>7 DEF NextThread, Contexts
  <1>8. CASE UNCHANGED vars
    BY <1>8 DEF vars
  <1> QED BY <1>1, <1>2, <1>3, <1>4, <1>5, <1>6, <1>7, <1>8 DEF Next, Instruction

-----------------------------------------------------------------------------
(* The reservations.  An instruction of a core changes no other core's     *)
(* context, and a store takes the other cores' reservations of its mutex   *)
(* away.                                                                   *)

Reserves(c) ==
    /\ pc[Active(c)] \in {"p_strex", "b_strex"} /\ monitor[c] # Open =>
          monitor[c] = want[Active(c)] /\ word[want[Active(c)]] = unlocked
    /\ pc[Active(c)] \in {"idle", "body", "u_str", "u_sev"} => monitor[c] = Open

LEMMA ReservesAll == Reservation <=> \A c \in Cores : Reserves(c)
  BY DEF Reservation, Reserves

(* A step that leaves a core's context, monitor and mutex alone.           *)
LEMMA Untouched ==
    ASSUME TypeOK, NEW c \in Cores, Reserves(c),
           Active(c)' = Active(c), pc'[Active(c)] = pc[Active(c)],
           want'[Active(c)] = want[Active(c)],
           \/ monitor'[c] = monitor[c] /\ word'[want[Active(c)]] = word[want[Active(c)]]
           \/ monitor'[c] = Open
    PROVE  Reserves(c)'
  BY DEF Reserves

LEMMA NextReservation == IInv /\ [Next]_vars => Reservation'
  <1> SUFFICES ASSUME IInv, [Next]_vars, NEW d \in Cores PROVE Reserves(d)'
    BY DEF Reservation, Reserves
  <1> USE MutexAssumption DEF IInv, TypeOK, At, Goto
  <1>0. /\ TypeOK /\ TypeOK' /\ Reserves(d)
    BY NextTypeOK, ReservesAll
  <1>a. /\ Active(d) \in Contexts /\ On(Active(d)) = d
        /\ Active(d)' \in Contexts /\ On(Active(d)') = d
    BY <1>0, ActiveIsOn DEF TypeOK, Active, On, Contexts
  <1>b. \A x \in Contexts : On(x) \in Cores /\ (Runs(x) /\ On(x) = d => x = Active(d))
    BY OnIsCore DEF Runs
  <1>1. ASSUME NEW x \in Contexts, PLdrex(x) \/ BLdrex(x) PROVE Reserves(d)'
    <2>0. Active(d)' = Active(d) BY <1>1 DEF PLdrex, BLdrex, Active
    <2>1. CASE On(x) = d
      <3>1. x = Active(d) BY <1>1, <1>b, <2>1 DEF PLdrex, BLdrex
      <3> QED BY <1>1, <2>0, <2>1, <3>1, <1>a DEF PLdrex, BLdrex, Load, Reserves, locked, unlocked
    <2>2. CASE On(x) # d
      <3>1. x # Active(d) BY <1>a, <2>2
      <3> QED BY <1>0, <1>1, <1>a, <2>0, <2>2, <3>1, Untouched DEF PLdrex, BLdrex, Load
    <2> QED BY <2>1, <2>2
  <1>2. ASSUME NEW x \in Contexts, PWfe(x) \/ PWake(x) PROVE Reserves(d)'
    <2>0. Active(d)' = Active(d) BY <1>2 DEF PWfe, PWake, Active
    <2>1. CASE x = Active(d)
      BY <1>2, <2>0, <2>1, <1>a DEF PWfe, PWake, Consumes, Reserves
    <2>2. CASE x # Active(d)
      BY <1>0, <1>2, <1>a, <2>0, <2>2, Untouched DEF PWfe, PWake, Consumes
    <2> QED BY <2>1, <2>2
  <1>3. ASSUME NEW x \in Contexts, PStrex(x) \/ BStrex(x) PROVE Reserves(d)'
    <2>0. pc[x] \in {"p_strex", "b_strex"} /\ Runs(x) BY <1>3 DEF PStrex, BStrex
    <2>1. CASE On(x) = d
      <3>1. monitor'[d] = Open
        BY <1>3, <1>b, <2>1 DEF PStrex, BStrex, Store, Refuse, Stored
      <3> QED BY <3>1 DEF Reserves
    <2>2. CASE On(x) # d
      <3>1. x # Active(d) BY <1>a, <2>2
      <3>2. Active(d)' = Active(d)
        BY <1>3, <2>2 DEF PStrex, BStrex, Fails, Active, On, Contexts
      <3>3. pc'[Active(d)] = pc[Active(d)] /\ want'[Active(d)] = want[Active(d)]
        BY <1>3, <1>a, <3>1 DEF PStrex, BStrex, Fails
      <3>4. \/ monitor'[d] = monitor[d] /\ word'[want[Active(d)]] = word[want[Active(d)]]
            \/ monitor'[d] = Open
            \/ pc[Active(d)] \notin {"p_strex", "b_strex"} /\ monitor'[d] = monitor[d]
        BY <1>3, <1>a, <2>2, <1>0 DEF PStrex, BStrex, Store, Refuse, Stored, Reserves
      <3> QED BY <1>0, <3>2, <3>3, <3>4 DEF Reserves
    <2> QED BY <2>1, <2>2
  <1>4. ASSUME NEW x \in Contexts, BClrex(x) PROVE Reserves(d)'
    <2>1. CASE On(x) = d
      BY <1>4, <1>b, <2>1 DEF BClrex, Reserves
    <2>2. CASE On(x) # d
      <3>1. x # Active(d) BY <1>a, <2>2
      <3>2. Active(d)' = Active(d)
        BY <1>4, <2>2 DEF BClrex, Fails, Active, On, Contexts
      <3> QED BY <1>0, <1>4, <1>a, <2>2, <3>1, <3>2, Untouched DEF BClrex, Fails
    <2> QED BY <2>1, <2>2
  <1>5. ASSUME NEW x \in Contexts, UStr(x) PROVE Reserves(d)'
    <2>0. Active(d)' = Active(d) BY <1>5 DEF UStr, Active
    <2>1. CASE On(x) = d
      <3>1. monitor'[d] = Open BY <1>5, <1>b, <2>1 DEF UStr, Stored
      <3> QED BY <3>1 DEF Reserves
    <2>2. CASE On(x) # d
      <3>1. x # Active(d) BY <1>a, <2>2
      <3>2. pc'[Active(d)] = pc[Active(d)] /\ want'[Active(d)] = want[Active(d)]
        BY <1>5, <1>a, <3>1 DEF UStr
      <3>3. \/ monitor'[d] = monitor[d] /\ word'[want[Active(d)]] = word[want[Active(d)]]
            \/ monitor'[d] = Open
            \/ pc[Active(d)] \notin {"p_strex", "b_strex"} /\ monitor'[d] = monitor[d]
        BY <1>5, <1>a, <2>2, <1>0 DEF UStr, Stored, Reserves
      <3> QED BY <1>0, <2>0, <3>2, <3>3 DEF Reserves
    <2> QED BY <2>1, <2>2
  <1>6. ASSUME NEW x \in Contexts, USev(x) PROVE Reserves(d)'
    <2>1. CASE On(x) = d
      <3>1. monitor'[d] = Open
        BY <1>6, <1>0, <1>b, <2>1 DEF USev, Reserves
      <3> QED BY <3>1 DEF Reserves
    <2>2. CASE On(x) # d
      <3>1. x # Active(d) BY <1>a, <2>2
      <3>2. Active(d)' = Active(d)
        BY <1>6, <2>2 DEF USev, Active, On, Contexts
      <3> QED BY <1>0, <1>6, <1>a, <3>1, <3>2, Untouched DEF USev
    <2> QED BY <2>1, <2>2
  <1>7. ASSUME NEW t \in Threads, NEW m \in Mutexes,
               LockPersistent(t, m) \/ LockBestEffort(t, m) PROVE Reserves(d)'
    <2>0. Active(d)' = Active(d) BY <1>7 DEF LockPersistent, LockBestEffort, Active
    <2>1. CASE t = Active(d)
      BY <1>7, <2>0, <2>1, <1>a DEF LockPersistent, LockBestEffort, Reserves
    <2>2. CASE t # Active(d)
      BY <1>0, <1>7, <1>a, <2>0, <2>2, Untouched DEF LockPersistent, LockBestEffort
    <2> QED BY <2>1, <2>2
  <1>8. ASSUME NEW t \in Threads, NEW m \in held[t], Unlock(t, m) PROVE Reserves(d)'
    <2>0. Active(d)' = Active(d) BY <1>8 DEF Unlock, Active
    <2>1. CASE t = Active(d)
      BY <1>0, <1>8, <2>0, <2>1, <1>a DEF Unlock, Reserves
    <2>2. CASE t # Active(d)
      BY <1>0, <1>8, <1>a, <2>0, <2>2, Untouched DEF Unlock
    <2> QED BY <2>1, <2>2
  <1>9. ASSUME NEW c \in Cores, Tick(c) PROVE Reserves(d)'
    <2>1. CASE c = d
      <3>1. Active(d)' = d BY <1>9, <2>1 DEF Tick, Active
      <3>2. pc'[d] = "b_ldrex" BY <1>9, <2>1 DEF Tick, Contexts
      <3> QED BY <3>1, <3>2 DEF Reserves
    <2>2. CASE c # d
      <3>1. Active(d)' = Active(d) BY <1>9, <2>2 DEF Tick, Active
      <3>2. Active(d) # c /\ Active(d) # running[c]
        BY <1>a, <2>2 DEF On, Contexts
      <3>3. pc'[Active(d)] = pc[Active(d)] /\ want'[Active(d)] = want[Active(d)]
        BY <1>9, <1>a, <3>2 DEF Tick, Contexts
      <3> QED BY <1>0, <1>9, <3>1, <3>3, Untouched DEF Tick
    <2> QED BY <2>1, <2>2
  <1>10. ASSUME NEW c \in Cores, NextThread(c) PROVE Reserves(d)'
    <2>0. c \in inTick
      BY <1>10 DEF NextThread, Runs, On, Active
    <2>1. Active(d)' = Active(d)
      BY <1>10, <2>0 DEF NextThread, Active
    <2>2. CASE c = Active(d)
      BY <1>0, <1>10, <2>1, <2>2, <1>a DEF NextThread, Reserves
    <2>3. CASE c # Active(d)
      BY <1>0, <1>10, <1>a, <2>1, <2>3, Untouched DEF NextThread
    <2> QED BY <2>2, <2>3
  <1>11. CASE UNCHANGED vars
    BY <1>0, <1>11 DEF vars, Reserves, Active
  <1> QED BY <1>1, <1>2, <1>3, <1>4, <1>5, <1>6, <1>7, <1>8, <1>9, <1>10, <1>11
          DEF Next, Instruction

-----------------------------------------------------------------------------
LEMMA InitIInv == Init => IInv
  <1> SUFFICES ASSUME Init PROVE IInv OBVIOUS
  <1>1. TypeOK BY InitTypeOK
  <1>2. WordIsHeld BY DEF Init, WordIsHeld, locked, unlocked
  <1>3. MutualExclusion BY DEF Init, MutualExclusion
  <1>4. Reservation
    <2> SUFFICES ASSUME NEW c \in Cores PROVE Reserves(c)
      BY ReservesAll
    <2> QED BY <1>1, ActiveIsOn DEF Init, Reserves
  <1>5. Unlocks BY DEF Init, Unlocks
  <1> QED BY <1>1, <1>2, <1>3, <1>4, <1>5 DEF IInv

LEMMA Inductive == Spec => []IInv
  <1>1. IInv /\ [Next]_vars => IInv'
    BY NextTypeOK, NextWordIsHeld, NextMutualExclusion, NextReservation, NextUnlocks DEF IInv
  <1> QED BY InitIInv, <1>1, PTL DEF Spec

(* The lock words, monitors and program counters keep their types.         *)
THEOREM MutexTypeCorrect == Spec => []TypeOK
  <1>1. IInv => TypeOK BY DEF IInv
  <1> QED BY Inductive, <1>1, PTL

(* _lock_mutex_persistent and _lock_mutex_best_effort never give a mutex   *)
(* to two contexts, whatever the interleaving of cores, ticks and changes  *)
(* of thread.                                                              *)
THEOREM MutexesExclude == Spec => []MutualExclusion
  <1>1. IInv => MutualExclusion BY DEF IInv
  <1> QED BY Inductive, <1>1, PTL

-----------------------------------------------------------------------------
(* Wake-ups.  The claim is kept for the thread that a core runs or has     *)
(* interrupted, up to where the tick handler may have changed it; from     *)
(* there to the thread is the SEV of the handler's own unlock_mutex.  A    *)
(* handler never waits, and one that has returned is at its beginning, so  *)
(* that the next tick discards nothing it still had to do.                 *)
CoreOut ==
    \A c \in Cores : /\ pc[c] \notin {"p_ldrex", "p_wfe", "p_sleep", "p_strex"}
                     /\ c \notin inTick => pc[c] = "idle"

Comes(z) == word[want[z]] = locked \/ \E y \in Contexts : pc[y] = "u_sev"

Sleeps(z) == /\ z = running[On(z)] /\ pc[On(z)] # "u_str"
             /\ pc[z] \in {"p_wfe", "p_sleep"} /\ ~event[On(z)]

WakeInv == TypeOK /\ CoreOut /\ \A z \in Contexts : Sleeps(z) => Comes(z)

(* A context that executes is a thread, or a handler that is in its tick.  *)
LEMMA ExecutingIsIn ==
    ASSUME TypeOK, NEW x \in Contexts, Runs(x)
    PROVE  x \in Cores => x \in inTick /\ On(x) = x
  BY MutexAssumption DEF TypeOK, Runs, Active, On, Contexts

LEMMA HeldAreMutexes == ASSUME TypeOK, NEW t \in Threads PROVE held[t] \subseteq Mutexes
  BY DEF TypeOK, Contexts

LEMMA NextCoreOut == WakeInv /\ [Next]_vars => CoreOut'
  <1> DEFINE Out(c) == /\ pc[c] \notin {"p_ldrex", "p_wfe", "p_sleep", "p_strex"}
                       /\ c \notin inTick => pc[c] = "idle"
  <1> SUFFICES ASSUME WakeInv, [Next]_vars, NEW c \in Cores PROVE Out(c)'
    BY DEF CoreOut
  <1> USE DEF WakeInv, TypeOK, Goto, At
  <1>0. c \in Contexts /\ c \notin Threads BY MutexAssumption DEF Contexts
  <1>a. Out(c) BY DEF CoreOut
  <1>1. ASSUME NEW x \in Contexts, PLdrex(x) \/ PWfe(x) \/ PWake(x) \/ PStrex(x) PROVE Out(c)'
    <2>1. c # x BY <1>1, <1>a DEF PLdrex, PWfe, PWake, PStrex
    <2> QED BY <1>0, <1>1, <1>a, <2>1 DEF PLdrex, PWfe, PWake, Consumes, PStrex
  <1>2. ASSUME NEW x \in Contexts, BLdrex(x) \/ UStr(x) PROVE Out(c)'
    <2>1. Runs(x) /\ inTick' = inTick BY <1>2 DEF BLdrex, UStr
    <2>2. CASE c = x
      <3>1. c \in inTick BY <2>1, <2>2, ExecutingIsIn
      <3> QED BY <1>0, <1>2, <2>1, <2>2, <3>1 DEF BLdrex, UStr
    <2>3. CASE c # x BY <1>0, <1>2, <1>a, <2>3 DEF BLdrex, UStr
    <2> QED BY <2>2, <2>3
  <1>3. ASSUME NEW x \in Contexts, BClrex(x) \/ USev(x) PROVE Out(c)'
    BY <1>0, <1>a, <1>3 DEF BClrex, USev, Fails
  <1>4. ASSUME NEW x \in Contexts, BStrex(x) PROVE Out(c)'
    <2>1. Runs(x) BY <1>4 DEF BStrex
    <2>2. CASE Fails(x) BY <1>0, <1>a, <2>2 DEF Fails
    <2>3. CASE Goto(x, IF x \in Cores THEN "body" ELSE "idle") /\ inTick' = inTick
      <3>1. CASE c = x
        <4>1. c \in inTick BY <2>1, <3>1, ExecutingIsIn
        <4> QED BY <1>0, <2>3, <3>1, <4>1
      <3>2. CASE c # x BY <1>0, <1>a, <2>3, <3>2
      <3> QED BY <3>1, <3>2
    <2> QED BY <1>4, <2>2, <2>3 DEF BStrex
  <1>5. ASSUME NEW t \in Threads, NEW m \in Mutexes,
               LockPersistent(t, m) \/ LockBestEffort(t, m) \/ Unlock(t, m)
        PROVE  Out(c)'
    BY <1>0, <1>5, <1>a DEF LockPersistent, LockBestEffort, Unlock
  <1>6. ASSUME NEW d \in Cores, Tick(d) PROVE Out(c)'
    <2>0. d \in Contexts /\ running[d] \in Threads BY DEF Contexts
    <2>1. CASE c = d BY <1>0, <1>6, <2>0, <2>1 DEF Tick
    <2>2. CASE c # d BY <1>0, <1>6, <1>a, <2>0, <2>2 DEF Tick
    <2> QED BY <2>1, <2>2
  <1>7. ASSUME NEW d \in Cores, NextThread(d) PROVE Out(c)'
    <2>1. d \in inTick /\ inTick' = inTick
      BY <1>7, ExecutingIsIn DEF NextThread, Contexts
    <2> QED BY <1>0, <1>7, <1>a, <2>1 DEF NextThread
  <1>8. CASE UNCHANGED vars BY <1>8, <1>a DEF vars
  <1> QED BY <1>1, <1>2, <1>3, <1>4, <1>5, <1>6, <1>7, <1>8, HeldAreMutexes DEF Next, Instruction

(* The event that a sleeper waits for stays on its way until it is there.  *)
LEMMA NextComes ==
    ASSUME WakeInv, [Next]_vars, NEW z \in Contexts, Sleeps(z)' PROVE Comes(z)'
  <1> USE DEF WakeInv, TypeOK, Goto, At
  <1>0. On(z) \in Cores BY OnIsCore
  <1>a. Sleeps(z) => Comes(z) OBVIOUS
  <1>b. /\ z = running'[On(z)] /\ pc'[On(z)] # "u_str"
        /\ pc'[z] \in {"p_wfe", "p_sleep"} /\ ~event'[On(z)]
    BY DEF Sleeps
  (* The frame: what may disturb a sleeper.                                 *)
  <1>c. ASSUME running'[On(z)] = running[On(z)], pc[On(z)] # "u_str",
               pc[z] \in {"p_wfe", "p_sleep"}, event'[On(z)] = event[On(z)],
               want'[z] = want[z],
               word[want[z]] = locked => word'[want[z]] = locked,
               \A y \in Contexts : pc[y] = "u_sev" => pc'[y] = "u_sev"
        PROVE  Comes(z)'
    BY <1>a, <1>b, <1>c DEF Sleeps, Comes
  <1>1. ASSUME NEW x \in Contexts, PLdrex(x) PROVE Comes(z)'
    <2>1. CASE z = x BY <1>1, <1>b, <2>1 DEF PLdrex, Comes
    <2>2. CASE z # x
      <3>1. On(z) # x BY <1>0, <1>1 DEF PLdrex, CoreOut
      <3> QED BY <1>0, <1>1, <1>b, <1>c, <2>2, <3>1 DEF PLdrex, Contexts
    <2> QED BY <2>1, <2>2
  <1>2. ASSUME NEW x \in Contexts, PWfe(x) \/ PWake(x) PROVE Comes(z)'
    <2>0. pc[x] \in {"p_wfe", "p_sleep"} /\ Runs(x) BY <1>2 DEF PWfe, PWake
    <2>1. x \in Threads /\ x \notin Cores BY <2>0, MutexAssumption DEF CoreOut, Contexts
    <2>2. x = running[On(x)] BY <2>0, <2>1, ActiveIsOn, MutexAssumption, OnIsCore DEF Runs, Active
    <2>3. UNCHANGED <<word, want, running>> BY <1>2 DEF PWfe, PWake
    <2>4. On(z) # x BY <1>0, <2>1
    <2>5. \A y \in Contexts : y # x => pc'[y] = pc[y] BY <1>2 DEF PWfe, PWake, Consumes
    <2>6. pc[On(z)] # "u_str" BY <1>0, <1>b, <2>4, <2>5 DEF Contexts
    <2>7. \A y \in Contexts : pc[y] = "u_sev" => pc'[y] = "u_sev" BY <2>0, <2>5
    <2>8. CASE z = x
      <3>1. event' = event BY <1>2, <1>b, <2>8 DEF PWfe, PWake, Consumes
      <3> QED BY <1>c, <2>0, <2>3, <2>6, <2>7, <2>8, <3>1
    <2>9. CASE z # x
      <3>1. On(z) # On(x) BY <1>b, <2>2, <2>3, <2>9
      <3>2. event'[On(z)] = event[On(z)] BY <1>0, <1>2, <3>1 DEF PWfe, PWake, Consumes
      <3>3. pc[z] \in {"p_wfe", "p_sleep"} BY <1>b, <2>5, <2>9
      <3> QED BY <1>c, <2>3, <2>6, <2>7, <3>2, <3>3
    <2> QED BY <2>8, <2>9
  <1>3. ASSUME NEW x \in Contexts, PStrex(x) \/ BStrex(x) \/ BLdrex(x) \/ BClrex(x) PROVE Comes(z)'
    <2>1. /\ pc[x] \in {"p_strex", "b_strex", "b_ldrex", "b_clrex"}
          /\ pc'[x] \notin {"p_wfe", "p_sleep"}
          /\ \A y \in Contexts : y # x => pc'[y] = pc[y]
          /\ UNCHANGED <<event, want, running>>
      BY <1>3 DEF PStrex, BStrex, BLdrex, BClrex, Fails
    <2>2. \A m \in Mutexes : word[m] = locked => word'[m] = locked
      BY <1>3 DEF PStrex, BStrex, BLdrex, BClrex, Store, Stored, Refuse, Fails
    <2>3. z # x BY <1>b, <2>1
    <2>4. pc[On(z)] # "u_str" BY <1>0, <1>b, <2>1 DEF Contexts
    <2> QED BY <1>b, <1>c, <2>1, <2>2, <2>3, <2>4
  <1>4. ASSUME NEW x \in Contexts, UStr(x) PROVE Comes(z)'
    BY <1>4 DEF UStr, Comes
  <1>5. ASSUME NEW x \in Contexts, USev(x) PROVE Comes(z)'
    BY <1>0, <1>5, <1>b DEF USev
  <1>6. ASSUME NEW t \in Threads, NEW m \in Mutexes,
               LockPersistent(t, m) \/ LockBestEffort(t, m) \/ Unlock(t, m)
        PROVE  Comes(z)'
    <2>0. t \in Contexts /\ t # On(z) BY <1>0, MutexAssumption DEF Contexts
    <2>1. pc[t] = "idle" /\ t # z
      BY <1>6, <1>b, <2>0 DEF LockPersistent, LockBestEffort, Unlock
    <2> QED BY <1>0, <1>6, <1>b, <1>c, <2>0, <2>1 DEF LockPersistent, LockBestEffort, Unlock, Contexts
  <1>7. ASSUME NEW c \in Cores, Tick(c) PROVE Comes(z)'
    <2>1. /\ c \in Contexts /\ running[c] \in Contexts /\ c # running[c]
          /\ pc[c] = "idle" /\ z # c
      BY <1>7, <1>b, MutexAssumption DEF Tick, CoreOut, Contexts
    <2>2. /\ pc[z] \in {"p_wfe", "p_sleep"}
          /\ \A y \in Contexts : pc[y] = "u_sev" => pc'[y] = "u_sev"
      BY <1>7, <1>b, <2>1 DEF Tick
    <2>3. On(z) \in Contexts /\ On(z) # running[c] BY <1>0, <2>1, MutexAssumption DEF Contexts
    <2>4. pc[On(z)] # "u_str" BY <1>7, <1>b, <2>1, <2>3 DEF Tick
    <2> QED BY <1>7, <1>c, <2>1, <2>2, <2>4 DEF Tick
  <1>8. ASSUME NEW c \in Cores, NextThread(c) PROVE Comes(z)'
    <2>0. c \in Contexts BY DEF Contexts
    <2>1. On(z) # c /\ z # c /\ pc[c] = "body" BY <1>8, <1>b, <2>0 DEF NextThread
    <2> QED BY <1>0, <1>8, <1>b, <1>c, <2>0, <2>1 DEF NextThread, Contexts
  <1>9. CASE UNCHANGED vars BY <1>9, <1>b, <1>c DEF vars
  <1> QED BY <1>1, <1>2, <1>3, <1>4, <1>5, <1>6, <1>7, <1>8, <1>9, HeldAreMutexes DEF Next, Instruction

(* A context that a core executes at or in the WFE of                      *)
(* _lock_mutex_persistent sleeps only while its mutex is locked or the SEV *)
(* of its unlocking is still to come, for any number of threads that wait  *)
(* on one core and wherever a tick parts the CMP from the WFE.             *)
THEOREM WakeUpsArrive == Spec => []NoLostWakeup
  <1>1. Init => WakeInv
    BY InitTypeOK, MutexAssumption DEF Init, WakeInv, CoreOut, Sleeps, Contexts
  <1>2. WakeInv /\ [Next]_vars => WakeInv'
    <2> SUFFICES ASSUME WakeInv, [Next]_vars PROVE WakeInv' OBVIOUS
    <2>1. TypeOK' /\ CoreOut' BY NextTypeOK, NextCoreOut DEF WakeInv
    <2>2. \A z \in Contexts : Sleeps(z)' => Comes(z)' BY NextComes
    <2> QED BY <2>1, <2>2 DEF WakeInv
  <1>3. WakeInv => NoLostWakeup
    <2> SUFFICES ASSUME WakeInv, NEW z \in Contexts, Asleep(z) PROVE Comes(z)
      BY DEF NoLostWakeup, Comes
    <2>1. z \in Threads /\ z \notin Cores
      BY MutexAssumption DEF WakeInv, CoreOut, Asleep, Contexts
    <2>2. On(z) \in Cores BY OnIsCore
    <2>3. On(z) \notin inTick /\ z = running[On(z)]
      BY <2>1, <2>2 DEF Asleep, Runs, Active
    <2>4. Sleeps(z) BY <2>2, <2>3 DEF Sleeps, Asleep, WakeInv, CoreOut
    <2> QED BY <2>4 DEF WakeInv
  <1> QED BY <1>1, <1>2, <1>3, PTL DEF Spec

-----------------------------------------------------------------------------
Holds == {h \in Contexts \X Mutexes : h[2] \in held[h[1]]}

LEMMA StepIsALockStep == IInv /\ [Next]_vars => [Promise!Next]_Holds
  <1> SUFFICES ASSUME IInv, [Next]_vars PROVE Promise!Next \/ Holds' = Holds OBVIOUS
  <1> USE DEF IInv, TypeOK, At, Holds
  <1>1. ASSUME NEW x \in Contexts, PStrex(x) \/ BStrex(x) PROVE Promise!Next \/ Holds' = Holds
    <2>1. CASE Store(x)
      <3>1. \A y \in Contexts : want[x] \notin held[y]
        BY <1>1, <2>1, StoreIsSafe DEF PStrex, BStrex, Store
      <3>2. Promise!Free(want[x]) BY <3>1 DEF Promise!Free
      <3>3. Holds' = Holds \cup {<<x, want[x]>>} BY <2>1 DEF Store
      <3> QED BY <3>2, <3>3 DEF Promise!Next, Promise!Acquire
    <2>2. CASE Refuse(x)
      BY <2>2 DEF Refuse
    <2> QED BY <1>1, <2>1, <2>2 DEF PStrex, BStrex
  <1>2. ASSUME NEW x \in Contexts, UStr(x) PROVE Promise!Next \/ Holds' = Holds
    <2>1. want[x] \in held[x] BY <1>2 DEF UStr, Unlocks
    <2>2. Holds' = Holds \ {<<x, want[x]>>} BY <1>2 DEF UStr
    <2> QED BY <2>1, <2>2 DEF Promise!Next, Promise!Release
  <1>3. CASE UNCHANGED held
    BY <1>3
  <1> QED BY <1>1, <1>2, <1>3 DEF Next, Instruction, PLdrex, PWfe, PWake, Consumes, BLdrex, BClrex, USev,
            LockPersistent, LockBestEffort, Unlock, Tick, NextThread, vars

(* The mutexes do what Lock promises, which is what the models that take   *)
(* a mutex in one step rely on.                                            *)
THEOREM MutexesAreLocks == Spec => ImplementsLock
  <1>1. Init => Promise!Init
    BY DEF Init, Promise!Init
  <1> QED BY Inductive, <1>1, StepIsALockStep, PTL DEF Spec, ImplementsLock, Promise!Spec, Holds
=============================================================================
