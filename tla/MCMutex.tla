------------------------------ MODULE MCMutex -------------------------------
(* Two cores, two threads on the first; a mutex of the application and the *)
(* two thread_mutexes.                                                     *)
EXTENDS Mutex, TLC
CONSTANTS c0, c1, t1, t2, t3, k0, k1, m

MCCoreOf == t1 :> c0 @@ t2 :> c0 @@ t3 :> c1
MCThreadMutex == c0 :> k0 @@ c1 :> k1
MCUses == t1 :> {m} @@ t2 :> {m} @@ t3 :> {m}
MCTries == t1 :> {} @@ t2 :> {m} @@ t3 :> {k0}
=============================================================================
