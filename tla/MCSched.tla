------------------------------ MODULE MCSched ------------------------------
(* Instances of Sched for TLC: interchangeable thread_t blocks.            *)
EXTENDS SchedProps

Symmetry == Permutations(Threads)
=============================================================================
