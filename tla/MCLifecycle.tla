----------------------------- MODULE MCLifecycle ----------------------------
(* Boot, the heap's benchmarks and two rounds of a workload, so that a     *)
(* psched_init may come before the teardown it overtakes.                  *)
EXTENDS Lifecycle
=============================================================================
