------------------------------- MODULE MCTlsf -------------------------------
(* A 256-byte heap with four sub-bins an octave: requests that need the    *)
(* linear zone, an exact class, a rounded class, a carry into the next     *)
(* octave, more than the heap, and one that wraps in ALIGN8.               *)
EXTENDS Tlsf

MCRequests == {0, 5, 92, 136, 248, 1023}
=============================================================================
