-------------------------------- MODULE Lock --------------------------------
(***************************************************************************)
(* What a set of mutexes promises: a mutex is taken only while nobody has  *)
(* it, and only who has it gives it back.                                  *)
(***************************************************************************)
CONSTANTS Owners, Mutexes

VARIABLES holds       \* who has what: a set of <<owner, mutex>>

Free(m) == \A o \in Owners : <<o, m>> \notin holds

Init == holds = {}

Acquire(o, m) == /\ Free(m)
                 /\ holds' = holds \cup {<<o, m>>}

Release(o, m) == /\ <<o, m>> \in holds
                 /\ holds' = holds \ {<<o, m>>}

Next == \E o \in Owners, m \in Mutexes : Acquire(o, m) \/ Release(o, m)

Spec == Init /\ [][Next]_holds
=============================================================================
