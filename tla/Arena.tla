------------------------------- MODULE Arena -------------------------------
(***************************************************************************)
(* What a memory allocator promises, whatever its free lists look like: a  *)
(* range it hands out lies in the heap, is aligned, is long enough for the *)
(* request and overlaps no range that is still held; a release gives back  *)
(* one range and disturbs no other.  A range <<lo, hi>> stands for the     *)
(* bytes lo .. hi - 1, the block's header included.                        *)
(***************************************************************************)
EXTENDS Integers

CONSTANTS Heap,     \* the number of bytes of the heap
          Align,    \* where ranges may begin and end
          Overhead, \* the bytes of a range that the allocator keeps
          Sizes     \* the payload sizes that are asked for

VARIABLES held      \* the ranges that have an owner

Apart(r, s) == \/ r[2] <= s[1]
               \/ s[2] <= r[1]

Ranges == {r \in (0 .. Heap) \X (0 .. Heap) :
              r[1] < r[2] /\ r[1] % Align = 0 /\ r[2] % Align = 0}

Init == held = {}

(* One range appears.                                                      *)
Give == \E r \in held' \ held :
            /\ held' = held \cup {r}
            /\ r \in Ranges
            /\ \E n \in Sizes : r[2] - r[1] >= n + Overhead
            /\ \A s \in held : Apart(r, s)

TakeBack == \E r \in held : held' = held \ {r}

(* The whole heap is abandoned, with whatever was still held.              *)
Abandon == held' = {}

Next == \/ Give
        \/ TakeBack
        \/ Abandon

Spec == Init /\ [][Next]_held

(* Two ranges that have an owner do not overlap, and each lies in the heap.*)
Disjoint ==
    /\ held \subseteq Ranges
    /\ \A r, s \in held : r # s => Apart(r, s)
=============================================================================
