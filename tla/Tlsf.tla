-------------------------------- MODULE Tlsf --------------------------------
(***************************************************************************)
(* The TLSF allocator (kernel/tlsf.c): boundary-tagged blocks that tile    *)
(* the heap, one doubly linked free list per size class, and a two-level   *)
(* bitmap of the classes that have a free block.  Addresses are byte       *)
(* offsets from _heap_start; sizes are payload bytes.  The constants of    *)
(* the code (24 octaves, 32 sub-bins, a linear zone below 2^7) are         *)
(* parameters, so that a heap of 2^FL_COUNT bytes can be explored.         *)
(*                                                                         *)
(* Each operation is one step: the kernel calls kMalloc and kFree under    *)
(* g_allocator_mutex.                                                      *)
(***************************************************************************)
EXTENDS Integers, FiniteSets, FiniteSetsExt

CONSTANTS FL_COUNT,   \* octaves: the heap has 2^FL_COUNT bytes
          SL_COUNT,   \* sub-bins of an octave
          LIN,        \* log2 of the end of the linear zone
          WORD,       \* the modulus of size_t
          Requests,   \* the sizes callers ask for
          MaxHeld     \* bound: the blocks callers hold at once

(* 1U << n                                                                 *)
Shift[n \in 0 .. 30] == IF n = 0 THEN 1 ELSE 2 * Shift[n - 1]
Bit == [n \in 0 .. 30 |-> Shift[n]]

MIN_PAYLOAD == 8      \* the prev and next links of a free block
HeaderSize  == 8      \* sizeof(taken_block_t)
HEAP_END    == Bit[FL_COUNT]
INITIAL_FREE == HEAP_END - HeaderSize
NULL == -1

ASSUME TlsfAssumption ==
    /\ LIN \in Nat /\ FL_COUNT \in 0 .. 30 /\ SL_COUNT \in Nat
    /\ 3 < LIN
    /\ LIN + 1 < FL_COUNT         \* a sub-bin of the last octave holds a header
    /\ Bit[LIN] = 4 * SL_COUNT    \* sub-bins of 4 bytes
    /\ WORD \in Nat /\ WORD % 8 = 0 /\ HEAP_END < WORD
    /\ Requests \subseteq 0 .. WORD - 1
    /\ MaxHeld \in Nat

Octaves == LIN - 1 .. FL_COUNT - 1
SubBins == 0 .. SL_COUNT - 1
Class   == Octaves \X SubBins
Addr    == {a \in 0 .. HEAP_END - 1 : a % 8 = 0}

VARIABLES
    mem,                 \* the headers: address -> block
    tlsf_array,          \* the head of each class's list
    fBitmap, sBitmap,    \* the bits that are set
    g_heap_initialized,
    owned                \* pointers handed out and not yet freed -> bytes asked

vars == <<mem, tlsf_array, fBitmap, sBitmap, g_heap_initialized, owned>>

Block == [prev_phys : Addr \cup {NULL}, size : MIN_PAYLOAD .. INITIAL_FREE,
          free : BOOLEAN, prev : Addr \cup {NULL}, next : Addr \cup {NULL}]

-----------------------------------------------------------------------------
(* Size classes.                                                           *)

ALIGN8(n) == (((n + 7) % WORD) \div 8) * 8

(* The leading one, or the linear zone's place for all that is smaller.     *)
Octave(size) == Max({LIN - 1} \cup {o \in 0 .. 30 : Bit[o] <= size})
Excess(size) == IF Octave(size) = LIN - 1 THEN size ELSE size - Bit[Octave(size)]
Width(octave) == IF octave = LIN - 1 THEN 4 ELSE Bit[octave] \div SL_COUNT

map_down(size) == <<Octave(size), Excess(size) \div Width(Octave(size))>>

(* The first class all of whose blocks are long enough, or none.           *)
map_up(size) ==
    IF size <= MIN_PAYLOAD THEN {<<LIN - 1, 2>>}
    ELSE LET down == map_down(size)
             up == IF Excess(size) % Width(down[1]) = 0 THEN down
                   ELSE IF down[2] + 1 < SL_COUNT THEN <<down[1], down[2] + 1>>
                   ELSE <<down[1] + 1, 0>>
         IN  {c \in {up} : c[1] < FL_COUNT}

Before(c, d) == \/ c[1] < d[1]
                \/ c[1] = d[1] /\ c[2] <= d[2]

(* Mutant of get_free: every octave is entered at the class's sub-bin.      *)
GetFreeKeepsTick(size) ==
    LET usable == {c \in Class : /\ size # 0
                                 /\ \E up \in map_up(size) : up[1] <= c[1] /\ up[2] <= c[2]
                                 /\ c[1] \in fBitmap /\ c[2] \in sBitmap[c[1]]}
    IN  IF usable = {} THEN NULL
        ELSE tlsf_array[CHOOSE c \in usable : \A d \in usable : Before(c, d)]

(* The scan of the bitmaps, octave by octave: only the first octave is     *)
(* entered at the class's own sub-bin.                                     *)
get_free(size) ==
    LET usable == {c \in Class : /\ size # 0
                                 /\ \E up \in map_up(size) : Before(up, c)
                                 /\ c[1] \in fBitmap /\ c[2] \in sBitmap[c[1]]}
    IN  IF usable = {} THEN NULL
        ELSE tlsf_array[CHOOSE c \in usable : \A d \in usable : Before(c, d)]

-----------------------------------------------------------------------------
(* A state of the heap as a value, for the operations that change it in    *)
(* several steps.                                                          *)

Heap == [mem |-> mem, array |-> tlsf_array, f |-> fBitmap, s |-> sBitmap]

Becomes(h) == /\ mem' = h.mem
              /\ tlsf_array' = h.array
              /\ fBitmap' = h.f
              /\ sBitmap' = h.s

EndOf(h, a) == a + h.mem[a].size + HeaderSize

(* Mutant of Unlink: the octave's bit goes with the first emptied sub-bin.  *)
UnlinkClearsOctave(h, a, class) ==
    LET prev == h.mem[a].prev
        next == h.mem[a].next
        array == IF prev = NULL THEN [h.array EXCEPT ![class] = next] ELSE h.array
        empty == array[class] = NULL
    IN  [mem |-> [b \in DOMAIN h.mem |->
                    [h.mem[b] EXCEPT !.next = IF b = prev THEN next ELSE @,
                                     !.prev = IF b = next THEN prev ELSE @]],
         array |-> array,
         f |-> IF empty THEN h.f \ {class[1]} ELSE h.f,
         s |-> IF empty THEN [h.s EXCEPT ![class[1]] = @ \ {class[2]}] ELSE h.s]

(* Block a leaves its class's list, its neighbours in the list are joined, *)
(* and an emptied class loses its bits.                                    *)
Unlink(h, a, class) ==
    LET prev == h.mem[a].prev
        next == h.mem[a].next
        array == IF prev = NULL THEN [h.array EXCEPT ![class] = next] ELSE h.array
        bits == IF array[class] = NULL
                THEN [h.s EXCEPT ![class[1]] = @ \ {class[2]}] ELSE h.s
    IN  [mem |-> [b \in DOMAIN h.mem |->
                    [h.mem[b] EXCEPT !.next = IF b = prev THEN next ELSE @,
                                     !.prev = IF b = next THEN prev ELSE @]],
         array |-> array,
         f |-> IF bits[class[1]] = {} THEN h.f \ {class[1]} ELSE h.f,
         s |-> bits]

(* Block a becomes the head of the list of its size.                       *)
Push(h, a) ==
    LET class == map_down(h.mem[a].size)
        head == h.array[class]
    IN  [mem |-> [b \in DOMAIN h.mem |->
                    IF b = a THEN [h.mem[a] EXCEPT !.prev = NULL, !.next = head]
                    ELSE [h.mem[b] EXCEPT !.prev = IF b = head THEN a ELSE @]],
         array |-> [h.array EXCEPT ![class] = a],
         f |-> h.f \cup {class[1]},
         s |-> [h.s EXCEPT ![class[1]] = @ \cup {class[2]}]]

(* Mutant of Tag: the block behind keeps its old boundary tag.              *)
TagForgetsAfter(m, b, prev_phys, size) ==
    [a \in DOMAIN m \cup {b} |->
        IF a = b THEN [prev_phys |-> prev_phys, size |-> size, free |-> TRUE,
                       prev |-> NULL, next |-> NULL]
        ELSE m[a]]

(* The block at b is written with this header and the one behind it is     *)
(* told who comes before it.                                               *)
Tag(m, b, prev_phys, size) ==
    LET after == b + size + HeaderSize
        head  == [prev_phys |-> prev_phys, size |-> size, free |-> TRUE,
                  prev |-> NULL, next |-> NULL]
    IN  [a \in DOMAIN m \cup {b} |->
            IF a = b THEN head
            ELSE [m[a] EXCEPT !.prev_phys = IF a = after THEN b ELSE @]]

-----------------------------------------------------------------------------
(* Mutant of Split: it leaves a remainder that cannot hold its own links.   *)
SplitToNothing(h, a, size) ==
    LET rest == a + size + HeaderSize
        m == Tag(h.mem, rest, a, h.mem[a].size - size - HeaderSize)
    IN  IF h.mem[a].size >= size + HeaderSize
        THEN Push([h EXCEPT !.mem = [m EXCEPT ![a].size = size]], rest)
        ELSE h

(* kMalloc: the tail of the block is split off and pushed before the block *)
(* leaves its own list, since both may be in the same class.               *)
Split(h, a, size) ==
    LET rest == a + size + HeaderSize
        orig == h.mem[a].size
        m == Tag(h.mem, rest, a, orig - size - HeaderSize)
    IN  IF orig >= size + HeaderSize + MIN_PAYLOAD
        THEN Push([h EXCEPT !.mem = [m EXCEPT ![a].size = size]], rest)
        ELSE h

(* Mutant of Carve: the links are read before the remainder is pushed.      *)
CarveReadsLinksFirst(a, size) ==
    LET split == Split(Heap, a, size)
        stale == [split EXCEPT !.mem[a] = [@ EXCEPT !.prev = mem[a].prev, !.next = mem[a].next]]
        h == Unlink(stale, a, map_down(mem[a].size))
    IN  [h EXCEPT !.mem[a] = [@ EXCEPT !.free = FALSE, !.prev = NULL, !.next = NULL]]

Carve(a, size) ==
    LET h == Unlink(Split(Heap, a, size), a, map_down(mem[a].size))
    IN  [h EXCEPT !.mem[a] = [@ EXCEPT !.free = FALSE, !.prev = NULL, !.next = NULL]]

kMalloc(n) ==
    LET size == ALIGN8(n)
        a == get_free(size)
    IN  IF a = NULL THEN UNCHANGED vars
        ELSE /\ Becomes(Carve(a, size))
             /\ owned' = [p \in DOMAIN owned \cup {a + HeaderSize} |->
                            IF p = a + HeaderSize THEN n ELSE owned[p]]
             /\ UNCHANGED g_heap_initialized

-----------------------------------------------------------------------------
(* kFree: the block swallows the free blocks behind it, then those ahead,  *)
(* and the result is pushed.  Swallowed headers are no longer blocks.      *)

Swallow(h, a) == Unlink(h, a, map_down(h.mem[a].size))

(* Mutant of Backward: the block before is never looked at.                 *)
BackwardNever(h, a) == [h |-> h, curr |-> a, size |-> h.mem[a].size]

(* The two loops: entry n of the function is the state after n rounds.     *)
Backward(h, a) ==
    LET loop[n \in 0 .. Cardinality(DOMAIN h.mem)] ==
          IF n = 0 THEN [h |-> h, curr |-> a, size |-> h.mem[a].size]
          ELSE LET x == loop[n - 1]
                   p == x.h.mem[x.curr].prev_phys
               IN  IF p = NULL \/ ~(p \in DOMAIN x.h.mem /\ x.h.mem[p].free) THEN x
                   ELSE [h |-> Swallow(x.h, p), curr |-> p,
                         size |-> x.size + x.h.mem[p].size + HeaderSize]
    IN  loop[Cardinality(DOMAIN h.mem)]

(* Mutant of Forward: the block ahead is swallowed without asking whether   *)
(* it is free.                                                             *)
ForwardUnasked(x0, a) ==
    IF a \notin DOMAIN x0.h.mem THEN [h |-> x0.h, at |-> a, size |-> x0.size]
    ELSE [h |-> IF x0.h.mem[a].free THEN Swallow(x0.h, a) ELSE x0.h, at |-> EndOf(x0.h, a),
          size |-> x0.size + x0.h.mem[a].size + HeaderSize]

Forward(x0, a) ==
    LET loop[n \in 0 .. Cardinality(DOMAIN x0.h.mem)] ==
          IF n = 0 THEN [h |-> x0.h, at |-> a, size |-> x0.size]
          ELSE LET x == loop[n - 1]
               IN  IF ~(x.at \in DOMAIN x.h.mem /\ x.h.mem[x.at].free) THEN x
                   ELSE [h |-> Swallow(x.h, x.at), at |-> EndOf(x.h, x.at),
                         size |-> x.size + x.h.mem[x.at].size + HeaderSize]
    IN  loop[Cardinality(DOMAIN x0.h.mem)]

Merge(a) ==
    LET back == Backward(Heap, a)
        both == Forward(back, EndOf(Heap, a))
        curr == back.curr
        left == [b \in {b \in DOMAIN both.h.mem : b <= curr \/ b >= both.at}
                    |-> both.h.mem[b]]
    IN  Push([both.h EXCEPT !.mem = Tag(left, curr, left[curr].prev_phys, both.size)], curr)

(* NULL and a block that is already free are refused.                      *)
kFree(target) ==
    IF target = NULL \/ mem[target - HeaderSize].free THEN UNCHANGED vars
    ELSE /\ Becomes(Merge(target - HeaderSize))
         /\ owned' = [p \in DOMAIN owned \ {target} |-> owned[p]]
         /\ UNCHANGED g_heap_initialized

-----------------------------------------------------------------------------
NoBlocks == [c \in Class |-> NULL]
NoBits   == [o \in Octaves |-> {}]
LastClass == <<FL_COUNT - 1, SL_COUNT - 1>>

(* What heap_init writes: one free block, in the last class.               *)
Fresh == [mem |-> [a \in {0} |-> [prev_phys |-> NULL, size |-> INITIAL_FREE,
                                  free |-> TRUE, prev |-> NULL, next |-> NULL]],
          array |-> [NoBlocks EXCEPT ![LastClass] = 0],
          f |-> {FL_COUNT - 1},
          s |-> [NoBits EXCEPT ![FL_COUNT - 1] = {SL_COUNT - 1}]]

(* What heap_destroy leaves: the headers in memory are no longer blocks.   *)
Gone == [mem |-> [a \in {} |-> 0], array |-> NoBlocks, f |-> {}, s |-> NoBits]

heap_init == /\ ~g_heap_initialized
             /\ Becomes(Fresh)
             /\ g_heap_initialized' = TRUE
             /\ UNCHANGED owned

(* Pointers still held are dangling afterwards: their owners must forget   *)
(* them.  (The cores' sched_init flags it clears are in Lifecycle.)        *)
heap_destroy == /\ g_heap_initialized
                /\ Becomes(Gone)
                /\ g_heap_initialized' = FALSE
                /\ owned' = [p \in {} |-> 0]

heap_reset == /\ g_heap_initialized
              /\ Becomes(Fresh)
              /\ owned' = [p \in {} |-> 0]
              /\ UNCHANGED g_heap_initialized

Init == /\ mem = Gone.mem
        /\ tlsf_array = NoBlocks
        /\ fBitmap = {}
        /\ sBitmap = NoBits
        /\ g_heap_initialized = FALSE
        /\ owned = [p \in {} |-> 0]

(* A caller frees what it holds, or a pointer to a block that is free.     *)
Freeable == {a + HeaderSize : a \in DOMAIN mem} \cup {NULL}

Next == \/ \E n \in Requests : Cardinality(DOMAIN owned) < MaxHeld /\ kMalloc(n)
        \/ \E target \in Freeable : kFree(target)
        \/ heap_init
        \/ heap_destroy
        \/ heap_reset

Spec == Init /\ [][Next]_vars

-----------------------------------------------------------------------------
TypeOK ==
    /\ DOMAIN mem \subseteq Addr
    /\ \A a \in DOMAIN mem : mem[a] \in Block
    /\ tlsf_array \in [Class -> Addr \cup {NULL}]
    /\ fBitmap \subseteq Octaves
    /\ sBitmap \in [Octaves -> SUBSET SubBins]
    /\ g_heap_initialized \in BOOLEAN
    /\ \A p \in DOMAIN owned : owned[p] \in Requests

FreeBlocks == {a \in DOMAIN mem : mem[a].free}

(* The blocks tile the heap: each ends where the next begins or at the end *)
(* of the heap, and each boundary tag (prev_phys) names the block before.  *)
(* A split or a merge that forgets the tag of the block after it (lines    *)
(* 230 and 382 of tlsf.c) breaks it, and shows only at a later kFree.      *)
BlocksTile ==
    g_heap_initialized =>
        /\ 0 \in DOMAIN mem /\ mem[0].prev_phys = NULL
        /\ \A a \in DOMAIN mem :
              LET end == EndOf(Heap, a)
              IN  /\ \A b \in DOMAIN mem : b <= a \/ b >= end
                  /\ IF end \in DOMAIN mem THEN mem[end].prev_phys = a
                     ELSE end = HEAP_END

(* No two free blocks are neighbours: every kFree merges in both           *)
(* directions, so that free memory never stays fragmented.                 *)
Coalesced == \A a \in FreeBlocks : EndOf(Heap, a) \notin FreeBlocks

(* The list of a class, walked as kMalloc's and kFree's unlinking will,    *)
(* holds the free blocks of that class, all of them and nothing else, and  *)
(* its back links agree with its forward links.                            *)
ListsHoldTheFreeBlocks ==
    \A c \in Class :
        LET walk[n \in 0 .. Cardinality(DOMAIN mem)] ==
                IF n = 0 THEN tlsf_array[c]
                ELSE IF walk[n - 1] \in DOMAIN mem THEN mem[walk[n - 1]].next ELSE NULL
            list == {walk[n] : n \in DOMAIN walk} \ {NULL}
        IN  /\ list = {a \in FreeBlocks : map_down(mem[a].size) = c}
            /\ \A a \in list : IF a = tlsf_array[c] THEN mem[a].prev = NULL
                               ELSE mem[a].prev \in list /\ mem[mem[a].prev].next = a

(* A bit is set exactly when its class, or its octave, has a free block:   *)
(* a stale one makes get_free hand out NULL as if it were a block's head.  *)
BitmapsMatchTheLists ==
    \A o \in Octaves :
        /\ o \in fBitmap <=> sBitmap[o] # {}
        /\ sBitmap[o] = {s \in SubBins : tlsf_array[<<o, s>>] # NULL}

(* The lower bounds of the classes, from the description of the classes    *)
(* alone (writeup.md, "Allocator").                                        *)
LowerBound(c) == (IF c[1] = LIN - 1 THEN 0 ELSE Bit[c[1]]) + c[2] * Width(c[1])
RoundedUp(n) == {b \in {LowerBound(c) : c \in Class} :
                   b >= n /\ \A c \in Class : LowerBound(c) >= n => LowerBound(c) >= b}

(* A request gets a block that is long enough, and it is refused only when *)
(* no free block reaches the lower bound of the class the request is       *)
(* rounded up to (none does when it is past the last class).               *)
GoodFit ==
    \A n \in Requests :
        LET size == ALIGN8(n)
            a == get_free(size)
        IN  IF a = NULL
            THEN size = 0 \/ \A b \in FreeBlocks, r \in RoundedUp(Max({size, 8})) : mem[b].size < r
            ELSE a \in FreeBlocks /\ mem[a].size >= size

(* A block is marked taken exactly while somebody holds the pointer to its *)
(* payload, and the payload is as long as what was asked for: nothing is   *)
(* swallowed under its owner and nothing leaks.                            *)
OwnersKeepTheirBlocks ==
    /\ DOMAIN owned = {a + HeaderSize : a \in DOMAIN mem \ FreeBlocks}
    /\ \A p \in DOMAIN owned : mem[p - HeaderSize].size >= owned[p]

(* The allocator does what an allocator promises.                          *)
Promise == INSTANCE Arena WITH
    Heap <- HEAP_END, Align <- 8, Overhead <- HeaderSize, Sizes <- Requests,
    held <- {<<a, EndOf(Heap, a)>> : a \in DOMAIN mem \ FreeBlocks}

ImplementsArena == Promise!Spec
=============================================================================
