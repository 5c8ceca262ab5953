----------------------------- MODULE TlsfProof -----------------------------
(***************************************************************************)
(* The allocator, proved for every number of octaves and sub-bins, every   *)
(* size that is asked for and every number of blocks held.                 *)
(***************************************************************************)
EXTENDS Tlsf, FiniteSetTheorems, WellFoundedInduction, TLAPS

-----------------------------------------------------------------------------
(* Powers of two and size classes                                          *)

(* The least-number principle: what stands in for induction.               *)
LEMMA Least ==
  ASSUME NEW T, T \subseteq Nat, T # {} PROVE \E m \in T : \A n \in T : m <= n
  <1>1. PICK m \in T : \A n \in T : ~ (<<n, m>> \in OpToRel(<, Nat))
    BY NatLessThanWellFounded, WFMin, Zenon
  <1>2. \A n \in T : ~ (n < m)
    BY <1>1, Zenon DEF OpToRel
  <1>3. m \in Nat /\ \A n \in T : n \in Nat OBVIOUS
  <1> QED BY <1>2, <1>3

(* A set that holds 0, and n + 1 with n, holds all of 0 .. N.              *)
LEMMA UpTo ==
  ASSUME NEW N \in Nat, NEW S, 0 \in S, \A n \in 0 .. N - 1 : n \in S => n + 1 \in S
  PROVE  0 .. N \subseteq S
  <1> DEFINE Missing == {n \in 0 .. N : n \notin S}
  <1> SUFFICES ASSUME Missing # {} PROVE FALSE OBVIOUS
  <1>1. PICK m \in Missing : \A n \in Missing : m <= n
    <2>1. Missing \subseteq Nat OBVIOUS
    <2> HIDE DEF Missing
    <2> QED BY <2>1, Least
  <1>2. m \in 0 .. N /\ m \notin S /\ m # 0 OBVIOUS
  <1>3. m - 1 \in 0 .. N - 1 /\ m - 1 \notin Missing BY <1>1, <1>2
  <1>4. (m - 1) + 1 \in S BY <1>3
  <1> QED BY <1>2, <1>4

(* The recursion of Shift has a solution.                                  *)
LEMMA ShiftIs == \A n \in 0 .. 30 : Shift[n] = IF n = 0 THEN 1 ELSE 2 * Shift[n - 1]
  <1> DEFINE Level(f, n) == IF n = 0 THEN 1 ELSE 2 * f[n - 1]
             Solves(f, n) == \A m \in 0 .. n : f[m] = Level(f, m)
             S == {n \in 0 .. 30 : \E f : Solves(f, n)}
  <1>1. 0 \in S
    <2> DEFINE f == [m \in 0 .. 30 |-> 1]
    <2>1. f[0] = 1 OBVIOUS
    <2>2. Solves(f, 0) BY <2>1
    <2> HIDE DEF f
    <2> QED BY <2>2
  <1>2. ASSUME NEW n \in 0 .. 29, n \in S PROVE n + 1 \in S
    <2>1. PICK f : Solves(f, n) BY <1>2
    <2> DEFINE g == [m \in 0 .. 30 |-> Level(f, m)]
    <2>2. ASSUME NEW m \in 0 .. n + 1 PROVE g[m] = Level(g, m)
      <3>1. CASE m = 0 BY <3>1
      <3>2. CASE m # 0
        <4>1. m - 1 \in 0 .. n /\ m - 1 \in 0 .. 30 /\ m \in 0 .. 30 BY <3>2
        <4>2. g[m - 1] = f[m - 1] BY <2>1, <4>1
        <4> QED BY <3>2, <4>1, <4>2
      <3> QED BY <3>1, <3>2
    <2>3. Solves(g, n + 1) BY <2>2
    <2> HIDE DEF g
    <2> QED BY <2>3
  <1>3. 30 \in S
    <2> HIDE DEF S
    <2> QED BY <1>1, <1>2, UpTo
  <1>4. PICK f : Solves(f, 30) BY <1>3
  <1> DEFINE g == [m \in 0 .. 30 |-> Level(f, m)]
  <1>5. g = [m \in 0 .. 30 |-> Level(g, m)]
    <2>1. ASSUME NEW m \in 0 .. 30 PROVE Level(f, m) = Level(g, m)
      <3>1. CASE m = 0 BY <3>1
      <3>2. CASE m # 0
        <4>1. m - 1 \in 0 .. 30 BY <3>2
        <4>2. g[m - 1] = f[m - 1] BY <1>4, <4>1, SMTT(40)
        <4> QED BY <3>2, <4>2
      <3> QED BY <3>1, <3>2
    <2> QED BY <2>1
  <1>6. Shift = [m \in 0 .. 30 |-> Level(Shift, m)] BY <1>5, Zenon DEF Shift
  <1> HIDE DEF g, S, Solves
  <1>7. ASSUME NEW n \in 0 .. 30 PROVE Shift[n] = Level(Shift, n)
    <2> DEFINE h == [m \in 0 .. 30 |-> Level(Shift, m)]
    <2>1. h[n] = Level(Shift, n) BY SMTT(40)
    <2> HIDE DEF h
    <2> QED BY <1>6, <2>1 DEF h
  <1> QED BY <1>7

(* Powers of two double, and grow.                                         *)
LEMMA Bits ==
  /\ Bit[0] = 1 /\ \A n \in 0 .. 29 : Bit[n + 1] = 2 * Bit[n]
  /\ \A n \in 0 .. 30 : Bit[n] \in Nat \ {0}
  /\ \A m, n \in 0 .. 30 : m <= n => Bit[m] <= Bit[n]
  <1>1. Bit[0] = 1 /\ \A n \in 0 .. 29 : Bit[n + 1] = 2 * Bit[n]
    BY ShiftIs DEF Bit
  <1>2. \A n \in 0 .. 30 : Bit[n] \in Nat \ {0}
    <2> DEFINE S == {n \in 0 .. 30 : Bit[n] \in Nat \ {0}}
    <2>1. 0 \in S BY <1>1
    <2>3. ASSUME NEW n \in 0 .. 29, n \in S PROVE n + 1 \in S
      <3>1. n + 1 \in 0 .. 30 /\ Bit[n + 1] = 2 * Bit[n] BY <1>1
      <3>2. Bit[n] \in Nat \ {0} BY <2>3
      <3> QED BY <3>1, <3>2
    <2> HIDE DEF S
    <2>2. 0 .. 30 \subseteq S BY <2>1, <2>3, UpTo
    <2> QED BY <2>2 DEF S
  <1>3. ASSUME NEW m \in 0 .. 30, NEW n \in 0 .. 30, m <= n PROVE Bit[m] <= Bit[n]
    <2> DEFINE S == {k \in 0 .. 30 : m + k > 30 \/ Bit[m] <= Bit[m + k]}
    <2>1. 0 \in S BY <1>2
    <2>2. ASSUME NEW k \in 0 .. 29, k \in S PROVE k + 1 \in S
      <3>1. CASE m + k > 29 BY <3>1
      <3>2. CASE m + k <= 29
        <4>1. m + k \in 0 .. 29 /\ Bit[(m + k) + 1] = 2 * Bit[m + k] BY <1>1, <3>2
        <4>2. Bit[m] <= Bit[m + k] /\ Bit[m + k] \in Nat /\ Bit[m] \in Nat BY <1>2, <2>2, <3>2
        <4>3. m + (k + 1) = (m + k) + 1 OBVIOUS
        <4> QED BY <4>1, <4>2, <4>3
      <3> QED BY <3>1, <3>2
    <2> HIDE DEF S
    <2>3. 0 .. 30 \subseteq S BY <2>1, <2>2, UpTo
    <2>4. n - m \in S BY <1>3, <2>3
    <2>5. m + (n - m) = n OBVIOUS
    <2> QED BY <2>4, <2>5 DEF S
  <1> QED BY <1>1, <1>2, <1>3

(* The parameters.                                                         *)
LEMMA Params ==
  /\ LIN \in Nat /\ LIN > 3 /\ FL_COUNT \in Nat /\ LIN + 1 < FL_COUNT /\ FL_COUNT <= 30
  /\ SL_COUNT \in Nat /\ SL_COUNT >= 4 /\ Bit[LIN] = 4 * SL_COUNT
  /\ HEAP_END \in Nat /\ HEAP_END >= 64 /\ HEAP_END % 8 = 0 /\ HEAP_END < WORD
  /\ INITIAL_FREE = HEAP_END - 8 /\ HeaderSize = 8 /\ MIN_PAYLOAD = 8
  /\ NULL = -1 /\ NULL \notin Addr
  <1>1. LIN \in 4 .. 28 /\ FL_COUNT \in 6 .. 30 /\ SL_COUNT \in Nat /\ Bit[LIN] = 4 * SL_COUNT
        /\ LIN + 1 < FL_COUNT
    BY TlsfAssumption
  <1>2. Bit[3] = 8 /\ Bit[4] = 16 /\ Bit[5] = 32 /\ Bit[6] = 64
    <2>1. Bit[1] = 2 BY Bits
    <2>2. Bit[2] = 4 BY <2>1, Bits
    <2>3. Bit[3] = 8 BY <2>2, Bits
    <2>4. Bit[4] = 16 BY <2>3, Bits
    <2>5. Bit[5] = 32 BY <2>4, Bits
    <2>6. Bit[6] = 64 BY <2>5, Bits
    <2> QED BY <2>3, <2>4, <2>5, <2>6
  <1>3. Bit[LIN] >= 16 /\ Bit[FL_COUNT] >= 64 /\ Bit[FL_COUNT] \in Nat
    BY <1>1, <1>2, Bits, SMTT(40)
  <1>4. \A n \in 3 .. 30 : Bit[n] % 8 = 0
    <2> DEFINE S == {k \in 0 .. 27 : Bit[3 + k] % 8 = 0}
    <2>1. 0 \in S BY <1>2
    <2>2. ASSUME NEW k \in 0 .. 26, k \in S PROVE k + 1 \in S
      <3>1. 3 + k \in 0 .. 29 /\ Bit[(3 + k) + 1] = 2 * Bit[3 + k] BY Bits, SMTT(40)
      <3>2. Bit[3 + k] \in Nat /\ Bit[3 + k] % 8 = 0 BY <2>2, <3>1, Bits, SMTT(40)
      <3>3. 3 + (k + 1) = (3 + k) + 1 OBVIOUS
      <3>4. (2 * Bit[3 + k]) % 8 = 0 BY <3>2
      <3> QED BY <3>1, <3>3, <3>4
    <2> HIDE DEF S
    <2>3. 0 .. 27 \subseteq S BY <2>1, <2>2, UpTo
    <2>4. ASSUME NEW n \in 3 .. 30 PROVE Bit[n] % 8 = 0
      <3>1. n - 3 \in S /\ 3 + (n - 3) = n BY <2>3
      <3> QED BY <3>1 DEF S
    <2> QED BY <2>4
  <1>5. SL_COUNT >= 4 BY <1>1, <1>3
  <1> QED BY <1>1, <1>3, <1>4, <1>5, TlsfAssumption DEF HEAP_END, INITIAL_FREE, HeaderSize, MIN_PAYLOAD, NULL, Addr

(* Products and quotients of natural numbers.                              *)
LEMMA Products == \A a, b, w \in Nat : a <= b => a * w <= b * w
  OBVIOUS

LEMMA Quotients ==
  \A e \in Nat, w \in Nat \ {0} :
    /\ e \div w \in Nat
    /\ (e \div w) * w <= e /\ e < ((e \div w) + 1) * w
    /\ e % w = 0 => (e \div w) * w = e
    /\ e % w # 0 => (e \div w) * w < e
  <1> SUFFICES ASSUME NEW e \in Nat, NEW w \in Nat \ {0}
               PROVE  /\ e \div w \in Nat
                      /\ (e \div w) * w <= e /\ e < ((e \div w) + 1) * w
                      /\ e % w = 0 => (e \div w) * w = e
                      /\ e % w # 0 => (e \div w) * w < e
    OBVIOUS
  <1>1. e \div w \in Nat /\ (e \div w) * w <= e /\ e < ((e \div w) + 1) * w
    OBVIOUS
  <1>2. e = (e \div w) * w + (e % w) /\ e % w \in 0 .. w - 1
    <2>1. e \in Int /\ w \in Int /\ w > 0 OBVIOUS
    <2>2. e = (e \div w) * w + (e % w) BY <2>1
    <2> QED BY <2>1, <2>2
  <1> QED BY <1>1, <1>2

(* Where an octave begins; it holds SL_COUNT sub-bins of one width.        *)
Base(o) == IF o = LIN - 1 THEN 0 ELSE Bit[o]

LEMMA Widths ==
  \A o \in LIN - 1 .. 29 :
    /\ Width(o) \in Nat \ {0} /\ Base(o) \in Nat /\ Bit[o + 1] \in Nat
    /\ Base(o) + SL_COUNT * Width(o) = Bit[o + 1]
    /\ o > LIN => Width(o) >= 8
  <1>1. ASSUME NEW o \in LIN .. 29, NEW w \in Nat \ {0}, Bit[o] = SL_COUNT * w
        PROVE  Width(o) = w
    BY <1>1, Params DEF Width
  <1>2. \A o \in LIN .. 29 : \E w \in Nat \ {0} : Bit[o] = SL_COUNT * w /\ (o > LIN => w >= 8)
    <2> DEFINE S == {k \in 0 .. 29 - LIN :
                       \E w \in Nat \ {0} : Bit[LIN + k] = SL_COUNT * w /\ w >= 4 /\ (k > 0 => w >= 8)}
    <2>1. 0 \in S BY Params
    <2>2. ASSUME NEW k \in 0 .. (29 - LIN) - 1, k \in S PROVE k + 1 \in S
      <3>1. PICK w \in Nat \ {0} : Bit[LIN + k] = SL_COUNT * w /\ w >= 4 BY <2>2
      <3>2. LIN + k \in 0 .. 29 BY Params
      <3>3. Bit[(LIN + k) + 1] = 2 * (SL_COUNT * w) BY <3>1, <3>2, Bits
      <3>4. Bit[LIN + (k + 1)] = SL_COUNT * (2 * w) BY <3>3, Params
      <3>5. 2 * w \in Nat \ {0} /\ 2 * w >= 8 BY <3>1
      <3>6. k + 1 \in 0 .. 29 - LIN BY Params
      <3> QED BY <3>4, <3>5, <3>6
    <2> HIDE DEF S
    <2>3. 0 .. 29 - LIN \subseteq S BY <2>1, <2>2, Params, UpTo
    <2>4. ASSUME NEW o \in LIN .. 29
          PROVE  \E w \in Nat \ {0} : Bit[o] = SL_COUNT * w /\ (o > LIN => w >= 8)
      <3>1. o - LIN \in S /\ LIN + (o - LIN) = o BY <2>3, Params
      <3> QED BY <3>1, Params DEF S
    <2> QED BY <2>4
  <1>3. ASSUME NEW o \in LIN - 1 .. 29
        PROVE  /\ Width(o) \in Nat \ {0} /\ Base(o) \in Nat /\ Bit[o + 1] \in Nat
               /\ Base(o) + SL_COUNT * Width(o) = Bit[o + 1]
               /\ o > LIN => Width(o) >= 8
    <2>1. CASE o = LIN - 1
      <3>1. Width(o) = 4 /\ Base(o) = 0 /\ o + 1 = LIN BY <2>1, Params DEF Width, Base
      <3> QED BY <2>1, <3>1, Params
    <2>2. CASE o # LIN - 1
      <3>1. o \in LIN .. 29 /\ o \in 0 .. 29 BY <2>2, Params
      <3>2. PICK w \in Nat \ {0} : Bit[o] = SL_COUNT * w /\ (o > LIN => w >= 8) BY <1>2, <3>1
      <3>3. Width(o) = w BY <1>1, <3>1, <3>2
      <3>4. Bit[o + 1] = 2 * Bit[o] /\ Bit[o] \in Nat /\ Base(o) = Bit[o] BY <2>2, <3>1, Bits, SMTT(40) DEF Base
      <3> QED BY <3>2, <3>3, <3>4
    <2> QED BY <2>1, <2>2
  <1> QED BY <1>3

LEMMA MaxIs ==
  ASSUME NEW S, S \subseteq 0 .. 30, S # {}
  PROVE  Max(S) \in S /\ \A x \in S : x <= Max(S)
  <1> DEFINE T == {30 - x : x \in S}
  <1>1. T \subseteq Nat /\ T # {}
    <2>1. \A x \in S : 30 - x \in Nat OBVIOUS
    <2> QED BY <2>1
  <1>2. PICK m \in T : \A n \in T : m <= n
    <2> HIDE DEF T
    <2> QED BY <1>1, Least
  <1>3. PICK y \in S : m = 30 - y OBVIOUS
  <1>4. \A x \in S : y >= x
    <2> SUFFICES ASSUME NEW x \in S PROVE y >= x OBVIOUS
    <2>1. 30 - x \in T OBVIOUS
    <2>2. x \in 0 .. 30 /\ y \in 0 .. 30 OBVIOUS
    <2> QED BY <1>2, <1>3, <2>1, <2>2
  <1> QED BY <1>4 DEF Max

(* The octave of a size.                                                   *)
LEMMA OctaveIs ==
  ASSUME NEW size \in Nat, size > 0
  PROVE  /\ Octave(size) \in LIN - 1 .. 30 /\ Base(Octave(size)) <= size
         /\ Octave(size) < 30 => size < Bit[Octave(size) + 1]
         /\ Octave(size) < FL_COUNT <=> size < HEAP_END
  <1> DEFINE S == {LIN - 1} \cup {o \in 0 .. 30 : Bit[o] <= size}
             o == Octave(size)
  <1>1. o \in S /\ \A x \in S : x <= o
    <2>1. S \subseteq 0 .. 30 /\ S # {} BY Params
    <2>2. o = Max(S) BY DEF Octave
    <2> HIDE DEF S, o
    <2> QED BY <2>1, <2>2, MaxIs
  <1>2. o \in LIN - 1 .. 30 BY <1>1, Params
  <1>3. o # LIN - 1 => Bit[o] <= size BY <1>1
  <1> HIDE DEF o
  <1>4. Base(o) <= size BY <1>3 DEF Base
  <1>5. ASSUME o < 30 PROVE size < Bit[o + 1]
    <2>1. o + 1 \in 0 .. 30 /\ o + 1 \notin S BY <1>1, <1>2, <1>5, Params
    <2>2. Bit[o + 1] \in Nat BY <2>1, Bits
    <2> QED BY <2>1, <2>2
  <1>6. ASSUME o < FL_COUNT PROVE size < HEAP_END
    <2>1. o + 1 \in 0 .. 30 /\ o + 1 <= FL_COUNT /\ FL_COUNT \in 0 .. 30 BY <1>2, <1>6, Params
    <2>2. Bit[o + 1] <= Bit[FL_COUNT] /\ Bit[o + 1] \in Nat /\ Bit[FL_COUNT] \in Nat BY <2>1, Bits
    <2>3. size < Bit[o + 1] BY <1>2, <1>5, <1>6, Params
    <2>4. Bit[FL_COUNT] = HEAP_END BY DEF HEAP_END
    <2> QED BY <2>2, <2>3, <2>4
  <1>7. ASSUME o >= FL_COUNT PROVE size >= HEAP_END
    <2>1. o \in 0 .. 30 /\ o # LIN - 1 /\ FL_COUNT \in 0 .. 30 BY <1>2, <1>7, Params
    <2>2. Bit[FL_COUNT] <= Bit[o] /\ Bit[o] \in Nat /\ Bit[FL_COUNT] \in Nat BY <1>7, <2>1, Bits
    <2> QED BY <1>3, <2>1, <2>2 DEF HEAP_END
  <1>8. o < FL_COUNT <=> size < HEAP_END BY <1>2, <1>6, <1>7, Params
  <1> QED BY <1>2, <1>4, <1>5, <1>8 DEF o

LEMMA ClassIs ==
  /\ Class = (LIN - 1 .. FL_COUNT - 1) \X (0 .. SL_COUNT - 1)
  /\ \A c \in Class : c = <<c[1], c[2]>> /\ c[1] \in LIN - 1 .. 29 /\ c[2] \in Nat /\ c[2] < SL_COUNT
                      /\ c[1] < FL_COUNT
  BY Params DEF Class, Octaves, SubBins

(* Where a class begins: the classes follow one another.                   *)
LEMMA Bounds ==
  \A c \in Class : /\ LowerBound(c) \in Nat /\ Width(c[1]) \in Nat \ {0}
                   /\ LowerBound(c) = Base(c[1]) + c[2] * Width(c[1])
                   /\ LowerBound(c) + Width(c[1]) <= Bit[c[1] + 1]
                   /\ LowerBound(c) + Width(c[1]) <= HEAP_END
  <1> SUFFICES ASSUME NEW c \in Class
               PROVE  /\ LowerBound(c) \in Nat /\ Width(c[1]) \in Nat \ {0}
                      /\ LowerBound(c) = Base(c[1]) + c[2] * Width(c[1])
                      /\ LowerBound(c) + Width(c[1]) <= Bit[c[1] + 1]
                      /\ LowerBound(c) + Width(c[1]) <= HEAP_END
    OBVIOUS
  <1>1. c[1] \in LIN - 1 .. 29 /\ c[2] \in Nat /\ c[2] + 1 <= SL_COUNT /\ c[1] + 1 <= FL_COUNT
    BY ClassIs, Params
  <1>2. PICK w \in Nat : w = Width(c[1]) /\ w > 0 BY <1>1, Widths
  <1>3. PICK b \in Nat : b = Base(c[1]) BY <1>1, Widths
  <1>4. LowerBound(c) = b + c[2] * w BY <1>2, <1>3 DEF LowerBound, Base
  <1>5. b + SL_COUNT * w = Bit[c[1] + 1] /\ Bit[c[1] + 1] \in Nat BY <1>1, <1>2, <1>3, Widths
  <1>6. (c[2] + 1) * w <= SL_COUNT * w
    BY <1>1, <1>2, Products, Params
  <1>7. (c[2] + 1) * w = c[2] * w + w /\ c[2] * w \in Nat
    <2>1. PICK k \in Nat : k = c[2] BY <1>1
    <2>2. (k + 1) * w = k * w + w /\ k * w \in Nat OBVIOUS
    <2> QED BY <2>1, <2>2
  <1>8. Bit[c[1] + 1] <= HEAP_END
    <2>1. c[1] + 1 \in 0 .. 30 /\ FL_COUNT \in 0 .. 30 BY <1>1, Params
    <2> QED BY <1>1, <2>1, Bits DEF HEAP_END
  <1>9. SL_COUNT * w \in Nat BY <1>2, Params
  <1>10. LowerBound(c) \in Nat /\ LowerBound(c) + w <= Bit[c[1] + 1] BY <1>4, <1>5, <1>6, <1>7, <1>9
  <1> QED BY <1>2, <1>3, <1>4, <1>5, <1>8, <1>10, Params

LEMMA Ordered ==
  ASSUME NEW c \in Class, NEW d \in Class
  PROVE  /\ ~Before(d, c) => LowerBound(c) + Width(c[1]) <= LowerBound(d)
         /\ Before(c, d) => LowerBound(c) <= LowerBound(d)
  <1>1. /\ c[1] \in LIN - 1 .. 29 /\ c[2] \in Nat /\ d[1] \in LIN - 1 .. 29 /\ d[2] \in Nat
        /\ c = <<c[1], c[2]>> /\ d = <<d[1], d[2]>>
    BY ClassIs
  <1>2. /\ LowerBound(c) \in Nat /\ Width(c[1]) \in Nat \ {0} /\ LowerBound(d) \in Nat
        /\ LowerBound(c) = Base(c[1]) + c[2] * Width(c[1])
        /\ LowerBound(d) = Base(d[1]) + d[2] * Width(d[1])
        /\ LowerBound(c) + Width(c[1]) <= Bit[c[1] + 1]
    BY Bounds
  <1>3. ASSUME ~Before(d, c) PROVE LowerBound(c) + Width(c[1]) <= LowerBound(d)
    <2>1. CASE c[1] = d[1]
      <3>1. c[2] + 1 <= d[2] BY <1>1, <1>3, <2>1 DEF Before
      <3>2. PICK w \in Nat : w = Width(c[1]) BY <1>2
      <3>3. PICK b \in Nat : b = Base(c[1]) BY <1>1, Widths
      <3>4. (c[2] + 1) * w <= d[2] * w BY <1>1, <3>1, <3>2, Products
      <3>5. (c[2] + 1) * w = c[2] * w + w /\ c[2] * w \in Nat /\ d[2] * w \in Nat BY <1>1, <3>2
      <3>6. LowerBound(c) = b + c[2] * w /\ LowerBound(d) = b + d[2] * w BY <1>2, <2>1, <3>2, <3>3
      <3> QED BY <3>2, <3>3, <3>4, <3>5, <3>6
    <2>2. CASE c[1] # d[1]
      <3>1. c[1] < d[1] BY <1>1, <1>3, <2>2, Params DEF Before
      <3>2. Base(d[1]) = Bit[d[1]] BY <1>1, <3>1, Params DEF Base
      <3>3. Bit[c[1] + 1] <= Bit[d[1]] /\ Bit[d[1]] \in Nat /\ Bit[c[1] + 1] \in Nat
        <4>1. c[1] + 1 \in 0 .. 30 /\ d[1] \in 0 .. 30 /\ c[1] + 1 <= d[1] BY <1>1, <3>1, Params
        <4> QED BY <4>1, Bits
      <3>4. d[2] * Width(d[1]) \in Nat BY <1>1, Widths
      <3> QED BY <1>2, <3>2, <3>3, <3>4
    <2> QED BY <2>1, <2>2
  <1>4. ASSUME Before(c, d) PROVE LowerBound(c) <= LowerBound(d)
    <2>1. CASE Before(d, c)
      <3>1. c = d BY <1>1, <1>4, <2>1, Params DEF Before
      <3> QED BY <1>2, <3>1
    <2>2. CASE ~Before(d, c) BY <1>2, <1>3, <2>2
    <2> QED BY <2>1, <2>2
  <1> QED BY <1>3, <1>4

(* map_down: the class a size lies in.                                     *)
LEMMA DownIs ==
  ASSUME NEW size \in Nat, size > 0, size < HEAP_END
  PROVE  LET c == map_down(size)
         IN  /\ c \in Class /\ c[1] = Octave(size)
             /\ LowerBound(c) <= size /\ size < LowerBound(c) + Width(c[1])
             /\ Excess(size) % Width(c[1]) = 0 <=> size = LowerBound(c)
  <1> DEFINE o == Octave(size)
  <1>1. /\ o \in LIN - 1 .. 29 /\ o < FL_COUNT /\ Base(o) <= size /\ size < Bit[o + 1]
    BY OctaveIs, Params
  <1>2. PICK w \in Nat : w = Width(o) /\ w > 0 BY <1>1, Widths
  <1>3. PICK b \in Nat : b = Base(o) BY <1>1, Widths
  <1>4. b + SL_COUNT * w = Bit[o + 1] BY <1>1, <1>2, <1>3, Widths
  <1>5. PICK e \in Nat : e = Excess(size) /\ e = size - b
    <2>1. Excess(size) = size - Base(o) BY DEF Excess, Base
    <2> QED BY <1>1, <1>3, <2>1
  <1>6. PICK q \in Nat : /\ q = e \div w /\ q * w <= e /\ e < (q + 1) * w
                         /\ e % w = 0 => q * w = e
                         /\ e % w # 0 => q * w < e
    <2>1. w \in Nat \ {0} BY <1>2
    <2> QED BY <2>1, Quotients
  <1>7. map_down(size) = <<o, q>> BY <1>2, <1>5, <1>6 DEF map_down
  <1> HIDE DEF o
  <1>8. q < SL_COUNT
    <2> SUFFICES ASSUME q >= SL_COUNT PROVE FALSE BY Params
    <2>1. SL_COUNT * w <= q * w BY Products, Params
    <2>2. SL_COUNT * w \in Nat /\ q * w \in Nat BY Params
    <2> QED BY <1>1, <1>3, <1>4, <1>5, <1>6, <2>1, <2>2
  <1>9. <<o, q>> \in Class BY <1>1, <1>8, ClassIs, Params
  <1>10. LowerBound(<<o, q>>) = b + q * w BY <1>2, <1>3 DEF LowerBound, Base
  <1>11. (q + 1) * w = q * w + w /\ q * w \in Nat OBVIOUS
  <1> HIDE DEF o
  <1>12. b + q * w <= size /\ size < b + q * w + w /\ (e % w = 0 <=> size = b + q * w)
    BY <1>1, <1>2, <1>3, <1>5, <1>6, <1>11
  <1>13. Excess(size) % Width(o) = e % w BY <1>2, <1>5
  <1>14. PICK c : c = <<o, q>> OBVIOUS
  <1>15. /\ c \in Class /\ c[1] = o /\ c = map_down(size) /\ Width(c[1]) = w
         /\ LowerBound(c) = b + q * w /\ Excess(size) % Width(c[1]) = e % w
    BY <1>2, <1>7, <1>9, <1>10, <1>13, <1>14
  <1>16. /\ c \in Class /\ c[1] = o
         /\ LowerBound(c) <= size /\ size < LowerBound(c) + Width(c[1])
         /\ Excess(size) % Width(c[1]) = 0 <=> size = LowerBound(c)
    BY <1>12, <1>15
  <1> QED BY <1>15, <1>16 DEF o

(* map_up: the first class all of whose blocks are long enough.            *)
LEMMA UpIs ==
  ASSUME NEW size \in Nat, size >= 8
  PROVE  /\ \A up \in map_up(size) :
               /\ up \in Class /\ LowerBound(up) >= size
               /\ \A c \in Class : LowerBound(c) >= size => Before(up, c)
         /\ map_up(size) = {} => \A c \in Class : LowerBound(c) < size
  <1> DEFINE First(up) == /\ up \in Class /\ LowerBound(up) >= size
                          /\ \A c \in Class : LowerBound(c) >= size => Before(up, c)
  <1>1. CASE size = 8
    <2> DEFINE up == <<LIN - 1, 2>>
    <2>1. map_up(size) = {up} BY <1>1, Params DEF map_up
    <2>2. up \in Class BY ClassIs, Params
    <2>3. LowerBound(up) = 8 /\ Width(up[1]) = 4 BY DEF LowerBound, Width
    <2>4. ASSUME NEW c \in Class, LowerBound(c) >= size, ~Before(up, c) PROVE FALSE
      <3>1. LowerBound(c) + Width(c[1]) <= 8 BY <2>2, <2>3, <2>4, Ordered
      <3> QED BY <1>1, <2>4, <3>1, Bounds
    <2>5. First(up) BY <1>1, <2>2, <2>3, <2>4
    <2> HIDE DEF up, First
    <2> QED BY <2>1, <2>5 DEF First
  <1>2. CASE size # 8 /\ size >= HEAP_END
    <2>1. Octave(size) \in Int /\ Octave(size) >= FL_COUNT BY <1>2, OctaveIs, Params
    <2>2. map_up(size) = {} BY <1>2, <2>1, Params DEF map_up, map_down
    <2>3. \A c \in Class : LowerBound(c) < size BY <1>2, Bounds, Params
    <2> QED BY <2>2, <2>3
  <1>3. CASE size # 8 /\ size < HEAP_END
    <2> DEFINE d == map_down(size)
    <2>1. /\ d \in Class /\ LowerBound(d) <= size /\ size < LowerBound(d) + Width(d[1])
          /\ Excess(size) % Width(d[1]) = 0 <=> size = LowerBound(d)
      BY <1>3, DownIs
    <2>2. /\ d = <<d[1], d[2]>> /\ d[1] \in LIN - 1 .. 29 /\ d[2] \in Nat /\ d[2] < SL_COUNT
          /\ d[1] < FL_COUNT
          /\ LowerBound(d) \in Nat /\ Width(d[1]) \in Nat
          /\ LowerBound(d) = Base(d[1]) + d[2] * Width(d[1])
          /\ LowerBound(d) + Width(d[1]) <= Bit[d[1] + 1]
      BY <2>1, ClassIs, Bounds
    <2> DEFINE up == IF Excess(size) % Width(d[1]) = 0 THEN d
                     ELSE IF d[2] + 1 < SL_COUNT THEN <<d[1], d[2] + 1>>
                     ELSE <<d[1] + 1, 0>>
    <2>3. map_up(size) = {c \in {up} : c[1] < FL_COUNT} BY <1>3, Params DEF map_up
    <2>4. CASE Excess(size) % Width(d[1]) = 0
      <3>1. up = d /\ LowerBound(d) = size BY <2>1, <2>4
      <3>2. ASSUME NEW c \in Class, LowerBound(c) >= size, ~Before(d, c) PROVE FALSE
        <4>1. LowerBound(c) + Width(c[1]) <= LowerBound(d) BY <2>1, <3>2, Ordered
        <4> QED BY <3>1, <3>2, <4>1, Bounds, <2>2
      <3>3. First(d) BY <2>1, <3>1, <3>2
      <3>4. map_up(size) = {d} BY <2>2, <2>3, <3>1
      <3> HIDE DEF First, d, up
      <3> QED BY <3>3, <3>4 DEF First
    <2>5. CASE Excess(size) % Width(d[1]) # 0
      <3>1. LowerBound(d) < size BY <2>1, <2>2, <2>5
      <3>2. ASSUME NEW c \in Class, LowerBound(c) >= size PROVE ~Before(c, d)
        <4>1. LowerBound(c) \in Nat /\ (Before(c, d) => LowerBound(c) <= LowerBound(d))
          BY <2>1, Bounds, Ordered
        <4> QED BY <2>2, <3>1, <3>2, <4>1
      <3>3. CASE d[2] + 1 < SL_COUNT
        <4> DEFINE u == <<d[1], d[2] + 1>>
        <4>1. up = u BY <2>5, <3>3
        <4>2. u \in Class BY <2>2, <3>3, ClassIs, Params
        <4>3. ~Before(u, d) BY <2>2 DEF Before
        <4>4. LowerBound(u) >= size
          <5>1. LowerBound(d) + Width(d[1]) <= LowerBound(u) BY <2>1, <4>2, <4>3, Ordered
          <5>2. LowerBound(u) \in Nat BY <4>2, Bounds
          <5> QED BY <2>1, <2>2, <5>1, <5>2
        <4>5. ASSUME NEW c \in Class, LowerBound(c) >= size PROVE Before(u, c)
          <5>1. ~Before(c, d) BY <3>2, <4>5
          <5>2. c[1] \in Int /\ c[2] \in Int /\ d[1] \in Int /\ d[2] \in Int BY <2>2, ClassIs, Params
          <5>3. u[1] = d[1] /\ u[2] = d[2] + 1 OBVIOUS
          <5> HIDE DEF u, up, d
          <5> QED BY <5>1, <5>2, <5>3 DEF Before
        <4>6. First(u) BY <4>2, <4>4, <4>5
        <4>7. map_up(size) = {u} BY <2>2, <2>3, <4>1
        <4> HIDE DEF First, d, up, u
        <4> QED BY <4>6, <4>7 DEF First
      <3>4. CASE d[2] + 1 >= SL_COUNT
        <4> DEFINE u == <<d[1] + 1, 0>>
        <4>1. up = u BY <2>2, <2>5, <3>4, Params
        <4>2. ASSUME NEW c \in Class, LowerBound(c) >= size PROVE c[1] >= d[1] + 1
          <5>1. ~Before(c, d) BY <3>2, <4>2
          <5>2. c[1] \in Int /\ c[2] \in Int /\ c[2] < SL_COUNT /\ d[1] \in Int /\ d[2] \in Int
            BY <2>2, ClassIs, Params
          <5> HIDE DEF u, up, d
          <5> QED BY <3>4, <5>1, <5>2, Params DEF Before
        <4>3. CASE d[1] + 1 < FL_COUNT
          <5>1. u \in Class
            <6>1. d[1] + 1 \in LIN - 1 .. FL_COUNT - 1 /\ 0 \in 0 .. SL_COUNT - 1
              BY <2>2, <4>3, Params
            <6> HIDE DEF d
            <6> QED BY <6>1, ClassIs
          <5>2. LowerBound(u) = Bit[d[1] + 1]
            <6>1. Base(d[1] + 1) = Bit[d[1] + 1] /\ Bit[d[1] + 1] \in Nat
              <7>1. d[1] + 1 \in 0 .. 30 /\ d[1] + 1 # LIN - 1
                <8>1. d[1] \in LIN - 1 .. 29 BY <2>2
                <8> HIDE DEF d
                <8> QED BY <8>1, Params
              <7> QED BY <7>1, Bits DEF Base
            <6>2. u[1] = d[1] + 1 /\ u[2] = 0 OBVIOUS
            <6> HIDE DEF u, d, up
            <6>3. LowerBound(u) = Base(d[1] + 1) + 0 * Width(d[1] + 1) BY <5>1, <6>2, Bounds
            <6>4. Width(d[1] + 1) \in Nat BY <5>1, <6>2, Bounds
            <6> QED BY <6>1, <6>3, <6>4
          <5>3. LowerBound(u) >= size
            <6>1. LowerBound(u) \in Nat BY <5>1, Bounds
            <6> QED BY <2>1, <2>2, <5>2, <6>1
          <5>4. ASSUME NEW c \in Class, LowerBound(c) >= size PROVE Before(u, c)
            <6>1. c[1] >= d[1] + 1 /\ c[1] \in Nat /\ c[2] \in Nat BY <4>2, <5>4, ClassIs, Params
            <6>2. u[1] = d[1] + 1 /\ u[2] = 0 /\ d[1] \in Int BY <2>2, Params
            <6> HIDE DEF u, up, d
            <6> QED BY <6>1, <6>2 DEF Before
          <5>5. First(u) BY <5>1, <5>3, <5>4
          <5>6. map_up(size) = {u} BY <2>3, <4>1, <4>3
          <5> HIDE DEF First, d, up, u
          <5> QED BY <5>5, <5>6 DEF First
        <4>4. CASE d[1] + 1 >= FL_COUNT
          <5>1. map_up(size) = {} BY <2>2, <2>3, <4>1, <4>4, Params
          <5>2. ASSUME NEW c \in Class PROVE LowerBound(c) < size
            <6>1. c[1] \in Nat /\ c[1] < FL_COUNT /\ LowerBound(c) \in Nat BY ClassIs, Bounds, Params
            <6> QED BY <2>2, <4>2, <4>4, <6>1, Params
          <5> QED BY <5>1, <5>2
        <4> QED BY <2>2, <4>3, <4>4, Params
      <3> QED BY <2>2, <3>3, <3>4, Params
    <2> QED BY <2>4, <2>5
  <1> QED BY <1>1, <1>2, <1>3, Params

-----------------------------------------------------------------------------
(* The free lists and their bitmaps                                        *)

Free(m) == {a \in DOMAIN m : m[a].free}
ClassOf(m) == [a \in Free(m) |-> map_down(m[a].size)]

(* What an address in a header or in tlsf_array may be.                    *)
Ref == Addr \cup {NULL}

(* The blocks F are linked, block a in the list of class cls[a]: each is   *)
(* the head of its list or the one its predecessor points to, and each     *)
(* points to nothing or to one that points back.  Following the links      *)
(* forward ends, since a rank goes down.  F and cls are parameters because *)
(* kMalloc and kFree change sizes and marks before and after the lists.    *)
Ranked(m, F, rank) == \A a \in F : m[a].next # NULL => rank[m[a].next] < rank[a]

Linked(h, F, cls) ==
    /\ F \subseteq DOMAIN h.mem
    /\ DOMAIN h.mem \subseteq Addr
    /\ h.array \in [Class -> Ref]
    /\ \A a \in F : cls[a] \in Class
    /\ \A c \in Class : h.array[c] # NULL =>
          h.array[c] \in F /\ cls[h.array[c]] = c /\ h.mem[h.array[c]].prev = NULL
    /\ \A a \in F : h.mem[a].prev = NULL => h.array[cls[a]] = a
    /\ \A a \in F : h.mem[a].prev # NULL =>
          /\ h.mem[a].prev \in F
          /\ cls[h.mem[a].prev] = cls[a]
          /\ h.mem[h.mem[a].prev].next = a
    /\ \A a \in F : h.mem[a].next # NULL =>
          h.mem[a].next \in F /\ h.mem[h.mem[a].next].prev = a
    /\ \E N \in Nat : \E rank \in [F -> 0 .. N] : Ranked(h.mem, F, rank)

Bitmaps(h) ==
    /\ h.f \subseteq Octaves
    /\ h.s \in [Octaves -> SUBSET SubBins]
    /\ \A o \in Octaves : /\ o \in h.f <=> h.s[o] # {}
                          /\ h.s[o] = {s \in SubBins : h.array[<<o, s>>] # NULL}

(* A set of blocks of one class that holds the head if there is one, and   *)
(* the successor of each of its members, is all of the class's list.       *)
LEMMA WholeList ==
  ASSUME NEW h, NEW F, NEW cls, Linked(h, F, cls), NEW c \in Class, NEW S,
         h.array[c] = NULL \/ h.array[c] \in S,
         \A a \in S \cap F : h.mem[a].next # NULL => h.mem[a].next \in S
  PROVE  \A a \in F : cls[a] = c => a \in S
  <1>1. PICK N \in Nat : \E rank \in [F -> 0 .. N] : Ranked(h.mem, F, rank) BY DEF Linked
  <1>2. PICK rank \in [F -> 0 .. N] : Ranked(h.mem, F, rank) BY <1>1
  <1> DEFINE Lost == {a \in F : cls[a] = c /\ a \notin S}
             T == {N - rank[a] : a \in Lost}
  <1> SUFFICES ASSUME Lost # {} PROVE FALSE OBVIOUS
  <1>3. T \subseteq Nat /\ T # {}
    <2>1. \A a \in Lost : N - rank[a] \in Nat
      <3> SUFFICES ASSUME NEW a \in Lost PROVE N - rank[a] \in Nat OBVIOUS
      <3>1. rank[a] \in 0 .. N BY <1>2
      <3> QED BY <3>1
    <2> QED BY <2>1
  <1>4. PICK m \in T : \A n \in T : m <= n
    <2> HIDE DEF T
    <2> QED BY <1>3, Least
  <1>5. PICK a \in Lost : m = N - rank[a] OBVIOUS
  <1>6. a \in F /\ cls[a] = c /\ a \notin S OBVIOUS
  <1>7. CASE h.mem[a].prev = NULL
    <2>1. h.array[c] = a BY <1>6, <1>7 DEF Linked
    <2>2. a # NULL BY <1>6, Params DEF Linked
    <2> QED BY <1>6, <2>1, <2>2
  <1>8. CASE h.mem[a].prev # NULL
    <2>1. PICK p : p = h.mem[a].prev OBVIOUS
    <2>2. p \in F /\ cls[p] = c /\ h.mem[p].next = a /\ a # NULL
      BY <1>6, <1>8, <2>1, Params DEF Linked
    <2>3. p \in Lost BY <1>6, <2>2
    <2>4. rank[a] < rank[p] BY <1>2, <2>2 DEF Ranked
    <2>5. N - rank[a] <= N - rank[p] BY <1>4, <1>5, <2>3
    <2>6. rank[a] \in 0 .. N /\ rank[p] \in 0 .. N BY <1>2, <1>6, <2>2
    <2> QED BY <2>4, <2>5, <2>6
  <1> QED BY <1>7, <1>8

(* A class that has a free block has a head.                               *)
LEMMA HeadOf ==
  ASSUME NEW h, NEW F, NEW cls, Linked(h, F, cls), NEW a \in F
  PROVE  h.array[cls[a]] # NULL
  <1> SUFFICES ASSUME h.array[cls[a]] = NULL PROVE FALSE OBVIOUS
  <1>1. cls[a] \in Class BY DEF Linked
  <1>2. a \in {} BY <1>1, WholeList
  <1> QED BY <1>2

(* A set of classes has a first one.                                       *)
LEMMA FirstClass ==
  ASSUME NEW U, U \subseteq Class, U # {}
  PROVE  \E c \in U : \A d \in U : Before(c, d)
  <1> DEFINE T == {LowerBound(c) : c \in U}
  <1>1. T \subseteq Nat /\ T # {}
    <2>1. \A c \in U : LowerBound(c) \in Nat BY Bounds
    <2> QED BY <2>1
  <1>2. PICK m \in T : \A n \in T : m <= n
    <2> HIDE DEF T
    <2> QED BY <1>1, Least
  <1>3. PICK c \in U : m = LowerBound(c) OBVIOUS
  <1>4. ASSUME NEW d \in U, ~Before(c, d) PROVE FALSE
    <2>1. LowerBound(d) + Width(d[1]) <= LowerBound(c) BY <1>4, Ordered
    <2>2. LowerBound(d) \in Nat /\ LowerBound(c) \in Nat /\ Width(d[1]) \in Nat \ {0} BY Bounds
    <2>3. LowerBound(c) <= LowerBound(d) BY <1>2, <1>3
    <2> QED BY <2>1, <2>2, <2>3
  <1> QED BY <1>4

(* What the search of the bitmaps finds: a free block that is long enough, *)
(* or no block of the first class that would do, nor of any after it.      *)
LEMMA GetFreeIs ==
  ASSUME NEW size \in Nat, size = 0 \/ size >= 8,
         DOMAIN mem \subseteq Addr, \A b \in DOMAIN mem : mem[b] \in Block,
         Linked(Heap, Free(mem), ClassOf(mem)), Bitmaps(Heap)
  PROVE  /\ get_free(size) # NULL =>
              get_free(size) \in Free(mem) /\ mem[get_free(size)].size >= size /\ size # 0
         /\ get_free(size) = NULL =>
              size = 0 \/ \A b \in Free(mem), r \in RoundedUp(size) : mem[b].size < r
  <1> DEFINE usable == {c \in Class : /\ size # 0
                                      /\ \E up \in map_up(size) : Before(up, c)
                                      /\ c[1] \in fBitmap /\ c[2] \in sBitmap[c[1]]}
             first == CHOOSE c \in usable : \A d \in usable : Before(c, d)
             F == Free(mem)
             cls == ClassOf(mem)
  <1>1. get_free(size) = IF usable = {} THEN NULL ELSE tlsf_array[first] BY DEF get_free
  <1>2. \A c \in Class : c[1] \in fBitmap /\ c[2] \in sBitmap[c[1]] <=> tlsf_array[c] # NULL
    <2> SUFFICES ASSUME NEW c \in Class
                 PROVE  c[1] \in fBitmap /\ c[2] \in sBitmap[c[1]] <=> tlsf_array[c] # NULL
      OBVIOUS
    <2>1. c[1] \in Octaves /\ c[2] \in SubBins /\ c = <<c[1], c[2]>> BY DEF Class
    <2>2. /\ c[1] \in fBitmap <=> sBitmap[c[1]] # {}
          /\ sBitmap[c[1]] = {s \in SubBins : tlsf_array[<<c[1], s>>] # NULL}
      BY <2>1 DEF Bitmaps, Heap
    <2> QED BY <2>1, <2>2
  <1>3. \A b \in F : /\ mem[b].size \in Nat /\ mem[b].size < HEAP_END /\ mem[b].size > 0
                     /\ cls[b] = map_down(mem[b].size)
    <2> SUFFICES ASSUME NEW b \in F
                 PROVE  /\ mem[b].size \in Nat /\ mem[b].size < HEAP_END /\ mem[b].size > 0
                        /\ cls[b] = map_down(mem[b].size)
      OBVIOUS
    <2>1. mem[b] \in Block BY DEF Free
    <2>2. mem[b].size \in MIN_PAYLOAD .. INITIAL_FREE BY <2>1 DEF Block
    <2> QED BY <2>2, Params DEF ClassOf
  <1>4. CASE usable # {}
    <2>1. first \in usable
      <3>1. usable \subseteq Class OBVIOUS
      <3> HIDE DEF usable
      <3>2. \E c \in usable : \A d \in usable : Before(c, d) BY <1>4, <3>1, FirstClass
      <3> QED BY <3>2
    <2>2. PICK c \in Class : c = first BY <2>1
    <2>3. size # 0 /\ tlsf_array[c] # NULL /\ \E up \in map_up(size) : Before(up, c)
      BY <1>2, <2>1, <2>2
    <2>4. PICK up \in map_up(size) : Before(up, c) BY <2>3
    <2>5. up \in Class /\ LowerBound(up) >= size BY <2>3, UpIs
    <2>6. LowerBound(up) <= LowerBound(c) BY <2>4, <2>5, Ordered
    <2>7. PICK b : b = tlsf_array[c] OBVIOUS
    <2>8. b \in F /\ cls[b] = c BY <2>3, <2>7 DEF Linked, Heap
    <2>9. LowerBound(c) <= mem[b].size BY <1>3, <2>8, DownIs
    <2>10. LowerBound(c) \in Nat /\ LowerBound(up) \in Nat BY <2>5, Bounds
    <2>11. get_free(size) = b BY <1>1, <1>4, <2>2, <2>7
    <2>12. mem[b].size >= size BY <1>3, <2>5, <2>6, <2>8, <2>9, <2>10
    <2>13. b # NULL BY <2>3, <2>7
    <2> QED BY <2>3, <2>8, <2>11, <2>12, <2>13
  <1>5. CASE usable = {}
    <2>1. get_free(size) = NULL BY <1>1, <1>5
    <2>2. ASSUME size # 0, NEW b \in F, NEW r \in RoundedUp(size) PROVE mem[b].size < r
      <3>1. PICK e \in Class : r = LowerBound(e) /\ r >= size BY DEF RoundedUp
      <3>2. r \in Nat BY <3>1, Bounds
      <3> SUFFICES ASSUME r <= mem[b].size PROVE FALSE BY <1>3, <3>2
      <3>3. map_up(size) # {} BY <2>2, <3>1, <3>2, UpIs
      <3>4. PICK up \in map_up(size) : TRUE BY <3>3
      <3>5. up \in Class /\ Before(up, e) BY <2>2, <3>1, <3>4, UpIs
      <3>6. LowerBound(up) <= r BY <3>1, <3>5, Ordered
      <3>7. PICK d : d = map_down(mem[b].size) OBVIOUS
      <3>8. d \in Class /\ mem[b].size < LowerBound(d) + Width(d[1]) BY <1>3, <3>7, DownIs
      <3>9. Before(up, d)
        <4>1. LowerBound(up) \in Nat /\ LowerBound(d) \in Nat /\ Width(d[1]) \in Nat
          BY <3>5, <3>8, Bounds
        <4>2. ~Before(up, d) => LowerBound(d) + Width(d[1]) <= LowerBound(up)
          BY <3>5, <3>8, Ordered
        <4> QED BY <1>3, <3>2, <3>6, <3>8, <4>1, <4>2
      <3>10. tlsf_array[d] # NULL
        <4>1. Heap.array[cls[b]] # NULL BY HeadOf
        <4> QED BY <1>3, <3>7, <4>1 DEF Heap
      <3>11. d \in usable BY <1>2, <2>2, <3>8, <3>9, <3>10
      <3> QED BY <1>5, <3>11
    <2> QED BY <2>1, <2>2
  <1> QED BY <1>4, <1>5

(* A heap whose headers are well formed and whose free lists and bitmaps   *)
(* are in order, the blocks F being the ones that are linked.              *)
Headers(m) == DOMAIN m \subseteq Addr /\ \A a \in DOMAIN m : m[a] \in Block
Sound(h, F, cls) == Headers(h.mem) /\ Linked(h, F, cls) /\ Bitmaps(h)

(* Two memories with the same blocks, whatever their links.                *)
SameBlocks(m, n) == /\ DOMAIN m = DOMAIN n
                    /\ \A b \in DOMAIN n : /\ m[b].prev_phys = n[b].prev_phys
                                           /\ m[b].size = n[b].size
                                           /\ m[b].free = n[b].free

(* What Unlink does to the headers.                                        *)
LEMMA UnlinkMem ==
  ASSUME NEW h, Headers(h.mem), NEW a \in DOMAIN h.mem, NEW class
  PROVE  LET k == Unlink(h, a, class)
         IN  /\ Headers(k.mem) /\ SameBlocks(k.mem, h.mem)
             /\ \A b \in DOMAIN h.mem :
                  /\ k.mem[b].next = IF b = h.mem[a].prev THEN h.mem[a].next ELSE h.mem[b].next
                  /\ k.mem[b].prev = IF b = h.mem[a].next THEN h.mem[a].prev ELSE h.mem[b].prev
  <1> DEFINE k == Unlink(h, a, class)
             prev == h.mem[a].prev
             next == h.mem[a].next
  <1>1. k.mem = [b \in DOMAIN h.mem |->
                    [h.mem[b] EXCEPT !.next = IF b = prev THEN next ELSE @,
                                     !.prev = IF b = next THEN prev ELSE @]]
    BY DEF Unlink
  <1> HIDE DEF k
  <1>2. prev \in Ref /\ next \in Ref
    <2>1. h.mem[a] \in Block BY DEF Headers
    <2> QED BY <2>1 DEF Block, Ref
  <1> HIDE DEF prev, next
  <1>3. ASSUME NEW b \in DOMAIN h.mem
        PROVE  /\ k.mem[b] \in Block
               /\ k.mem[b].prev_phys = h.mem[b].prev_phys /\ k.mem[b].size = h.mem[b].size
               /\ k.mem[b].free = h.mem[b].free
               /\ k.mem[b].next = IF b = prev THEN next ELSE h.mem[b].next
               /\ k.mem[b].prev = IF b = next THEN prev ELSE h.mem[b].prev
    <2>1. h.mem[b] \in Block BY DEF Headers
    <2>2. k.mem[b] = [h.mem[b] EXCEPT !.next = IF b = prev THEN next ELSE @,
                                      !.prev = IF b = next THEN prev ELSE @]
      BY <1>1
    <2> QED BY <1>2, <2>1, <2>2 DEF Block, Ref
  <1>4. DOMAIN k.mem = DOMAIN h.mem BY <1>1
  <1>5. Headers(k.mem) BY <1>3, <1>4 DEF Headers
  <1>6. SameBlocks(k.mem, h.mem) BY <1>3, <1>4 DEF SameBlocks
  <1> QED BY <1>3, <1>5, <1>6 DEF k, prev, next

(* The bitmaps after a change of one class's head.                         *)
NewHead(h, k, c, head) ==
    /\ h.array \in [Class -> Ref]
    /\ k.array = [h.array EXCEPT ![c] = head]
    /\ k.s = [h.s EXCEPT ![c[1]] = IF head = NULL THEN @ \ {c[2]} ELSE @ \cup {c[2]}]
    /\ k.f = IF k.s[c[1]] = {} THEN h.f \ {c[1]} ELSE h.f \cup {c[1]}

LEMMA BitsAfter ==
  ASSUME NEW h, NEW k, Bitmaps(h), NEW c \in Class, NEW head, NewHead(h, k, c, head)
  PROVE  Bitmaps(k)
  <1> USE DEF NewHead
  <1>1. c[1] \in Octaves /\ c[2] \in SubBins /\ c = <<c[1], c[2]>> BY DEF Class
  <1>2. k.s \in [Octaves -> SUBSET SubBins]
    <2>1. h.s \in [Octaves -> SUBSET SubBins] BY DEF Bitmaps
    <2>2. \A t \in SUBSET SubBins : /\ t \ {c[2]} \in SUBSET SubBins
                                    /\ t \cup {c[2]} \in SUBSET SubBins
      BY <1>1
    <2> QED BY <1>1, <2>1, <2>2
  <1>3. k.f \subseteq Octaves BY <1>1 DEF Bitmaps
  <1>4. ASSUME NEW o \in Octaves
        PROVE  /\ o \in k.f <=> k.s[o] # {}
               /\ k.s[o] = {s \in SubBins : k.array[<<o, s>>] # NULL}
    <2>1. /\ o \in h.f <=> h.s[o] # {}
          /\ h.s[o] = {s \in SubBins : h.array[<<o, s>>] # NULL}
      BY DEF Bitmaps
    <2>2. CASE o # c[1]
      <3>1. k.s[o] = h.s[o] BY <2>2 DEF Bitmaps
      <3>2. \A s \in SubBins : k.array[<<o, s>>] = h.array[<<o, s>>]
        <4>1. \A s \in SubBins : <<o, s>> \in Class /\ <<o, s>> # c BY <2>2 DEF Class
        <4> QED BY <4>1
      <3>3. o \in k.f <=> o \in h.f BY <2>2
      <3> QED BY <2>1, <3>1, <3>2, <3>3, ZenonT(80)
    <2>3. CASE o = c[1]
      <3>1. k.s[o] = IF head = NULL THEN h.s[o] \ {c[2]} ELSE h.s[o] \cup {c[2]}
        BY <2>3 DEF Bitmaps
      <3>2. \A s \in SubBins : k.array[<<o, s>>] = IF s = c[2] THEN head ELSE h.array[<<o, s>>]
        <4>1. \A s \in SubBins : <<o, s>> \in Class /\ (<<o, s>> = c <=> s = c[2])
          BY <1>1, <2>3 DEF Class
        <4> QED BY <4>1
      <3>3. k.s[o] = {s \in SubBins : k.array[<<o, s>>] # NULL} BY <1>1, <2>1, <3>1, <3>2
      <3>4. o \in k.f <=> k.s[o] # {} BY <2>3
      <3> QED BY <3>3, <3>4
    <2> QED BY <2>2, <2>3
  <1> QED BY <1>2, <1>3, <1>4 DEF Bitmaps

(* Unlink takes one block out of its list and keeps everything in order.   *)
LEMMA UnlinkIs ==
  ASSUME NEW h, NEW F, NEW cls, Sound(h, F, cls), NEW a \in F
  PROVE  LET k == Unlink(h, a, cls[a])
         IN  Sound(k, F \ {a}, cls) /\ SameBlocks(k.mem, h.mem)
  <1> DEFINE k == Unlink(h, a, cls[a])
             c == cls[a]
             p == h.mem[a].prev
             n == h.mem[a].next
             G == F \ {a}
  <1>1. /\ Headers(k.mem) /\ SameBlocks(k.mem, h.mem) /\ DOMAIN k.mem = DOMAIN h.mem
        /\ \A b \in DOMAIN h.mem : /\ k.mem[b].next = IF b = p THEN n ELSE h.mem[b].next
                                   /\ k.mem[b].prev = IF b = n THEN p ELSE h.mem[b].prev
    BY UnlinkMem DEF Sound, Linked, SameBlocks
  <1>2. k.array = IF p = NULL THEN [h.array EXCEPT ![c] = n] ELSE h.array
    BY DEF Unlink
  <1>3. /\ k.s = IF k.array[c] = NULL THEN [h.s EXCEPT ![c[1]] = @ \ {c[2]}] ELSE h.s
        /\ k.f = IF k.s[c[1]] = {} THEN h.f \ {c[1]} ELSE h.f
    BY DEF Unlink
  <1>4. c \in Class /\ c[1] \in Octaves /\ c[2] \in SubBins /\ c = <<c[1], c[2]>>
    BY DEF Sound, Linked, Class
  <1>5. h.array \in [Class -> Ref] /\ h.array[c] # NULL
    <2>1. Linked(h, F, cls) BY DEF Sound
    <2>2. h.array[c] # NULL BY <2>1, HeadOf
    <2> QED BY <2>1, <2>2 DEF Linked
  <1>6. /\ F \subseteq DOMAIN h.mem /\ DOMAIN h.mem \subseteq Addr /\ NULL \notin F
        /\ \A b \in F : cls[b] \in Class
        /\ \A d \in Class : h.array[d] # NULL =>
              h.array[d] \in F /\ cls[h.array[d]] = d /\ h.mem[h.array[d]].prev = NULL
        /\ \A b \in F : h.mem[b].prev = NULL => h.array[cls[b]] = b
        /\ \A b \in F : h.mem[b].prev # NULL =>
              /\ h.mem[b].prev \in F
              /\ cls[h.mem[b].prev] = cls[b]
              /\ h.mem[h.mem[b].prev].next = b
        /\ \A b \in F : h.mem[b].next # NULL =>
              h.mem[b].next \in F /\ h.mem[h.mem[b].next].prev = b
    BY Params DEF Sound, Linked
  <1>7. PICK N \in Nat : \E rank \in [F -> 0 .. N] : Ranked(h.mem, F, rank) BY DEF Sound, Linked
  <1>8. PICK rank \in [F -> 0 .. N] : Ranked(h.mem, F, rank) BY <1>7
  <1>9. p # a /\ n # a /\ (p # NULL => rank[a] < rank[p]) /\ (n # NULL => rank[n] < rank[a])
    <2>1. p # NULL => p \in F /\ rank[a] < rank[p] /\ rank[p] \in Int
      BY <1>6, <1>8 DEF Ranked
    <2>2. n # NULL => n \in F /\ rank[n] < rank[a] /\ rank[n] \in Int
      BY <1>6, <1>8 DEF Ranked
    <2> QED BY <1>6, <2>1, <2>2
  <1>10. \A d \in Class : k.array[d] = IF p = NULL /\ d = c THEN n ELSE h.array[d]
    BY <1>2, <1>4, <1>5
  <1>11. n \in Ref
    <2>1. h.mem[a] \in Block BY DEF Sound, Headers, Linked
    <2> QED BY <2>1 DEF Block, Ref
  <1>12. k.array \in [Class -> Ref] BY <1>2, <1>5, <1>11
  <1>13. Bitmaps(k)
    <2> DEFINE head == k.array[c]
    <2>1. k.array = [h.array EXCEPT ![c] = head] BY <1>2, <1>4, <1>5
    <2>2. c[1] \in h.f /\ c[2] \in h.s[c[1]] BY <1>4, <1>5, ZenonT(80) DEF Sound, Bitmaps
    <2>3. h.s \in [Octaves -> SUBSET SubBins] BY DEF Sound, Bitmaps
    <2>4. k.s = [h.s EXCEPT ![c[1]] = IF head = NULL THEN @ \ {c[2]} ELSE @ \cup {c[2]}]
      <3>1. CASE head = NULL BY <1>3, <3>1
      <3>2. CASE head # NULL
        <4>1. k.s = h.s /\ h.s[c[1]] \cup {c[2]} = h.s[c[1]] BY <1>3, <2>2, <3>2
        <4> QED BY <1>4, <2>3, <3>2, <4>1
      <3> QED BY <3>1, <3>2
    <2>5. k.f = IF k.s[c[1]] = {} THEN h.f \ {c[1]} ELSE h.f \cup {c[1]}
      <3>1. h.f \cup {c[1]} = h.f BY <2>2
      <3> QED BY <1>3, <3>1
    <2>6. Bitmaps(h) BY DEF Sound
    <2>7. NewHead(h, k, c, head) BY <1>5, <2>1, <2>4, <2>5 DEF NewHead
    <2> HIDE DEF k, c, head
    <2> QED BY <1>4, <2>6, <2>7, BitsAfter
  <1> HIDE DEF k, c, p, n
  <1>14. \A d \in Class : k.array[d] # NULL =>
            k.array[d] \in G /\ cls[k.array[d]] = d /\ k.mem[k.array[d]].prev = NULL
    <2> SUFFICES ASSUME NEW d \in Class, k.array[d] # NULL
                 PROVE  k.array[d] \in G /\ cls[k.array[d]] = d /\ k.mem[k.array[d]].prev = NULL
      OBVIOUS
    <2>1. CASE p = NULL /\ d = c BY <1>1, <1>6, <1>9, <1>10, <2>1 DEF c, p, n
    <2>2. CASE ~(p = NULL /\ d = c)
      <3>1. PICK x : x = h.array[d] OBVIOUS
      <3>2. x \in F /\ cls[x] = d /\ h.mem[x].prev = NULL /\ k.array[d] = x
        BY <1>6, <1>10, <2>2, <3>1
      <3>3. x # a BY <2>2, <3>2 DEF c, p
      <3>4. x # n BY <1>6, <3>2 DEF n
      <3>5. k.mem[x].prev = NULL BY <1>1, <1>6, <3>2, <3>4
      <3> QED BY <3>2, <3>3, <3>5
    <2> QED BY <2>1, <2>2
  <1>15. \A b \in G : k.mem[b].prev = NULL => k.array[cls[b]] = b
    <2> SUFFICES ASSUME NEW b \in G, k.mem[b].prev = NULL PROVE k.array[cls[b]] = b OBVIOUS
    <2>1. b \in F /\ b # a /\ cls[b] \in Class BY <1>6
    <2>2. CASE b = n BY <1>1, <1>6, <1>10, <2>1, <2>2 DEF c, n, p
    <2>3. CASE b # n
      <3>1. h.mem[b].prev = NULL /\ h.array[cls[b]] = b BY <1>1, <1>6, <2>1, <2>3
      <3>2. ~(p = NULL /\ cls[b] = c) BY <1>6, <2>1, <3>1 DEF c, p
      <3> QED BY <1>10, <2>1, <3>1, <3>2
    <2> QED BY <2>2, <2>3
  <1>16. \A b \in G : k.mem[b].prev # NULL =>
            /\ k.mem[b].prev \in G
            /\ cls[k.mem[b].prev] = cls[b]
            /\ k.mem[k.mem[b].prev].next = b
    <2> SUFFICES ASSUME NEW b \in G, k.mem[b].prev # NULL
                 PROVE  /\ k.mem[b].prev \in G
                        /\ cls[k.mem[b].prev] = cls[b]
                        /\ k.mem[k.mem[b].prev].next = b
      OBVIOUS
    <2>1. b \in F /\ b # a BY <1>6
    <2>2. CASE b = n
      <3>1. k.mem[b].prev = p /\ p \in F /\ p # a BY <1>1, <1>6, <1>9, <2>1, <2>2 DEF p
      <3>2. cls[p] = c /\ cls[b] = c BY <1>6, <2>1, <2>2, <3>1 DEF c, p, n
      <3>3. k.mem[p].next = b BY <1>1, <1>6, <2>2, <3>1
      <3> QED BY <3>1, <3>2, <3>3
    <2>3. CASE b # n
      <3>1. PICK x : x = h.mem[b].prev OBVIOUS
      <3>2. k.mem[b].prev = x /\ x \in F /\ cls[x] = cls[b] /\ h.mem[x].next = b
        BY <1>1, <1>6, <2>1, <2>3, <3>1
      <3>3. x # a BY <2>3, <3>2 DEF n
      <3>4. x # p BY <1>6, <2>1, <3>2 DEF p
      <3>5. k.mem[x].next = b BY <1>1, <1>6, <3>2, <3>4
      <3> QED BY <3>2, <3>3, <3>5
    <2> QED BY <2>2, <2>3
  <1>17. \A b \in G : k.mem[b].next # NULL =>
            k.mem[b].next \in G /\ k.mem[k.mem[b].next].prev = b
    <2> SUFFICES ASSUME NEW b \in G, k.mem[b].next # NULL
                 PROVE  k.mem[b].next \in G /\ k.mem[k.mem[b].next].prev = b
      OBVIOUS
    <2>1. b \in F /\ b # a BY <1>6
    <2>2. CASE b = p
      <3>1. k.mem[b].next = n /\ n \in F /\ n # a BY <1>1, <1>6, <1>9, <2>1, <2>2 DEF n
      <3> QED BY <1>1, <1>6, <2>2, <3>1
    <2>3. CASE b # p
      <3>1. PICK x : x = h.mem[b].next OBVIOUS
      <3>2. k.mem[b].next = x /\ x \in F /\ h.mem[x].prev = b BY <1>1, <1>6, <2>1, <2>3, <3>1
      <3>3. x # a BY <2>3, <3>2 DEF p
      <3>4. x # n BY <1>6, <2>1, <3>2 DEF n
      <3> QED BY <1>1, <1>6, <3>2, <3>3, <3>4
    <2> QED BY <2>2, <2>3
  <1>18. \E M \in Nat : \E r \in [G -> 0 .. M] : Ranked(k.mem, G, r)
    <2> DEFINE r == [b \in G |-> rank[b]]
    <2>1. r \in [G -> 0 .. N] BY <1>8
    <2>2. ASSUME NEW b \in G, k.mem[b].next # NULL PROVE r[k.mem[b].next] < r[b]
      <3>1. b \in F /\ b # a /\ k.mem[b].next \in G BY <1>17, <2>2
      <3>2. r[b] = rank[b] /\ r[k.mem[b].next] = rank[k.mem[b].next] BY <3>1
      <3>3. CASE b = p
        <4>1. k.mem[b].next = n /\ n \in F /\ p \in F BY <1>1, <1>6, <2>2, <3>1, <3>3 DEF n
        <4>2. rank[n] < rank[a] /\ rank[a] < rank[p] BY <1>6, <1>9, <4>1
        <4>3. rank[n] \in Int /\ rank[a] \in Int /\ rank[p] \in Int BY <1>8, <4>1
        <4> HIDE DEF r
        <4> QED BY <3>2, <3>3, <4>1, <4>2, <4>3
      <3>4. CASE b # p BY <1>1, <1>6, <1>8, <2>2, <3>1, <3>2, <3>4 DEF Ranked
      <3> QED BY <3>3, <3>4
    <2>3. Ranked(k.mem, G, r) BY <2>2 DEF Ranked
    <2> HIDE DEF r
    <2> QED BY <2>1, <2>3
  <1>19. Linked(k, G, cls)
    <2>1. G \subseteq DOMAIN k.mem /\ DOMAIN k.mem \subseteq Addr BY <1>1, <1>6
    <2>2. \A b \in G : cls[b] \in Class BY <1>6
    <2> HIDE DEF G
    <2> QED BY <1>12, <1>14, <1>15, <1>16, <1>17, <1>18, <2>1, <2>2 DEF Linked
  <1> QED BY <1>1, <1>13, <1>19 DEF Sound, k, c

(* What Push does to the headers.                                          *)
LEMMA PushMem ==
  ASSUME NEW h, Headers(h.mem), h.array \in [Class -> Ref], NEW a \in DOMAIN h.mem
  PROVE  LET k == Push(h, a)
             head == h.array[map_down(h.mem[a].size)]
         IN  /\ map_down(h.mem[a].size) \in Class
             /\ Headers(k.mem) /\ SameBlocks(k.mem, h.mem)
             /\ \A b \in DOMAIN h.mem :
                  /\ k.mem[b].next = IF b = a THEN head ELSE h.mem[b].next
                  /\ k.mem[b].prev = IF b = a THEN NULL
                                     ELSE IF b = head THEN a ELSE h.mem[b].prev
  <1> DEFINE k == Push(h, a)
             class == map_down(h.mem[a].size)
             head == h.array[class]
  <1>1. class \in Class
    <2>1. h.mem[a] \in Block BY DEF Headers
    <2>2. h.mem[a].size \in MIN_PAYLOAD .. INITIAL_FREE BY <2>1 DEF Block
    <2>3. h.mem[a].size \in Nat /\ h.mem[a].size > 0 /\ h.mem[a].size < HEAP_END BY <2>2, Params
    <2> QED BY <2>3, DownIs
  <1>2. k.mem = [b \in DOMAIN h.mem |->
                    IF b = a THEN [h.mem[a] EXCEPT !.prev = NULL, !.next = head]
                    ELSE [h.mem[b] EXCEPT !.prev = IF b = head THEN a ELSE @]]
    BY DEF Push
  <1> HIDE DEF k
  <1>3. head \in Ref /\ a \in Ref /\ NULL \in Ref BY <1>1 DEF Headers, Ref
  <1> HIDE DEF head
  <1>4. ASSUME NEW b \in DOMAIN h.mem
        PROVE  /\ k.mem[b] \in Block
               /\ k.mem[b].prev_phys = h.mem[b].prev_phys /\ k.mem[b].size = h.mem[b].size
               /\ k.mem[b].free = h.mem[b].free
               /\ k.mem[b].next = IF b = a THEN head ELSE h.mem[b].next
               /\ k.mem[b].prev = IF b = a THEN NULL ELSE IF b = head THEN a ELSE h.mem[b].prev
    <2>1. h.mem[b] \in Block BY DEF Headers
    <2>2. k.mem[b] = IF b = a THEN [h.mem[b] EXCEPT !.prev = NULL, !.next = head]
                     ELSE [h.mem[b] EXCEPT !.prev = IF b = head THEN a ELSE @]
      BY <1>2
    <2>3. CASE b = a BY <1>3, <2>1, <2>2, <2>3, ZenonT(60) DEF Block, Ref
    <2>4. CASE b # a BY <1>3, <2>1, <2>2, <2>4 DEF Block, Ref
    <2> QED BY <2>3, <2>4
  <1>5. DOMAIN k.mem = DOMAIN h.mem BY <1>2
  <1>6. Headers(k.mem) BY <1>4, <1>5 DEF Headers
  <1>7. SameBlocks(k.mem, h.mem) BY <1>4, <1>5 DEF SameBlocks
  <1> QED BY <1>1, <1>4, <1>6, <1>7 DEF k, head

(* Push links one block more and keeps everything in order.                *)
LEMMA PushIs ==
  ASSUME NEW h, NEW F, NEW cls, Sound(h, F, cls), NEW a \in DOMAIN h.mem, a \notin F,
         NEW cls2, cls2[a] = map_down(h.mem[a].size), \A b \in F : cls2[b] = cls[b]
  PROVE  LET k == Push(h, a)
         IN  Sound(k, F \cup {a}, cls2) /\ SameBlocks(k.mem, h.mem)
  <1> DEFINE k == Push(h, a)
             c == map_down(h.mem[a].size)
             head == h.array[c]
             G == F \cup {a}
  <1>1. /\ c \in Class
        /\ Headers(k.mem) /\ SameBlocks(k.mem, h.mem) /\ DOMAIN k.mem = DOMAIN h.mem
        /\ \A b \in DOMAIN h.mem :
             /\ k.mem[b].next = IF b = a THEN head ELSE h.mem[b].next
             /\ k.mem[b].prev = IF b = a THEN NULL ELSE IF b = head THEN a ELSE h.mem[b].prev
    BY PushMem DEF Sound, Linked, SameBlocks
  <1>2. k.array = [h.array EXCEPT ![c] = a] /\ k.f = h.f \cup {c[1]}
        /\ k.s = [h.s EXCEPT ![c[1]] = @ \cup {c[2]}]
    BY DEF Push
  <1>3. h.array \in [Class -> Ref] BY DEF Sound, Linked
  <1>4. /\ F \subseteq DOMAIN h.mem /\ DOMAIN h.mem \subseteq Addr /\ NULL \notin F /\ a # NULL
        /\ \A b \in F : cls2[b] \in Class /\ cls2[b] = cls[b]
        /\ \A d \in Class : h.array[d] # NULL =>
              h.array[d] \in F /\ cls[h.array[d]] = d /\ h.mem[h.array[d]].prev = NULL
        /\ \A b \in F : h.mem[b].prev = NULL => h.array[cls[b]] = b
        /\ \A b \in F : h.mem[b].prev # NULL =>
              /\ h.mem[b].prev \in F
              /\ cls[h.mem[b].prev] = cls[b]
              /\ h.mem[h.mem[b].prev].next = b
        /\ \A b \in F : h.mem[b].next # NULL =>
              h.mem[b].next \in F /\ h.mem[h.mem[b].next].prev = b
    BY Params DEF Sound, Linked
  <1>5. PICK N \in Nat : \E rank \in [F -> 0 .. N] : Ranked(h.mem, F, rank) BY DEF Sound, Linked
  <1>6. PICK rank \in [F -> 0 .. N] : Ranked(h.mem, F, rank) BY <1>5, SMTT(40)
  <1>7. \A d \in Class : k.array[d] = IF d = c THEN a ELSE h.array[d] BY <1>1, <1>2, <1>3
  <1>8. k.array \in [Class -> Ref]
    <2>1. a \in Ref BY <1>4 DEF Ref
    <2> QED BY <1>2, <1>3, <2>1
  <1>9. Bitmaps(k)
    <2> HIDE DEF k, c
    <2>1. k.s = [h.s EXCEPT ![c[1]] = IF a = NULL THEN @ \ {c[2]} ELSE @ \cup {c[2]}]
      BY <1>2, <1>4
    <2>2. k.f = IF k.s[c[1]] = {} THEN h.f \ {c[1]} ELSE h.f \cup {c[1]}
      <3>1. c[1] \in Octaves BY <1>1 DEF Class
      <3>2. h.s \in [Octaves -> SUBSET SubBins] BY DEF Sound, Bitmaps
      <3>3. k.s[c[1]] # {} BY <1>2, <3>1, <3>2
      <3> QED BY <1>2, <3>3
    <2>3. Bitmaps(h) BY DEF Sound
    <2>4. NewHead(h, k, c, a) BY <1>2, <1>3, <2>1, <2>2, Zenon DEF NewHead
    <2> QED BY <1>1, <2>3, <2>4, BitsAfter
  <1>10. cls2[a] = c OBVIOUS
  <1> HIDE DEF k, c
  <1>11. head # NULL => head \in F /\ cls[head] = c /\ h.mem[head].prev = NULL /\ head # a
    BY <1>1, <1>4
  <1> HIDE DEF head
  <1>12. \A d \in Class : k.array[d] # NULL =>
            k.array[d] \in G /\ cls2[k.array[d]] = d /\ k.mem[k.array[d]].prev = NULL
    <2> SUFFICES ASSUME NEW d \in Class, k.array[d] # NULL
                 PROVE  k.array[d] \in G /\ cls2[k.array[d]] = d /\ k.mem[k.array[d]].prev = NULL
      OBVIOUS
    <2>1. CASE d = c BY <1>1, <1>7, <1>10, <2>1
    <2>2. CASE d # c
      <3>1. PICK x : x = h.array[d] OBVIOUS
      <3>2. x \in F /\ cls[x] = d /\ h.mem[x].prev = NULL /\ k.array[d] = x
        BY <1>4, <1>7, <2>2, <3>1
      <3>3. x # head BY <1>4, <1>11, <2>2, <3>2
      <3>4. x # a /\ cls2[x] = d BY <1>4, <3>2
      <3>5. k.mem[x].prev = NULL BY <1>1, <1>4, <3>2, <3>3, <3>4
      <3> QED BY <3>2, <3>4, <3>5
    <2> QED BY <2>1, <2>2
  <1>13. \A b \in G : k.mem[b].prev = NULL => k.array[cls2[b]] = b
    <2> SUFFICES ASSUME NEW b \in G, k.mem[b].prev = NULL PROVE k.array[cls2[b]] = b OBVIOUS
    <2>1. CASE b = a BY <1>1, <1>7, <1>10, <2>1
    <2>2. CASE b # a
      <3>1. b \in F /\ b # head BY <1>1, <1>4, <2>2
      <3>2. h.mem[b].prev = NULL /\ h.array[cls[b]] = b /\ cls2[b] = cls[b] /\ cls2[b] \in Class
        BY <1>1, <1>4, <2>2, <3>1
      <3>3. cls[b] # c BY <3>1, <3>2 DEF head
      <3> QED BY <1>7, <3>2, <3>3
    <2> QED BY <2>1, <2>2
  <1>14. \A b \in G : k.mem[b].prev # NULL =>
            /\ k.mem[b].prev \in G
            /\ cls2[k.mem[b].prev] = cls2[b]
            /\ k.mem[k.mem[b].prev].next = b
    <2> SUFFICES ASSUME NEW b \in G, k.mem[b].prev # NULL
                 PROVE  /\ k.mem[b].prev \in G
                        /\ cls2[k.mem[b].prev] = cls2[b]
                        /\ k.mem[k.mem[b].prev].next = b
      OBVIOUS
    <2>1. b # a /\ b \in F BY <1>1
    <2>2. CASE b = head
      <3>1. k.mem[b].prev = a /\ k.mem[a].next = b BY <1>1, <1>4, <2>1, <2>2
      <3>2. cls2[b] = c BY <1>4, <1>11, <2>1, <2>2
      <3> QED BY <1>10, <3>1, <3>2
    <2>3. CASE b # head
      <3>1. PICK x : x = h.mem[b].prev OBVIOUS
      <3>2. k.mem[b].prev = x /\ x \in F /\ cls[x] = cls[b] /\ h.mem[x].next = b
        BY <1>1, <1>4, <2>1, <2>3, <3>1
      <3>3. x # a BY <3>2
      <3> QED BY <1>1, <1>4, <2>1, <3>2, <3>3
    <2> QED BY <2>2, <2>3
  <1>15. \A b \in G : k.mem[b].next # NULL =>
            k.mem[b].next \in G /\ k.mem[k.mem[b].next].prev = b
    <2> SUFFICES ASSUME NEW b \in G, k.mem[b].next # NULL
                 PROVE  k.mem[b].next \in G /\ k.mem[k.mem[b].next].prev = b
      OBVIOUS
    <2>1. CASE b = a
      <3>1. k.mem[b].next = head /\ head \in F /\ head # a BY <1>1, <1>11, <2>1
      <3> QED BY <1>1, <1>4, <2>1, <3>1
    <2>2. CASE b # a
      <3>1. PICK x : x = h.mem[b].next OBVIOUS
      <3>2. b \in F /\ k.mem[b].next = x /\ x \in F /\ h.mem[x].prev = b
        BY <1>1, <1>4, <2>2, <3>1
      <3>3. x # a /\ x # head BY <1>4, <1>11, <3>2
      <3> QED BY <1>1, <1>4, <3>2, <3>3
    <2> QED BY <2>1, <2>2
  <1>16. \E M \in Nat : \E r \in [G -> 0 .. M] : Ranked(k.mem, G, r)
    <2> DEFINE r == [b \in G |-> IF b = a THEN N + 1 ELSE rank[b]]
    <2>1. r \in [G -> 0 .. N + 1]
      <3>1. \A b \in G : r[b] \in 0 .. N + 1
        <4> SUFFICES ASSUME NEW b \in G PROVE r[b] \in 0 .. N + 1 OBVIOUS
        <4>1. CASE b = a BY <4>1
        <4>2. CASE b # a BY <1>6, <4>2
        <4> QED BY <4>1, <4>2
      <3> QED BY <3>1
    <2>2. ASSUME NEW b \in G, k.mem[b].next # NULL PROVE r[k.mem[b].next] < r[b]
      <3>1. k.mem[b].next \in G BY <1>15, <2>2
      <3>2. CASE b = a
        <4>1. k.mem[b].next \in F /\ k.mem[b].next # a BY <1>1, <1>11, <2>2, <3>2
        <4>2. r[b] = N + 1 /\ r[k.mem[b].next] = rank[k.mem[b].next] BY <3>1, <3>2, <4>1
        <4>3. rank[k.mem[b].next] \in 0 .. N BY <1>6, <4>1
        <4> HIDE DEF r
        <4> QED BY <4>2, <4>3
      <3>3. CASE b # a
        <4>1. b \in F /\ k.mem[b].next = h.mem[b].next BY <1>1, <1>4, <3>3
        <4>2. k.mem[b].next \in F BY <1>4, <2>2, <4>1
        <4>3. r[b] = rank[b] /\ r[k.mem[b].next] = rank[k.mem[b].next] BY <3>1, <3>3, <4>2
        <4>4. rank[k.mem[b].next] < rank[b] BY <1>6, <2>2, <4>1 DEF Ranked
        <4> QED BY <4>3, <4>4
      <3> QED BY <3>2, <3>3
    <2>3. Ranked(k.mem, G, r) BY <2>2 DEF Ranked
    <2>4. N + 1 \in Nat OBVIOUS
    <2> HIDE DEF r
    <2> QED BY <2>1, <2>3, <2>4
  <1>17. Linked(k, G, cls2)
    <2>1. G \subseteq DOMAIN k.mem /\ DOMAIN k.mem \subseteq Addr BY <1>1, <1>4
    <2>2. \A b \in G : cls2[b] \in Class BY <1>1, <1>4, <1>10
    <2> HIDE DEF G
    <2> QED BY <1>8, <1>12, <1>13, <1>14, <1>15, <1>16, <2>1, <2>2 DEF Linked
  <1> QED BY <1>1, <1>9, <1>17 DEF Sound, k

-----------------------------------------------------------------------------
(* The blocks tile the heap                                                *)

Edge(m, a) == a + m[a].size + HeaderSize
Taken(m) == DOMAIN m \ Free(m)

(* Each block ends where the next begins, or at the end of the heap, each  *)
(* block but the first begins where another ends, and the boundary tags    *)
(* say so.                                                                 *)
Tiles(m) ==
    /\ 0 \in DOMAIN m /\ m[0].prev_phys = NULL
    /\ \A a \in DOMAIN m :
         /\ m[a].size % 8 = 0
         /\ \A b \in DOMAIN m : b <= a \/ b >= Edge(m, a)
         /\ IF Edge(m, a) \in DOMAIN m THEN m[Edge(m, a)].prev_phys = a
            ELSE Edge(m, a) = HEAP_END
         /\ a # 0 => m[a].prev_phys \in DOMAIN m /\ Edge(m, m[a].prev_phys) = a

(* No two free blocks are neighbours.                                      *)
Merged(m) == \A a \in Free(m) : Edge(m, a) \notin Free(m)

Good(h) == /\ Sound(h, Free(h.mem), ClassOf(h.mem))
           /\ Tiles(h.mem)
           /\ Merged(h.mem)

(* A block's numbers.                                                      *)
LEMMA Numbers ==
  ASSUME NEW m, Headers(m), NEW a \in DOMAIN m
  PROVE  /\ m[a] \in Block
         /\ a \in Nat /\ a % 8 = 0 /\ a < HEAP_END
         /\ m[a].size \in Nat /\ m[a].size >= 8 /\ m[a].size <= HEAP_END - 8
         /\ m[a].prev_phys \in Ref /\ m[a].free \in BOOLEAN
         /\ Edge(m, a) = a + m[a].size + 8 /\ Edge(m, a) \in Nat /\ Edge(m, a) > a
  <1>1. m[a] \in Block /\ a \in Addr BY DEF Headers
  <1>2. m[a].size \in MIN_PAYLOAD .. INITIAL_FREE /\ m[a].prev_phys \in Ref /\ m[a].free \in BOOLEAN
    BY <1>1 DEF Block, Ref
  <1>3. a \in Nat /\ a % 8 = 0 /\ a < HEAP_END BY <1>1, Params DEF Addr
  <1>4. m[a].size \in Nat /\ m[a].size >= 8 /\ m[a].size <= HEAP_END - 8 BY <1>2, Params
  <1> QED BY <1>1, <1>2, <1>3, <1>4, Params DEF Edge

(* Nothing but the blocks' places, sizes and marks is looked at.           *)
LEMMA SameTiles ==
  ASSUME NEW m, NEW n, SameBlocks(m, n)
  PROVE  /\ Free(m) = Free(n) /\ Taken(m) = Taken(n) /\ ClassOf(m) = ClassOf(n)
         /\ \A a \in DOMAIN n : Edge(m, a) = Edge(n, a)
         /\ Tiles(n) => Tiles(m)
         /\ Merged(n) => Merged(m)
  <1>1. DOMAIN m = DOMAIN n BY DEF SameBlocks
  <1>2. \A b \in DOMAIN n : m[b].prev_phys = n[b].prev_phys /\ m[b].size = n[b].size
                            /\ m[b].free = n[b].free
    BY DEF SameBlocks
  <1>3. Free(m) = Free(n) /\ Taken(m) = Taken(n) BY <1>1, <1>2 DEF Free, Taken
  <1>4. ClassOf(m) = ClassOf(n)
    <2>1. \A a \in Free(n) : map_down(m[a].size) = map_down(n[a].size) BY <1>2 DEF Free
    <2> QED BY <1>3, <2>1 DEF ClassOf
  <1>5. \A a \in DOMAIN n : Edge(m, a) = Edge(n, a) BY <1>2 DEF Edge
  <1>6. Tiles(n) => Tiles(m)
    <2> SUFFICES ASSUME Tiles(n) PROVE Tiles(m) OBVIOUS
    <2>1. 0 \in DOMAIN m /\ m[0].prev_phys = NULL BY <1>1, <1>2 DEF Tiles
    <2>2. ASSUME NEW a \in DOMAIN m
          PROVE  /\ m[a].size % 8 = 0
                 /\ \A b \in DOMAIN m : b <= a \/ b >= Edge(m, a)
                 /\ IF Edge(m, a) \in DOMAIN m THEN m[Edge(m, a)].prev_phys = a
                    ELSE Edge(m, a) = HEAP_END
                 /\ a # 0 => m[a].prev_phys \in DOMAIN m /\ Edge(m, m[a].prev_phys) = a
      <3>1. a \in DOMAIN n /\ Edge(m, a) = Edge(n, a) /\ m[a].size = n[a].size
            /\ m[a].prev_phys = n[a].prev_phys
        BY <1>1, <1>2, <1>5
      <3>2. /\ n[a].size % 8 = 0
            /\ \A b \in DOMAIN n : b <= a \/ b >= Edge(n, a)
            /\ IF Edge(n, a) \in DOMAIN n THEN n[Edge(n, a)].prev_phys = a
               ELSE Edge(n, a) = HEAP_END
            /\ a # 0 => n[a].prev_phys \in DOMAIN n /\ Edge(n, n[a].prev_phys) = a
        BY <3>1 DEF Tiles
      <3> QED BY <1>1, <1>2, <1>5, <3>1, <3>2
    <2> QED BY <2>1, <2>2 DEF Tiles
  <1>7. Merged(n) => Merged(m)
    <2>1. Free(n) \subseteq DOMAIN n BY DEF Free
    <2> QED BY <1>3, <1>5, <2>1 DEF Merged
  <1> QED BY <1>3, <1>4, <1>5, <1>6, <1>7

(* The lists stand while the links of their blocks do.                     *)
Keeps(h, k, F, cls, cls2) ==
    /\ DOMAIN k.mem \subseteq Addr /\ F \subseteq DOMAIN k.mem /\ k.array = h.array
    /\ \A b \in F : /\ k.mem[b].prev = h.mem[b].prev /\ k.mem[b].next = h.mem[b].next
                     /\ cls2[b] = cls[b]

LEMMA SameLists ==
  ASSUME NEW h, NEW k, NEW F, NEW cls, NEW cls2, Linked(h, F, cls), Keeps(h, k, F, cls, cls2)
  PROVE  Linked(k, F, cls2)
  <1> USE DEF Keeps
  <1>1. \E N \in Nat : \E rank \in [F -> 0 .. N] : Ranked(k.mem, F, rank)
    <2>1. PICK N \in Nat : \E rank \in [F -> 0 .. N] : Ranked(h.mem, F, rank) BY DEF Linked
    <2>2. PICK rank \in [F -> 0 .. N] : Ranked(h.mem, F, rank) BY <2>1
    <2>3. Ranked(k.mem, F, rank) BY <2>2 DEF Ranked
    <2> QED BY <2>3
  <1>2. \A c \in Class : k.array[c] # NULL =>
          k.array[c] \in F /\ cls2[k.array[c]] = c /\ k.mem[k.array[c]].prev = NULL
    BY DEF Linked
  <1>3. \A a \in F : k.mem[a].prev = NULL => k.array[cls2[a]] = a BY DEF Linked
  <1>4. \A a \in F : k.mem[a].prev # NULL =>
          /\ k.mem[a].prev \in F
          /\ cls2[k.mem[a].prev] = cls2[a]
          /\ k.mem[k.mem[a].prev].next = a
    <2> SUFFICES ASSUME NEW a \in F, k.mem[a].prev # NULL
                 PROVE  /\ k.mem[a].prev \in F
                        /\ cls2[k.mem[a].prev] = cls2[a]
                        /\ k.mem[k.mem[a].prev].next = a
      OBVIOUS
    <2>1. PICK p : p = h.mem[a].prev OBVIOUS
    <2>2. p \in F /\ cls[p] = cls[a] /\ h.mem[p].next = a /\ k.mem[a].prev = p
      BY <2>1 DEF Linked
    <2> QED BY <2>2
  <1>5. \A a \in F : k.mem[a].next # NULL =>
          k.mem[a].next \in F /\ k.mem[k.mem[a].next].prev = a
    <2> SUFFICES ASSUME NEW a \in F, k.mem[a].next # NULL
                 PROVE  k.mem[a].next \in F /\ k.mem[k.mem[a].next].prev = a
      OBVIOUS
    <2>1. PICK n : n = h.mem[a].next OBVIOUS
    <2>2. n \in F /\ h.mem[n].prev = a /\ k.mem[a].next = n BY <2>1 DEF Linked
    <2> QED BY <2>2
  <1>6. h.array \in [Class -> Ref] /\ \A a \in F : cls2[a] \in Class BY DEF Linked
  <1> QED BY <1>1, <1>2, <1>3, <1>4, <1>5, <1>6 DEF Linked

(* Two blocks that end at one place are one.                               *)
LEMMA OneEdge ==
  ASSUME NEW m, Headers(m), Tiles(m), NEW a \in DOMAIN m, NEW b \in DOMAIN m,
         Edge(m, a) = Edge(m, b)
  PROVE  a = b
  <1>1. /\ a \in Int /\ b \in Int /\ Edge(m, a) \in Int /\ Edge(m, b) \in Int
        /\ Edge(m, a) > a /\ Edge(m, b) > b
    BY Numbers
  <1>2. (b <= a \/ b >= Edge(m, a)) /\ (a <= b \/ a >= Edge(m, b)) BY DEF Tiles
  <1> QED BY <1>1, <1>2

(* The headers after a split: the block at a is cut to size, the rest is a *)
(* free block, and the block behind knows it.                              *)
SplitMem(m, a, size) ==
    [Tag(m, a + size + HeaderSize, a, m[a].size - size - HeaderSize) EXCEPT ![a].size = size]

IsSplit(m, k, a, size, rest) ==
    /\ rest \in Addr /\ rest \notin DOMAIN m /\ DOMAIN k = DOMAIN m \cup {rest}
    /\ Headers(k) /\ Tiles(k)
    /\ k[rest].free = TRUE /\ Edge(k, rest) = Edge(m, a)
    /\ \A b \in DOMAIN m :
         /\ k[b].prev = m[b].prev /\ k[b].next = m[b].next /\ k[b].free = m[b].free
         /\ k[b].size = IF b = a THEN size ELSE m[b].size

LEMMA SplitMemIs ==
  ASSUME NEW m, Headers(m), Tiles(m), NEW a \in DOMAIN m,
         NEW size \in Nat, size % 8 = 0, size >= 8, m[a].size >= size + 16
  PROVE  IsSplit(m, SplitMem(m, a, size), a, size, a + size + 8)
  <1> DEFINE k == SplitMem(m, a, size)
             rest == a + size + 8
             after == Edge(m, a)
             cut == m[a].size - size - 8
             head == [prev_phys |-> a, size |-> cut, free |-> TRUE, prev |-> NULL, next |-> NULL]
  <1>1. /\ a \in Nat /\ a % 8 = 0 /\ m[a].size \in Nat /\ m[a].size >= 8 /\ m[a].size <= HEAP_END - 8
        /\ after = a + m[a].size + 8 /\ m[a].size % 8 = 0 /\ a < HEAP_END
    BY Numbers DEF Tiles
  <1>2. after \in Nat /\ after <= HEAP_END /\ (after \in DOMAIN m => after < HEAP_END)
    <2>1. CASE after \in DOMAIN m
      <3>1. after \in Nat /\ after < HEAP_END BY <2>1, Numbers
      <3> QED BY <3>1, Params
    <2>2. CASE after \notin DOMAIN m BY <1>1, <2>2, Params DEF Tiles
    <2> QED BY <2>1, <2>2
  <1>3. /\ rest \in Nat /\ rest % 8 = 0 /\ rest > a /\ rest + cut + 8 = after
        /\ cut \in Nat /\ cut >= 8 /\ cut % 8 = 0 /\ rest < after /\ rest < HEAP_END
        /\ cut <= HEAP_END - 8 /\ size <= HEAP_END - 8 /\ rest # a /\ rest # after /\ rest # 0
    BY <1>1, <1>2, Params
  <1>4. rest \in Addr BY <1>3, Params DEF Addr
  <1>5. rest \notin DOMAIN m
    <2> SUFFICES ASSUME rest \in DOMAIN m PROVE FALSE OBVIOUS
    <2>1. rest <= a \/ rest >= after BY DEF Tiles
    <2> QED BY <1>1, <1>2, <1>3, <2>1
  <1>6. after # a BY <1>1
  <1>7. /\ DOMAIN k = DOMAIN m \cup {rest} /\ k[rest] = head
        /\ k[a] = [m[a] EXCEPT !.size = size]
        /\ \A b \in DOMAIN m \ {a} :
              k[b] = [m[b] EXCEPT !.prev_phys = IF b = after THEN rest ELSE @]
    <2>1. a + size + HeaderSize = rest /\ m[a].size - size - HeaderSize = cut BY Params
    <2>2. rest + cut + HeaderSize = after BY <1>3, Params
    <2> DEFINE t == Tag(m, rest, a, cut)
    <2>3. t = [b \in DOMAIN m \cup {rest} |->
                  IF b = rest THEN head
                  ELSE [m[b] EXCEPT !.prev_phys = IF b = after THEN rest ELSE @]]
      BY <2>2 DEF Tag
    <2>4. k = [t EXCEPT ![a].size = size] BY <2>1 DEF SplitMem
    <2>5. t[a] = m[a]
      <3>1. m[a] \in Block BY Numbers
      <3>2. t[a] = [m[a] EXCEPT !.prev_phys = IF a = after THEN rest ELSE @] BY <1>3, <2>3
      <3> HIDE DEF t
      <3> QED BY <1>6, <3>1, <3>2 DEF Block
    <2>6. /\ DOMAIN t = DOMAIN m \cup {rest} /\ t[rest] = head
          /\ \A b \in DOMAIN m \ {a} :
                t[b] = [m[b] EXCEPT !.prev_phys = IF b = after THEN rest ELSE @]
      BY <1>5, <2>3
    <2>7. rest # a BY <1>3
    <2> HIDE DEF t, head, after, cut, rest, k
    <2>8. DOMAIN k = DOMAIN t /\ k[a] = [t[a] EXCEPT !.size = size] BY <2>4, <2>6
    <2>9. \A b \in DOMAIN t : b # a => k[b] = t[b] BY <2>4
    <2> QED BY <1>5, <2>5, <2>6, <2>7, <2>8, <2>9
  <1> HIDE DEF k
  <1>8. DOMAIN k = DOMAIN m \cup {rest} BY <1>7
  <1>9. k[rest] = head BY <1>3, <1>7
  <1>10. /\ k[rest].free = TRUE /\ k[rest].size = cut /\ k[rest].prev_phys = a
         /\ k[rest] \in Block
    <2>1. cut \in MIN_PAYLOAD .. INITIAL_FREE BY <1>3, Params
    <2>2. a \in Addr /\ NULL \in Ref BY DEF Headers, Ref
    <2> HIDE DEF cut
    <2> QED BY <1>9, <2>1, <2>2 DEF Block, Ref
  <1>11. ASSUME NEW b \in DOMAIN m
         PROVE  /\ k[b].prev = m[b].prev /\ k[b].next = m[b].next /\ k[b].free = m[b].free
                /\ k[b].size = IF b = a THEN size ELSE m[b].size
                /\ k[b].prev_phys = IF b = after THEN rest ELSE m[b].prev_phys
                /\ k[b] \in Block
    <2>1. m[b] \in Block BY Numbers
    <2>2. rest \in Ref BY <1>4 DEF Ref
    <2>3. size \in MIN_PAYLOAD .. INITIAL_FREE BY <1>3, Params
    <2>4. b # rest BY <1>5
    <2>5. CASE b = a
      <3>1. k[b] = [m[b] EXCEPT !.size = size] BY <1>7, <2>5
      <3> HIDE DEF rest, after
      <3> QED BY <1>6, <2>1, <2>3, <2>5, <3>1 DEF Block
    <2>6. CASE b # a
      <3>1. k[b] = [m[b] EXCEPT !.prev_phys = IF b = after THEN rest ELSE @]
        BY <1>7, <2>4, <2>6
      <3> HIDE DEF rest, after
      <3> QED BY <2>1, <2>2, <2>6, <3>1 DEF Block, Ref
    <2> QED BY <2>5, <2>6
  <1>12. Headers(k) BY <1>4, <1>8, <1>10, <1>11 DEF Headers
  <1>13. /\ Edge(k, a) = rest /\ Edge(k, rest) = after
         /\ \A b \in DOMAIN m : b # a => Edge(k, b) = Edge(m, b)
    BY <1>3, <1>10, <1>11, Params DEF Edge
  <1> HIDE DEF rest, after, cut, head
  <1>14. ASSUME NEW b \in DOMAIN m, b # a PROVE Edge(m, b) # rest /\ Edge(m, b) # after
    <2>1. Edge(m, b) # after BY <1>14, OneEdge DEF after
    <2>2. b \in Int /\ Edge(m, b) \in Int /\ Edge(m, b) > b BY Numbers
    <2>3. (b <= a \/ b >= after) /\ (a <= b \/ a >= Edge(m, b)) BY DEF Tiles, after
    <2> QED BY <1>1, <1>2, <1>3, <1>14, <2>1, <2>2, <2>3
  <1>15. ASSUME NEW x \in DOMAIN k
         PROVE  /\ k[x].size % 8 = 0
                /\ \A b \in DOMAIN k : b <= x \/ b >= Edge(k, x)
                /\ IF Edge(k, x) \in DOMAIN k THEN k[Edge(k, x)].prev_phys = x
                   ELSE Edge(k, x) = HEAP_END
                /\ x # 0 => k[x].prev_phys \in DOMAIN k /\ Edge(k, k[x].prev_phys) = x
    <2>1. CASE x = a
      <3>1. k[x].size % 8 = 0 BY <1>11, <2>1
      <3>2. ASSUME NEW b \in DOMAIN k, ~(b <= x), ~(b >= Edge(k, x)) PROVE FALSE
        <4>1. b \in DOMAIN m BY <1>1, <1>3, <1>8, <1>13, <2>1, <3>2
        <4>2. b >= after /\ b \in Int BY <2>1, <3>2, <4>1, Numbers DEF Tiles, after
        <4> QED BY <1>2, <1>3, <1>13, <2>1, <3>2, <4>2
      <3>3. Edge(k, x) \in DOMAIN k /\ k[Edge(k, x)].prev_phys = x BY <1>8, <1>10, <1>13, <2>1
      <3>4. x # 0 => k[x].prev_phys \in DOMAIN k /\ Edge(k, k[x].prev_phys) = x
        <4> SUFFICES ASSUME x # 0
                     PROVE  k[x].prev_phys \in DOMAIN k /\ Edge(k, k[x].prev_phys) = x
          OBVIOUS
        <4>1. PICK p : p = m[x].prev_phys OBVIOUS
        <4>2. p \in DOMAIN m /\ Edge(m, p) = x BY <2>1, <4>1 DEF Tiles
        <4>3. p # a BY <1>1, <1>6, <2>1, <4>2 DEF after
        <4>4. k[x].prev_phys = p BY <1>6, <1>11, <2>1, <4>1
        <4> QED BY <1>8, <1>13, <4>2, <4>3, <4>4
      <3> QED BY <3>1, <3>2, <3>3, <3>4
    <2>2. CASE x = rest
      <3>1. k[x].size % 8 = 0 BY <1>3, <1>10, <2>2
      <3>2. ASSUME NEW b \in DOMAIN k, ~(b <= x), ~(b >= Edge(k, x)) PROVE FALSE
        <4>1. b \in DOMAIN m BY <1>3, <1>8, <2>2, <3>2
        <4>2. (b <= a \/ b >= after) /\ b \in Int BY <4>1, Numbers DEF Tiles, after
        <4> QED BY <1>1, <1>2, <1>3, <1>13, <2>2, <3>2, <4>2
      <3>3. IF Edge(k, x) \in DOMAIN k THEN k[Edge(k, x)].prev_phys = x
            ELSE Edge(k, x) = HEAP_END
        <4>1. CASE after \in DOMAIN m BY <1>8, <1>11, <1>13, <2>2, <4>1
        <4>2. CASE after \notin DOMAIN m
          <5>1. after = HEAP_END BY <4>2 DEF Tiles, after
          <5>2. after \notin DOMAIN k BY <1>3, <1>8, <4>2
          <5> QED BY <1>13, <2>2, <5>1, <5>2
        <4> QED BY <4>1, <4>2
      <3>4. k[x].prev_phys \in DOMAIN k /\ Edge(k, k[x].prev_phys) = x
        BY <1>8, <1>10, <1>13, <2>2
      <3> QED BY <3>1, <3>2, <3>3, <3>4
    <2>3. CASE x # a /\ x # rest
      <3>1. x \in DOMAIN m /\ Edge(k, x) = Edge(m, x) BY <1>8, <1>13, <2>3
      <3>2. k[x].size % 8 = 0 BY <1>11, <2>3, <3>1 DEF Tiles
      <3>3. ASSUME NEW b \in DOMAIN k, ~(b <= x), ~(b >= Edge(k, x)) PROVE FALSE
        <4>1. x \in Int /\ Edge(m, x) \in Int /\ Edge(m, x) > x BY <3>1, Numbers
        <4>2. CASE b = rest
          <5>1. (x <= a \/ x >= after) /\ (a <= x \/ a >= Edge(m, x)) BY <3>1 DEF Tiles, after
          <5>2. Edge(m, x) # after /\ x # a BY <1>14, <2>3, <3>1
          <5>3. Edge(m, x) <= a \/ x >= after BY <1>1, <1>2, <2>3, <4>1, <5>1
          <5> QED BY <1>1, <1>2, <1>3, <3>1, <3>3, <4>1, <4>2, <5>3
        <4>3. CASE b # rest
          <5>1. b \in DOMAIN m BY <1>8, <4>3
          <5> QED BY <3>1, <3>3, <5>1 DEF Tiles
        <4> QED BY <4>2, <4>3
      <3>4. IF Edge(k, x) \in DOMAIN k THEN k[Edge(k, x)].prev_phys = x
            ELSE Edge(k, x) = HEAP_END
        <4>1. PICK e : e = Edge(m, x) OBVIOUS
        <4>2. e # rest /\ e # after BY <1>14, <2>3, <3>1, <4>1
        <4>3. IF e \in DOMAIN m THEN m[e].prev_phys = x ELSE e = HEAP_END
          BY <3>1, <4>1 DEF Tiles
        <4>4. e \in DOMAIN m => k[e].prev_phys = m[e].prev_phys BY <1>11, <4>2
        <4>5. e \in DOMAIN k <=> e \in DOMAIN m BY <1>8, <4>2
        <4> QED BY <3>1, <4>1, <4>3, <4>4, <4>5
      <3>5. x # 0 => k[x].prev_phys \in DOMAIN k /\ Edge(k, k[x].prev_phys) = x
        <4> SUFFICES ASSUME x # 0
                     PROVE  k[x].prev_phys \in DOMAIN k /\ Edge(k, k[x].prev_phys) = x
          OBVIOUS
        <4>1. CASE x = after
          <5>1. k[x].prev_phys = rest BY <1>11, <3>1, <4>1
          <5> QED BY <1>8, <1>13, <4>1, <5>1
        <4>2. CASE x # after
          <5>1. PICK p : p = m[x].prev_phys OBVIOUS
          <5>2. p \in DOMAIN m /\ Edge(m, p) = x BY <3>1, <5>1 DEF Tiles
          <5>3. p # a BY <4>2, <5>2 DEF after
          <5>4. k[x].prev_phys = p BY <1>11, <3>1, <4>2, <5>1
          <5> QED BY <1>8, <1>13, <5>2, <5>3, <5>4
        <4> QED BY <4>1, <4>2
      <3> QED BY <3>2, <3>3, <3>4, <3>5
    <2> QED BY <2>1, <2>2, <2>3
  <1>16. 0 \in DOMAIN k /\ k[0].prev_phys = NULL
    <2>1. 0 \in DOMAIN m /\ m[0].prev_phys = NULL BY DEF Tiles
    <2>2. after # 0 BY <1>1, <1>2, <1>3
    <2> QED BY <1>8, <1>11, <2>1, <2>2
  <1>17. Tiles(k) BY <1>15, <1>16 DEF Tiles
  <1>18. \A b \in DOMAIN m :
            /\ k[b].prev = m[b].prev /\ k[b].next = m[b].next /\ k[b].free = m[b].free
            /\ k[b].size = IF b = a THEN size ELSE m[b].size
    BY <1>11
  <1>19. IsSplit(m, k, a, size, rest)
    BY <1>4, <1>5, <1>8, <1>10, <1>12, <1>13, <1>17, <1>18, SMTT(40) DEF IsSplit, after
  <1> QED BY <1>19 DEF k, rest

LEMMA SoundFree ==
  ASSUME NEW h, Good(h)
  PROVE  /\ Headers(h.mem) /\ Linked(h, Free(h.mem), ClassOf(h.mem)) /\ Bitmaps(h)
         /\ Tiles(h.mem) /\ Merged(h.mem) /\ Free(h.mem) \subseteq DOMAIN h.mem
         /\ h.array \in [Class -> Ref]
         /\ \A b \in Free(h.mem) : ClassOf(h.mem)[b] = map_down(h.mem[b].size)
  BY DEF Good, Sound, Linked, Free, ClassOf

(* Splitting the block at a, which stays in the list it was in.            *)
LEMMA SplitIs ==
  ASSUME Good(Heap), NEW a \in Free(mem),
         NEW size \in Nat, size % 8 = 0, size >= 8, size <= mem[a].size
  PROVE  \E cls :
           LET k == Split(Heap, a, size)
           IN  /\ Sound(k, Free(k.mem), cls) /\ Tiles(k.mem)
               /\ a \in Free(k.mem) /\ k.mem[a].size >= size
               /\ cls[a] = map_down(mem[a].size)
               /\ \A b \in Free(k.mem) : b # a => cls[b] = map_down(k.mem[b].size)
               /\ \A b \in Free(k.mem) : b # a => Edge(k.mem, b) \notin Free(k.mem) \ {a}
               /\ Taken(k.mem) = Taken(mem)
               /\ \A b \in Taken(mem) : k.mem[b].size = mem[b].size
  <1> DEFINE k == Split(Heap, a, size)
             rest == a + size + 8
             F == Free(mem)
             cls == ClassOf(mem)
             m == SplitMem(mem, a, size)
             h == [Heap EXCEPT !.mem = m]
  <1>1. /\ Heap.mem = mem /\ Heap.array = tlsf_array /\ Heap.f = fBitmap /\ Heap.s = sBitmap
        /\ h.mem = m /\ h.array = tlsf_array /\ h.f = fBitmap /\ h.s = sBitmap
    BY DEF Heap
  <1>2. /\ Headers(mem) /\ Linked(Heap, F, cls) /\ Bitmaps(Heap) /\ Tiles(mem) /\ Merged(mem)
        /\ F \subseteq DOMAIN mem /\ tlsf_array \in [Class -> Ref]
        /\ \A b \in F : cls[b] = map_down(mem[b].size)
    BY <1>1, SoundFree
  <1>3. a \in DOMAIN mem BY <1>2
  <1>4. mem[a].size \in Nat BY <1>2, <1>3, Numbers
  <1>5. CASE mem[a].size < size + 16
    <2>1. k = Heap BY <1>1, <1>4, <1>5, Params DEF Split
    <2>2. Sound(k, Free(k.mem), cls) BY <1>1, <1>2, <2>1 DEF Sound
    <2>3. \A b \in Free(k.mem) : b # a => cls[b] = map_down(k.mem[b].size) BY <1>1, <1>2, <2>1
    <2>4. \A b \in Free(k.mem) : b # a => Edge(k.mem, b) \notin Free(k.mem) \ {a}
      BY <1>1, <1>2, <2>1 DEF Merged
    <2> HIDE DEF k, cls
    <2>5. /\ Tiles(k.mem) /\ a \in Free(k.mem) /\ k.mem[a].size >= size
          /\ cls[a] = map_down(mem[a].size) /\ Taken(k.mem) = Taken(mem)
          /\ \A b \in Taken(mem) : k.mem[b].size = mem[b].size
      BY <1>1, <1>2, <1>4, <2>1
    <2> QED BY <2>2, <2>3, <2>4, <2>5 DEF k
  <1>6. CASE mem[a].size >= size + 16
    <2>1. k = Push(h, rest) BY <1>1, <1>4, <1>6, Params DEF Split, SplitMem
    <2>2. /\ rest \in Addr /\ rest \notin DOMAIN mem /\ DOMAIN m = DOMAIN mem \cup {rest}
          /\ Headers(m) /\ Tiles(m)
          /\ m[rest].free = TRUE /\ Edge(m, rest) = Edge(mem, a)
          /\ \A b \in DOMAIN mem :
                /\ m[b].prev = mem[b].prev /\ m[b].next = mem[b].next /\ m[b].free = mem[b].free
                /\ m[b].size = IF b = a THEN size ELSE mem[b].size
      <3>1. IsSplit(mem, m, a, size, rest) BY <1>2, <1>3, <1>6, SplitMemIs
      <3> HIDE DEF m, rest
      <3> QED BY <3>1 DEF IsSplit
    <2> HIDE DEF m, rest, k
    <2> DEFINE cls2 == [b \in F \cup {rest} |->
                          IF b = rest THEN map_down(m[rest].size) ELSE cls[b]]
    <2>3. Sound(h, F, cls)
      <3>1. Linked(h, F, cls)
        <4>1. DOMAIN h.mem \subseteq Addr BY <1>1, <2>2 DEF Headers
        <4>2. F \subseteq DOMAIN h.mem BY <1>1, <1>2, <2>2
        <4>3. \A b \in F : h.mem[b].prev = Heap.mem[b].prev /\ h.mem[b].next = Heap.mem[b].next
          BY <1>1, <1>2, <2>2
        <4>4. h.array = Heap.array BY <1>1
        <4>5. Keeps(Heap, h, F, cls, cls) BY <4>1, <4>2, <4>3, <4>4 DEF Keeps
        <4> HIDE DEF h, F, cls
        <4> QED BY <1>2, <4>5, SameLists
      <3>2. Bitmaps(h) BY <1>1, <1>2 DEF Bitmaps
      <3> QED BY <1>1, <2>2, <3>1, <3>2 DEF Sound
    <2>4. /\ rest \in DOMAIN h.mem /\ rest \notin F
          /\ cls2[rest] = map_down(h.mem[rest].size) /\ \A b \in F : cls2[b] = cls[b]
      BY <1>1, <1>2, <2>2
    <2> HIDE DEF h, F, cls, cls2
    <2>5. Sound(k, F \cup {rest}, cls2) /\ SameBlocks(k.mem, m)
      BY <1>1, <2>1, <2>3, <2>4, PushIs
    <2>6. /\ Free(k.mem) = Free(m) /\ Taken(k.mem) = Taken(m) /\ Tiles(k.mem)
          /\ \A b \in DOMAIN m : Edge(k.mem, b) = Edge(m, b) /\ k.mem[b].size = m[b].size
      BY <2>2, <2>5, SameTiles, ZenonT(80) DEF SameBlocks
    <2>7. Free(m) = F \cup {rest} /\ Taken(m) = Taken(mem) BY <2>2 DEF Free, Taken, F
    <2>8. \A b \in F : b # a => Edge(m, b) = Edge(mem, b) BY <1>2, <2>2 DEF Edge
    <2>9. ASSUME NEW b \in Free(m), b # a PROVE Edge(m, b) \notin Free(m) \ {a}
      <3>1. CASE b = rest
        <4>1. Edge(mem, a) \notin F BY <1>2 DEF Merged, F
        <4>2. Edge(m, rest) # rest
          <5>1. rest \in DOMAIN m BY <2>2
          <5>2. Edge(m, rest) > rest /\ rest \in Nat BY <2>2, <5>1, Numbers
          <5> QED BY <5>2
        <4> QED BY <2>2, <2>7, <3>1, <4>1, <4>2
      <3>2. CASE b # rest
        <4>1. b \in F /\ Edge(m, b) = Edge(mem, b) BY <2>7, <2>8, <2>9, <3>2
        <4>2. Edge(m, b) \notin F BY <1>2, <4>1 DEF Merged, F
        <4>3. Edge(m, b) # rest
          <5>1. a \in DOMAIN m /\ b \in DOMAIN m /\ Edge(m, a) = rest
            <6>1. a \in Nat BY <1>2, <1>3, Numbers
            <6> QED BY <1>2, <1>3, <2>2, <4>1, <6>1, Params DEF Edge, rest
          <5> QED BY <2>2, <2>9, <5>1, OneEdge
        <4> QED BY <2>7, <4>2, <4>3
      <3> QED BY <3>1, <3>2
    <2>10. /\ a \in Free(k.mem) /\ k.mem[a].size >= size /\ cls2[a] = map_down(mem[a].size)
      BY <1>2, <1>3, <2>2, <2>4, <2>6, <2>7 DEF F
    <2>11. \A b \in Free(k.mem) : b # a => cls2[b] = map_down(k.mem[b].size)
      <3> SUFFICES ASSUME NEW b \in Free(k.mem), b # a
                   PROVE  cls2[b] = map_down(k.mem[b].size)
        OBVIOUS
      <3>1. b \in DOMAIN m /\ k.mem[b].size = m[b].size /\ b \in F \cup {rest}
        BY <2>6, <2>7 DEF Free
      <3>2. CASE b = rest BY <1>1, <2>4, <3>1, <3>2
      <3>3. CASE b # rest BY <1>2, <2>2, <2>4, <3>1, <3>3
      <3> QED BY <3>2, <3>3
    <2>12. \A b \in Taken(mem) : k.mem[b].size = mem[b].size
      <3>1. \A b \in Taken(mem) : b \in DOMAIN mem /\ b # a BY DEF Taken
      <3> QED BY <2>2, <2>6, <3>1
    <2>13. \A b \in Free(k.mem) : b # a => Edge(k.mem, b) \notin Free(k.mem) \ {a}
      <3>1. Free(m) \subseteq DOMAIN m BY DEF Free
      <3> QED BY <2>6, <2>9, <3>1
    <2>14. Sound(k, Free(k.mem), cls2) BY <2>5, <2>6, <2>7
    <2> QED BY <2>6, <2>7, <2>10, <2>11, <2>12, <2>13, <2>14 DEF k
  <1> QED BY <1>4, <1>5, <1>6

(* kMalloc's part of the work: block a is long enough, and is handed out.  *)
IsCarved(k, a, size) ==
    /\ Good(k)
    /\ a \in DOMAIN k.mem /\ k.mem[a].size >= size
    /\ Taken(k.mem) = Taken(mem) \cup {a}
    /\ \A b \in Taken(mem) : k.mem[b].size = mem[b].size

LEMMA CarveIs ==
  ASSUME Good(Heap), NEW a \in Free(mem),
         NEW size \in Nat, size % 8 = 0, size >= 8, size <= mem[a].size
  PROVE  IsCarved(Carve(a, size), a, size)
  <1> DEFINE s == Split(Heap, a, size)
             u == Unlink(s, a, map_down(mem[a].size))
             k == Carve(a, size)
  <1>1. PICK cls :
           /\ Sound(s, Free(s.mem), cls) /\ Tiles(s.mem)
           /\ a \in Free(s.mem) /\ s.mem[a].size >= size
           /\ cls[a] = map_down(mem[a].size)
           /\ \A b \in Free(s.mem) : b # a => cls[b] = map_down(s.mem[b].size)
           /\ \A b \in Free(s.mem) : b # a => Edge(s.mem, b) \notin Free(s.mem) \ {a}
           /\ Taken(s.mem) = Taken(mem)
           /\ \A b \in Taken(mem) : s.mem[b].size = mem[b].size
    BY SplitIs
  <1> HIDE DEF s
  <1> DEFINE G == Free(s.mem) \ {a}
  <1>2. Sound(u, G, cls) /\ SameBlocks(u.mem, s.mem) BY <1>1, UnlinkIs, SMTT(40)
  <1>3. k.array = u.array /\ k.f = u.f /\ k.s = u.s
        /\ k.mem = [u.mem EXCEPT ![a] = [@ EXCEPT !.free = FALSE, !.prev = NULL, !.next = NULL]]
    BY DEF Carve, Unlink, s
  <1> HIDE DEF u, k
  <1>4. /\ Headers(u.mem) /\ Linked(u, G, cls) /\ Bitmaps(u) /\ DOMAIN u.mem = DOMAIN s.mem
        /\ a \in DOMAIN u.mem
        /\ \A b \in DOMAIN u.mem : /\ u.mem[b].size = s.mem[b].size
                                   /\ u.mem[b].free = s.mem[b].free
    BY <1>1, <1>2 DEF Sound, SameBlocks, Free
  <1>5. Tiles(u.mem) /\ \A b \in DOMAIN u.mem : Edge(u.mem, b) = Edge(s.mem, b)
    BY <1>1, <1>2, <1>4, SameTiles
  <1>6. DOMAIN k.mem = DOMAIN u.mem BY <1>3
  <1>7. ASSUME NEW b \in DOMAIN u.mem
        PROVE  /\ k.mem[b] \in Block
               /\ k.mem[b].size = u.mem[b].size /\ k.mem[b].prev_phys = u.mem[b].prev_phys
               /\ k.mem[b].free = IF b = a THEN FALSE ELSE u.mem[b].free
               /\ b # a => k.mem[b].prev = u.mem[b].prev /\ k.mem[b].next = u.mem[b].next
    <2>1. u.mem[b] \in Block BY <1>4, Numbers
    <2>2. CASE b = a
      <3>1. k.mem[b] = [u.mem[b] EXCEPT !.free = FALSE, !.prev = NULL, !.next = NULL]
        BY <1>3, <1>4, <2>2
      <3> QED BY <2>1, <2>2, <3>1 DEF Block
    <2>3. CASE b # a
      <3>1. k.mem[b] = u.mem[b] BY <1>3, <2>3
      <3> QED BY <2>1, <2>3, <3>1
    <2> QED BY <2>2, <2>3
  <1>8. Headers(k.mem) BY <1>4, <1>6, <1>7 DEF Headers
  <1>9. Free(k.mem) = G /\ Taken(k.mem) = Taken(mem) \cup {a}
    <2>1. Free(k.mem) = G BY <1>4, <1>6, <1>7 DEF Free
    <2>2. a \notin Taken(s.mem) /\ a \in DOMAIN s.mem BY <1>1 DEF Free, Taken
    <2> QED BY <1>1, <1>4, <1>6, <2>1, <2>2 DEF Taken
  <1>10. Linked(k, G, ClassOf(k.mem))
    <2>1. DOMAIN k.mem \subseteq Addr BY <1>8 DEF Headers
    <2>2. G \subseteq DOMAIN k.mem BY <1>4, <1>6 DEF Free
    <2>3. \A b \in G : k.mem[b].prev = u.mem[b].prev /\ k.mem[b].next = u.mem[b].next
      BY <1>6, <1>7, <2>2
    <2>4. \A b \in G : ClassOf(k.mem)[b] = cls[b]
      <3>1. \A b \in G : ClassOf(k.mem)[b] = map_down(k.mem[b].size) BY <1>9 DEF ClassOf
      <3>2. \A b \in G : k.mem[b].size = s.mem[b].size BY <1>4, <1>6, <1>7, <2>2
      <3> QED BY <1>1, <3>1, <3>2
    <2>5. Keeps(u, k, G, cls, ClassOf(k.mem)) BY <1>3, <2>1, <2>2, <2>3, <2>4 DEF Keeps
    <2> HIDE DEF G
    <2> QED BY <1>4, <2>5, SameLists
  <1>11. Bitmaps(k) BY <1>3, <1>4 DEF Bitmaps
  <1>12. \A b \in DOMAIN u.mem : Edge(k.mem, b) = Edge(u.mem, b) BY <1>7 DEF Edge
  <1>13. Tiles(k.mem)
    <2>1. 0 \in DOMAIN k.mem /\ k.mem[0].prev_phys = NULL BY <1>5, <1>6, <1>7 DEF Tiles
    <2>2. ASSUME NEW x \in DOMAIN k.mem
          PROVE  /\ k.mem[x].size % 8 = 0
                 /\ \A b \in DOMAIN k.mem : b <= x \/ b >= Edge(k.mem, x)
                 /\ IF Edge(k.mem, x) \in DOMAIN k.mem
                    THEN k.mem[Edge(k.mem, x)].prev_phys = x ELSE Edge(k.mem, x) = HEAP_END
                 /\ x # 0 => /\ k.mem[x].prev_phys \in DOMAIN k.mem
                             /\ Edge(k.mem, k.mem[x].prev_phys) = x
      <3>1. /\ u.mem[x].size % 8 = 0
            /\ \A b \in DOMAIN u.mem : b <= x \/ b >= Edge(u.mem, x)
            /\ IF Edge(u.mem, x) \in DOMAIN u.mem
               THEN u.mem[Edge(u.mem, x)].prev_phys = x ELSE Edge(u.mem, x) = HEAP_END
            /\ x # 0 => /\ u.mem[x].prev_phys \in DOMAIN u.mem
                        /\ Edge(u.mem, u.mem[x].prev_phys) = x
        BY <1>5, <1>6 DEF Tiles
      <3>2. /\ Edge(k.mem, x) = Edge(u.mem, x) /\ k.mem[x].size = u.mem[x].size
            /\ k.mem[x].prev_phys = u.mem[x].prev_phys
        BY <1>6, <1>7, <1>12
      <3> QED BY <1>6, <1>7, <1>12, <3>1, <3>2
    <2> QED BY <2>1, <2>2 DEF Tiles
  <1>14. Merged(k.mem)
    <2>1. ASSUME NEW b \in G PROVE Edge(k.mem, b) \notin G
      <3>1. b \in DOMAIN u.mem /\ b \in Free(s.mem) /\ b # a BY <1>4 DEF Free
      <3>2. Edge(k.mem, b) = Edge(s.mem, b) BY <1>5, <1>12, <3>1
      <3> QED BY <1>1, <3>1, <3>2
    <2> QED BY <1>9, <2>1 DEF Merged
  <1>15. \A b \in Taken(mem) : k.mem[b].size = mem[b].size
    <2>1. \A b \in Taken(mem) : b \in DOMAIN u.mem BY <1>1, <1>4 DEF Taken
    <2> QED BY <1>1, <1>4, <1>7, <2>1, ZenonT(60)
  <1>16. a \in DOMAIN k.mem /\ k.mem[a].size >= size BY <1>1, <1>4, <1>6, <1>7
  <1>17. Good(k) BY <1>8, <1>9, <1>10, <1>11, <1>13, <1>14 DEF Good, Sound
  <1>18. IsCarved(k, a, size) BY <1>9, <1>15, <1>16, <1>17 DEF IsCarved
  <1> QED BY <1>18 DEF k

-----------------------------------------------------------------------------
(* kFree's two loops: neighbours are merged at once, so neither goes round *)
(* more than once.                                                         *)

(* A loop that stays where one round takes it.                             *)
OneRound(f, N, x0, x1) == /\ f[0] = x0
                          /\ \A n \in 1 .. N : f[n - 1] \in {x0, x1} => f[n] = x1

LEMMA Settles ==
  ASSUME NEW N \in Nat, N # 0, NEW f, NEW x0, NEW x1, OneRound(f, N, x0, x1)
  PROVE  f[N] = x1
  <1> USE DEF OneRound
  <1> DEFINE S == {n \in 0 .. N : f[n] \in {x0, x1} /\ (n # 0 => f[n] = x1)}
  <1>1. 0 \in S OBVIOUS
  <1>2. ASSUME NEW n \in 0 .. N - 1, n \in S PROVE n + 1 \in S
    <2>1. n + 1 \in 1 .. N /\ (n + 1) - 1 = n OBVIOUS
    <2>2. f[n] \in {x0, x1} BY <1>2
    <2>3. f[n + 1] = x1 BY <2>1, <2>2
    <2> QED BY <2>1, <2>3
  <1> HIDE DEF S
  <1>3. N \in S BY <1>1, <1>2, UpTo
  <1> QED BY <1>3 DEF S

LEMMA FewBlocks ==
  ASSUME NEW S, S \subseteq Addr PROVE IsFiniteSet(S)
  <1>1. S \subseteq 0 .. HEAP_END - 1 BY DEF Addr
  <1>2. 0 \in Int /\ HEAP_END - 1 \in Int BY Params
  <1>3. IsFiniteSet(0 .. HEAP_END - 1) BY <1>2, FS_Interval
  <1> QED BY <1>1, <1>3, FS_Subset

(* There is at least one block to go round for.                            *)
LEMMA Rounds ==
  ASSUME NEW m, Headers(m), NEW a \in DOMAIN m
  PROVE  Cardinality(DOMAIN m) \in Nat \ {0}
  <1>1. IsFiniteSet(DOMAIN m) BY FewBlocks DEF Headers
  <1>2. Cardinality(DOMAIN m) \in Nat /\ Cardinality(DOMAIN m) # 0
    BY <1>1, FS_CardinalityType, FS_EmptySet
  <1> QED BY <1>2

LEMMA SwallowIs ==
  ASSUME NEW h, NEW F, NEW cls, Sound(h, F, cls), NEW a \in F, cls[a] = map_down(h.mem[a].size)
  PROVE  Sound(Swallow(h, a), F \ {a}, cls) /\ SameBlocks(Swallow(h, a).mem, h.mem)
  BY UnlinkIs DEF Swallow

(* The first loop swallows the block before, if it is free.                *)
LEMMA BackwardIs ==
  ASSUME Good(Heap), NEW a \in Taken(mem)
  PROVE  Backward(Heap, a) =
           IF mem[a].prev_phys \in Free(mem)
           THEN [h |-> Swallow(Heap, mem[a].prev_phys), curr |-> mem[a].prev_phys,
                 size |-> mem[a].size + mem[mem[a].prev_phys].size + HeaderSize]
           ELSE [h |-> Heap, curr |-> a, size |-> mem[a].size]
  <1> DEFINE N == Cardinality(DOMAIN Heap.mem)
             x0 == [h |-> Heap, curr |-> a, size |-> Heap.mem[a].size]
             Round(x) ==
               LET p == x.h.mem[x.curr].prev_phys
               IN  IF p = NULL \/ ~(p \in DOMAIN x.h.mem /\ x.h.mem[p].free) THEN x
                   ELSE [h |-> Swallow(x.h, p), curr |-> p,
                         size |-> x.size + x.h.mem[p].size + HeaderSize]
             x1 == Round(x0)
             loop == CHOOSE loop : loop = [n \in 0 .. N |-> IF n = 0 THEN x0 ELSE Round(loop[n - 1])]
             g == [n \in 0 .. N |-> IF n = 0 THEN x0 ELSE x1]
  <1>1. Backward(Heap, a) = loop[N] BY DEF Backward
  <1>2. /\ Heap.mem = mem /\ x0.h = Heap /\ x0.curr = a /\ x0.size = mem[a].size
    BY DEF Heap
  <1>3. /\ Headers(mem) /\ Sound(Heap, Free(mem), ClassOf(mem)) /\ Tiles(mem) /\ Merged(mem)
        /\ a \in DOMAIN mem /\ Free(mem) \subseteq DOMAIN mem
        /\ \A b \in Free(mem) : ClassOf(mem)[b] = map_down(mem[b].size)
    BY <1>2, SoundFree DEF Good, Taken
  <1>4. NULL \notin DOMAIN mem BY <1>3, Params DEF Headers
  <1>5. \A q : (q = NULL \/ ~(q \in DOMAIN mem /\ mem[q].free)) <=> q \notin Free(mem)
    BY <1>4 DEF Free
  <1> DEFINE p == mem[a].prev_phys
  <1>6. x1 = IF p \in Free(mem)
             THEN [h |-> Swallow(Heap, p), curr |-> p,
                   size |-> mem[a].size + mem[p].size + HeaderSize]
             ELSE x0
    <2> HIDE DEF x0
    <2> QED BY <1>2, <1>5, SMTT(40)
  <1>7. Round(x1) = x1
    <2>1. CASE p \notin Free(mem) BY <1>6, <2>1, Zenon
    <2>2. CASE p \in Free(mem)
      <3> DEFINE s == Swallow(Heap, p)
      <3>1. SameBlocks(s.mem, mem)
        <4>1. Sound(Heap, Free(mem), ClassOf(mem)) /\ p \in Free(mem)
              /\ ClassOf(mem)[p] = map_down(Heap.mem[p].size)
          BY <1>2, <1>3, <2>2
        <4> HIDE DEF p
        <4> QED BY <1>2, <4>1, SwallowIs
      <3>2. x1.h = s /\ x1.curr = p BY <1>6, <2>2
      <3> HIDE DEF s, p
      <3> DEFINE q == mem[p].prev_phys
      <3>3. s.mem[p].prev_phys = q /\ DOMAIN s.mem = DOMAIN mem
            /\ \A b \in DOMAIN mem : s.mem[b].free = mem[b].free
        BY <1>3, <2>2, <3>1 DEF SameBlocks
      <3>4. q \notin Free(mem)
        <4>1. CASE p = 0 BY <1>3, <1>4, <4>1 DEF Tiles
        <4>2. CASE p # 0
          <5>1. Edge(mem, q) = p BY <1>3, <2>2, <4>2 DEF Tiles
          <5> QED BY <1>3, <2>2, <5>1 DEF Merged
        <4> QED BY <4>1, <4>2
      <3>5. q = NULL \/ ~(q \in DOMAIN s.mem /\ s.mem[q].free) BY <1>5, <3>3, <3>4
      <3> HIDE DEF x1, q
      <3> QED BY <3>2, <3>3, <3>5
    <2> HIDE DEF x1, Round, p
    <2> QED BY <2>1, <2>2
  <1>8. N \in Nat /\ N # 0 BY <1>2, <1>3, Rounds
  <1> HIDE DEF Round, x0, N
  <1>9. x1 = Round(x0) OBVIOUS
  <1> HIDE DEF x1
  <1>10. g = [n \in 0 .. N |-> IF n = 0 THEN x0 ELSE Round(g[n - 1])]
    <2>1. ASSUME NEW n \in 0 .. N, n # 0 PROVE Round(g[n - 1]) = x1
      <3>1. n - 1 \in 0 .. N BY <1>8, <2>1
      <3>2. g[n - 1] = x0 \/ g[n - 1] = x1 BY <3>1
      <3> QED BY <1>7, <1>9, <3>2
    <2> QED BY <2>1
  <1>11. loop = [n \in 0 .. N |-> IF n = 0 THEN x0 ELSE Round(loop[n - 1])]
    <2> HIDE DEF g
    <2> QED BY <1>10
  <1> HIDE DEF loop
  <1>12. loop[0] = x0 BY <1>8, <1>11
  <1>13. ASSUME NEW n \in 1 .. N, loop[n - 1] \in {x0, x1} PROVE loop[n] = x1
    <2>1. n \in 0 .. N /\ n # 0 OBVIOUS
    <2>2. loop[n] = Round(loop[n - 1]) BY <1>11, <2>1
    <2> QED BY <1>7, <1>9, <1>13, <2>2
  <1>14. loop[N] = x1
    <2>1. OneRound(loop, N, x0, x1) BY <1>12, <1>13 DEF OneRound
    <2> QED BY <1>8, <2>1, Settles
  <1> QED BY <1>1, <1>2, <1>6, <1>14 DEF x0

(* The second loop swallows the block behind, if it is free.               *)
LEMMA ForwardIs ==
  ASSUME Headers(mem), Merged(mem), NEW a \in DOMAIN mem,
         NEW x, NEW F, NEW cls, Sound(x.h, F, cls), SameBlocks(x.h.mem, mem), NEW e,
         e \in Free(mem) => e \in F /\ cls[e] = map_down(mem[e].size)
  PROVE  Forward(x, e) =
           IF e \in Free(mem)
           THEN [h |-> Swallow(x.h, e), at |-> Edge(mem, e),
                 size |-> x.size + mem[e].size + HeaderSize]
           ELSE [h |-> x.h, at |-> e, size |-> x.size]
  <1> DEFINE N == Cardinality(DOMAIN x.h.mem)
             y0 == [h |-> x.h, at |-> e, size |-> x.size]
             Round(y) ==
               IF ~(y.at \in DOMAIN y.h.mem /\ y.h.mem[y.at].free) THEN y
               ELSE [h |-> Swallow(y.h, y.at), at |-> EndOf(y.h, y.at),
                     size |-> y.size + y.h.mem[y.at].size + HeaderSize]
             y1 == Round(y0)
             loop == CHOOSE loop : loop = [n \in 0 .. N |-> IF n = 0 THEN y0 ELSE Round(loop[n - 1])]
             g == [n \in 0 .. N |-> IF n = 0 THEN y0 ELSE y1]
  <1>1. Forward(x, e) = loop[N] BY DEF Forward
  <1>2. y0.h = x.h /\ y0.at = e /\ y0.size = x.size OBVIOUS
  <1>3. /\ DOMAIN x.h.mem = DOMAIN mem
        /\ \A b \in DOMAIN mem : x.h.mem[b].size = mem[b].size /\ x.h.mem[b].free = mem[b].free
    BY DEF SameBlocks
  <1>4. \A b : (b \in DOMAIN x.h.mem /\ x.h.mem[b].free) <=> b \in Free(mem)
    BY <1>3 DEF Free
  <1>5. \A b \in DOMAIN mem : EndOf(x.h, b) = Edge(mem, b) BY <1>3 DEF EndOf, Edge
  <1>6. Free(mem) \subseteq DOMAIN mem BY DEF Free
  <1>7. y1 = IF e \in Free(mem)
             THEN [h |-> Swallow(x.h, e), at |-> Edge(mem, e),
                   size |-> x.size + mem[e].size + HeaderSize]
             ELSE y0
    <2> HIDE DEF y0
    <2> QED BY <1>2, <1>3, <1>4, <1>5, <1>6, SMTT(40)
  <1>8. Round(y1) = y1
    <2>1. CASE e \notin Free(mem) BY <1>7, <2>1
    <2>2. CASE e \in Free(mem)
      <3> DEFINE s == Swallow(x.h, e)
      <3>1. SameBlocks(s.mem, x.h.mem)
        <4>1. e \in F /\ cls[e] = map_down(x.h.mem[e].size) BY <1>3, <1>6, <2>2
        <4> QED BY <4>1, SwallowIs
      <3>2. y1.h = s /\ y1.at = Edge(mem, e) BY <1>7, <2>2
      <3> HIDE DEF s
      <3>3. DOMAIN s.mem = DOMAIN mem /\ \A b \in DOMAIN mem : s.mem[b].free = mem[b].free
        BY <1>3, <3>1 DEF SameBlocks
      <3>4. Edge(mem, e) \notin Free(mem) BY <2>2 DEF Merged
      <3>5. ~(y1.at \in DOMAIN y1.h.mem /\ y1.h.mem[y1.at].free)
        BY <3>2, <3>3, <3>4 DEF Free
      <3> HIDE DEF y1
      <3> QED BY <3>5
    <2> HIDE DEF y1, Round
    <2> QED BY <2>1, <2>2
  <1>9. N \in Nat /\ N # 0 BY <1>3, Rounds
  <1> HIDE DEF Round, y0, N
  <1>10. y1 = Round(y0) OBVIOUS
  <1> HIDE DEF y1
  <1>11. g = [n \in 0 .. N |-> IF n = 0 THEN y0 ELSE Round(g[n - 1])]
    <2>1. ASSUME NEW n \in 0 .. N, n # 0 PROVE Round(g[n - 1]) = y1
      <3>1. n - 1 \in 0 .. N BY <1>9, <2>1
      <3>2. g[n - 1] = y0 \/ g[n - 1] = y1 BY <3>1
      <3> QED BY <1>8, <1>10, <3>2
    <2> QED BY <2>1
  <1>12. loop = [n \in 0 .. N |-> IF n = 0 THEN y0 ELSE Round(loop[n - 1])]
    <2> HIDE DEF g
    <2> QED BY <1>11
  <1> HIDE DEF loop
  <1>13. loop[0] = y0 BY <1>9, <1>12
  <1>14. ASSUME NEW n \in 1 .. N, loop[n - 1] \in {y0, y1} PROVE loop[n] = y1
    <2>1. n \in 0 .. N /\ n # 0 OBVIOUS
    <2>2. loop[n] = Round(loop[n - 1]) BY <1>12, <2>1
    <2> QED BY <1>8, <1>10, <1>14, <2>2
  <1>15. loop[N] = y1
    <2>1. OneRound(loop, N, y0, y1) BY <1>13, <1>14 DEF OneRound
    <2> QED BY <1>9, <2>1, Settles
  <1> QED BY <1>1, <1>7, <1>15 DEF y0

-----------------------------------------------------------------------------
(* The merged block                                                        *)

(* The blocks from lo to hi, the last of which ends at hi, become one free *)
(* block.                                                                  *)
Outside(m, lo, hi) == {b \in DOMAIN m : b <= lo \/ b >= hi}
JoinMem(m, lo, hi) ==
    LET left == [b \in Outside(m, lo, hi) |-> m[b]]
    IN  Tag(left, lo, left[lo].prev_phys, hi - lo - HeaderSize)

IsJoin(m, k, lo, hi) ==
    /\ DOMAIN k = Outside(m, lo, hi)
    /\ Headers(k) /\ Tiles(k)
    /\ lo \in DOMAIN k /\ k[lo].free = TRUE /\ Edge(k, lo) = hi
    /\ \A b \in DOMAIN k : b # lo =>
         /\ k[b].prev = m[b].prev /\ k[b].next = m[b].next /\ k[b].free = m[b].free
         /\ k[b].size = m[b].size

LEMMA JoinMemIs ==
  ASSUME NEW m, Headers(m), Tiles(m), NEW lo \in DOMAIN m, NEW last \in DOMAIN m, NEW hi,
         lo <= last, Edge(m, last) = hi
  PROVE  IsJoin(m, JoinMem(m, lo, hi), lo, hi)
  <1> DEFINE k == JoinMem(m, lo, hi)
             size == hi - lo - 8
             D == Outside(m, lo, hi)
             head == [prev_phys |-> m[lo].prev_phys, size |-> size, free |-> TRUE,
                      prev |-> NULL, next |-> NULL]
  <1>1. /\ lo \in Nat /\ lo % 8 = 0 /\ last \in Nat /\ last % 8 = 0
        /\ m[last].size \in Nat /\ m[last].size % 8 = 0 /\ m[last].size >= 8
        /\ hi = last + m[last].size + 8 /\ m[lo].size \in Nat /\ m[lo].size >= 8
        /\ Edge(m, lo) = lo + m[lo].size + 8
    BY Numbers DEF Tiles
  <1>2. hi \in Nat /\ hi % 8 = 0 /\ hi > last /\ hi > lo BY <1>1
  <1>3. hi <= HEAP_END /\ (hi \notin DOMAIN m => hi = HEAP_END)
    <2>1. hi \in DOMAIN m => hi < HEAP_END BY Numbers
    <2>2. hi \notin DOMAIN m => hi = HEAP_END BY DEF Tiles
    <2> QED BY <1>2, <2>1, <2>2, Params
  <1>4. hi >= lo + 16
    <2>1. CASE lo = last BY <1>1, <2>1
    <2>2. CASE lo # last
      <3>1. last >= Edge(m, lo) BY <1>1, <2>2 DEF Tiles
      <3> QED BY <1>1, <3>1
    <2> QED BY <2>1, <2>2
  <1>5. size \in MIN_PAYLOAD .. INITIAL_FREE /\ size \in Nat /\ size % 8 = 0
    BY <1>1, <1>2, <1>3, <1>4, Params
  <1>6. lo \in D /\ D \subseteq DOMAIN m /\ \A b \in D : b \in Nat
    <2>1. \A b \in DOMAIN m : b \in Nat BY Numbers
    <2> QED BY <1>1, <2>1 DEF Outside
  <1>7. /\ DOMAIN k = D /\ k[lo] = head
        /\ \A b \in D : b # lo =>
              k[b] = [m[b] EXCEPT !.prev_phys = IF b = hi THEN lo ELSE @]
    <2> DEFINE left == [b \in D |-> m[b]]
    <2>1. hi - lo - HeaderSize = size /\ lo + size + HeaderSize = hi BY <1>1, <1>2, Params
    <2>2. left[lo].prev_phys = m[lo].prev_phys BY <1>6
    <2>3. k = Tag(left, lo, m[lo].prev_phys, size) BY <2>1, <2>2 DEF JoinMem
    <2>4. DOMAIN left = D /\ \A b \in D : left[b] = m[b] OBVIOUS
    <2>5. D \cup {lo} = D BY <1>6
    <2>6. k = [b \in D |-> IF b = lo THEN head
                           ELSE [left[b] EXCEPT !.prev_phys = IF b = hi THEN lo ELSE @]]
      BY <2>1, <2>3, <2>4, <2>5 DEF Tag
    <2> HIDE DEF k, left, head, size, D
    <2> QED BY <1>6, <2>4, <2>6
  <1> HIDE DEF k
  <1>8. /\ k[lo].free = TRUE /\ k[lo].size = size /\ k[lo].prev_phys = m[lo].prev_phys
        /\ k[lo] \in Block
    <2>1. m[lo].prev_phys \in Ref /\ NULL \in Ref
      <3>1. m[lo].prev_phys \in Ref BY Numbers
      <3> QED BY <3>1 DEF Ref
    <2> HIDE DEF size
    <2> QED BY <1>5, <1>7, <2>1 DEF Block, Ref
  <1>9. ASSUME NEW b \in D, b # lo
        PROVE  /\ k[b].prev = m[b].prev /\ k[b].next = m[b].next /\ k[b].free = m[b].free
               /\ k[b].size = m[b].size
               /\ k[b].prev_phys = IF b = hi THEN lo ELSE m[b].prev_phys
               /\ k[b] \in Block
    <2>1. m[b] \in Block BY <1>6, Numbers
    <2>2. lo \in Ref BY DEF Headers, Ref
    <2>3. k[b] = [m[b] EXCEPT !.prev_phys = IF b = hi THEN lo ELSE @] BY <1>7, <1>9
    <2> HIDE DEF D
    <2> QED BY <2>1, <2>2, <2>3 DEF Block, Ref
  <1>10. Headers(k)
    <2>1. D \subseteq Addr BY <1>6 DEF Headers
    <2> QED BY <1>7, <1>8, <1>9, <2>1 DEF Headers
  <1>11. Edge(k, lo) = hi BY <1>1, <1>2, <1>8, Params DEF Edge
  <1>12. \A b \in D : b # lo => Edge(k, b) = Edge(m, b) BY <1>9 DEF Edge
  <1> HIDE DEF size, head
  <1>13. \A b \in DOMAIN m : b \in Nat /\ Edge(m, b) \in Nat /\ Edge(m, b) > b /\ b < HEAP_END
    BY Numbers
  <1>14. \A b, c \in DOMAIN m : c <= b \/ c >= Edge(m, b) BY DEF Tiles
  <1>15. ASSUME NEW x \in DOMAIN k
         PROVE  /\ k[x].size % 8 = 0
                /\ \A b \in DOMAIN k : b <= x \/ b >= Edge(k, x)
                /\ IF Edge(k, x) \in DOMAIN k THEN k[Edge(k, x)].prev_phys = x
                   ELSE Edge(k, x) = HEAP_END
                /\ x # 0 => k[x].prev_phys \in DOMAIN k /\ Edge(k, k[x].prev_phys) = x
    <2>1. CASE x = lo
      <3>1. k[x].size % 8 = 0 BY <1>5, <1>8, <2>1
      <3>2. \A b \in DOMAIN k : b <= x \/ b >= Edge(k, x) BY <1>7, <1>11, <2>1 DEF Outside
      <3>3. IF Edge(k, x) \in DOMAIN k THEN k[Edge(k, x)].prev_phys = x
            ELSE Edge(k, x) = HEAP_END
        <4>1. hi # lo BY <1>1, <1>2
        <4>2. hi \in DOMAIN m => hi \in D BY <1>2 DEF Outside
        <4> QED BY <1>3, <1>7, <1>9, <1>11, <2>1, <4>1, <4>2
      <3>4. x # 0 => k[x].prev_phys \in DOMAIN k /\ Edge(k, k[x].prev_phys) = x
        <4> SUFFICES ASSUME x # 0
                     PROVE  k[x].prev_phys \in DOMAIN k /\ Edge(k, k[x].prev_phys) = x
          OBVIOUS
        <4>1. PICK p : p = m[x].prev_phys OBVIOUS
        <4>2. p \in DOMAIN m /\ Edge(m, p) = x BY <2>1, <4>1 DEF Tiles
        <4>3. p # lo /\ p \in D BY <1>1, <1>13, <2>1, <4>2 DEF Outside
        <4> QED BY <1>7, <1>8, <1>12, <2>1, <4>1, <4>2, <4>3
      <3> QED BY <3>1, <3>2, <3>3, <3>4
    <2>2. CASE x # lo
      <3>1. x \in D /\ x \in DOMAIN m /\ Edge(k, x) = Edge(m, x) /\ (x <= lo \/ x >= hi)
        BY <1>6, <1>7, <1>12, <2>2 DEF Outside
      <3>2. k[x].size % 8 = 0 BY <1>9, <2>2, <3>1 DEF Tiles
      <3>3. \A b \in DOMAIN k : b <= x \/ b >= Edge(k, x) BY <1>6, <1>7, <1>14, <3>1
      <3>4. IF Edge(k, x) \in DOMAIN k THEN k[Edge(k, x)].prev_phys = x
            ELSE Edge(k, x) = HEAP_END
        <4>1. PICK e : e = Edge(m, x) OBVIOUS
        <4>2. e \in Nat /\ e > x /\ x \in Nat BY <1>13, <3>1, <4>1
        <4>3. e # hi
          <5> SUFFICES ASSUME e = hi PROVE FALSE OBVIOUS
          <5>1. x = last BY <3>1, <4>1, OneEdge
          <5> QED BY <1>1, <1>2, <2>2, <3>1, <5>1
        <4>4. IF e \in DOMAIN m THEN m[e].prev_phys = x ELSE e = HEAP_END
          BY <3>1, <4>1 DEF Tiles
        <4>5. e \in DOMAIN m => e \in D
          <5> SUFFICES ASSUME e \in DOMAIN m, ~(e <= lo), ~(e >= hi) PROVE FALSE
            BY DEF Outside
          <5>1. lo <= x \/ lo >= e BY <1>14, <3>1, <4>1
          <5> QED BY <1>1, <1>2, <2>2, <3>1, <4>2, <5>1
        <4>6. e \in D => k[e].prev_phys = m[e].prev_phys BY <1>8, <1>9, <4>3
        <4> QED BY <1>6, <1>7, <3>1, <4>1, <4>4, <4>5, <4>6
      <3>5. x # 0 => k[x].prev_phys \in DOMAIN k /\ Edge(k, k[x].prev_phys) = x
        <4> SUFFICES ASSUME x # 0
                     PROVE  k[x].prev_phys \in DOMAIN k /\ Edge(k, k[x].prev_phys) = x
          OBVIOUS
        <4>1. CASE x = hi
          <5>1. k[x].prev_phys = lo BY <1>9, <2>2, <3>1, <4>1
          <5> QED BY <1>6, <1>7, <1>11, <4>1, <5>1
        <4>2. CASE x # hi
          <5>1. PICK p : p = m[x].prev_phys OBVIOUS
          <5>2. p \in DOMAIN m /\ Edge(m, p) = x BY <3>1, <5>1 DEF Tiles
          <5>3. p \in Nat /\ x \in Nat /\ p < x /\ x < HEAP_END BY <1>13, <3>1, <5>2
          <5>4. p < lo \/ p >= hi
            <6> SUFFICES ASSUME p >= lo, p < hi PROVE FALSE BY <1>1, <1>2, <5>3
            <6>1. x > hi BY <1>1, <1>2, <2>2, <3>1, <4>2, <5>3
            <6>2. hi \in DOMAIN m BY <1>2, <1>3, <5>3, <6>1, Params
            <6>3. hi <= p \/ hi >= x BY <1>14, <5>2, <6>2
            <6> QED BY <1>2, <5>3, <6>1, <6>3
          <5>5. p \in D /\ p # lo BY <1>1, <1>2, <5>2, <5>3, <5>4 DEF Outside
          <5>6. k[x].prev_phys = p BY <1>9, <2>2, <3>1, <4>2, <5>1
          <5> QED BY <1>7, <1>12, <5>2, <5>5, <5>6
        <4> QED BY <4>1, <4>2
      <3> QED BY <3>2, <3>3, <3>4, <3>5
    <2> QED BY <2>1, <2>2
  <1>16. 0 \in DOMAIN k /\ k[0].prev_phys = NULL
    <2>1. 0 \in DOMAIN m /\ m[0].prev_phys = NULL BY DEF Tiles
    <2>2. 0 \in D BY <1>1, <2>1 DEF Outside
    <2>3. hi # 0 BY <1>1, <1>2
    <2> QED BY <1>7, <1>8, <1>9, <2>1, <2>2, <2>3
  <1>17. Tiles(k) BY <1>15, <1>16 DEF Tiles
  <1>18. IsJoin(m, k, lo, hi) BY <1>6, <1>7, <1>8, <1>9, <1>10, <1>11, <1>17 DEF IsJoin
  <1> QED BY <1>18 DEF k

(* Where the merge of block a begins and ends, the block it ends with, and *)
(* the free blocks it leaves in their lists.                               *)
Behind(a) == Edge(mem, a)
Lo(a) == IF mem[a].prev_phys \in Free(mem) THEN mem[a].prev_phys ELSE a
Hi(a) == IF Behind(a) \in Free(mem) THEN Edge(mem, Behind(a)) ELSE Behind(a)
Last(a) == IF Behind(a) \in Free(mem) THEN Behind(a) ELSE a
Kept(a) == {b \in Free(mem) : b # Lo(a) /\ b # Last(a)}

LEMMA MergeEnds ==
  ASSUME Good(Heap), NEW a \in Taken(mem)
  PROVE  /\ Lo(a) \in DOMAIN mem /\ Last(a) \in DOMAIN mem
         /\ Lo(a) <= a /\ a < Hi(a) /\ Lo(a) <= Last(a) /\ Edge(mem, Last(a)) = Hi(a)
         /\ \A b \in DOMAIN mem : b <= Lo(a) \/ b >= Hi(a) \/ b = a \/ b = Last(a)
         /\ Lo(a) = a \/ Lo(a) \in Free(mem)
         /\ Last(a) = a \/ Last(a) \in Free(mem)
         /\ Hi(a) \notin Free(mem) /\ \A b \in Free(mem) : Edge(mem, b) # Lo(a)
  <1> DEFINE p == mem[a].prev_phys
             e == Behind(a)
  <1>1. /\ Headers(mem) /\ Tiles(mem) /\ Merged(mem) /\ Free(mem) \subseteq DOMAIN mem
        /\ a \in DOMAIN mem /\ a \notin Free(mem)
    <2>1. Heap.mem = mem BY DEF Heap
    <2> QED BY <2>1, SoundFree DEF Taken
  <1>2. \A b \in DOMAIN mem : /\ b \in Nat /\ Edge(mem, b) \in Nat /\ Edge(mem, b) > b
                              /\ \A c \in DOMAIN mem : c <= b \/ c >= Edge(mem, b)
    BY <1>1, Numbers DEF Tiles
  <1>3. p \in Free(mem) => Edge(mem, p) = a
    <2> SUFFICES ASSUME p \in Free(mem) PROVE Edge(mem, p) = a OBVIOUS
    <2>1. a # 0
      <3>1. NULL \notin DOMAIN mem BY <1>1, Params DEF Headers
      <3> QED BY <1>1, <3>1 DEF Tiles
    <2> QED BY <1>1, <2>1 DEF Tiles
  <1>4. Lo(a) \in DOMAIN mem /\ Last(a) \in DOMAIN mem BY <1>1 DEF Lo, Last
  <1>5. /\ Lo(a) <= a /\ (Lo(a) = a \/ (Lo(a) \in Free(mem) /\ Edge(mem, Lo(a)) = a))
    BY <1>1, <1>2, <1>3 DEF Lo
  <1>6. /\ Last(a) >= a /\ Edge(mem, Last(a)) = Hi(a)
        /\ Last(a) = a \/ (Last(a) \in Free(mem) /\ Last(a) = e)
        /\ Last(a) = a => Hi(a) = e
    BY <1>1, <1>2 DEF Last, Hi, Behind
  <1>7. Hi(a) \notin Free(mem)
    <2>1. CASE e \in Free(mem) BY <1>1, <2>1 DEF Hi, Merged
    <2>2. CASE e \notin Free(mem) BY <2>2 DEF Hi
    <2> QED BY <1>1, <2>1, <2>2
  <1>8. \A b \in Free(mem) : Edge(mem, b) # Lo(a)
    <2> SUFFICES ASSUME NEW b \in Free(mem), Edge(mem, b) = Lo(a) PROVE FALSE OBVIOUS
    <2>1. CASE Lo(a) \in Free(mem) BY <1>1, <2>1 DEF Merged
    <2>2. CASE Lo(a) \notin Free(mem)
      <3>1. Lo(a) = a /\ p \notin Free(mem) BY <2>2 DEF Lo
      <3>2. mem[a].prev_phys = b
        <4>1. b \in DOMAIN mem /\ Edge(mem, b) = a BY <1>1, <3>1
        <4> QED BY <1>1, <4>1 DEF Tiles
      <3> QED BY <3>1, <3>2
    <2> QED BY <2>1, <2>2
  <1>9. a < Hi(a)
    <2>1. Edge(mem, Last(a)) > Last(a) /\ Edge(mem, Last(a)) \in Int /\ Last(a) \in Int /\ a \in Int
      BY <1>1, <1>2, <1>4
    <2> QED BY <1>6, <2>1
  <1>10. ASSUME NEW b \in DOMAIN mem
         PROVE  b <= Lo(a) \/ b >= Hi(a) \/ b = a \/ b = Last(a)
    <2>1. b <= a \/ b >= e BY <1>1, <1>2 DEF Behind
    <2>2. b <= Last(a) \/ b >= Hi(a) BY <1>2, <1>4, <1>6
    <2>3. Lo(a) = a \/ b <= Lo(a) \/ b >= a BY <1>2, <1>4, <1>5
    <2>4. b \in Int /\ a \in Int /\ e \in Int /\ Lo(a) \in Int /\ Last(a) \in Int /\ Hi(a) \in Int
      <3>1. e \in Nat /\ Hi(a) \in Nat BY <1>1, <1>2, <1>4, <1>6 DEF Behind
      <3> QED BY <1>1, <1>2, <1>4, <3>1
    <2> HIDE DEF e
    <2> QED BY <1>5, <1>6, <2>1, <2>2, <2>3, <2>4
  <1>11. Lo(a) <= Last(a)
    <2>1. a \in Int /\ Lo(a) \in Int /\ Last(a) \in Int BY <1>1, <1>2, <1>4
    <2> QED BY <1>5, <1>6, <2>1
  <1> QED BY <1>4, <1>5, <1>6, <1>7, <1>8, <1>9, <1>10, <1>11

(* The two loops together.                                                 *)
LEMMA BothIs ==
  ASSUME Good(Heap), NEW a \in Taken(mem)
  PROVE  LET back == Backward(Heap, a)
             both == Forward(back, EndOf(Heap, a))
         IN  /\ back.curr = Lo(a) /\ both.at = Hi(a)
             /\ both.size = Hi(a) - Lo(a) - HeaderSize
             /\ Sound(both.h, Kept(a), ClassOf(mem)) /\ SameBlocks(both.h.mem, mem)
             /\ both.h = [mem |-> both.h.mem, array |-> both.h.array,
                          f |-> both.h.f, s |-> both.h.s]
  <1> DEFINE back == Backward(Heap, a)
             both == Forward(back, EndOf(Heap, a))
             F == Free(mem)
             cls == ClassOf(mem)
             p == mem[a].prev_phys
             e == Behind(a)
             G == IF p \in F THEN F \ {p} ELSE F
             Whole(h) == h = [mem |-> h.mem, array |-> h.array, f |-> h.f, s |-> h.s]
  <1>1. /\ Heap.mem = mem /\ Headers(mem) /\ Tiles(mem) /\ Merged(mem) /\ F \subseteq DOMAIN mem
        /\ Sound(Heap, F, cls) /\ a \in DOMAIN mem /\ a \notin F
        /\ \A b \in F : cls[b] = map_down(mem[b].size)
    <2>1. Heap.mem = mem BY DEF Heap
    <2> QED BY <2>1, SoundFree DEF Taken, Good
  <1>2. back = IF p \in F
               THEN [h |-> Swallow(Heap, p), curr |-> p, size |-> mem[a].size + mem[p].size + HeaderSize]
               ELSE [h |-> Heap, curr |-> a, size |-> mem[a].size]
    BY BackwardIs
  <1>3. EndOf(Heap, a) = e BY <1>1 DEF EndOf, Edge, Behind
  <1>4. \A h, b : Whole(Swallow(h, b)) BY DEF Swallow, Unlink
  <1>5. Whole(Heap) BY DEF Heap
  <1>6. \A b \in F : /\ Sound(Swallow(Heap, b), F \ {b}, cls)
                     /\ SameBlocks(Swallow(Heap, b).mem, mem)
    <2>1. ASSUME NEW b \in F
          PROVE  Sound(Swallow(Heap, b), F \ {b}, cls) /\ SameBlocks(Swallow(Heap, b).mem, mem)
      <3>1. cls[b] = map_down(Heap.mem[b].size) BY <1>1
      <3> HIDE DEF F, cls
      <3> QED BY <1>1, <3>1, SwallowIs
    <2> QED BY <2>1
  <1> HIDE DEF back, cls, F, p, Whole
  <1>7. /\ back.curr = Lo(a) /\ Sound(back.h, G, cls) /\ SameBlocks(back.h.mem, mem) /\ Whole(back.h)
        /\ back.size = IF p \in F THEN mem[a].size + mem[p].size + HeaderSize ELSE mem[a].size
    <2>1. CASE p \in F BY <1>2, <1>4, <1>6, <2>1 DEF Lo, p, F
    <2>2. CASE p \notin F
      <3>1. SameBlocks(mem, mem) BY DEF SameBlocks
      <3> QED BY <1>1, <1>2, <1>5, <2>2, <3>1 DEF Lo, p, F
    <2> QED BY <2>1, <2>2
  <1>8. e \in F => e \in G /\ cls[e] = map_down(mem[e].size)
    <2> SUFFICES ASSUME e \in F PROVE e # p \/ p \notin F BY <1>1
    <2> SUFFICES ASSUME e = p, p \in F PROVE FALSE OBVIOUS
    <2>1. Lo(a) = p /\ Lo(a) <= a BY MergeEnds DEF Lo, p, F
    <2>2. e > a /\ e \in Nat /\ a \in Nat BY <1>1, Numbers DEF Behind
    <2> QED BY <2>1, <2>2
  <1>9. both = IF e \in F
               THEN [h |-> Swallow(back.h, e), at |-> Edge(mem, e),
                     size |-> back.size + mem[e].size + HeaderSize]
               ELSE [h |-> back.h, at |-> e, size |-> back.size]
    <2> HIDE DEF e, G
    <2> QED BY <1>1, <1>3, <1>7, <1>8, ForwardIs, ZenonT(60) DEF F
  <1> HIDE DEF both
  <1>10. both.at = Hi(a) BY <1>9 DEF Hi, F
  <1>11. Whole(both.h) BY <1>4, <1>7, <1>9
  <1>12. Sound(both.h, Kept(a), cls) /\ SameBlocks(both.h.mem, mem)
    <2>1. p # a /\ e # a
      <3>1. e > a /\ a \in Nat BY <1>1, Numbers DEF Behind
      <3>2. p \in F => a \notin F BY <1>1
      <3>3. p # a
        <4>1. CASE a = 0
          <5>1. p = NULL BY <1>1, <4>1 DEF Tiles, p
          <5> QED BY <4>1, <5>1, Params
        <4>2. CASE a # 0
          <5>1. p \in DOMAIN mem /\ Edge(mem, p) = a BY <1>1, <4>2 DEF Tiles, p
          <5>2. Edge(mem, p) > p /\ p \in Nat BY <1>1, <5>1, Numbers
          <5> QED BY <5>1, <5>2
        <4> QED BY <4>1, <4>2
      <3> QED BY <3>1, <3>3
    <2>2. CASE e \in F
      <3>1. Kept(a) = G \ {e} BY <1>1, <2>1, <2>2 DEF Kept, Lo, Last, F, p
      <3>2. cls[e] = map_down(back.h.mem[e].size)
        <4>1. e \in DOMAIN mem BY <1>1, <2>2
        <4>2. back.h.mem[e].size = mem[e].size BY <1>7, <4>1 DEF SameBlocks
        <4> QED BY <1>8, <2>2, <4>2
      <3>3. Sound(both.h, G \ {e}, cls) /\ SameBlocks(both.h.mem, back.h.mem)
        <4>1. both.h = Swallow(back.h, e) BY <1>9, <2>2
        <4> HIDE DEF G, e
        <4> QED BY <1>7, <1>8, <2>2, <3>2, <4>1, SwallowIs
      <3> QED BY <1>7, <3>1, <3>3 DEF SameBlocks
    <2>3. CASE e \notin F
      <3>1. Kept(a) = G BY <1>1, <2>1, <2>3 DEF Kept, Lo, Last, F, p
      <3> QED BY <1>7, <1>9, <2>3, <3>1
    <2> QED BY <2>2, <2>3
  <1>13. both.size = Hi(a) - Lo(a) - HeaderSize
    <2>1. a \in Nat /\ mem[a].size \in Nat /\ e = a + mem[a].size + 8 BY <1>1, Numbers DEF Behind
    <2>2. p \in F => p \in Nat /\ mem[p].size \in Nat /\ p + mem[p].size + 8 = a
      <3> SUFFICES ASSUME p \in F
                   PROVE  p \in Nat /\ mem[p].size \in Nat /\ p + mem[p].size + 8 = a
        OBVIOUS
      <3>1. p \in Nat /\ mem[p].size \in Nat /\ Edge(mem, p) = p + mem[p].size + 8
        BY <1>1, Numbers
      <3>2. a # 0
        <4>1. NULL \notin DOMAIN mem BY <1>1, Params DEF Headers
        <4> QED BY <1>1, <4>1 DEF Tiles, p
      <3>3. Edge(mem, p) = a BY <1>1, <3>2 DEF Tiles, p
      <3> QED BY <3>1, <3>3
    <2>3. e \in F => mem[e].size \in Nat /\ Edge(mem, e) = e + mem[e].size + 8
      BY <1>1, Numbers
    <2>4. Lo(a) = IF p \in F THEN p ELSE a BY DEF Lo, p, F
    <2>5. Hi(a) = IF e \in F THEN Edge(mem, e) ELSE e BY DEF Hi, F
    <2>6. both.size = IF e \in F THEN back.size + mem[e].size + HeaderSize ELSE back.size
      BY <1>9
    <2> HIDE DEF e
    <2> QED BY <1>7, <2>1, <2>2, <2>3, <2>4, <2>5, <2>6, Params
  <1> QED BY <1>7, <1>10, <1>11, <1>12, <1>13 DEF both, back, cls, Whole

(* kFree's part of the work: the block that is given back becomes free,    *)
(* and no other block that is taken is touched.                            *)
IsMerged(k, a) ==
    /\ Good(k)
    /\ Taken(k.mem) = Taken(mem) \ {a}
    /\ \A b \in Taken(mem) \ {a} : k.mem[b].size = mem[b].size

LEMMA MergeIs ==
  ASSUME Good(Heap), NEW a \in Taken(mem) PROVE IsMerged(Merge(a), a)
  <1> DEFINE back == Backward(Heap, a)
             both == Forward(back, EndOf(Heap, a))
             x == both.h
             lo == Lo(a)
             hi == Hi(a)
             m == JoinMem(x.mem, lo, hi)
             h == [x EXCEPT !.mem = m]
             k == Merge(a)
             G == Kept(a)
             cls == ClassOf(mem)
             F == Free(mem)
  <1>1. /\ back.curr = lo /\ both.at = hi /\ both.size = hi - lo - HeaderSize
        /\ Sound(x, G, cls) /\ SameBlocks(x.mem, mem)
        /\ x = [mem |-> x.mem, array |-> x.array, f |-> x.f, s |-> x.s]
    BY BothIs
  <1>2. k = Push(h, lo) BY <1>1 DEF Merge, JoinMem, Outside
  <1> HIDE DEF back, both
  <1>3. h.mem = m /\ h.array = x.array /\ h.f = x.f /\ h.s = x.s
    <2> HIDE DEF m, x
    <2> QED BY <1>1
  <1> HIDE DEF k, m, x, h
  <1>4. /\ Headers(mem) /\ Tiles(mem) /\ Merged(mem) /\ F \subseteq DOMAIN mem
        /\ a \in DOMAIN mem /\ a \notin F
        /\ \A b \in F : cls[b] = map_down(mem[b].size)
    <2>1. Heap.mem = mem BY DEF Heap
    <2> QED BY <2>1, SoundFree DEF Taken
  <1>5. /\ lo \in DOMAIN mem /\ Last(a) \in DOMAIN mem
        /\ lo <= a /\ a < hi /\ lo <= Last(a) /\ Edge(mem, Last(a)) = hi
        /\ \A b \in DOMAIN mem : b <= lo \/ b >= hi \/ b = a \/ b = Last(a)
        /\ lo = a \/ lo \in F
        /\ Last(a) = a \/ Last(a) \in F
        /\ hi \notin F /\ \A b \in F : Edge(mem, b) # lo
    BY MergeEnds
  <1>6. /\ DOMAIN x.mem = DOMAIN mem /\ Tiles(x.mem) /\ Headers(x.mem) /\ Bitmaps(x)
        /\ Linked(x, G, cls)
        /\ \A b \in DOMAIN mem : /\ x.mem[b].size = mem[b].size /\ x.mem[b].free = mem[b].free
                                 /\ Edge(x.mem, b) = Edge(mem, b)
    BY <1>1, <1>4, SameTiles DEF Sound, SameBlocks
  <1>7. IsJoin(x.mem, m, lo, hi)
    <2>1. Edge(x.mem, Last(a)) = hi BY <1>5, <1>6
    <2>2. lo \in DOMAIN x.mem /\ Last(a) \in DOMAIN x.mem BY <1>5, <1>6
    <2> HIDE DEF lo, hi
    <2> QED BY <1>5, <1>6, <2>1, <2>2, JoinMemIs DEF m
  <1> HIDE DEF lo, hi, G, cls, F
  <1>8. /\ DOMAIN m = Outside(mem, lo, hi) /\ Headers(m) /\ Tiles(m)
        /\ lo \in DOMAIN m /\ m[lo].free = TRUE /\ Edge(m, lo) = hi
        /\ \A b \in DOMAIN m : b # lo =>
             /\ m[b].prev = x.mem[b].prev /\ m[b].next = x.mem[b].next
             /\ m[b].free = mem[b].free /\ m[b].size = mem[b].size
    BY <1>6, <1>7 DEF IsJoin, Outside
  <1>9. \A b \in DOMAIN mem : b \in Int /\ Edge(mem, b) \in Int /\ Edge(mem, b) > b
    BY <1>4, Numbers
  <1>10. hi \in Int /\ lo \in Int /\ a \in Int /\ hi > lo /\ Last(a) \in Int /\ Last(a) < hi
    BY <1>4, <1>5, <1>9
  <1>11. G = {b \in F : b # lo /\ b # Last(a)} BY DEF G, Kept, F, lo
  <1>12. DOMAIN m = {b \in DOMAIN mem : (b # a /\ b # Last(a)) \/ b = lo}
    <2>1. ASSUME NEW b \in DOMAIN mem
          PROVE  (b <= lo \/ b >= hi) <=> ((b # a /\ b # Last(a)) \/ b = lo)
      BY <1>5, <1>9, <1>10
    <2> QED BY <1>8, <2>1 DEF Outside
  <1>13. G \subseteq DOMAIN m /\ lo \notin G BY <1>4, <1>11, <1>12
  <1>14. Free(m) = G \cup {lo}
    <2>1. ASSUME NEW b \in DOMAIN m PROVE m[b].free <=> b \in G \cup {lo}
      <3>1. b \in DOMAIN mem BY <1>12
      <3>2. CASE b = lo BY <1>8, <3>2
      <3>3. CASE b # lo
        <4>1. m[b].free = mem[b].free /\ b # Last(a) BY <1>8, <1>12, <3>3
        <4>2. mem[b].free <=> b \in F BY <3>1 DEF F, Free
        <4> QED BY <1>11, <3>3, <4>1, <4>2
      <3> QED BY <3>2, <3>3
    <2> QED BY <1>8, <1>13, <2>1 DEF Free
  <1>15. Taken(m) = Taken(mem) \ {a}
    <2>1. ASSUME NEW b \in DOMAIN mem
          PROVE  (b \in DOMAIN m /\ b \notin G \cup {lo}) <=> (b \notin F /\ b # a)
      BY <1>4, <1>5, <1>11, <1>12
    <2>2. DOMAIN m \subseteq DOMAIN mem BY <1>12
    <2> QED BY <1>14, <2>1, <2>2 DEF Taken, F
  <1>16. Sound(h, G, cls)
    <2>1. Keeps(x, h, G, cls, cls)
      <3>1. DOMAIN h.mem \subseteq Addr BY <1>3, <1>8 DEF Headers
      <3>2. \A b \in G : h.mem[b].prev = x.mem[b].prev /\ h.mem[b].next = x.mem[b].next
        BY <1>3, <1>8, <1>13
      <3> QED BY <1>3, <1>13, <3>1, <3>2 DEF Keeps
    <2>2. Linked(h, G, cls) BY <1>6, <2>1, SameLists
    <2>3. Bitmaps(h) BY <1>3, <1>6 DEF Bitmaps
    <2> QED BY <1>3, <1>8, <2>2, <2>3 DEF Sound
  <1> DEFINE cls2 == ClassOf(m)
  <1>17. cls2[lo] = map_down(h.mem[lo].size) /\ \A b \in G : cls2[b] = cls[b]
    <2>1. \A b \in G \cup {lo} : cls2[b] = map_down(m[b].size) BY <1>14 DEF ClassOf
    <2>2. \A b \in G : m[b].size = mem[b].size /\ b \in F BY <1>8, <1>11, <1>13
    <2> QED BY <1>3, <1>4, <2>1, <2>2 DEF F, cls
  <1>18. Sound(k, G \cup {lo}, cls2) /\ SameBlocks(k.mem, m)
    <2>1. lo \in DOMAIN h.mem BY <1>3, <1>8
    <2> HIDE DEF cls2
    <2> QED BY <1>2, <1>3, <1>13, <1>16, <1>17, <2>1, PushIs
  <1>19. Merged(m)
    <2>1. ASSUME NEW b \in Free(m), Edge(m, b) \in Free(m) PROVE FALSE
      <3>1. CASE b = lo
        <4>1. hi \in G BY <1>8, <1>10, <1>14, <2>1, <3>1
        <4> QED BY <1>5, <1>11, <4>1 DEF F
      <3>2. CASE b # lo
        <4>1. b \in G /\ b \in F /\ b \in DOMAIN m BY <1>11, <1>13, <1>14, <3>2
        <4>2. Edge(m, b) = Edge(mem, b) BY <1>8, <3>2, <4>1 DEF Edge
        <4>3. Edge(mem, b) \notin F BY <1>4, <4>1 DEF Merged, F
        <4>4. Edge(mem, b) # lo BY <1>5, <4>1 DEF F
        <4> QED BY <1>11, <1>14, <2>1, <4>2, <4>3, <4>4
      <3> QED BY <3>1, <3>2
    <2> QED BY <2>1 DEF Merged
  <1>20. /\ Free(k.mem) = Free(m) /\ Taken(k.mem) = Taken(m) /\ ClassOf(k.mem) = ClassOf(m)
         /\ Tiles(k.mem) /\ Merged(k.mem)
    BY <1>8, <1>18, <1>19, SameTiles
  <1>21. Good(k) BY <1>14, <1>18, <1>20 DEF Good
  <1>22. \A b \in Taken(mem) \ {a} : k.mem[b].size = mem[b].size
    <2> SUFFICES ASSUME NEW b \in Taken(m) PROVE k.mem[b].size = mem[b].size BY <1>15
    <2>1. b \in DOMAIN m /\ b # lo BY <1>14 DEF Taken
    <2> QED BY <1>8, <1>18, <2>1 DEF SameBlocks
  <1>23. IsMerged(k, a) BY <1>15, <1>20, <1>21, <1>22 DEF IsMerged
  <1> QED BY <1>23 DEF k

-----------------------------------------------------------------------------
(* What heap_init writes and heap_destroy leaves                           *)

(* The whole heap as one block lies in the last class.                     *)
LEMMA WholeHeap ==
  /\ LastClass \in Class /\ map_down(INITIAL_FREE) = LastClass
  <1> DEFINE c == map_down(INITIAL_FREE)
             o == FL_COUNT - 1
  <1>1. /\ INITIAL_FREE \in Nat /\ INITIAL_FREE > 0 /\ INITIAL_FREE < HEAP_END
        /\ INITIAL_FREE = HEAP_END - 8 /\ HEAP_END \in Nat
    BY Params
  <1>2. c \in Class /\ LowerBound(c) <= INITIAL_FREE /\ INITIAL_FREE < LowerBound(c) + Width(c[1])
    BY <1>1, DownIs
  <1>3. o \in LIN - 1 .. 29 /\ o > LIN /\ o + 1 = FL_COUNT /\ o # LIN - 1 BY Params
  <1>4. LastClass \in Class /\ LastClass[1] = o /\ LastClass[2] = SL_COUNT - 1
    <2>1. SL_COUNT - 1 \in 0 .. SL_COUNT - 1 /\ FL_COUNT - 1 \in LIN - 1 .. FL_COUNT - 1 BY Params
    <2> QED BY <2>1, ClassIs DEF LastClass
  <1>5. LowerBound(LastClass) <= HEAP_END - 8 /\ LowerBound(LastClass) \in Nat
    <2>1. PICK w \in Nat : w = Width(o) /\ w >= 8 BY <1>3, Widths
    <2>2. PICK b \in Nat : b = Base(o) BY <1>3, Widths
    <2>3. b + SL_COUNT * w = HEAP_END
      <3>1. Bit[o + 1] = HEAP_END BY <1>3 DEF HEAP_END
      <3> QED BY <1>3, <2>1, <2>2, <3>1, Widths
    <2> HIDE DEF o
    <2>4. LowerBound(LastClass) = b + (SL_COUNT - 1) * w BY <1>4, <2>1, <2>2, Bounds
    <2>5. (SL_COUNT - 1) * w + w = SL_COUNT * w
      <3>1. PICK k \in Nat : k = SL_COUNT - 1 BY Params
      <3>2. (k + 1) * w = k * w + w OBVIOUS
      <3>3. SL_COUNT = k + 1 BY <3>1, Params
      <3> QED BY <3>1, <3>2, <3>3
    <2>6. LowerBound(LastClass) \in Nat BY <1>4, Bounds
    <2>7. PICK q \in Nat : q = SL_COUNT * w BY Params
    <2>8. PICK r \in Int : r = (SL_COUNT - 1) * w BY Params
    <2> QED BY <1>1, <2>1, <2>3, <2>4, <2>5, <2>6, <2>7, <2>8
  <1>6. Before(LastClass, c)
    <2> SUFFICES ASSUME ~Before(LastClass, c) PROVE FALSE OBVIOUS
    <2>1. LowerBound(c) + Width(c[1]) <= LowerBound(LastClass) BY <1>2, <1>4, Ordered
    <2>2. LowerBound(c) \in Nat /\ Width(c[1]) \in Nat BY <1>2, Bounds
    <2> QED BY <1>1, <1>2, <1>5, <2>1, <2>2
  <1>7. /\ c = <<c[1], c[2]>> /\ c[1] \in Int /\ c[1] < FL_COUNT /\ c[2] \in Nat /\ c[2] < SL_COUNT
    BY <1>2, ClassIs, Params
  <1> HIDE DEF c
  <1>8. c[1] = o /\ c[2] = SL_COUNT - 1 BY <1>4, <1>6, <1>7, Params DEF Before
  <1>9. c = LastClass BY <1>7, <1>8 DEF LastClass
  <1> QED BY <1>4, <1>9 DEF c

LEMMA FreshIs == Good(Fresh) /\ Taken(Fresh.mem) = {}
  <1> DEFINE h == Fresh
             head == [prev_phys |-> NULL, size |-> INITIAL_FREE, free |-> TRUE,
                      prev |-> NULL, next |-> NULL]
             m == [a \in {0} |-> head]
  <1>1. /\ h.mem = m /\ h.array = [NoBlocks EXCEPT ![LastClass] = 0] /\ h.f = {FL_COUNT - 1}
        /\ h.s = [NoBits EXCEPT ![FL_COUNT - 1] = {SL_COUNT - 1}]
    BY DEF Fresh
  <1>2. DOMAIN m = {0} /\ m[0] = head OBVIOUS
  <1> HIDE DEF m, h
  <1>3. /\ m[0].prev_phys = NULL /\ m[0].size = INITIAL_FREE /\ m[0].free = TRUE
        /\ m[0].prev = NULL /\ m[0].next = NULL
    BY <1>2
  <1>4. 0 \in Addr /\ INITIAL_FREE \in MIN_PAYLOAD .. INITIAL_FREE BY Params DEF Addr
  <1>5. Headers(m)
    <2>1. NULL \in Ref BY DEF Ref
    <2>2. m[0] \in Block BY <1>2, <1>4, <2>1 DEF Block, Ref
    <2> QED BY <1>2, <1>4, <2>2 DEF Headers
  <1>6. Free(m) = {0} /\ Taken(m) = {} /\ ClassOf(m)[0] = LastClass
    <2>1. Free(m) = {0} BY <1>2, <1>3 DEF Free
    <2> QED BY <1>2, <1>3, <2>1, WholeHeap DEF Taken, ClassOf
  <1>7. Edge(m, 0) = HEAP_END BY <1>3, Params DEF Edge
  <1>8. HEAP_END \notin {0} BY Params
  <1>9. Tiles(m)
    <2>1. INITIAL_FREE % 8 = 0
      <3>1. HEAP_END \in Nat /\ HEAP_END % 8 = 0 /\ INITIAL_FREE = HEAP_END - 8 BY Params
      <3> QED BY <3>1
    <2> QED BY <1>2, <1>3, <1>7, <1>8, <2>1 DEF Tiles
  <1>10. Merged(m) BY <1>6, <1>7, <1>8 DEF Merged
  <1>11. \A c \in Class : h.array[c] = IF c = LastClass THEN 0 ELSE NULL
    BY <1>1, WholeHeap DEF NoBlocks
  <1>12. Linked(h, {0}, ClassOf(m))
    <2>1. h.array \in [Class -> Ref]
      <3>1. 0 \in Ref /\ NULL \in Ref BY <1>4 DEF Ref
      <3>2. NoBlocks \in [Class -> Ref] BY <3>1 DEF NoBlocks
      <3> QED BY <1>1, <3>1, <3>2
    <2>2. \E N \in Nat : \E rank \in [{0} -> 0 .. N] : Ranked(h.mem, {0}, rank)
      <3> DEFINE rank == [a \in {0} |-> 0]
      <3>1. rank \in [{0} -> 0 .. 0] OBVIOUS
      <3>2. Ranked(h.mem, {0}, rank) BY <1>1, <1>3 DEF Ranked
      <3> HIDE DEF rank
      <3> QED BY <3>1, <3>2
    <2>3. 0 # NULL BY Params
    <2>4. {0} \subseteq DOMAIN h.mem /\ DOMAIN h.mem \subseteq Addr BY <1>1, <1>2, <1>4
    <2> QED BY <1>1, <1>3, <1>6, <1>11, <2>1, <2>2, <2>3, <2>4, WholeHeap DEF Linked
  <1>13. Bitmaps(h)
    <2>1. FL_COUNT - 1 \in Octaves /\ SL_COUNT - 1 \in SubBins BY Params DEF Octaves, SubBins
    <2>2. h.s \in [Octaves -> SUBSET SubBins]
      <3>1. NoBits \in [Octaves -> SUBSET SubBins] BY DEF NoBits
      <3> QED BY <1>1, <2>1, <3>1
    <2>3. \A o \in Octaves : h.s[o] = IF o = FL_COUNT - 1 THEN {SL_COUNT - 1} ELSE {}
      BY <1>1, <2>1 DEF NoBits
    <2>4. ASSUME NEW o \in Octaves
          PROVE  /\ o \in h.f <=> h.s[o] # {}
                 /\ h.s[o] = {s \in SubBins : h.array[<<o, s>>] # NULL}
      <3>1. o \in h.f <=> h.s[o] # {} BY <1>1, <2>3
      <3>2. \A s \in SubBins : h.array[<<o, s>>] # NULL <=> o = FL_COUNT - 1 /\ s = SL_COUNT - 1
        <4>1. \A s \in SubBins : <<o, s>> \in Class BY DEF Class
        <4>2. 0 # NULL BY Params
        <4> QED BY <1>11, <4>1, <4>2 DEF LastClass
      <3> QED BY <2>1, <2>3, <3>1, <3>2
    <2> QED BY <1>1, <2>1, <2>2, <2>4 DEF Bitmaps
  <1>14. Good(h) BY <1>1, <1>5, <1>6, <1>9, <1>10, <1>12, <1>13 DEF Good, Sound
  <1> QED BY <1>1, <1>6, <1>14 DEF h

LEMMA GoneIs ==
  /\ Sound(Gone, Free(Gone.mem), ClassOf(Gone.mem)) /\ Merged(Gone.mem)
  /\ DOMAIN Gone.mem = {} /\ Taken(Gone.mem) = {} /\ Free(Gone.mem) = {}
  <1> DEFINE h == Gone
  <1>1. DOMAIN h.mem = {} /\ h.array = NoBlocks /\ h.f = {} /\ h.s = NoBits BY DEF Gone
  <1> HIDE DEF h
  <1>2. Free(h.mem) = {} /\ Taken(h.mem) = {} BY <1>1 DEF Free, Taken
  <1>3. Merged(h.mem) /\ Headers(h.mem) BY <1>1, <1>2 DEF Merged, Headers
  <1>4. Linked(h, {}, ClassOf(h.mem))
    <2>1. NoBlocks \in [Class -> Ref] BY DEF NoBlocks, Ref
    <2>2. \E N \in Nat : \E rank \in [{} -> 0 .. N] : Ranked(h.mem, {}, rank)
      <3> DEFINE rank == [a \in {} |-> 0]
      <3>1. rank \in [{} -> 0 .. 0] /\ Ranked(h.mem, {}, rank) BY DEF Ranked
      <3> HIDE DEF rank
      <3> QED BY <3>1
    <2>3. \A c \in Class : h.array[c] = NULL BY <1>1 DEF NoBlocks
    <2> QED BY <1>1, <2>1, <2>2, <2>3 DEF Linked
  <1>5. Bitmaps(h)
    <2>1. \A o \in Octaves : h.s[o] = {} BY <1>1 DEF NoBits
    <2>2. h.s \in [Octaves -> SUBSET SubBins] BY <1>1 DEF NoBits
    <2>3. \A o \in Octaves, s \in SubBins : h.array[<<o, s>>] = NULL
      <3>1. \A o \in Octaves, s \in SubBins : <<o, s>> \in Class BY DEF Class
      <3> QED BY <1>1, <3>1 DEF NoBlocks
    <2> QED BY <1>1, <2>1, <2>2, <2>3 DEF Bitmaps
  <1> QED BY <1>1, <1>2, <1>3, <1>4, <1>5 DEF h, Sound

-----------------------------------------------------------------------------
(* The inductive invariant: the lists hold the free blocks, each in the    *)
(* class of its size; the blocks tile the heap; and those that are not     *)
(* free have an owner.                                                     *)

Tiling == IF g_heap_initialized THEN Tiles(mem) ELSE DOMAIN mem = {}
Owners == /\ DOMAIN owned = {a + HeaderSize : a \in Taken(mem)}
          /\ \A p \in DOMAIN owned : /\ mem[p - HeaderSize].size >= owned[p]
                                     /\ owned[p] \in Requests

IInv == /\ Sound(Heap, Free(mem), ClassOf(mem))
        /\ Merged(mem)
        /\ g_heap_initialized \in BOOLEAN
        /\ Tiling
        /\ Owners

(* Rounding up to eight bytes wraps only to nothing.                       *)
LEMMA Rounding ==
  \A n \in Requests :
    /\ n \in Nat /\ ALIGN8(n) \in Nat /\ ALIGN8(n) % 8 = 0
    /\ ALIGN8(n) = 0 \/ (ALIGN8(n) >= 8 /\ ALIGN8(n) >= n)
  <1> SUFFICES ASSUME NEW n \in Requests
               PROVE  /\ n \in Nat /\ ALIGN8(n) \in Nat /\ ALIGN8(n) % 8 = 0
                      /\ ALIGN8(n) = 0 \/ (ALIGN8(n) >= 8 /\ ALIGN8(n) >= n)
    OBVIOUS
  <1>1. WORD \in Nat /\ WORD > 0 /\ n \in Nat /\ n < WORD
    <2>1. HEAP_END < WORD /\ HEAP_END \in Nat /\ WORD \in Nat BY Params, TlsfAssumption
    <2>2. n \in 0 .. WORD - 1 BY TlsfAssumption
    <2> QED BY <2>1, <2>2
  <1>2. PICK e \in Nat : e = n + 7 BY <1>1
  <1>3. PICK q \in Nat : q = e \div WORD /\ q * WORD <= e /\ e < (q + 1) * WORD
    <2>1. WORD \in Nat \ {0} BY <1>1
    <2> QED BY <2>1, Quotients
  <1>4. PICK r \in Nat : r = e % WORD /\ e = q * WORD + r
    <2>1. e \in Int /\ WORD \in Int /\ WORD > 0 BY <1>1
    <2>2. e = (e \div WORD) * WORD + (e % WORD) /\ e % WORD \in 0 .. WORD - 1 BY <2>1
    <2> QED BY <1>3, <2>2
  <1>5. ALIGN8(n) = (r \div 8) * 8 BY <1>2, <1>4 DEF ALIGN8
  <1>6. CASE q = 0
    <2>1. r = n + 7 BY <1>2, <1>4, <1>6, <1>1
    <2> QED BY <1>1, <1>5, <2>1
  <1>7. CASE q >= 1
    <2>1. 1 * WORD <= q * WORD BY <1>1, <1>7, Products
    <2>2. PICK k \in Nat : k = q * WORD BY <1>1
    <2>3. r <= 6 BY <1>1, <1>2, <1>4, <2>1, <2>2
    <2>4. r \div 8 = 0 BY <2>3
    <2> QED BY <1>1, <1>5, <2>4
  <1> QED BY <1>6, <1>7

(* The numbers of fields matter, not the record they sit in.               *)
LEMMA SameHeap ==
  ASSUME NEW h, NEW k, h.mem = k.mem, h.array = k.array, h.f = k.f, h.s = k.s
  PROVE  \A F, cls : Sound(h, F, cls) <=> Sound(k, F, cls)
  BY DEF Sound, Linked, Bitmaps

(* The next state of the heap is k.                                        *)
LEMMA BecomesIs ==
  ASSUME NEW k, Becomes(k)
  PROVE  /\ mem' = k.mem
         /\ Sound(k, Free(k.mem), ClassOf(k.mem)) => Sound(Heap, Free(mem), ClassOf(mem))'
         /\ Merged(k.mem) => Merged(mem)'
         /\ Tiles(k.mem) => Tiles(mem)'
         /\ Taken(mem)' = Taken(k.mem)
  <1>1. mem' = k.mem /\ tlsf_array' = k.array /\ fBitmap' = k.f /\ sBitmap' = k.s
    BY DEF Becomes
  <1>2. PICK h : h = Heap' OBVIOUS
  <1>3. h.mem = k.mem /\ h.array = k.array /\ h.f = k.f /\ h.s = k.s
    BY <1>1, <1>2 DEF Heap
  <1>4. Free(mem)' = Free(k.mem) /\ ClassOf(mem)' = ClassOf(k.mem) /\ Taken(mem)' = Taken(k.mem)
    BY <1>1 DEF Free, ClassOf, Taken
  <1>5. Sound(k, Free(k.mem), ClassOf(k.mem)) => Sound(h, Free(k.mem), ClassOf(k.mem))
    BY <1>3, SameHeap
  <1>6. Sound(Heap, Free(mem), ClassOf(mem))' <=> Sound(h, Free(k.mem), ClassOf(k.mem))
    BY <1>1, <1>2, <1>4 DEF Sound, Linked, Bitmaps, Heap
  <1> QED BY <1>1, <1>4, <1>5, <1>6 DEF Merged, Tiles, Free, Edge

(* What a successful kMalloc does.                                         *)
Served(n, a) ==
    /\ a \in Free(mem) /\ g_heap_initialized
    /\ Good(Heap)
    /\ ALIGN8(n) >= n /\ ALIGN8(n) >= 8
    /\ IsCarved(Carve(a, ALIGN8(n)), a, ALIGN8(n))
    /\ Becomes(Carve(a, ALIGN8(n)))
    /\ owned' = [p \in DOMAIN owned \cup {a + HeaderSize} |->
                    IF p = a + HeaderSize THEN n ELSE owned[p]]
    /\ UNCHANGED g_heap_initialized

LEMMA HeapMem == Heap.mem = mem
  BY DEF Heap

LEMMA MallocIs ==
  ASSUME IInv, NEW n \in Requests, kMalloc(n)
  PROVE  UNCHANGED vars \/ \E a \in Free(mem) : Served(n, a)
  <1> DEFINE size == ALIGN8(n)
             a == get_free(size)
  <1>1. CASE a = NULL BY <1>1 DEF kMalloc
  <1>2. CASE a # NULL
    <2>1. /\ Becomes(Carve(a, size))
          /\ owned' = [p \in DOMAIN owned \cup {a + HeaderSize} |->
                          IF p = a + HeaderSize THEN n ELSE owned[p]]
          /\ UNCHANGED g_heap_initialized
      BY <1>2 DEF kMalloc
    <2>2. n \in Nat /\ size \in Nat /\ size % 8 = 0 /\ (size = 0 \/ (size >= 8 /\ size >= n))
      BY Rounding
    <2>3. /\ Headers(mem) /\ Linked(Heap, Free(mem), ClassOf(mem)) /\ Bitmaps(Heap)
      BY HeapMem DEF IInv, Sound
    <2>4. a \in Free(mem) /\ mem[a].size >= size /\ size # 0
      BY <1>2, <2>2, <2>3, GetFreeIs DEF Headers
    <2>5. g_heap_initialized
      <3>1. DOMAIN mem # {} BY <2>4 DEF Free
      <3> QED BY <3>1 DEF IInv, Tiling
    <2>6. Good(Heap) BY <2>5, HeapMem DEF IInv, Good, Tiling
    <2> HIDE DEF a, size
    <2>7. mem[a].size \in Nat
      <3>1. a \in DOMAIN mem BY <2>4 DEF Free
      <3> QED BY <2>3, <3>1, Numbers
    <2>8. size \in Nat /\ size % 8 = 0 /\ size >= 8 /\ size >= n /\ size <= mem[a].size
      BY <2>2, <2>4, <2>7
    <2>9. IsCarved(Carve(a, size), a, size) BY <2>4, <2>6, <2>8, CarveIs
    <2>10. Served(n, a) BY <2>1, <2>4, <2>5, <2>6, <2>8, <2>9 DEF Served, size
    <2> QED BY <2>4, <2>10
  <1> QED BY <1>1, <1>2

(* What a kFree that is not refused does.                                  *)
Returned(a) ==
    /\ a \in Taken(mem) /\ g_heap_initialized
    /\ IsMerged(Merge(a), a)
    /\ Becomes(Merge(a))
    /\ owned' = [p \in DOMAIN owned \ {a + HeaderSize} |-> owned[p]]
    /\ UNCHANGED g_heap_initialized

LEMMA FreeIs ==
  ASSUME IInv, NEW target \in Freeable, kFree(target)
  PROVE  UNCHANGED vars \/ \E a \in Taken(mem) : Returned(a)
  <1>1. Headers(mem) BY HeapMem DEF IInv, Sound
  <1>2. CASE target = NULL BY <1>2 DEF kFree
  <1>3. CASE target # NULL
    <2>1. PICK a \in DOMAIN mem : target = a + HeaderSize BY <1>3 DEF Freeable
    <2>2. target - HeaderSize = a
      <3>1. a \in Nat BY <1>1, Numbers
      <3> QED BY <2>1, <3>1, Params
    <2>3. CASE mem[a].free BY <1>3, <2>2, <2>3 DEF kFree
    <2>4. CASE ~mem[a].free
      <3>1. a \in Taken(mem) BY <2>4 DEF Taken, Free
      <3>2. g_heap_initialized /\ Good(Heap)
        BY <2>1, HeapMem DEF IInv, Tiling, Good
      <3>3. IsMerged(Merge(a), a) BY <3>1, <3>2, MergeIs
      <3>4. /\ Becomes(Merge(a))
            /\ owned' = [p \in DOMAIN owned \ {target} |-> owned[p]]
            /\ UNCHANGED g_heap_initialized
        BY <1>3, <2>2, <2>4 DEF kFree
      <3>5. Returned(a) BY <2>1, <3>1, <3>2, <3>3, <3>4 DEF Returned
      <3> QED BY <3>1, <3>5
    <2> QED BY <2>3, <2>4
  <1> QED BY <1>2, <1>3

(* The steps by their effects.                                             *)
Outcome ==
    \/ UNCHANGED vars
    \/ \E n \in Requests : \E a \in Free(mem) : Served(n, a)
    \/ \E a \in Taken(mem) : Returned(a)
    \/ Becomes(Fresh) /\ g_heap_initialized' = TRUE /\ DOMAIN owned' = {}
    \/ Becomes(Gone) /\ g_heap_initialized' = FALSE /\ DOMAIN owned' = {}

LEMMA Outcomes == IInv /\ [Next]_vars => Outcome
  <1> SUFFICES ASSUME IInv, [Next]_vars PROVE Outcome OBVIOUS
  <1>1. ASSUME NEW n \in Requests, kMalloc(n) PROVE Outcome
    BY <1>1, MallocIs DEF Outcome
  <1>2. ASSUME NEW target \in Freeable, kFree(target) PROVE Outcome
    BY <1>2, FreeIs DEF Outcome
  <1>3. CASE heap_init
    <2>1. DOMAIN owned = {}
      <3>1. Taken(mem) = {} BY <1>3 DEF IInv, Tiling, Taken, heap_init
      <3> QED BY <3>1 DEF IInv, Owners
    <2> QED BY <1>3, <2>1 DEF heap_init, Outcome
  <1>4. CASE heap_destroy BY <1>4 DEF heap_destroy, Outcome
  <1>5. CASE heap_reset BY <1>5 DEF heap_reset, Outcome, IInv
  <1>6. CASE UNCHANGED vars BY <1>6 DEF Outcome
  <1> QED BY <1>1, <1>2, <1>3, <1>4, <1>5, <1>6 DEF Next

LEMMA IInvInit == Init => IInv
  <1> SUFFICES ASSUME Init PROVE IInv OBVIOUS
  <1>1. /\ Heap.mem = Gone.mem /\ Heap.array = Gone.array /\ Heap.f = Gone.f /\ Heap.s = Gone.s
        /\ mem = Gone.mem /\ g_heap_initialized = FALSE /\ DOMAIN owned = {}
    BY DEF Init, Heap, Gone
  <1>2. Sound(Heap, Free(mem), ClassOf(mem)) BY <1>1, GoneIs, SameHeap
  <1> QED BY <1>1, <1>2, GoneIs DEF IInv, Tiling, Owners

LEMMA IInvStep == IInv /\ [Next]_vars => IInv'
  <1> SUFFICES ASSUME IInv, Outcome PROVE IInv' BY Outcomes
  <1> USE DEF IInv, Tiling
  <1>0. Headers(mem) /\ Owners BY HeapMem DEF Sound
  <1>1. CASE UNCHANGED vars
    <2>1. Becomes(Heap) /\ mem' = mem /\ g_heap_initialized' = g_heap_initialized
      BY <1>1 DEF vars, Heap, Becomes
    <2>2. Owners' BY <1>1 DEF vars, Owners, Taken, Free
    <2>3. /\ Sound(Heap, Free(mem), ClassOf(mem))' /\ Merged(mem)'
          /\ Tiles(mem) => Tiles(mem)'
      BY <2>1, HeapMem, BecomesIs
    <2> QED BY <2>1, <2>2, <2>3
  <1>2. ASSUME NEW n \in Requests, NEW a \in Free(mem), Served(n, a) PROVE IInv'
    <2> DEFINE k == Carve(a, ALIGN8(n))
    <2>1. /\ Becomes(k) /\ IsCarved(k, a, ALIGN8(n)) /\ g_heap_initialized' = TRUE
          /\ owned' = [p \in DOMAIN owned \cup {a + HeaderSize} |->
                          IF p = a + HeaderSize THEN n ELSE owned[p]]
          /\ ALIGN8(n) >= n /\ ALIGN8(n) >= 8
      BY <1>2 DEF Served
    <2> HIDE DEF k
    <2>2. /\ Good(k) /\ a \in DOMAIN k.mem /\ k.mem[a].size >= ALIGN8(n)
          /\ Taken(k.mem) = Taken(mem) \cup {a}
          /\ \A b \in Taken(mem) : k.mem[b].size = mem[b].size
      BY <2>1 DEF IsCarved
    <2>3. /\ mem' = k.mem /\ Sound(Heap, Free(mem), ClassOf(mem))' /\ Merged(mem)' /\ Tiles(mem)'
          /\ Taken(mem)' = Taken(k.mem)
      BY <2>1, <2>2, BecomesIs DEF Good
    <2>4. Owners'
      <3>1. DOMAIN owned' = {b + HeaderSize : b \in Taken(mem)'}
        BY <1>0, <2>1, <2>2, <2>3 DEF Owners
      <3>2. ASSUME NEW p \in DOMAIN owned'
            PROVE  mem'[p - HeaderSize].size >= owned'[p] /\ owned'[p] \in Requests
        <4>1. CASE p = a + HeaderSize
          <5>1. p - HeaderSize = a
            <6>1. a \in DOMAIN mem BY DEF Free
            <6>2. a \in Nat BY <1>0, <6>1, Numbers
            <6> QED BY <4>1, <6>2, Params
          <5>2. k.mem[a].size \in Nat /\ n \in Nat /\ ALIGN8(n) \in Nat
            <6>1. Headers(k.mem) BY <2>2 DEF Good, Sound
            <6>2. n \in Nat /\ ALIGN8(n) \in Nat BY Rounding
            <6> QED BY <2>2, <6>1, <6>2, Numbers
          <5>3. owned'[p] = n BY <2>1, <4>1
          <5> QED BY <2>1, <2>2, <2>3, <5>1, <5>2, <5>3
        <4>2. CASE p # a + HeaderSize
          <5>1. p \in DOMAIN owned /\ owned'[p] = owned[p] BY <2>1, <4>2
          <5>2. PICK b \in Taken(mem) : p = b + HeaderSize BY <1>0, <5>1 DEF Owners
          <5>3. p - HeaderSize = b
            <6>1. b \in DOMAIN mem BY DEF Taken
            <6>2. b \in Nat BY <1>0, <6>1, Numbers
            <6> QED BY <5>2, <6>2, Params
          <5> QED BY <1>0, <2>2, <2>3, <5>1, <5>2, <5>3 DEF Owners
        <4> QED BY <4>1, <4>2
      <3> QED BY <3>1, <3>2 DEF Owners
    <2> QED BY <2>1, <2>3, <2>4
  <1>3. ASSUME NEW a \in Taken(mem), Returned(a) PROVE IInv'
    <2> DEFINE k == Merge(a)
    <2>1. /\ Becomes(k) /\ IsMerged(k, a) /\ g_heap_initialized' = TRUE
          /\ owned' = [p \in DOMAIN owned \ {a + HeaderSize} |-> owned[p]]
      BY <1>3 DEF Returned
    <2> HIDE DEF k
    <2>2. /\ Good(k) /\ Taken(k.mem) = Taken(mem) \ {a}
          /\ \A b \in Taken(mem) \ {a} : k.mem[b].size = mem[b].size
      BY <2>1 DEF IsMerged
    <2>3. /\ mem' = k.mem /\ Sound(Heap, Free(mem), ClassOf(mem))' /\ Merged(mem)' /\ Tiles(mem)'
          /\ Taken(mem)' = Taken(k.mem)
      BY <2>1, <2>2, BecomesIs DEF Good
    <2>4. \A b \in Taken(mem) : b \in Nat
      <3>1. \A b \in Taken(mem) : b \in DOMAIN mem BY DEF Taken
      <3> QED BY <1>0, <3>1, Numbers
    <2>5. Owners'
      <3>1. DOMAIN owned' = {b + HeaderSize : b \in Taken(mem)'}
        <4>1. \A b \in Taken(mem) : b + HeaderSize = a + HeaderSize => b = a BY <2>4, Params
        <4>2. DOMAIN owned' = {b + HeaderSize : b \in Taken(mem)} \ {a + HeaderSize}
          BY <1>0, <2>1 DEF Owners
        <4> QED BY <2>2, <2>3, <4>1, <4>2
      <3>2. ASSUME NEW p \in DOMAIN owned'
            PROVE  mem'[p - HeaderSize].size >= owned'[p] /\ owned'[p] \in Requests
        <4>1. p \in DOMAIN owned /\ p # a + HeaderSize /\ owned'[p] = owned[p] BY <2>1
        <4>2. PICK b \in Taken(mem) : p = b + HeaderSize BY <1>0, <4>1 DEF Owners
        <4>3. p - HeaderSize = b BY <2>4, <4>2, Params
        <4> QED BY <1>0, <2>2, <2>3, <4>1, <4>2, <4>3 DEF Owners
      <3> QED BY <3>1, <3>2 DEF Owners
    <2> QED BY <2>1, <2>3, <2>5
  <1>4. CASE Becomes(Fresh) /\ g_heap_initialized' = TRUE /\ DOMAIN owned' = {}
    <2>1. /\ Sound(Heap, Free(mem), ClassOf(mem))' /\ Merged(mem)' /\ Tiles(mem)'
          /\ Taken(mem)' = {}
      BY <1>4, FreshIs, BecomesIs DEF Good
    <2>2. Owners' BY <1>4, <2>1 DEF Owners
    <2> QED BY <1>4, <2>1, <2>2
  <1>5. CASE Becomes(Gone) /\ g_heap_initialized' = FALSE /\ DOMAIN owned' = {}
    <2>1. /\ Sound(Heap, Free(mem), ClassOf(mem))' /\ Merged(mem)' /\ Taken(mem)' = {}
          /\ DOMAIN mem' = {}
      BY <1>5, GoneIs, BecomesIs
    <2>2. Owners' BY <1>5, <2>1 DEF Owners
    <2> QED BY <1>5, <2>1, <2>2
  <1> QED BY <1>1, <1>2, <1>3, <1>4, <1>5 DEF Outcome

LEMMA Invariant == Spec => []IInv
  BY IInvInit, IInvStep, PTL DEF Spec

-----------------------------------------------------------------------------
(* The theorems                                                            *)

LEMMA FreeBlocksAre == FreeBlocks = Free(mem) /\ \A a : EndOf(Heap, a) = Edge(mem, a)
  BY HeapMem DEF FreeBlocks, Free, EndOf, Edge

(* The heap's state has the types the code's declarations give it: every   *)
(* header is a block of legal size whose links are addresses or NULL.      *)
THEOREM AllocatorTypeCorrect == Spec => []TypeOK
  <1>1. IInv => TypeOK
    <2> SUFFICES ASSUME IInv PROVE TypeOK OBVIOUS
    <2>1. Headers(mem) /\ tlsf_array \in [Class -> Ref] /\ Bitmaps(Heap)
      BY HeapMem DEF IInv, Sound, Linked, Heap
    <2>2. fBitmap \subseteq Octaves /\ sBitmap \in [Octaves -> SUBSET SubBins]
      BY <2>1 DEF Bitmaps, Heap
    <2>3. g_heap_initialized \in BOOLEAN /\ \A p \in DOMAIN owned : owned[p] \in Requests
      BY DEF IInv, Owners
    <2> QED BY <2>1, <2>2, <2>3 DEF TypeOK, Headers, Ref
  <1> QED BY <1>1, Invariant, PTL

(* Splitting and merging keep the blocks tiling the heap, each boundary    *)
(* tag naming the block before.                                            *)
THEOREM BlocksAlwaysTile == Spec => []BlocksTile
  <1>1. IInv => BlocksTile
    <2> SUFFICES ASSUME IInv, g_heap_initialized PROVE BlocksTile BY DEF BlocksTile
    <2>1. Tiles(mem) BY DEF IInv, Tiling
    <2> QED BY <2>1, FreeBlocksAre DEF BlocksTile, Tiles
  <1> QED BY <1>1, Invariant, PTL

(* kFree's two loops leave no two free neighbours, ever.                   *)
THEOREM NeverFragmented == Spec => []Coalesced
  <1>1. IInv => Coalesced BY FreeBlocksAre DEF IInv, Merged, Coalesced
  <1> QED BY <1>1, Invariant, PTL

(* The two bitmaps agree with the heads of the lists at every call.        *)
THEOREM BitmapsAgree == Spec => []BitmapsMatchTheLists
  <1>1. IInv => BitmapsMatchTheLists BY DEF IInv, Sound, Bitmaps, Heap, BitmapsMatchTheLists
  <1> QED BY <1>1, Invariant, PTL

(* Nothing is swallowed under its owner and nothing leaks.                 *)
THEOREM OwnersAreSafe == Spec => []OwnersKeepTheirBlocks
  <1>1. IInv => OwnersKeepTheirBlocks
    BY FreeBlocksAre DEF IInv, Owners, Taken, OwnersKeepTheirBlocks
  <1> QED BY <1>1, Invariant, PTL

(* get_free finds a block long enough for every request, unless no free    *)
(* block reaches the class the request is rounded up to.                   *)
THEOREM FitIsGood == Spec => []GoodFit
  <1>1. IInv => GoodFit
    <2> SUFFICES ASSUME IInv, NEW n \in Requests
                 PROVE  LET size == ALIGN8(n)
                            a == get_free(size)
                        IN  IF a = NULL
                            THEN size = 0 \/ \A b \in FreeBlocks, r \in RoundedUp(Max({size, 8})) :
                                                mem[b].size < r
                            ELSE a \in FreeBlocks /\ mem[a].size >= size
      BY DEF GoodFit
    <2>1. PICK size : size = ALIGN8(n) OBVIOUS
    <2>2. size \in Nat /\ (size = 0 \/ size >= 8) BY <2>1, Rounding
    <2>3. /\ DOMAIN mem \subseteq Addr /\ \A b \in DOMAIN mem : mem[b] \in Block
          /\ Linked(Heap, Free(mem), ClassOf(mem)) /\ Bitmaps(Heap)
      BY HeapMem DEF IInv, Sound, Headers
    <2>4. /\ get_free(size) # NULL =>
                get_free(size) \in Free(mem) /\ mem[get_free(size)].size >= size
          /\ get_free(size) = NULL =>
                size = 0 \/ \A b \in Free(mem), r \in RoundedUp(size) : mem[b].size < r
      BY <2>2, <2>3, GetFreeIs
    <2>5. size # 0 => Max({size, 8}) = size BY <2>2 DEF Max
    <2> QED BY <2>1, <2>4, <2>5, FreeBlocksAre
  <1> QED BY <1>1, Invariant, PTL

-----------------------------------------------------------------------------
(* The lists, walked from their heads.                                     *)

Follow(m, start, w, n) ==
    IF n = 0 THEN start ELSE IF w[n - 1] \in DOMAIN m THEN m[w[n - 1]].next ELSE NULL

Walk(m, start, N) ==
    LET walk[n \in 0 .. N] ==
            IF n = 0 THEN start
            ELSE IF walk[n - 1] \in DOMAIN m THEN m[walk[n - 1]].next ELSE NULL
    IN  walk

(* The walk's recursion has a solution.                                    *)
LEMMA WalkIs ==
  ASSUME NEW m, NEW start, NEW N \in Nat
  PROVE  /\ DOMAIN Walk(m, start, N) = 0 .. N
         /\ \A n \in 0 .. N : Walk(m, start, N)[n] = Follow(m, start, Walk(m, start, N), n)
  <1> DEFINE Solves(f, n) == \A k \in 0 .. n : f[k] = Follow(m, start, f, k)
             S == {n \in 0 .. N : \E f : Solves(f, n)}
             walk == Walk(m, start, N)
  <1>1. 0 \in S
    <2> DEFINE f == [k \in 0 .. N |-> start]
    <2>1. f[0] = start OBVIOUS
    <2>2. Solves(f, 0) BY <2>1 DEF Follow
    <2> HIDE DEF f
    <2> QED BY <2>2
  <1>2. ASSUME NEW n \in 0 .. N - 1, n \in S PROVE n + 1 \in S
    <2>1. PICK f : Solves(f, n) BY <1>2
    <2> DEFINE g == [k \in 0 .. N |-> Follow(m, start, f, k)]
    <2>2. ASSUME NEW k \in 0 .. n + 1 PROVE g[k] = Follow(m, start, g, k)
      <3>1. CASE k = 0 BY <3>1 DEF Follow
      <3>2. CASE k # 0
        <4>1. k - 1 \in 0 .. n /\ k - 1 \in 0 .. N /\ k \in 0 .. N BY <3>2
        <4>2. g[k - 1] = f[k - 1] BY <2>1, <4>1
        <4> QED BY <3>2, <4>1, <4>2 DEF Follow
      <3> QED BY <3>1, <3>2
    <2>3. Solves(g, n + 1) BY <2>2
    <2> HIDE DEF g
    <2> QED BY <2>3
  <1>3. N \in S
    <2> HIDE DEF S
    <2> QED BY <1>1, <1>2, UpTo
  <1>4. PICK f : Solves(f, N) BY <1>3
  <1> DEFINE g == [k \in 0 .. N |-> Follow(m, start, f, k)]
  <1>5. g = [k \in 0 .. N |-> Follow(m, start, g, k)]
    <2>1. ASSUME NEW k \in 0 .. N PROVE Follow(m, start, f, k) = Follow(m, start, g, k)
      <3>1. CASE k = 0 BY <3>1 DEF Follow
      <3>2. CASE k # 0
        <4>1. k - 1 \in 0 .. N BY <3>2
        <4>2. g[k - 1] = f[k - 1] BY <1>4, <4>1
        <4> QED BY <3>2, <4>2 DEF Follow
      <3> QED BY <3>1, <3>2
    <2> QED BY <2>1
  <1> HIDE DEF g, S, Solves
  <1>6. walk = [k \in 0 .. N |-> Follow(m, start, walk, k)]
    <2> DEFINE w == CHOOSE w : w = [k \in 0 .. N |->
                                     IF k = 0 THEN start
                                     ELSE IF w[k - 1] \in DOMAIN m THEN m[w[k - 1]].next
                                          ELSE NULL]
    <2>1. w = [k \in 0 .. N |-> Follow(m, start, w, k)] BY <1>5, Zenon DEF Follow
    <2>2. walk = w BY DEF Walk
    <2> HIDE DEF w, walk
    <2> QED BY <2>1, <2>2
  <1> HIDE DEF walk
  <1>7. ASSUME NEW n \in 0 .. N PROVE walk[n] = Follow(m, start, walk, n)
    <2> DEFINE h == [k \in 0 .. N |-> Follow(m, start, walk, k)]
    <2>1. h[n] = Follow(m, start, walk, n) OBVIOUS
    <2> HIDE DEF h
    <2> QED BY <1>6, <2>1 DEF h
  <1>8. DOMAIN walk = 0 .. N BY <1>6
  <1> QED BY <1>7, <1>8 DEF walk

(* A walk of as many steps as there are blocks passes all of its class and *)
(* nothing else.                                                           *)
Walks(w, N, c) == \A n \in 0 .. N : w[n] = Follow(mem, tlsf_array[c], w, n)

LEMMA WalkEnds ==
  ASSUME IInv, NEW c \in Class, NEW w, NEW N \in Nat, N = Cardinality(DOMAIN mem), Walks(w, N, c)
  PROVE  /\ w[N] = NULL
         /\ \A n \in 0 .. N : w[n] # NULL => w[n] \in Free(mem) /\ ClassOf(mem)[w[n]] = c
  <1> DEFINE F == Free(mem)
             cls == ClassOf(mem)
  <1>1. Linked(Heap, F, cls) /\ Heap.mem = mem /\ Heap.array = tlsf_array
    BY HeapMem DEF IInv, Sound, Heap
  <1>2. /\ F \subseteq DOMAIN mem /\ DOMAIN mem \subseteq Addr /\ NULL \notin DOMAIN mem
        /\ tlsf_array[c] # NULL => tlsf_array[c] \in F /\ cls[tlsf_array[c]] = c
        /\ \A a \in F : mem[a].next # NULL => mem[a].next \in F /\ mem[mem[a].next].prev = a
        /\ \A a \in F : mem[a].prev # NULL => cls[mem[a].prev] = cls[a]
    BY <1>1, Params DEF Linked
  <1>3. PICK R \in Nat : \E rank \in [F -> 0 .. R] : Ranked(mem, F, rank) BY <1>1 DEF Linked
  <1>4. PICK rank \in [F -> 0 .. R] : Ranked(mem, F, rank) BY <1>3
  <1> HIDE DEF F, cls
  <1>5. /\ w[0] = tlsf_array[c]
        /\ \A n \in 0 .. N - 1 : w[n + 1] = IF w[n] \in DOMAIN mem THEN mem[w[n]].next ELSE NULL
    <2>1. w[0] = tlsf_array[c] BY DEF Walks, Follow
    <2>2. ASSUME NEW n \in 0 .. N - 1
          PROVE  w[n + 1] = IF w[n] \in DOMAIN mem THEN mem[w[n]].next ELSE NULL
      <3>1. n + 1 \in 0 .. N /\ n + 1 # 0 /\ (n + 1) - 1 = n OBVIOUS
      <3> QED BY <3>1 DEF Walks, Follow
    <2> QED BY <2>1, <2>2
  <1>6. \A n \in 0 .. N : w[n] # NULL => w[n] \in F /\ cls[w[n]] = c
    <2> DEFINE S == {n \in 0 .. N : w[n] # NULL => w[n] \in F /\ cls[w[n]] = c}
    <2>1. 0 \in S BY <1>2, <1>5
    <2>2. ASSUME NEW n \in 0 .. N - 1, n \in S PROVE n + 1 \in S
      <3> SUFFICES ASSUME w[n + 1] # NULL PROVE w[n + 1] \in F /\ cls[w[n + 1]] = c OBVIOUS
      <3>1. w[n] \in DOMAIN mem /\ w[n + 1] = mem[w[n]].next BY <1>5
      <3>2. w[n] \in F /\ cls[w[n]] = c BY <1>2, <2>2, <3>1
      <3>3. w[n + 1] \in F /\ mem[w[n + 1]].prev = w[n] BY <1>2, <3>1, <3>2
      <3> QED BY <1>2, <3>1, <3>2, <3>3
    <2> HIDE DEF S
    <2>3. 0 .. N \subseteq S BY <2>1, <2>2, UpTo
    <2> QED BY <2>3 DEF S
  <1>7. \A j \in 0 .. N : \A i \in 0 .. j - 1 :
            w[j] # NULL => w[i] # NULL /\ rank[w[j]] < rank[w[i]]
    <2> DEFINE Down(j) == \A i \in 0 .. j - 1 : w[j] # NULL => w[i] # NULL /\ rank[w[j]] < rank[w[i]]
               S == {j \in 0 .. N : Down(j)}
    <2>1. 0 \in S OBVIOUS
    <2>2. ASSUME NEW j \in 0 .. N - 1, j \in S PROVE j + 1 \in S
      <3> SUFFICES ASSUME NEW i \in 0 .. (j + 1) - 1, w[j + 1] # NULL
                   PROVE  w[i] # NULL /\ rank[w[j + 1]] < rank[w[i]]
        OBVIOUS
      <3>1. w[j] \in DOMAIN mem /\ w[j + 1] = mem[w[j]].next /\ w[j] # NULL BY <1>2, <1>5
      <3>2. w[j] \in F /\ w[j + 1] \in F BY <1>6, <3>1
      <3>3. rank[w[j + 1]] < rank[w[j]] BY <1>4, <3>1, <3>2 DEF Ranked
      <3>4. CASE i = j BY <3>1, <3>3, <3>4
      <3>5. CASE i # j
        <4>1. i \in 0 .. j - 1 BY <3>5
        <4>2. w[i] # NULL /\ rank[w[j]] < rank[w[i]] BY <2>2, <3>1, <4>1
        <4>3. w[i] \in F BY <1>6, <4>1, <4>2
        <4>4. rank[w[i]] \in Int /\ rank[w[j]] \in Int /\ rank[w[j + 1]] \in Int BY <1>4, <3>2, <4>3
        <4> QED BY <3>3, <4>2, <4>4
      <3> QED BY <3>4, <3>5
    <2> HIDE DEF S
    <2>3. 0 .. N \subseteq S BY <2>1, <2>2, UpTo
    <2> QED BY <2>3 DEF S
  <1>8. w[N] = NULL
    <2> SUFFICES ASSUME w[N] # NULL PROVE FALSE OBVIOUS
    <2>1. ASSUME NEW i \in 0 .. N PROVE w[i] # NULL
      <3>1. CASE i = N BY <3>1
      <3>2. CASE i # N
        <4>1. i \in 0 .. N - 1 /\ N \in 0 .. N BY <3>2
        <4> QED BY <1>7, <4>1
      <3> QED BY <3>1, <3>2
    <2> DEFINE f == [i \in 0 .. N |-> w[i]]
    <2>2. f \in [0 .. N -> DOMAIN mem] BY <1>2, <1>6, <2>1
    <2>3. IsFiniteSet(0 .. N) /\ Cardinality(0 .. N) = N + 1 BY FS_Interval
    <2>4. IsFiniteSet(DOMAIN mem) BY <1>2, FewBlocks
    <2>5. N < N + 1 OBVIOUS
    <2> HIDE DEF f
    <2>6. PICK i, j \in 0 .. N : i # j /\ f[i] = f[j]
      BY <2>2, <2>3, <2>4, <2>5, FS_PigeonHole, SMTT(40)
    <2>7. w[i] = w[j] BY <2>6 DEF f
    <2>8. rank[w[i]] \in Int BY <1>4, <1>6, <2>1
    <2>9. CASE i < j
      <3>1. i \in 0 .. j - 1 BY <2>9
      <3>2. rank[w[j]] < rank[w[i]] BY <1>7, <2>1, <3>1
      <3> QED BY <2>7, <2>8, <3>2
    <2>10. CASE j < i
      <3>1. j \in 0 .. i - 1 BY <2>10
      <3>2. rank[w[i]] < rank[w[j]] BY <1>7, <2>1, <3>1
      <3> QED BY <2>7, <2>8, <3>2
    <2> QED BY <2>6, <2>9, <2>10
  <1> QED BY <1>6, <1>8 DEF F, cls

(* Every list holds exactly the free blocks of its class, and can be       *)
(* walked in both directions.                                              *)
THEOREM ListsAreExact == Spec => []ListsHoldTheFreeBlocks
  <1>1. IInv => ListsHoldTheFreeBlocks
    <2> DEFINE N == Cardinality(DOMAIN mem)
               walk(c) == CHOOSE walk : walk = [n \in 0 .. N |->
                             IF n = 0 THEN tlsf_array[c]
                             ELSE IF walk[n - 1] \in DOMAIN mem THEN mem[walk[n - 1]].next ELSE NULL]
               list(c) == {walk(c)[n] : n \in DOMAIN walk(c)} \ {NULL}
               Exact(c) ==
                 /\ list(c) = {a \in FreeBlocks : map_down(mem[a].size) = c}
                 /\ \A a \in list(c) : IF a = tlsf_array[c] THEN mem[a].prev = NULL
                                       ELSE mem[a].prev \in list(c) /\ mem[mem[a].prev].next = a
    <2> SUFFICES ASSUME IInv, NEW c \in Class PROVE Exact(c) BY DEF ListsHoldTheFreeBlocks
    <2> DEFINE w == walk(c)
               F == Free(mem)
               cls == ClassOf(mem)
               S == {w[n] : n \in 0 .. N}
    <2>1. /\ Linked(Heap, F, cls) /\ Heap.mem = mem /\ Heap.array = tlsf_array
      BY HeapMem DEF IInv, Sound, Heap
    <2>2. NULL \notin DOMAIN mem /\ F \subseteq DOMAIN mem /\ DOMAIN mem \subseteq Addr
      BY <2>1, Params DEF Linked
    <2>3. N \in Nat BY <2>2, FewBlocks, FS_CardinalityType
    <2>4. DOMAIN w = 0 .. N /\ Walks(w, N, c)
      <3>1. w = Walk(mem, tlsf_array[c], N) BY DEF Walk
      <3> HIDE DEF N, w
      <3>2. DOMAIN w = 0 .. N /\ \A n \in 0 .. N : w[n] = Follow(mem, tlsf_array[c], w, n)
        BY <2>3, <3>1, WalkIs
      <3> QED BY <3>2 DEF Walks
    <2>5. list(c) = S \ {NULL} BY <2>4
    <2> HIDE DEF w
    <2>6. w[N] = NULL /\ \A n \in 0 .. N : w[n] # NULL => w[n] \in F /\ cls[w[n]] = c
      BY <2>3, <2>4, WalkEnds
    <2> HIDE DEF N, F, cls
    <2>7. \A a \in F : cls[a] = c => a \in S
      <3>1. tlsf_array[c] \in S
        <4>1. w[0] = tlsf_array[c] /\ 0 \in 0 .. N BY <2>3, <2>4 DEF Walks, Follow
        <4> QED BY <4>1
      <3>2. ASSUME NEW a \in S \cap F, mem[a].next # NULL PROVE mem[a].next \in S
        <4>1. PICK n \in 0 .. N : a = w[n] OBVIOUS
        <4>2. a \in DOMAIN mem /\ n # N BY <2>2, <2>6, <4>1
        <4>3. n + 1 \in 0 .. N /\ n + 1 # 0 /\ (n + 1) - 1 = n BY <2>3, <4>2
        <4>4. w[n + 1] = mem[a].next BY <2>4, <4>1, <4>2, <4>3 DEF Walks, Follow
        <4> QED BY <4>3, <4>4
      <3> HIDE DEF S
      <3>3. Heap.array[c] = NULL \/ Heap.array[c] \in S BY <2>1, <3>1
      <3>4. \A a \in S \cap F : Heap.mem[a].next # NULL => Heap.mem[a].next \in S BY <2>1, <3>2
      <3> QED BY <2>1, <3>3, <3>4, WholeList
    <2>8. S \ {NULL} = {a \in F : cls[a] = c}
      <3>1. \A a \in S : a # NULL => a \in F /\ cls[a] = c BY <2>6
      <3> HIDE DEF S
      <3> QED BY <2>2, <2>7, <3>1
    <2>9. {a \in F : cls[a] = c} = {a \in FreeBlocks : map_down(mem[a].size) = c}
      BY FreeBlocksAre DEF F, cls, ClassOf
    <2> DEFINE L == {a \in F : cls[a] = c}
    <2>10. ASSUME NEW a \in L
           PROVE  IF a = tlsf_array[c] THEN mem[a].prev = NULL
                  ELSE mem[a].prev \in L /\ mem[mem[a].prev].next = a
      <3>1. a # NULL BY <2>2
      <3>2. CASE a = tlsf_array[c] BY <2>1, <3>1, <3>2 DEF Linked
      <3>3. CASE a # tlsf_array[c]
        <4>1. mem[a].prev # NULL BY <2>1, <3>3 DEF Linked
        <4> QED BY <2>1, <3>3, <4>1 DEF Linked
      <3> QED BY <3>2, <3>3
    <2>11. list(c) = L BY <2>5, <2>8
    <2> HIDE DEF L, list
    <2> QED BY <2>9, <2>10, <2>11 DEF L
  <1> QED BY <1>1, Invariant, PTL

-----------------------------------------------------------------------------
(* The allocator implements Arena.                                         *)

Span(m, a) == <<a, Edge(m, a)>>
Held == {Span(mem, a) : a \in Taken(mem)}
HeldAreTaken == {<<a, EndOf(Heap, a)>> : a \in DOMAIN mem \ FreeBlocks} = Held

LEMMA HeldIs == HeldAreTaken
  BY FreeBlocksAre DEF HeldAreTaken, Held, Span, Taken

LEMMA HeldIsNext == HeldAreTaken'
  BY HeldIs, PTL

(* The span of a block lies in the heap, and two spans do not overlap.     *)
LEMMA SpanIs ==
  ASSUME NEW m, Headers(m), Tiles(m), NEW a \in DOMAIN m
  PROVE  /\ Span(m, a) \in Promise!Ranges
         /\ \A b \in DOMAIN m \ {a} : Promise!Apart(Span(m, a), Span(m, b))
  <1>1. /\ a \in Nat /\ a % 8 = 0 /\ a < HEAP_END /\ m[a].size \in Nat
        /\ Edge(m, a) = a + m[a].size + 8 /\ Edge(m, a) \in Nat /\ Edge(m, a) > a
    BY Numbers
  <1>2. Edge(m, a) <= HEAP_END
    <2>1. CASE Edge(m, a) \in DOMAIN m
      <3>1. Edge(m, a) < HEAP_END BY <2>1, Numbers
      <3> QED BY <1>1, <3>1, Params
    <2>2. CASE Edge(m, a) \notin DOMAIN m
      <3>1. Edge(m, a) = HEAP_END BY <2>2 DEF Tiles
      <3> QED BY <3>1, Params
    <2> QED BY <2>1, <2>2
  <1>3. Edge(m, a) % 8 = 0
    <2>1. m[a].size % 8 = 0 BY DEF Tiles
    <2> QED BY <1>1, <2>1
  <1>4. Span(m, a) \in Promise!Ranges
    <2>1. a \in 0 .. HEAP_END /\ Edge(m, a) \in 0 .. HEAP_END BY <1>1, <1>2, Params
    <2> QED BY <1>1, <1>3, <2>1 DEF Span, Promise!Ranges
  <1>5. ASSUME NEW b \in DOMAIN m \ {a} PROVE Promise!Apart(Span(m, a), Span(m, b))
    <2>1. b \in Nat /\ Edge(m, b) \in Nat BY Numbers
    <2>2. (b <= a \/ b >= Edge(m, a)) /\ (a <= b \/ a >= Edge(m, b)) BY DEF Tiles
    <2>3. Edge(m, a) <= b \/ Edge(m, b) <= a BY <1>1, <2>1, <2>2
    <2> QED BY <2>3 DEF Span, Promise!Apart
  <1> QED BY <1>4, <1>5

LEMMA ServedGives ==
  ASSUME IInv, NEW n \in Requests, NEW a \in Free(mem), Served(n, a) PROVE Promise!Give
  <1> DEFINE k == Carve(a, ALIGN8(n))
             r == Span(k.mem, a)
  <1>1. Becomes(k) /\ IsCarved(k, a, ALIGN8(n)) /\ ALIGN8(n) >= n BY DEF Served
  <1> HIDE DEF k
  <1>2. /\ Good(k) /\ a \in DOMAIN k.mem /\ k.mem[a].size >= ALIGN8(n)
        /\ Taken(k.mem) = Taken(mem) \cup {a}
        /\ \A b \in Taken(mem) : k.mem[b].size = mem[b].size
    BY <1>1 DEF IsCarved
  <1>3. mem' = k.mem BY <1>1, BecomesIs
  <1>4. Headers(k.mem) /\ Tiles(k.mem) BY <1>2 DEF Good, Sound
  <1>5. a \notin Taken(mem) BY DEF Taken
  <1>6. \A b \in Taken(mem) : Span(k.mem, b) = Span(mem, b) BY <1>2 DEF Span, Edge
  <1>7. Held' = {Span(k.mem, b) : b \in Taken(k.mem)} BY <1>3 DEF Held, Span, Edge, Taken, Free
  <1>8. Held' = Held \cup {r} BY <1>2, <1>6, <1>7 DEF Held
  <1>9. r \notin Held
    <2>1. \A b \in Taken(mem) : Span(mem, b) # r BY <1>5 DEF Span
    <2> QED BY <2>1 DEF Held
  <1>10. r \in Promise!Ranges BY <1>2, <1>4, SpanIs
  <1>11. r[2] - r[1] >= n + HeaderSize
    <2>1. n \in Nat /\ ALIGN8(n) \in Nat BY Rounding
    <2>2. a \in Nat /\ k.mem[a].size \in Nat /\ Edge(k.mem, a) = a + k.mem[a].size + 8
      BY <1>2, <1>4, Numbers
    <2>3. r[2] = Edge(k.mem, a) /\ r[1] = a BY DEF Span
    <2> QED BY <1>1, <1>2, <2>1, <2>2, <2>3, Params
  <1>12. \A s \in Held : Promise!Apart(r, s)
    <2> SUFFICES ASSUME NEW b \in Taken(mem) PROVE Promise!Apart(r, Span(mem, b)) BY DEF Held
    <2>1. b \in DOMAIN k.mem \ {a} BY <1>2, <1>5 DEF Taken
    <2>2. Promise!Apart(r, Span(k.mem, b)) BY <1>2, <1>4, <2>1, SpanIs
    <2> QED BY <1>6, <2>2
  <1> HIDE DEF r
  <1> QED BY <1>8, <1>9, <1>10, <1>11, <1>12, HeldIs, HeldIsNext DEF HeldAreTaken, Promise!Give

LEMMA ReturnedTakesBack ==
  ASSUME IInv, NEW a \in Taken(mem), Returned(a) PROVE Promise!TakeBack
  <1> DEFINE k == Merge(a)
             r == Span(mem, a)
  <1>1. Becomes(k) /\ IsMerged(k, a) BY DEF Returned
  <1> HIDE DEF k
  <1>2. /\ Taken(k.mem) = Taken(mem) \ {a}
        /\ \A b \in Taken(mem) \ {a} : k.mem[b].size = mem[b].size
    BY <1>1 DEF IsMerged
  <1>3. mem' = k.mem BY <1>1, BecomesIs
  <1>4. \A b \in Taken(mem) \ {a} : Span(k.mem, b) = Span(mem, b) BY <1>2 DEF Span, Edge
  <1>5. Held' = {Span(k.mem, b) : b \in Taken(k.mem)} BY <1>3 DEF Held, Span, Edge, Taken, Free
  <1>6. Held' = {Span(mem, b) : b \in Taken(mem) \ {a}} BY <1>2, <1>4, <1>5
  <1>7. \A b \in Taken(mem) : Span(mem, b) = r <=> b = a BY DEF Span
  <1>8. Held' = Held \ {r} /\ r \in Held BY <1>6, <1>7 DEF Held
  <1> QED BY <1>8, HeldIs, HeldIsNext DEF HeldAreTaken, Promise!TakeBack

LEMMA StepIsAnArenaStep ==
  IInv /\ [Next]_vars => [Promise!Next]_({<<a, EndOf(Heap, a)>> : a \in DOMAIN mem \ FreeBlocks})
  <1> SUFFICES ASSUME IInv, Outcome
               PROVE  [Promise!Next]_({<<a, EndOf(Heap, a)>> : a \in DOMAIN mem \ FreeBlocks})
    BY Outcomes
  <1>1. ASSUME NEW n \in Requests, NEW a \in Free(mem), Served(n, a) PROVE Promise!Next
    BY <1>1, ServedGives DEF Promise!Next
  <1>2. ASSUME NEW a \in Taken(mem), Returned(a) PROVE Promise!Next
    BY <1>2, ReturnedTakesBack DEF Promise!Next
  <1>3. CASE Becomes(Fresh) \/ Becomes(Gone)
    <2>1. Taken(mem)' = {} BY <1>3, FreshIs, GoneIs, BecomesIs
    <2>2. Held' = {} BY <2>1 DEF Held
    <2> QED BY <2>2, HeldIsNext DEF HeldAreTaken, Promise!Abandon, Promise!Next
  <1>4. CASE UNCHANGED vars
    <2>1. Held' = Held BY <1>4 DEF vars, Held, Span, Edge, Taken, Free
    <2> QED BY <2>1, HeldIs, HeldIsNext DEF HeldAreTaken
  <1> QED BY <1>1, <1>2, <1>3, <1>4 DEF Outcome

(* kMalloc and kFree keep the promise of Arena: what is handed out lies in *)
(* the heap, is aligned, is long enough and overlaps nothing that is held. *)
THEOREM TlsfImplementsArena == Spec => ImplementsArena
  <1>1. Init => Promise!Init
    <2> SUFFICES ASSUME Init PROVE Promise!Init OBVIOUS
    <2>1. Taken(mem) = {} BY GoneIs DEF Init
    <2> QED BY <2>1, HeldIs DEF HeldAreTaken, Held, Promise!Init
  <1> QED BY <1>1, StepIsAnArenaStep, Invariant, PTL DEF Spec, ImplementsArena, Promise!Spec

(* So what any two callers of kMalloc hold at once never overlaps.         *)
THEOREM RangesApart == Spec => []Promise!Disjoint
  <1>1. IInv => Promise!Disjoint
    <2> SUFFICES ASSUME IInv PROVE Promise!Disjoint OBVIOUS
    <2>1. CASE Taken(mem) = {} BY <2>1, HeldIs DEF HeldAreTaken, Held, Promise!Disjoint
    <2>2. CASE Taken(mem) # {}
      <3>1. Headers(mem) /\ Tiles(mem)
        <4>1. DOMAIN mem # {} BY <2>2 DEF Taken
        <4> QED BY <4>1, HeapMem DEF IInv, Sound, Tiling
      <3>2. \A a \in Taken(mem) :
               /\ Span(mem, a) \in Promise!Ranges
               /\ \A b \in Taken(mem) : b # a => Promise!Apart(Span(mem, a), Span(mem, b))
        BY <3>1, SpanIs DEF Taken
      <3>3. Held \subseteq Promise!Ranges BY <3>2 DEF Held
      <3>4. \A r, s \in Held : r # s => Promise!Apart(r, s) BY <3>2 DEF Held
      <3> QED BY <3>3, <3>4, HeldIs DEF HeldAreTaken, Promise!Disjoint
    <2> QED BY <2>1, <2>2
  <1> QED BY <1>1, Invariant, PTL
=============================================================================
