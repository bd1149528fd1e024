------------------------- MODULE ParallelForProofs -------------------------
(***************************************************************************)
(* The parallel for of ParallelFor: what the race check promises, that no  *)
(* contribution to a reduction is lost, and that each index is run once.   *)
(* All three hold for any captured variables, bodies of any length, any    *)
(* widths of the two types and any team, but under exclusions of Allowed:  *)
(* the first two need the five combinations the check wrongly lets through *)
(* to be left out, the third the ranges that wrap around or that, in an    *)
(* unsigned type, pass half of it. Of the narrow unsigned ranges that do   *)
(* the last section says which indices are run: those below the half.      *)
(*                                                                         *)
(* First the slices, for any width of the types, any range and any team    *)
(* for which no intermediate value wraps around (WideSafe): they cover the *)
(* range, do not overlap, and are the same in both backends.  Rounding up  *)
(* makes nt chunks long enough for the range, and too long by less than    *)
(* nt, which bounds every intermediate value.                              *)
(***************************************************************************)
EXTENDS ParallelFor, Integers, FiniteSetTheorems, SequenceTheorems, TLAPS

-----------------------------------------------------------------------------
(* Products keep the order of their factors.                                *)
LEMMA TimesMonotone ==
  ASSUME NEW c \in Int, NEW a \in Int, NEW b \in Int, 0 <= c, a <= b
  PROVE  a * c <= b * c
<1>1. (b - a) * c >= 0
  <2>. DEFINE d == b - a
  <2>1. d \in Int /\ d >= 0
    OBVIOUS
  <2>. HIDE DEF d
  <2>2. d * c >= 0
    BY <2>1
  <2>. QED
    BY <2>2 DEF d
<1>2. QED
  BY <1>1

(* Division of a number by a positive one, as quotient and remainder.       *)
LEMMA Division ==
  ASSUME NEW a \in Int, NEW b \in Int, 0 < b
  PROVE  /\ a \div b \in Int
         /\ (a \div b) * b <= a
         /\ a < (a \div b) * b + b
         /\ a % b = a - (a \div b) * b
OBVIOUS

(* Quotient and remainder are the only ones.                                *)
LEMMA DivisionUnique ==
  ASSUME NEW a \in Int, NEW b \in Int, 0 < b,
         NEW q \in Int, NEW r \in Int, a = q * b + r, 0 <= r, r < b
  PROVE  a % b = r
<1>. DEFINE p == a \div b
<1>1. p \in Int /\ p * b <= a /\ a < p * b + b /\ a % b = a - p * b
  BY Division
<1>. HIDE DEF p
<1>2. p = q
  <2>1. CASE p + 1 <= q
    <3>1. (p + 1) * b <= q * b
      BY <1>1, <2>1, TimesMonotone
    <3>2. (p + 1) * b = p * b + b /\ p * b \in Int /\ q * b \in Int
      BY <1>1
    <3>. QED
      BY <1>1, <3>1, <3>2
  <2>2. CASE q + 1 <= p
    <3>1. (q + 1) * b <= p * b
      BY <1>1, <2>2, TimesMonotone
    <3>2. (q + 1) * b = q * b + b /\ p * b \in Int /\ q * b \in Int
      BY <1>1
    <3>. QED
      BY <1>1, <3>1, <3>2
  <2>. QED
    BY <1>1, <2>1, <2>2
<1>3. a % b = a - q * b /\ q * b \in Int
  BY <1>1, <1>2
<1>. QED
  BY <1>3


Values == -WideHalf .. WideHalf - 1

(* A number in the range of a signed type is read as itself; one in the     *)
(* upper half of the unsigned range as a negative one.                      *)
LEMMA SignedReads ==
  ASSUME NEW half \in Nat \ {0}, NEW x \in Int
  PROVE  /\ x \in -half .. half - 1 => SignedIn(half, x) = x
         /\ x \in half .. 2 * half - 1 => SignedIn(half, x) = x - 2 * half
<1>. DEFINE m == 2 * half
            y == x + half
<1>1. m \in Nat \ {0} /\ y \in Int
  OBVIOUS
<1>2. ASSUME x \in -half .. half - 1
      PROVE  y % m = y
  <2>1. 0 * m <= y /\ y < 0 * m + m /\ 0 * m = 0
    BY <1>2
  <2>. HIDE DEF m, y
  <2>2. y % m = y - 0 * m
    BY <1>1, <2>1, DivisionUnique
  <2>. QED
    BY <1>1, <2>1, <2>2
<1>3. ASSUME x \in half .. 2 * half - 1
      PROVE  y % m = y - m
  <2>1. 1 * m <= y /\ y < 1 * m + m /\ 1 * m = m
    BY <1>3
  <2>. HIDE DEF m, y
  <2>2. y % m = y - 1 * m
    BY <1>1, <2>1, DivisionUnique
  <2>. QED
    BY <1>1, <2>1, <2>2
<1>. QED
  BY <1>2, <1>3 DEF SignedIn

(* Reading a value of the wide type as itself: nothing wraps.               *)
LEMMA WideIdentity ==
  ASSUME NEW x \in Values
  PROVE  Wide(x) = x
BY SignedReads, HalfAssumption DEF Wide, Values

(* A loop that WideSafe admits.                                             *)
Admitted(start, end, team) ==
  /\ start \in Values /\ end \in Values
  /\ team \in Nat \ {0} /\ team < WideHalf
  /\ WideSafe(start, end, team)

(* nt chunks cover the range and are too long by less than nt; over an      *)
(* empty range a chunk is empty or runs backwards, but not past its end.    *)
LEMMA ChunkBounds ==
  ASSUME NEW start, NEW end, NEW team, Admitted(start, end, team)
  PROVE  LET c == Chunk(start, end, team) IN
           /\ c \in Int
           /\ c * team <= end - start + team - 1 \/ c <= 0
           /\ end - start <= c * team
           /\ start < end => c >= 1
<1>. DEFINE c == Chunk(start, end, team)
            r == end - start
            s == r + team
            a == s - 1
<1>1. /\ WideHalf \in Nat /\ 0 < WideHalf
      /\ team \in Int /\ 1 <= team /\ start \in Int /\ end \in Int /\ r \in Int /\ a \in Int
  BY HalfAssumption DEF Admitted, Values
<1>2. Wide(r) = r /\ Wide(s) = s /\ Wide(a) = a
  <2>1. r \in Values /\ s \in Values /\ a \in Values
    BY <1>1 DEF Admitted, WideSafe, Values
  <2>. QED
    BY <2>1, WideIdentity
<1>3. c = Sdiv(a, team)
  <2>1. Chunk(start, end, team) = Sdiv(Wide(Wide(Wide(r) + team) - 1), team)
    BY DEF Chunk
  <2>2. Wide(r) + team = s
    BY <1>2
  <2>3. Wide(Wide(r) + team) - 1 = a
    <3>. HIDE DEF s
    <3>. QED
      BY <1>2, <2>2
  <2>. HIDE DEF a, r
  <2>. QED
    BY <1>2, <2>1, <2>3
<1>4. CASE a >= 0
  <2>1. c = a \div team
    BY <1>3, <1>4 DEF Sdiv
  <2>2. c \in Int /\ c * team <= a /\ a < c * team + team
    BY <1>1, <2>1, Division
  <2>3. start < end => c >= 1
    <3>1. SUFFICES ASSUME start < end, c <= 0 PROVE FALSE
      BY <2>2
    <3>2. c * team <= 0 * team
      BY <1>1, <2>2, <3>1, TimesMonotone
    <3>. QED
      BY <1>1, <2>2, <3>1, <3>2
  <2>. QED
    BY <1>1, <2>2, <2>3
<1>5. CASE a < 0
  <2>. DEFINE q == (-a) \div team
  <2>1. c = -q
    BY <1>1, <1>3, <1>5 DEF Sdiv
  <2>2. q \in Int /\ q * team <= -a /\ -a < q * team + team
    BY <1>1, Division
  <2>3. q >= 0
    <3>1. SUFFICES ASSUME q <= -1 PROVE FALSE
      BY <2>2
    <3>2. q * team <= (-1) * team
      BY <1>1, <2>2, <3>1, TimesMonotone
    <3>. QED
      BY <1>1, <1>5, <2>2, <3>2
  <2>. HIDE DEF c, q
  <2>4. c * team = -(q * team)
    BY <1>1, <2>1, <2>2
  <2>. QED
    BY <1>1, <1>5, <2>1, <2>2, <2>3, <2>4 DEF c
<1>. QED
  BY <1>1, <1>4, <1>5

(* No intermediate value of a slice wraps: its bounds are those of the      *)
(* integers, and the two backends agree on them.                            *)
LEMMA SliceBounds ==
  ASSUME NEW start, NEW end, NEW team, Admitted(start, end, team), NEW tid \in 0 .. team - 1
  PROVE  LET c == Chunk(start, end, team)
             top == start + (tid + 1) * c
         IN  /\ Lo(start, end, team, tid) = start + tid * c
             /\ TreeHi(start, end, team, tid) = IF top < end THEN top ELSE end
             /\ SsaHi(start, end, team, tid) = TreeHi(start, end, team, tid)
<1>. DEFINE c == Chunk(start, end, team)
            low == tid * c
            high == (tid + 1) * c
<1>1. /\ WideHalf \in Nat /\ team \in Int /\ 1 <= team
      /\ start \in Int /\ end \in Int /\ tid \in Int /\ 0 <= tid /\ tid + 1 <= team
  BY HalfAssumption DEF Admitted, Values
<1>2. /\ c \in Int
      /\ c * team <= end - start + team - 1 \/ c <= 0
      /\ end - start <= c * team
  BY ChunkBounds
<1>. HIDE DEF c
<1>3. low \in Int /\ high \in Int /\ high = low + c
  BY <1>1, <1>2
<1>4. \/ 0 <= low /\ low <= high /\ high <= c * team
      \/ c * team <= high /\ high <= low /\ low <= 0
  <2>1. CASE c >= 0
    <3>1. 0 * c <= tid * c /\ tid * c <= (tid + 1) * c /\ (tid + 1) * c <= team * c
      BY <1>1, <1>2, <2>1, TimesMonotone
    <3>. QED
      BY <1>1, <1>2, <3>1
  <2>2. CASE c <= 0
    <3>. DEFINE d == -c
    <3>1. d \in Int /\ 0 <= d
      BY <1>2, <2>2
    <3>. HIDE DEF d
    <3>2. 0 * d <= tid * d /\ tid * d <= (tid + 1) * d /\ (tid + 1) * d <= team * d
      BY <1>1, <3>1, TimesMonotone
    <3>3. c = -d
      BY <1>2 DEF d
    <3>4. low = -(tid * d) /\ high = -((tid + 1) * d) /\ c * team = -(team * d)
      BY <1>1, <3>1, <3>3
    <3>. QED
      BY <1>1, <3>1, <3>2, <3>4
  <2>. QED
    BY <1>2, <2>1, <2>2
<1>5. /\ low \in Values /\ high \in Values
      /\ start + low \in Values /\ start + high \in Values
  <2>. HIDE DEF low, high
  <2>1. CASE c * team <= end - start + team - 1 /\ 0 <= low /\ low <= high /\ high <= c * team
    BY <1>1, <1>2, <1>3, <2>1 DEF Admitted, WideSafe, Values
  <2>2. CASE c * team <= high /\ high <= low /\ low <= 0
    BY <1>1, <1>2, <1>3, <2>2 DEF Admitted, WideSafe, Values
  <2>3. CASE c <= 0 /\ 0 <= low /\ low <= high /\ high <= c * team
    BY <1>1, <1>2, <1>3, <2>3 DEF Admitted, WideSafe, Values
  <2>. QED
    BY <1>2, <1>4, <2>1, <2>2, <2>3
<1>6. Lo(start, end, team, tid) = start + low
  BY <1>5, WideIdentity DEF Lo, c
<1>7. Wide(start + low + c) = start + high /\ Wide(Wide(tid * c) + c) = high
  <2>1. Wide(tid * c) = low /\ Wide(high) = high /\ Wide(start + high) = start + high
    BY <1>5, WideIdentity
  <2>2. start + low + c = start + high /\ low + c = high
    BY <1>1, <1>2, <1>3
  <2>. QED
    BY <2>1, <2>2
<1>8. TreeHi(start, end, team, tid) = IF start + high < end THEN start + high ELSE end
  BY <1>6, <1>7 DEF TreeHi, c
<1>9. SsaHi(start, end, team, tid) = IF start + high > end THEN end ELSE start + high
  <2>1. Wide(start + high) = start + high
    BY <1>5, WideIdentity
  <2>. QED
    BY <1>7, <2>1 DEF SsaHi, c
<1>. QED
  BY <1>1, <1>3, <1>6, <1>8, <1>9 DEF c

-----------------------------------------------------------------------------
(* Every index of the range is in one slice: the chunk it falls in. (The    *)
(* slices of emit_parallel_for_via_gomp and emit_outlined_parallel_for.)    *)
THEOREM SlicesCover ==
  ASSUME NEW start, NEW end, NEW team, Admitted(start, end, team), NEW i \in start .. end - 1
  PROVE  \E tid \in 0 .. team - 1 :
           Lo(start, end, team, tid) <= i /\ i < TreeHi(start, end, team, tid)
<1>. DEFINE c == Chunk(start, end, team)
            tid == (i - start) \div c
<1>1. team \in Int /\ 1 <= team /\ start \in Int /\ end \in Int /\ i \in Int /\ start <= i /\ i < end
  BY HalfAssumption DEF Admitted, Values
<1>2. c \in Int /\ 1 <= c /\ end - start <= c * team
  BY <1>1, ChunkBounds
<1>. HIDE DEF c
<1>3. tid \in Int /\ tid * c <= i - start /\ i - start < tid * c + c
  BY <1>1, <1>2, Division
<1>. HIDE DEF tid
<1>4. 0 <= tid
  <2>1. SUFFICES ASSUME tid <= -1 PROVE FALSE
    BY <1>3
  <2>2. tid * c <= (-1) * c
    BY <1>2, <1>3, <2>1, TimesMonotone
  <2>. QED
    BY <1>1, <1>2, <1>3, <2>2
<1>5. tid < team
  <2>1. SUFFICES ASSUME team <= tid PROVE FALSE
    BY <1>1, <1>3
  <2>2. team * c <= tid * c
    BY <1>1, <1>2, <1>3, <2>1, TimesMonotone
  <2>. QED
    BY <1>1, <1>2, <1>3, <2>2
<1>6. tid \in 0 .. team - 1
  BY <1>1, <1>3, <1>4, <1>5
<1>7. /\ Lo(start, end, team, tid) = start + tid * c
      /\ TreeHi(start, end, team, tid) =
           IF start + (tid + 1) * c < end THEN start + (tid + 1) * c ELSE end
  BY <1>6, SliceBounds DEF c
<1>8. (tid + 1) * c = tid * c + c /\ tid * c \in Int
  BY <1>2, <1>3
<1>9. Lo(start, end, team, tid) <= i /\ i < TreeHi(start, end, team, tid)
  BY <1>1, <1>2, <1>3, <1>7, <1>8
<1>. QED
  BY <1>6, <1>9

(* A slice holds indices of the range only, also when the range is empty or *)
(* runs backwards or a thread's chunk starts past its end.                  *)
THEOREM SlicesInside ==
  ASSUME NEW start, NEW end, NEW team, Admitted(start, end, team), NEW tid \in 0 .. team - 1,
         NEW i \in Int, Lo(start, end, team, tid) <= i, i < TreeHi(start, end, team, tid)
  PROVE  i \in start .. end - 1
<1>. DEFINE c == Chunk(start, end, team)
<1>1. start \in Int /\ end \in Int /\ tid \in Int /\ 0 <= tid
  BY HalfAssumption DEF Admitted, Values
<1>2. /\ Lo(start, end, team, tid) = start + tid * c
      /\ TreeHi(start, end, team, tid) =
           IF start + (tid + 1) * c < end THEN start + (tid + 1) * c ELSE end
  BY SliceBounds
<1>3. c \in Int
  BY ChunkBounds
<1>. HIDE DEF c
<1>4. tid * c \in Int /\ (tid + 1) * c = tid * c + c
  BY <1>1, <1>3
<1>5. 0 < c
  BY <1>1, <1>2, <1>3, <1>4
<1>6. 0 * c <= tid * c
  BY <1>1, <1>3, <1>5, TimesMonotone
<1>. QED
  BY <1>1, <1>2, <1>3, <1>4, <1>6

(* No index is in the slices of two threads.                                *)
THEOREM SlicesDisjoint ==
  ASSUME NEW start, NEW end, NEW team, Admitted(start, end, team),
         NEW t \in 0 .. team - 1, NEW u \in 0 .. team - 1, t < u
  PROVE  TreeHi(start, end, team, t) <= Lo(start, end, team, u)
           \/ TreeHi(start, end, team, u) <= Lo(start, end, team, u)
<1>. DEFINE c == Chunk(start, end, team)
<1>1. start \in Int /\ end \in Int /\ team \in Int /\ t \in Int /\ u \in Int /\ t + 1 <= u
  BY HalfAssumption DEF Admitted, Values
<1>2. /\ TreeHi(start, end, team, t) =
           IF start + (t + 1) * c < end THEN start + (t + 1) * c ELSE end
      /\ Lo(start, end, team, u) = start + u * c
      /\ TreeHi(start, end, team, u) =
           IF start + (u + 1) * c < end THEN start + (u + 1) * c ELSE end
  BY SliceBounds
<1>3. c \in Int
  BY ChunkBounds
<1>. HIDE DEF c
<1>4. /\ t * c \in Int /\ (t + 1) * c \in Int
      /\ u * c \in Int /\ (u + 1) * c = u * c + c
  BY <1>1, <1>3
<1>5. CASE 0 <= c
  <2>1. (t + 1) * c <= u * c
    BY <1>1, <1>3, <1>5, TimesMonotone
  <2>. QED
    BY <1>1, <1>2, <1>3, <1>4, <2>1
<1>6. CASE c < 0
  BY <1>1, <1>2, <1>3, <1>4, <1>6
<1>. QED
  BY <1>3, <1>5, <1>6

(* Each index of the range is in the slice of exactly one thread: none is   *)
(* skipped and none is run twice, whatever the type's width.                *)
THEOREM EachIndexInOneSlice ==
  ASSUME NEW start, NEW end, NEW team, Admitted(start, end, team), NEW i \in start .. end - 1
  PROVE  \E tid \in 0 .. team - 1 : \A u \in 0 .. team - 1 :
           (Lo(start, end, team, u) <= i /\ i < TreeHi(start, end, team, u)) <=> u = tid
<1>. DEFINE low(u) == Lo(start, end, team, u)
            high(u) == TreeHi(start, end, team, u)
            In(u) == low(u) <= i /\ i < high(u)
<1>1. team \in Int /\ i \in Int /\ start \in Int /\ end \in Int
  BY HalfAssumption DEF Admitted, Values
<1>2. PICK tid \in 0 .. team - 1 : In(tid)
  BY SlicesCover
<1>3. \A u \in 0 .. team - 1 : low(u) \in Int /\ high(u) \in Int
  <2>. SUFFICES ASSUME NEW u \in 0 .. team - 1 PROVE low(u) \in Int /\ high(u) \in Int
    OBVIOUS
  <2>. DEFINE c == Chunk(start, end, team)
  <2>1. c \in Int
    BY ChunkBounds
  <2>2. /\ low(u) = start + u * c
        /\ high(u) = IF start + (u + 1) * c < end THEN start + (u + 1) * c ELSE end
    BY SliceBounds
  <2>. HIDE DEF c
  <2>3. start + u * c \in Int /\ start + (u + 1) * c \in Int
    BY <1>1, <2>1
  <2>. QED
    BY <1>1, <2>2, <2>3
<1>4. ASSUME NEW t \in 0 .. team - 1, NEW u \in 0 .. team - 1, t < u, In(t), In(u) PROVE FALSE
  <2>1. high(t) <= low(u) \/ high(u) <= low(u)
    BY <1>4, SlicesDisjoint
  <2>2. low(u) \in Int /\ high(u) \in Int /\ high(t) \in Int
    BY <1>3
  <2>. HIDE DEF low, high
  <2>. QED
    BY <1>1, <1>4, <2>1, <2>2
<1>5. \A u \in 0 .. team - 1 : In(u) => u = tid
  <2>. SUFFICES ASSUME NEW u \in 0 .. team - 1, In(u), u # tid PROVE FALSE
    OBVIOUS
  <2>1. u < tid \/ tid < u
    BY <1>1
  <2>. QED
    BY <1>2, <1>4, <2>1
<1>. QED
  BY <1>2, <1>5

(* The tree backend and the SSA backend cut the range at the same places.   *)
THEOREM BackendsAgree ==
  ASSUME NEW start, NEW end, NEW team, Admitted(start, end, team), NEW tid \in 0 .. team - 1
  PROVE  SsaHi(start, end, team, tid) = TreeHi(start, end, team, tid)
BY SliceBounds

-----------------------------------------------------------------------------
(* The counter of the tree backend                                          *)

(* The same for an unsigned type and a negative number.                     *)
LEMMA UnsignedReads ==
  ASSUME NEW half \in Nat \ {0}, NEW x \in Int
  PROVE  /\ x \in 0 .. 2 * half - 1 => UnsignedIn(half, x) = x
         /\ x \in -(2 * half) .. -1 => UnsignedIn(half, x) = x + 2 * half
<1>. DEFINE m == 2 * half
<1>1. m \in Nat \ {0}
  OBVIOUS
<1>2. ASSUME x \in 0 .. 2 * half - 1
      PROVE  x % m = x
  <2>1. 0 * m <= x /\ x < 0 * m + m /\ 0 * m = 0
    BY <1>2
  <2>. HIDE DEF m
  <2>2. x % m = x - 0 * m
    BY <1>1, <2>1, DivisionUnique
  <2>. QED
    BY <1>1, <2>1, <2>2
<1>3. ASSUME x \in -(2 * half) .. -1
      PROVE  x % m = x + m
  <2>1. (-1) * m <= x /\ x < (-1) * m + m /\ (-1) * m = -m
    BY <1>3
  <2>. HIDE DEF m
  <2>2. x % m = x - (-1) * m
    BY <1>1, <2>1, DivisionUnique
  <2>. QED
    BY <1>1, <2>1, <2>2
<1>. QED
  BY <1>2, <1>3 DEF UnsignedIn

LoopTypes == [signed : BOOLEAN, wide : BOOLEAN]

(* The body reads the index a counter stands for.                           *)
LEMMA IndexReads ==
  ASSUME NEW ty \in LoopTypes, NEW n \in InType(ty)
  PROVE  IndexOf(ty, n) = n /\ IndexOf(ty, Trunc(ty, n)) = n
<1>1. WideHalf \in Nat \ {0} /\ NarrowHalf \in Nat \ {0} /\ n \in Int
  BY HalfAssumption DEF InType
<1>2. CASE ty.signed \/ ty.wide
  <2>1. n \in -HalfOf(ty) .. HalfOf(ty) - 1 /\ HalfOf(ty) \in Nat \ {0}
    BY <1>1, <1>2 DEF InType, HalfOf
  <2>2. Trunc(ty, n) = n
    BY <1>1, <2>1, SignedReads DEF Trunc
  <2>. QED
    BY <1>2, <2>2 DEF IndexOf
<1>3. CASE ~(ty.signed \/ ty.wide)
  <2>1. n \in 0 .. 2 * NarrowHalf - 1 /\ Trunc(ty, n) = SignedIn(NarrowHalf, n)
    BY <1>1, <1>3 DEF InType, HalfOf, Trunc
  <2>2. UnsignedIn(NarrowHalf, n) = n
    BY <1>1, <2>1, UnsignedReads
  <2>3. Trunc(ty, n) = IF n < NarrowHalf THEN n ELSE n - 2 * NarrowHalf
    BY <1>1, <2>1, SignedReads
  <2>4. UnsignedIn(NarrowHalf, Trunc(ty, n)) = n
    <3>1. CASE n < NarrowHalf
      BY <2>2, <2>3, <3>1
    <3>2. CASE n >= NarrowHalf
      <4>. DEFINE x == n - 2 * NarrowHalf
      <4>1. x \in Int /\ x \in -(2 * NarrowHalf) .. -1 /\ x + 2 * NarrowHalf = n /\ Trunc(ty, n) = x
        BY <1>1, <2>1, <2>3, <3>2
      <4>. HIDE DEF x
      <4>. QED
        BY <1>1, <4>1, UnsignedReads
    <3>. QED
      BY <1>1, <3>1, <3>2
  <2>. QED
    BY <1>3, <2>2, <2>4 DEF IndexOf
<1>. QED
  BY <1>2, <1>3

(* Where the bounds of a slice can be.                                      *)
LEMMA SliceRange ==
  ASSUME NEW start, NEW end, NEW team, Admitted(start, end, team), NEW tid \in 0 .. team - 1
  PROVE  LET low == Lo(start, end, team, tid)
             high == TreeHi(start, end, team, tid)
             last == start + (team - 1) * Chunk(start, end, team)
         IN  /\ start \in Int /\ end \in Int /\ low \in Int /\ high \in Int /\ last \in Int
             /\ start <= low \/ end <= low
             /\ low <= start \/ low <= last
             /\ start <= high \/ end <= high
             /\ high <= end
<1>. DEFINE c == Chunk(start, end, team)
            low == tid * c
            high == (tid + 1) * c
            least == (team - 1) * c
            all == team * c
<1>1. /\ team \in Int /\ 1 <= team /\ start \in Int /\ end \in Int
      /\ tid \in Int /\ 0 <= tid /\ tid + 1 <= team
  BY HalfAssumption DEF Admitted, Values
<1>2. c \in Int /\ end - start <= c * team
  BY ChunkBounds
<1>3. /\ Lo(start, end, team, tid) = start + low
      /\ TreeHi(start, end, team, tid) = IF start + high < end THEN start + high ELSE end
  BY SliceBounds
<1>. HIDE DEF c
<1>4. low \in Int /\ high \in Int /\ least \in Int /\ all \in Int /\ end - start <= all
  BY <1>1, <1>2
<1>5. \/ 0 <= low /\ low <= least /\ low <= high
      \/ all <= high /\ high <= low /\ low <= 0
  <2>1. CASE c >= 0
    <3>1. 0 * c <= tid * c /\ tid * c <= (team - 1) * c /\ tid * c <= (tid + 1) * c
      BY <1>1, <1>2, <2>1, TimesMonotone
    <3>. QED
      BY <1>1, <1>2, <3>1
  <2>2. CASE c <= 0
    <3>. DEFINE d == -c
    <3>1. d \in Int /\ 0 <= d
      BY <1>2, <2>2
    <3>. HIDE DEF d
    <3>2. 0 * d <= tid * d /\ tid * d <= (tid + 1) * d /\ (tid + 1) * d <= team * d
      BY <1>1, <3>1, TimesMonotone
    <3>3. c = -d
      BY <1>2 DEF d
    <3>4. low = -(tid * d) /\ high = -((tid + 1) * d) /\ all = -(team * d)
      BY <1>1, <3>1, <3>3
    <3>. QED
      BY <1>1, <3>1, <3>2, <3>4
  <2>. QED
    BY <1>2, <2>1, <2>2
<1>. HIDE DEF low, high, least, all
<1>6. start + (team - 1) * Chunk(start, end, team) = start + least
  BY DEF least, c
<1>. QED
  BY <1>1, <1>3, <1>4, <1>5, <1>6

(* A narrow unsigned counter leaves the loop at half its type, where its    *)
(* sign extension is no longer the index; the others at the slice's end.    *)
Leaves(ty, high) == IF ~ty.signed /\ ~ty.wide /\ NarrowHalf < high THEN NarrowHalf ELSE high

(* The counter of the tree backend, truncated to the loop's type and        *)
(* compared in the wide one, leaves the loop when the index it stands for   *)
(* reaches the end of the slice, and never before, unless it is narrow and  *)
(* unsigned: then it runs no index at or above half its type, whether the   *)
(* slice crosses it or starts beyond it. The increment in the loop's type   *)
(* is that of the index. (No lower bound may lie past the type's end, and a *)
(* wide unsigned range must lie on one side of 2^63.)                       *)
THEOREM CounterExact ==
  ASSUME NEW start, NEW end, NEW team, Admitted(start, end, team), NEW tid \in 0 .. team - 1,
         NEW ty \in LoopTypes, start \in InType(ty), end \in InType(ty),
         CounterSafe(ty, start, end, team), ty.wide => OneHalf(ty, start, end), NEW n \in Int,
         Lo(start, end, team, tid) <= n,
         n = Lo(start, end, team, tid) \/ n <= TreeHi(start, end, team, tid)
  PROVE  LET high == TreeHi(start, end, team, tid) IN
           /\ TreeMore(ty, Trunc(ty, n), high) <=> n < Leaves(ty, high)
           /\ n < high => Trunc(ty, Trunc(ty, n) + 1) = Trunc(ty, n + 1)
<1>. DEFINE low == Lo(start, end, team, tid)
            high == TreeHi(start, end, team, tid)
            last == start + (team - 1) * Chunk(start, end, team)
            half == HalfOf(ty)
<1>1. /\ start \in Int /\ end \in Int /\ low \in Int /\ high \in Int /\ last \in Int
      /\ start <= low \/ end <= low
      /\ low <= start \/ low <= last
      /\ start <= high \/ end <= high
      /\ high <= end
      /\ low <= n /\ (n = low \/ n <= high)
  BY SliceRange
<1>2. /\ WideHalf \in Nat \ {0} /\ NarrowHalf \in Nat \ {0} /\ 2 * NarrowHalf <= WideHalf
      /\ half \in Nat \ {0} /\ half <= WideHalf
  BY HalfAssumption DEF HalfOf
<1>3. last <= LastOf(ty, end)
  BY DEF CounterSafe
<1>4. half = IF ty.wide THEN WideHalf ELSE NarrowHalf
  BY DEF HalfOf
<1>. HIDE DEF low, high, last, half
<1>5. CASE ty.signed
  <2>1. n \in -half .. half - 1
    BY <1>1, <1>2, <1>3, <1>4, <1>5 DEF InType, LastOf, half
  <2>2. Trunc(ty, n) = n
    BY <1>2, <2>1, SignedReads DEF Trunc, half
  <2>. QED
    BY <1>5, <2>2 DEF TreeMore, Leaves, high
<1>6. CASE ~ty.signed /\ ty.wide
  <2>1. (start < 0) <=> (end < 0)
    BY <1>6 DEF OneHalf
  <2>2. \/ n \in 0 .. WideHalf - 1 /\ high \in 0 .. WideHalf - 1
        \/ n \in -WideHalf .. -1 /\ high \in -WideHalf .. -1
    <3>1. start \in -WideHalf .. WideHalf - 1 /\ end \in -WideHalf .. WideHalf - 1
      BY <1>6 DEF InType
    <3>2. last <= IF end < 0 THEN -1 ELSE WideHalf - 1
      BY <1>1, <1>3, <1>6 DEF LastOf, HalfOf
    <3>. QED
      BY <1>1, <1>2, <2>1, <3>1, <3>2
  <2>3. Trunc(ty, n) = n
    BY <1>2, <1>4, <1>6, <2>2, SignedReads DEF Trunc, half
  <2>4. \/ UnsignedIn(WideHalf, n) = n /\ UnsignedIn(WideHalf, high) = high
        \/ /\ UnsignedIn(WideHalf, n) = n + 2 * WideHalf
           /\ UnsignedIn(WideHalf, high) = high + 2 * WideHalf
    BY <1>1, <1>2, <2>2, UnsignedReads
  <2>5. (UnsignedIn(WideHalf, n) < UnsignedIn(WideHalf, high)) <=> n < high
    BY <1>1, <1>2, <2>4
  <2>. QED
    BY <1>6, <2>3, <2>5 DEF TreeMore, Leaves, high
<1>7. CASE ~ty.signed /\ ~ty.wide
  <2>1. n \in 0 .. 2 * NarrowHalf - 1 /\ high \in 0 .. 2 * NarrowHalf - 1
    <3>1. start \in 0 .. 2 * NarrowHalf - 1 /\ end \in 0 .. 2 * NarrowHalf - 1
      BY <1>7 DEF InType
    <3>2. last <= 2 * NarrowHalf - 1
      BY <1>1, <1>3, <1>7 DEF LastOf
    <3>. QED
      BY <1>1, <1>2, <3>1, <3>2
  <2>2. Trunc(ty, n) = IF n < NarrowHalf THEN n ELSE n - 2 * NarrowHalf
    BY <1>2, <1>4, <1>7, <2>1, SignedReads DEF Trunc, half
  <2>3. UnsignedIn(WideHalf, high) = high
    BY <1>2, <2>1, UnsignedReads
  <2>4. CASE n < NarrowHalf
    <3>1. UnsignedIn(WideHalf, n) = n
      BY <1>2, <2>1, <2>4, UnsignedReads
    <3>2. n < Leaves(ty, high) <=> n < high
      BY <1>2, <1>7, <2>1, <2>4 DEF Leaves
    <3>. QED
      BY <1>7, <2>2, <2>3, <2>4, <3>1, <3>2 DEF TreeMore, high
  <2>5. CASE n >= NarrowHalf
    <3>. DEFINE x == n - 2 * NarrowHalf
    <3>1. /\ x \in -(2 * WideHalf) .. -1 /\ Trunc(ty, n) = x /\ x \in Int
          /\ ~(x + 2 * WideHalf < high) /\ ~(n < Leaves(ty, high))
      BY <1>2, <1>7, <2>1, <2>2, <2>5 DEF Leaves
    <3>2. n < high => Trunc(ty, x + 1) = Trunc(ty, n + 1)
      <4>. SUFFICES ASSUME n < high PROVE Trunc(ty, x + 1) = Trunc(ty, n + 1)
        OBVIOUS
      <4>1. n + 1 \in NarrowHalf .. 2 * NarrowHalf - 1 /\ x + 1 \in -NarrowHalf .. NarrowHalf - 1
            /\ n + 1 \in Int /\ x + 1 \in Int /\ x + 1 = n + 1 - 2 * NarrowHalf
        BY <1>2, <2>1, <2>5
      <4>2. SignedIn(NarrowHalf, n + 1) = n + 1 - 2 * NarrowHalf
        BY <1>2, <4>1, SignedReads
      <4>3. SignedIn(NarrowHalf, x + 1) = x + 1
        BY <1>2, <4>1, SignedReads
      <4>. QED
        BY <1>4, <1>7, <4>1, <4>2, <4>3 DEF Trunc, half
    <3>. HIDE DEF x
    <3>3. UnsignedIn(WideHalf, x) = x + 2 * WideHalf
      BY <1>2, <3>1, UnsignedReads
    <3>. QED
      BY <1>7, <2>3, <3>1, <3>2, <3>3 DEF TreeMore, high
  <2>. QED
    BY <1>2, <2>1, <2>4, <2>5
<1>. QED
  BY <1>5, <1>6, <1>7

-----------------------------------------------------------------------------
Shapes == {"const", "read", "hidden", "update", "update hidden", "query", "fill", "change", "vec"}
Brackets == {"if", "iter", "else", "end", "continue"}
Statement == [s : Brackets \union {"let", "assign", "call"}, v : Captured,
              e : [shape : Shapes, v : Captured], inIter : BOOLEAN,
              bind : Nat, read : Nat, valid : BOOLEAN, d : Int]

(* What the accepted statements have in common, once the hazardous          *)
(* combinations are left out: a call only queries the container, a captured *)
(* variable is assigned only by an update of the reduction outside a        *)
(* for-iter, and the reduction variable is read by such updates alone.      *)
Harmless(st) ==
  /\ st.s = "call" => st.e.shape = "query"
  /\ st.s = "assign" /\ st.bind = 0 =>
       st.v \in reduce /\ ~st.inIter /\ st.e.shape = "update"
  /\ st.s # "call" /\ Reads(st.e) # {} /\ st.read = 0 /\ st.e.v \in reduce =>
       st.s = "assign" /\ st.bind = 0

Blocks == [kind : {"if", "iter", "else"}, at : Nat]
BodyTypes == /\ reduce \subseteq {Acc}
             /\ body \in Seq(Statement)
             /\ open \in Seq(Blocks)
             /\ visible \in Seq([Captured -> Nat])
             /\ Len(visible) = Len(open) + 1
BodyInv == BodyTypes /\ \A i \in 1 .. Len(body) : Harmless(body[i])

(* Writing one more harmless statement keeps the body harmless.             *)
LEMMA AppendHarmless ==
  ASSUME BodyInv, NEW st \in Statement, Harmless(st), body' = Append(body, st), reduce' = reduce,
         open' \in Seq(Blocks), visible' \in Seq([Captured -> Nat]),
         Len(visible') = Len(open') + 1
  PROVE  BodyInv'
<1>1. body \in Seq(Statement) /\ Len(body) \in Nat
  BY DEF BodyInv, BodyTypes
<1>2. body' \in Seq(Statement) /\ Len(body') = Len(body) + 1
  BY <1>1
<1>3. ASSUME NEW i \in 1 .. Len(body')
      PROVE  Harmless(body'[i])
  <2>1. body'[i] = st \/ (i \in 1 .. Len(body) /\ body'[i] = body[i])
    BY <1>1, <1>2
  <2>. QED
    BY <2>1 DEF BodyInv
<1>. QED
  BY <1>2, <1>3 DEF BodyInv, BodyTypes, Harmless

(* A record with the fields of a statement is one.                          *)
LEMMA StatementMade ==
  ASSUME NEW s \in Brackets \union {"let", "assign", "call"}, NEW v \in Captured,
         NEW e \in [shape : Shapes, v : Captured], NEW in \in BOOLEAN, NEW bind \in Nat,
         NEW read \in Nat, NEW valid \in BOOLEAN, NEW d \in Int
  PROVE  [s |-> s, v |-> v, e |-> e, inIter |-> in, bind |-> bind, read |-> read,
          valid |-> valid, d |-> d] \in Statement
BY DEF Statement

(* What the checker writes down is a statement.                             *)
LEMMA StatementTypes ==
  ASSUME BodyTypes
  PROVE  /\ \A n \in Captured, e \in Exprs \union Updates, s \in {"let", "assign"} :
              Stmt(s, n, e) \in Statement
         /\ \A s \in Brackets : Bracket(s) \in Statement
         /\ \A c \in Calls : CallStmt(c) \in Statement
<1>1. /\ Now \in [Captured -> Nat] /\ Len(body) \in Nat /\ Len(open) \in Nat
      /\ InIter \in BOOLEAN
  BY DEF BodyTypes, Now, Last, InIter
<1>2. ASSUME NEW n \in Captured, NEW e \in Exprs \union Updates, NEW s \in {"let", "assign"}
      PROVE  Stmt(s, n, e) \in Statement
  <2>. DEFINE valid == \A x \in Reads(e) \cup (IF s = "let" THEN {} ELSE {n}) : Now[x] = flat[x]
              bind == IF s = "let" THEN Len(body) + 1 ELSE Now[n]
  <2>1. valid \in BOOLEAN /\ bind \in Nat
    BY <1>1, <1>2
  <2>2. e \in [shape : Shapes, v : Captured] /\ e.v \in Captured
    BY <1>2, ParallelAssumption DEF Exprs, Updates, Shapes
  <2>3. Stmt(s, n, e) = [s |-> s, v |-> n, e |-> e, inIter |-> InIter, bind |-> bind,
                         read |-> Now[e.v], valid |-> valid, d |-> Len(open)]
    BY Zenon DEF Stmt
  <2>. HIDE DEF valid, bind
  <2>4. Now[e.v] \in Nat /\ Len(open) \in Int /\ s \in Brackets \union {"let", "assign", "call"}
    BY <1>1, <1>2, <2>2
  <2>5. [s |-> s, v |-> n, e |-> e, inIter |-> InIter, bind |-> bind,
         read |-> Now[e.v], valid |-> valid, d |-> Len(open)] \in Statement
    BY <1>1, <1>2, <2>1, <2>2, <2>4, StatementMade
  <2>. QED
    BY <2>3, <2>5
<1>3. [shape |-> "const", v |-> Acc] \in [shape : Shapes, v : Captured]
  BY ParallelAssumption DEF Shapes
<1>4. ASSUME NEW s \in Brackets \union {"call"}
      PROVE  Bracket(s) \in Statement
  <2>1. Len(open) - (IF s \in {"else", "end"} THEN 1 ELSE 0) \in Int
    BY <1>1
  <2>. QED
    BY <1>1, <1>3, <1>4, <2>1, StatementMade, ParallelAssumption DEF Bracket
<1>5. ASSUME NEW c \in Calls
      PROVE  CallStmt(c) \in Statement
  <2>1. c.does \in Shapes
    BY <1>5 DEF Calls, Shapes
  <2>2. Bracket("call") \in Statement
    BY <1>4
  <2>. QED
    BY <2>1, <2>2 DEF CallStmt, Statement
<1>. QED
  BY <1>2, <1>4, <1>5

(* The sequence without its last element.                                   *)
LEMMA FrontType ==
  ASSUME NEW S, NEW q \in Seq(S), q # <<>>
  PROVE  Front(q) \in Seq(S) /\ Len(Front(q)) = Len(q) - 1 /\ Len(q) \in Nat /\ Len(q) >= 1
<1>1. Len(q) \in Nat /\ Len(q) >= 1
  BY EmptySeq, LenProperties
<1>. DEFINE n == Len(q) - 1
<1>2. n \in Int /\ n >= 0 /\ 1 \in Int
  BY <1>1
<1>3. \A i \in 1 .. n : q[i] \in S
  BY <1>1
<1>. HIDE DEF n
<1>4. SubSeq(q, 1, n) \in Seq(S) /\ Len(SubSeq(q, 1, n)) = IF 1 <= n THEN n - 1 + 1 ELSE 0
  BY <1>2, <1>3, SubSeqProperties
<1>5. Len(SubSeq(q, 1, n)) = n
  BY <1>2, <1>4
<1>. QED
  BY <1>1, <1>4, <1>5 DEF Front, n

(* Of the hazardous combinations only those about the range may occur.      *)
BodiesTame == Allowed \subseteq {"wrap", "past half"}

(* Whatever the checker accepts next is harmless.                           *)
LEMMA BodyStep ==
  ASSUME BodiesTame, BodyInv, [Next]_vars
  PROVE  BodyInv'
<1>. USE ParallelAssumption
<1>0. /\ Now \in [Captured -> Nat] /\ Len(body) \in Nat /\ Len(open) \in Nat
      /\ open \in Seq(Blocks) /\ visible \in Seq([Captured -> Nat])
      /\ Len(visible) = Len(open) + 1
  BY DEF BodyInv, BodyTypes, Now, Last
<1>18. /\ "block let" \notin Allowed /\ "hidden read" \notin Allowed
       /\ "reduce in iter" \notin Allowed
       /\ "changing call" \notin Allowed /\ "filling call" \notin Allowed
  BY DEF BodiesTame
<1>1. ASSUME NEW n \in Captured, NEW e \in Exprs, Let(n, e)
      PROVE  BodyInv'
  <2>1. Stmt("let", n, e) \in Statement
    BY StatementTypes DEF BodyInv
  <2>2. Harmless(Stmt("let", n, e))
    BY <1>1, <1>18 DEF Stmt, Harmless, Let, NoReductionRead, Tame, Seen, Reads, Exprs
  <2>3. visible' \in Seq([Captured -> Nat]) /\ Len(visible') = Len(visible)
    BY <1>0, <1>1 DEF Let
  <2>4. body' = Append(body, Stmt("let", n, e)) /\ reduce' = reduce /\ open' = open
    BY <1>1 DEF Let
  <2>. QED
    BY <1>0, <2>1, <2>2, <2>3, <2>4, AppendHarmless
<1>2. ASSUME NEW n \in Captured, NEW e \in Exprs \union Updates, Assign(n, e),
             (e \in Exprs /\ n \notin reduce) \/ (e \in Updates /\ n \in reduce)
      PROVE  BodyInv'
  <2>1. Stmt("assign", n, e) \in Statement
    BY StatementTypes DEF BodyInv
  <2>2. Harmless(Stmt("assign", n, e))
    BY <1>2, <1>18 DEF Stmt, Harmless, Assign, AcceptsAssign, ReductionShape, NoReductionRead, Tame,
                Seen, Reads, Exprs, Updates
  <2>3. body' = Append(body, Stmt("assign", n, e)) /\ UNCHANGED <<reduce, open, visible>>
    BY <1>2 DEF Assign
  <2>. QED
    BY <1>0, <2>1, <2>2, <2>3, AppendHarmless
<1>3. ASSUME NEW s \in Brackets
      PROVE  Bracket(s) \in Statement /\ Harmless(Bracket(s))
  <2>1. Bracket(s) \in Statement
    BY StatementTypes DEF BodyInv
  <2>. QED
    BY <2>1 DEF Bracket, Brackets, Harmless, Reads
<1>4. ASSUME NEW c \in Calls, Call(c)
      PROVE  BodyInv'
  <2>1. CallStmt(c) \in Statement
    BY StatementTypes DEF BodyInv
  <2>2. CallStmt(c).s = "call" /\ CallStmt(c).e.shape = c.does
    BY DEF CallStmt, Bracket
  <2>3. Harmless(CallStmt(c))
    BY <1>4, <1>18, <2>2 DEF Harmless, Call, AcceptsCall, TameCall, Calls
  <2>4. body' = Append(body, CallStmt(c)) /\ UNCHANGED <<reduce, open, visible>>
    BY <1>4 DEF Call
  <2>. QED
    BY <1>0, <2>1, <2>3, <2>4, AppendHarmless
<1>5. ASSUME Continue
      PROVE  BodyInv'
  BY <1>0, <1>3, <1>5, AppendHarmless DEF Continue, Brackets
<1>6. ASSUME NEW kind \in {"if", "iter"}, Open(kind)
      PROVE  BodyInv'
  <2>1. /\ open' \in Seq(Blocks)
        /\ visible' \in Seq([Captured -> Nat])
        /\ Len(visible') = Len(open') + 1
    BY <1>0, <1>6 DEF Open, Blocks
  <2>. QED
    <3>1. body' = Append(body, Bracket(kind)) /\ reduce' = reduce /\ kind \in Brackets
      BY <1>6 DEF Open, Brackets
    <3>. QED
      BY <1>3, <2>1, <3>1, AppendHarmless
<1>7. ASSUME Else
      PROVE  BodyInv'
  <2>1. /\ body' = Append(body, Bracket("else")) /\ reduce' = reduce
        /\ open # <<>>
        /\ open' = [open EXCEPT ![Len(open)] = [kind |-> "else", at |-> Len(body) + 1]]
        /\ visible' = [visible EXCEPT ![Len(visible)] = visible[Len(visible) - 1]]
    BY <1>7 DEF Else
  <2>2. Len(open) >= 1
    BY <2>1, FrontType DEF BodyInv, BodyTypes
  <2>3. open' \in Seq(Blocks) /\ Len(open') = Len(open)
    BY <1>0, <2>1, <2>2 DEF Blocks
  <2>4. visible' \in Seq([Captured -> Nat]) /\ Len(visible') = Len(visible)
    <3>1. visible[Len(visible) - 1] \in [Captured -> Nat]
      BY <1>0, <2>2 DEF BodyInv, BodyTypes
    <3>. QED
      BY <2>1, <3>1 DEF BodyInv, BodyTypes
  <2>. QED
    BY <1>0, <1>3, <2>1, <2>3, <2>4, AppendHarmless DEF Brackets
<1>8. ASSUME Close
      PROVE  BodyInv'
  <2>1. /\ body' = Append(body, Bracket("end")) /\ reduce' = reduce
        /\ open # <<>> /\ open' = Front(open) /\ visible' = Front(visible)
    BY <1>8 DEF Close
  <2>2. /\ open' \in Seq(Blocks)
        /\ Len(open') = Len(open) - 1 /\ Len(open) >= 1
    BY <2>1, FrontType DEF BodyInv, BodyTypes
  <2>3. visible # <<>>
    BY <1>0, EmptySeq DEF BodyInv, BodyTypes
  <2>4. visible' \in Seq([Captured -> Nat]) /\ Len(visible') = Len(visible) - 1
    BY <2>1, <2>3, FrontType DEF BodyInv, BodyTypes
  <2>. QED
    BY <1>0, <1>3, <2>1, <2>2, <2>4, AppendHarmless DEF Brackets
<1>9. ASSUME UNCHANGED static
      PROVE  BodyInv'
  BY <1>9 DEF static, BodyInv, BodyTypes, Harmless
<1>10. ASSUME NEW b \in Backends, NEW o, NEW l, NEW k, Launch(b, o, l, k)
       PROVE  UNCHANGED static
  BY <1>10 DEF Launch
<1>11. ASSUME NEW t \in Threads, ThreadStep(t)
       PROVE  UNCHANGED static
  BY <1>11 DEF ThreadStep, Start, Header, Step, Store, Advance
<1>12. ASSUME Join
       PROVE  UNCHANGED static
  BY <1>12 DEF Join
<1>13. ASSUME UNCHANGED vars
       PROVE  UNCHANGED static
  BY <1>13 DEF vars
<1>14. reduce \subseteq Captured
  BY DEF BodyInv, BodyTypes
<1>15. ASSUME NEW b \in Backends, NEW o \in Ops,
              \/ Sweep(b) /\ \E l \in Loops, k \in 1..MaxThreads : Launch(b, o, l, k)
              \/ ~Sweep(b) /\ \E l \in SmallLoops : Launch(b, o, l, 2)
       PROVE  UNCHANGED static
  BY <1>10, <1>15
<1>16. ASSUME NEW n \in Captured, NEW e \in Exprs, Let(n, e) \/ (n \notin reduce /\ Assign(n, e))
       PROVE  BodyInv'
  BY <1>1, <1>2, <1>16
<1>17. ASSUME NEW n \in reduce, NEW e \in Updates, Assign(n, e)
       PROVE  BodyInv'
  BY <1>2, <1>14, <1>17
<1>. QED
  BY <1>4, <1>5, <1>6, <1>7, <1>8, <1>9, <1>11, <1>12, <1>13, <1>15, <1>16, <1>17, Zenon DEF Next

(* An accepted body is harmless, statement by statement.                    *)
LEMMA BodySafe ==
  ASSUME BodiesTame
  PROVE  Spec => []BodyInv
<1>1. Init => BodyInv
  <2>. SUFFICES ASSUME Init PROVE BodyInv
    OBVIOUS
  <2>1. <<[n \in Captured |-> 0]>> \in Seq([Captured -> Nat])
    OBVIOUS
  <2>. QED
    BY <2>1 DEF Init, BodyInv, BodyTypes
<1>2. BodyInv /\ [Next]_vars => BodyInv'
  BY BodyStep
<1>. QED
  BY <1>1, <1>2, PTL DEF Spec

(* What the threads do to shared variables when they are at a harmless      *)
(* statement.                                                               *)
LEMMA HarmlessAccess ==
  ASSUME BodyInv, NEW st, Harmless(st)
  PROVE  /\ PlainWrites(st) = {}
         /\ Atomics(st) \subseteq reduce
         /\ backend = "c" => Atomics(st) = {}
         /\ backend # "c" => PlainReads(st) \cap reduce = {}
<1>1. Container \notin reduce
  BY ParallelAssumption DEF BodyInv, BodyTypes
<1>2. PlainWrites(st) = {}
  BY DEF PlainWrites, Harmless, Rewritten, Private
<1>3. Atomics(st) \subseteq reduce /\ (backend = "c" => Atomics(st) = {})
  BY DEF Atomics, Rewritten
<1>4. ASSUME backend # "c", NEW n \in PlainReads(st), n \in reduce
      PROVE  FALSE
  <2>1. st.s # "call"
    BY <1>1, <1>4 DEF PlainReads
  <2>2. n \in Reads(st.e) /\ n = st.e.v /\ st.read = 0
        /\ ~(Rewritten(st) /\ st.e.shape = "update")
    BY <1>4, <2>1 DEF PlainReads, Private, Reads
  <2>. QED
    BY <1>4, <2>1, <2>2 DEF Harmless, Rewritten
<1>. QED
  BY <1>2, <1>3, <1>4

(* The race check keeps its promise, for any captured names, any length of  *)
(* body, range and team: an accepted body never lets two threads touch a    *)
(* shared variable at once, unless both read it or both use atomics. Of the *)
(* combinations of Hazards only those about the range may occur.            *)
THEOREM RaceFree ==
  ASSUME BodiesTame
  PROVE  Spec => []NoDataRace
<1>1. BodyInv => NoDataRace
  <2>. SUFFICES ASSUME BodyInv PROVE NoDataRace
    OBVIOUS
  <2>1. \A t \in Threads : Harmless(At(t))
    BY DEF At, BodyInv, Harmless, Bracket, Reads
  <2>2. \A t \in Threads :
          /\ PlainWrites(At(t)) = {}
          /\ Atomics(At(t)) \subseteq reduce
          /\ backend = "c" => Atomics(At(t)) = {}
          /\ backend # "c" => PlainReads(At(t)) \cap reduce = {}
    BY <2>1, HarmlessAccess
  <2>. QED
    BY <2>2 DEF NoDataRace
<1>. QED
  BY <1>1, BodySafe, PTL

-----------------------------------------------------------------------------
(* The threads                                                              *)

Places == {"off", "start", "head", "body", "loaded", "done"}
Fields == {"at", "ctr", "hi", "pc", "old", "part"}
IsThread(r) == r = [f \in Fields |-> r[f]]
Others(t) == /\ thr' = [u \in Threads |-> thr'[u]]
             /\ \A u \in Threads \ {t} : thr'[u] = thr[u]

(* Where a thread is. The positions in the body are not typed.              *)
ThreadInv ==
  /\ backend \in {"c", "tree_llvm", "ssa_llvm"}
  /\ thr = [t \in Threads |-> thr[t]]
  /\ \A t \in Threads :
       /\ IsThread(thr[t])
       /\ thr[t].at \in Places
       /\ thr[t].at = "loaded" =>
            /\ backend # "c"
            /\ thr[t].pc \in 1 .. Len(body) /\ Counts(body[thr[t].pc])

(* What is known of a loop once it runs.                                    *)
TeamInv ==
  /\ phase \in {"write", "run", "joined"}
  /\ phase = "write" => /\ thr = [t \in Threads |-> Idle]
                        /\ acc = 0 /\ applied = 0 /\ ran = {} /\ twice = {}
  /\ phase # "write" =>
       /\ loop \in Loops \union SmallLoops
       /\ nt \in 1 .. MaxThreads
       /\ TameLoop(backend, loop, nt)
       /\ \A t \in Threads : thr[t].at = "off" <=> t >= nt
  /\ phase = "joined" => \A t \in Threads : thr[t].at \in {"done", "off"}

(* How a statement moves its thread.                                        *)
LEMMA StepEffect ==
  ASSUME ThreadInv, NEW t \in Threads, Step(t)
  PROVE  /\ UNCHANGED <<static, phase, launched, ran, twice>> /\ Others(t)
         /\ thr[t].at = "body" /\ IsThread(thr'[t])
         /\ thr'[t].ctr = thr[t].ctr /\ thr'[t].hi = thr[t].hi
         /\ \/ /\ thr'[t].at = "body" /\ thr'[t].part = thr[t].part
               /\ UNCHANGED <<acc, applied>> \/ (acc' = acc + 1 /\ applied' = applied + 1)
            \/ /\ thr'[t].at = "body" /\ thr'[t].part = thr[t].part + 1
               /\ backend = "c" /\ applied' = applied + 1 /\ acc' = acc
            \/ /\ thr'[t].at = "loaded" /\ thr'[t].part = thr[t].part
               /\ backend # "c" /\ UNCHANGED <<acc, applied>>
               /\ thr'[t].pc \in 1 .. Len(body) /\ Counts(body[thr'[t].pc])
<1>. DEFINE me == thr[t]
<1>1. /\ IsThread(me) /\ thr = [u \in Threads |-> thr[u]]
      /\ me.at = "body" /\ me.pc \in 1 .. Len(body)
      /\ UNCHANGED <<static, phase, launched, ran, twice>>
  BY DEF Step, ThreadInv
<1>2. PICK r : /\ thr' = [thr EXCEPT ![t] = r]
               /\ \/ /\ \E x : r = [me EXCEPT !.pc = x, !.at = "body", !.old = 0]
                     /\ UNCHANGED <<acc, applied>> \/ (acc' = acc + 1 /\ applied' = applied + 1)
                  \/ /\ backend = "c" /\ applied' = applied + 1 /\ acc' = acc
                     /\ r = [me EXCEPT !.pc = @ + 1, !.part = @ + 1]
                  \/ /\ backend # "c" /\ UNCHANGED <<acc, applied>> /\ Counts(body[me.pc])
                     /\ r = [me EXCEPT !.at = "loaded", !.old = acc]
  BY DEF Step, Goto
<1>. HIDE DEF me
<1>3. thr'[t] = r /\ Others(t)
  BY <1>1, <1>2 DEF Others
<1>. QED
  BY <1>1, <1>2, <1>3 DEF IsThread, Fields, me

(* The kinds of step: writing the body, launching it, a thread, the join.   *)
LEMMA NextCases ==
  ASSUME [Next]_vars
  PROVE  \/ phase = "write" /\ UNCHANGED RunVars
         \/ UNCHANGED vars
         \/ \E b \in Backends, o \in Ops, l \in Loops \union SmallLoops, k \in 1 .. MaxThreads :
              Launch(b, o, l, k)
         \/ /\ phase = "run"
            /\ \E t \in Threads : Start(t) \/ Header(t) \/ Step(t) \/ Store(t) \/ Advance(t)
         \/ Join
<1>1. ASSUME NEW n, NEW e, Let(n, e) \/ Assign(n, e)
      PROVE  phase = "write" /\ UNCHANGED RunVars
  BY <1>1 DEF Let, Assign, Writing
<1>2. ASSUME \/ \E c \in Calls : Call(c)
             \/ \E kind \in {"if", "iter"} : Open(kind)
             \/ Else \/ Close \/ Continue
      PROVE  phase = "write" /\ UNCHANGED RunVars
  BY <1>2 DEF Call, Open, Else, Close, Continue, Writing
<1>3. 2 \in 1 .. MaxThreads
  BY ParallelAssumption
<1>4. ASSUME \E b \in Backends, o \in Ops :
               \/ Sweep(b) /\ \E l \in Loops, k \in 1..MaxThreads : Launch(b, o, l, k)
               \/ ~Sweep(b) /\ \E l \in SmallLoops : Launch(b, o, l, 2)
      PROVE  \E b \in Backends, o \in Ops, l \in Loops \union SmallLoops, k \in 1 .. MaxThreads :
               Launch(b, o, l, k)
  BY <1>3, <1>4
<1>5. ASSUME \E t \in Threads : ThreadStep(t)
      PROVE  /\ phase = "run"
             /\ \E t \in Threads : Start(t) \/ Header(t) \/ Step(t) \/ Store(t) \/ Advance(t)
  BY <1>5 DEF ThreadStep
<1>6. CASE \E n \in Captured, e \in Exprs : Let(n, e) \/ (n \notin reduce /\ Assign(n, e))
  BY <1>1, <1>6, Zenon
<1>7. CASE \E n \in reduce, e \in Updates : Assign(n, e)
  BY <1>1, <1>7, Zenon
<1>. QED
  BY <1>2, <1>4, <1>5, <1>6, <1>7, Zenon DEF Next

(* What the other steps of a thread do to its record.                       *)
LEMMA RecordSet ==
  ASSUME ThreadInv, NEW t \in Threads, NEW r, Goto(t, r)
  PROVE  thr'[t] = r /\ Others(t) /\ IsThread(thr[t])
BY DEF ThreadInv, Others, Goto

(* A thread takes its slice.                                                *)
LEMMA StartEffect ==
  ASSUME ThreadInv, NEW t \in Threads, Start(t)
  PROVE  LET lo == Lo(loop.start, loop.end, nt, t)
             hi == IF backend = "ssa_llvm" THEN SsaHi(loop.start, loop.end, nt, t)
                                           ELSE TreeHi(loop.start, loop.end, nt, t)
         IN  /\ UNCHANGED <<static, phase, launched, acc, applied, ran, twice>> /\ Others(t)
             /\ thr[t].at = "start" /\ IsThread(thr'[t])
             /\ thr'[t].hi = hi /\ thr'[t].part = thr[t].part
             /\ thr'[t].at = (IF backend = "ssa_llvm" /\ ~(lo < hi) THEN "done" ELSE "head")
             /\ thr'[t].ctr = (IF backend = "tree_llvm" THEN Trunc(loop.ty, lo) ELSE lo)
<1>. DEFINE lo == Lo(loop.start, loop.end, nt, t)
            hi == IF backend = "ssa_llvm" THEN SsaHi(loop.start, loop.end, nt, t)
                                          ELSE TreeHi(loop.start, loop.end, nt, t)
            me == thr[t]
            c == Trunc(loop.ty, lo)
<1>1. /\ UNCHANGED <<static, phase, launched, acc, applied, ran, twice>>
      /\ me.at = "start"
      /\ \/ backend = "tree_llvm" /\ Goto(t, [me EXCEPT !.at = "head", !.hi = hi, !.ctr = c])
         \/ /\ backend # "tree_llvm"
            /\ Goto(t, [me EXCEPT !.at = IF backend = "c" \/ lo < hi THEN "head" ELSE "done",
                                  !.hi = hi, !.ctr = lo])
  BY DEF Start
<1>2. backend \in {"c", "tree_llvm", "ssa_llvm"}
  BY DEF ThreadInv
<1>. HIDE DEF lo, hi, me, c
<1>3. CASE backend = "tree_llvm"
  <2>. DEFINE r == [me EXCEPT !.at = "head", !.hi = hi, !.ctr = c]
  <2>1. thr'[t] = r /\ Others(t) /\ IsThread(me)
    BY <1>1, <1>3, RecordSet DEF me
  <2>2. IsThread(r) /\ r.at = "head" /\ r.hi = hi /\ r.ctr = c /\ r.part = me.part
    BY <2>1 DEF IsThread, Fields
  <2>. QED
    BY <1>1, <1>3, <2>1, <2>2 DEF me, lo, hi, c
<1>4. CASE backend # "tree_llvm"
  <2>. DEFINE a == IF backend = "c" \/ lo < hi THEN "head" ELSE "done"
              r == [me EXCEPT !.at = a, !.hi = hi, !.ctr = lo]
  <2>1. thr'[t] = r /\ Others(t) /\ IsThread(me)
    BY <1>1, <1>4, RecordSet DEF me
  <2>2. a = IF backend = "ssa_llvm" /\ ~(lo < hi) THEN "done" ELSE "head"
    BY <1>2, <1>4
  <2>. HIDE DEF a
  <2>3. IsThread(r) /\ r.at = a /\ r.hi = hi /\ r.ctr = lo /\ r.part = me.part
    BY <2>1 DEF IsThread, Fields
  <2>. QED
    BY <1>1, <1>4, <2>1, <2>2, <2>3 DEF me, lo, hi
<1>. QED
  BY <1>3, <1>4

(* A thread enters the body with an index.                                  *)
LEMMA EnterEffect ==
  ASSUME ThreadInv, NEW t \in Threads, NEW i, NEW c, Enter(t, i, c)
  PROVE  /\ Others(t) /\ IsThread(thr'[t])
         /\ thr'[t].at = "body" /\ thr'[t].ctr = c
         /\ thr'[t].hi = thr[t].hi /\ thr'[t].part = thr[t].part
         /\ ran' = ran \union {i}
         /\ twice' = (IF i \in ran THEN twice \union {i} ELSE twice)
         /\ UNCHANGED <<acc, applied>>
<1>. DEFINE me == thr[t]
            r == [me EXCEPT !.at = "body", !.pc = 1, !.ctr = c]
<1>1. Goto(t, r)
  BY DEF Enter
<1>2. thr'[t] = r /\ Others(t) /\ IsThread(me)
  BY <1>1, RecordSet
<1>. HIDE DEF me
<1>3. IsThread(r) /\ r.at = "body" /\ r.ctr = c /\ r.hi = me.hi /\ r.part = me.part
  BY <1>2 DEF IsThread, Fields
<1>. QED
  BY <1>2, <1>3 DEF me, Enter

(* Is there a next iteration?                                               *)
More(t) == IF backend = "tree_llvm" THEN TreeMore(loop.ty, thr[t].ctr, thr[t].hi)
                                    ELSE thr[t].ctr < thr[t].hi

(* A thread enters the body once more or leaves the loop.                   *)
LEMMA HeaderEffect ==
  ASSUME ThreadInv, NEW t \in Threads, Header(t)
  PROVE  /\ UNCHANGED <<static, phase, launched, applied>> /\ Others(t)
         /\ thr[t].at = "head" /\ IsThread(thr'[t])
         /\ \/ /\ thr'[t].at = "body" /\ thr'[t].part = thr[t].part /\ acc' = acc
               /\ thr'[t].hi = thr[t].hi
               /\ \E i : /\ \/ backend = "c" /\ i \in Indices \ ran
                            \/ /\ backend # "c" /\ More(t)
                               /\ i = IndexOf(loop.ty, thr[t].ctr) /\ thr'[t].ctr = thr[t].ctr
                         /\ ran' = ran \union {i}
                         /\ twice' = (IF i \in ran THEN twice \union {i} ELSE twice)
            \/ /\ thr'[t].at = "done" /\ UNCHANGED <<ran, twice>>
               /\ thr'[t].ctr = thr[t].ctr /\ thr'[t].hi = thr[t].hi
               /\ \/ /\ backend = "c" /\ Indices \subseteq ran
                     /\ thr'[t].part = 0 /\ acc' = acc + thr[t].part
                  \/ /\ backend # "c" /\ ~More(t)
                     /\ thr'[t].part = thr[t].part /\ acc' = acc
<1>. DEFINE me == thr[t]
<1>1. /\ UNCHANGED <<static, phase, launched>> /\ me.at = "head"
      /\ HeadC(t) \/ HeadLlvm(t)
  BY DEF Header
<1>2. CASE \/ backend = "c" /\ \E i \in Indices \ ran : Enter(t, i, i)
           \/ backend # "c" /\ More(t) /\ Enter(t, IndexOf(loop.ty, me.ctr), me.ctr)
  <2>1. PICK i, c : /\ Enter(t, i, c)
                    /\ \/ backend = "c" /\ i \in Indices \ ran
                       \/ backend # "c" /\ More(t) /\ i = IndexOf(loop.ty, me.ctr) /\ c = me.ctr
    BY <1>2
  <2>2. /\ Others(t) /\ IsThread(thr'[t])
        /\ thr'[t].at = "body" /\ thr'[t].ctr = c
        /\ thr'[t].hi = thr[t].hi /\ thr'[t].part = thr[t].part
        /\ ran' = ran \union {i}
        /\ twice' = (IF i \in ran THEN twice \union {i} ELSE twice)
        /\ UNCHANGED <<acc, applied>>
    BY <2>1, EnterEffect
  <2>. QED
    BY <1>1, <2>1, <2>2, Zenon
<1>3. CASE backend = "c" /\ Indices \subseteq ran /\ acc' = acc + me.part
           /\ Goto(t, [me EXCEPT !.at = "done", !.part = 0]) /\ UNCHANGED <<applied, ran, twice>>
  <2>. DEFINE r == [me EXCEPT !.at = "done", !.part = 0]
  <2>1. thr'[t] = r /\ Others(t) /\ IsThread(me)
    BY <1>3, RecordSet
  <2>. HIDE DEF me
  <2>2. IsThread(r) /\ r.at = "done" /\ r.ctr = me.ctr /\ r.hi = me.hi /\ r.part = 0
    BY <2>1 DEF IsThread, Fields
  <2>. QED
    BY <1>1, <1>3, <2>1, <2>2 DEF me
<1>4. CASE /\ backend # "c" /\ ~More(t)
           /\ Goto(t, [me EXCEPT !.at = "done"]) /\ UNCHANGED <<acc, applied, ran, twice>>
  <2>. DEFINE r == [me EXCEPT !.at = "done"]
  <2>1. thr'[t] = r /\ Others(t) /\ IsThread(me)
    BY <1>4, RecordSet
  <2>. HIDE DEF me
  <2>2. IsThread(r) /\ r.at = "done" /\ r.ctr = me.ctr /\ r.hi = me.hi /\ r.part = me.part
    BY <2>1 DEF IsThread, Fields
  <2>. QED
    BY <1>1, <1>4, <2>1, <2>2 DEF me
<1>5. HeadC(t) => \/ backend = "c" /\ \E i \in Indices \ ran : Enter(t, i, i)
                  \/ /\ backend = "c" /\ Indices \subseteq ran /\ acc' = acc + me.part
                     /\ Goto(t, [me EXCEPT !.at = "done", !.part = 0])
                     /\ UNCHANGED <<applied, ran, twice>>
  BY Zenon DEF HeadC
<1>6. HeadLlvm(t) => \/ backend # "c" /\ More(t) /\ Enter(t, IndexOf(loop.ty, me.ctr), me.ctr)
                     \/ /\ backend # "c" /\ ~More(t)
                        /\ Goto(t, [me EXCEPT !.at = "done"])
                        /\ UNCHANGED <<acc, applied, ran, twice>>
  BY Zenon DEF HeadLlvm, More
<1>. QED
  BY <1>1, <1>2, <1>3, <1>4, <1>5, <1>6, Zenon

(* The second half of an update that loads and then stores.                 *)
LEMMA StoreEffect ==
  ASSUME ThreadInv, NEW t \in Threads, Store(t)
  PROVE  /\ UNCHANGED <<static, phase, launched, ran, twice>> /\ Others(t)
         /\ thr[t].at = "loaded" /\ IsThread(thr'[t])
         /\ thr'[t].at = "body" /\ thr'[t].part = thr[t].part
         /\ thr'[t].ctr = thr[t].ctr /\ thr'[t].hi = thr[t].hi
         /\ \/ UNCHANGED <<acc, applied>>
            \/ /\ Rewritten(body[thr[t].pc]) => acc' = acc + 1
               /\ applied' = applied + 1
<1>. DEFINE me == thr[t]
<1>1. PICK r : /\ Goto(t, r)
               /\ r = [me EXCEPT !.at = "body", !.old = 0]
                    \/ r = [me EXCEPT !.at = "body", !.pc = @ + 1, !.old = 0]
  BY DEF Store
<1>2. thr'[t] = r /\ Others(t) /\ IsThread(me)
  BY <1>1, RecordSet
<1>. HIDE DEF me
<1>3. /\ IsThread(r) /\ r.at = "body" /\ r.ctr = me.ctr /\ r.hi = me.hi /\ r.part = me.part
  BY <1>1, <1>2 DEF IsThread, Fields
<1>4. /\ UNCHANGED <<static, phase, launched, ran, twice>> /\ me.at = "loaded"
      /\ \/ UNCHANGED <<acc, applied>>
         \/ (Rewritten(body[me.pc]) => acc' = acc + 1) /\ applied' = applied + 1
  BY DEF Store, me
<1>. QED
  BY <1>2, <1>3, <1>4 DEF me

(* The step block.                                                          *)
LEMMA AdvanceEffect ==
  ASSUME ThreadInv, NEW t \in Threads, Advance(t)
  PROVE  /\ UNCHANGED <<static, phase, launched, acc, applied, ran, twice>> /\ Others(t)
         /\ thr[t].at = "body" /\ IsThread(thr'[t])
         /\ thr'[t].at = "head" /\ thr'[t].part = thr[t].part /\ thr'[t].hi = thr[t].hi
         /\ thr'[t].ctr = (IF backend = "tree_llvm" THEN Trunc(loop.ty, thr[t].ctr + 1)
                                                    ELSE Wide(thr[t].ctr + 1))
<1>. DEFINE me == thr[t]
            c == IF backend = "tree_llvm" THEN Trunc(loop.ty, me.ctr + 1) ELSE Wide(me.ctr + 1)
            r == [me EXCEPT !.at = "head", !.pc = 0, !.ctr = c]
<1>1. /\ UNCHANGED <<static, phase, launched, acc, applied, ran, twice>> /\ me.at = "body"
      /\ Goto(t, r)
  BY DEF Advance
<1>2. thr'[t] = r /\ Others(t) /\ IsThread(me)
  BY <1>1, RecordSet
<1>. HIDE DEF me, c
<1>3. IsThread(r) /\ r.at = "head" /\ r.ctr = c /\ r.hi = me.hi /\ r.part = me.part
  BY <1>2 DEF IsThread, Fields
<1>. QED
  BY <1>1, <1>2, <1>3 DEF me, c

(* What a launch leaves behind.                                             *)
LEMMA Launched ==
  ASSUME TeamInv, ThreadInv, NEW b \in Backends, NEW o \in Ops, NEW l \in Loops \union SmallLoops,
         NEW k \in 1 .. MaxThreads, Launch(b, o, l, k)
  PROVE  /\ phase = "write" /\ phase' = "run"
         /\ backend' = b /\ loop' = l /\ nt' = k
         /\ \A t \in Threads : /\ IsThread(thr'[t]) /\ thr'[t].part = 0
                               /\ thr'[t].at = IF t < k THEN "start" ELSE "off"
         /\ UNCHANGED <<static, acc, applied, ran, twice>>
         /\ ThreadInv' /\ TeamInv'
<1>1. \A t \in Threads : thr'[t] = IF t < k THEN [Idle EXCEPT !.at = "start"] ELSE Idle
  BY DEF Launch
<1>2. \A t \in Threads : /\ IsThread(thr'[t]) /\ thr'[t].part = 0
                         /\ thr'[t].at = IF t < k THEN "start" ELSE "off"
  BY <1>1 DEF Idle, IsThread, Fields
<1>3. /\ phase = "write" /\ phase' = "run"
      /\ backend' = b /\ loop' = l /\ nt' = k
      /\ thr' = [t \in Threads |-> thr'[t]]
      /\ TameLoop(b, l, k)
      /\ UNCHANGED <<static, acc, applied, ran, twice>>
  BY DEF Launch
<1>4. ThreadInv'
  <2>1. \A t \in Threads : thr'[t].at \in Places \ {"loaded"}
    BY <1>2 DEF Places
  <2>. QED
    BY <1>2, <1>3, <2>1, ParallelAssumption DEF ThreadInv, IsThread
<1>5. \A t \in Threads : thr'[t].at = "off" <=> t >= k
  BY <1>2 DEF Threads
<1>6. TeamInv'
  <2>1. TameLoop(backend', loop', nt')
    BY <1>3
  <2>. HIDE DEF TameLoop
  <2>. QED
    BY <1>3, <1>5, <2>1 DEF TeamInv
<1>. QED
  BY <1>2, <1>3, <1>4, <1>6

(* What a launch checked stays true of the loop it launched.                *)
LEMMA TameFrame ==
  ASSUME UNCHANGED <<backend, loop, nt>>, TameLoop(backend, loop, nt)
  PROVE  TameLoop(backend, loop, nt)'
BY DEF TameLoop

(* The two invariants survive a step of one thread.                         *)
LEMMA OneThread ==
  ASSUME ThreadInv, TeamInv, phase = "run", NEW t \in Threads,
         UNCHANGED <<static, phase, launched>>, Others(t), IsThread(thr'[t]),
         thr[t].at \in Places \ {"off"}, thr'[t].at \in Places \ {"off"},
         thr'[t].at = "loaded" =>
            /\ backend # "c"
            /\ thr'[t].pc \in 1 .. Len(body) /\ Counts(body[thr'[t].pc])
  PROVE  ThreadInv' /\ TeamInv'
<1>1. /\ thr' = [u \in Threads |-> thr'[u]]
      /\ \A u \in Threads \ {t} : thr'[u] = thr[u]
      /\ backend' = backend /\ loop' = loop /\ nt' = nt /\ phase' = phase /\ body' = body
      /\ reduce' = reduce
  BY DEF Others, static, launched
<1>2. \A u \in Threads : Counts(body[thr'[u].pc]) => Counts(body[thr[u].pc])'
  BY <1>1 DEF Counts
<1>3. ThreadInv'
  BY <1>1, <1>2 DEF ThreadInv, IsThread
<1>4. \A u \in Threads : thr'[u].at = "off" <=> u >= nt
  BY <1>1 DEF TeamInv
<1>5. TeamInv'
  <2>1. TameLoop(backend, loop, nt)'
    BY <1>1, TameFrame DEF TeamInv
  <2>. QED
    BY <1>1, <1>4, <2>1 DEF TeamInv
<1>. QED
  BY <1>3, <1>5

(* The two invariants survive every step.                                   *)
LEMMA TeamStep ==
  ASSUME ThreadInv, TeamInv, [Next]_vars
  PROVE  ThreadInv' /\ TeamInv'
<1>1. CASE phase = "write" /\ UNCHANGED RunVars
  <2>1. \A t \in Threads : thr[t] = Idle
    BY <1>1 DEF TeamInv
  <2>2. \A t \in Threads : thr'[t].at # "loaded"
    BY <1>1, <2>1 DEF Idle, RunVars
  <2>3. ThreadInv'
    BY <1>1, <2>2 DEF ThreadInv, RunVars, launched, IsThread
  <2>. QED
    BY <1>1, <2>3 DEF TeamInv, RunVars, launched
<1>2. CASE UNCHANGED vars
  <2>1. ThreadInv'
    BY <1>2 DEF ThreadInv, vars, static, launched, IsThread, Counts
  <2>2. TeamInv'
    BY <1>2, TameFrame DEF TeamInv, vars, static, launched
  <2>. QED
    BY <2>1, <2>2
<1>3. CASE \E b \in Backends, o \in Ops, l \in Loops \union SmallLoops, k \in 1 .. MaxThreads :
             Launch(b, o, l, k)
  BY <1>3, Launched
<1>4. ASSUME phase = "run", NEW t \in Threads,
             Start(t) \/ Header(t) \/ Step(t) \/ Store(t) \/ Advance(t)
      PROVE  ThreadInv' /\ TeamInv'
  <2>1. CASE Start(t)
    BY <1>4, <2>1, StartEffect, OneThread DEF Places
  <2>2. CASE Header(t)
    BY <1>4, <2>2, HeaderEffect, OneThread DEF Places
  <2>3. CASE Step(t)
    BY <1>4, <2>3, StepEffect, OneThread DEF Places
  <2>4. CASE Store(t)
    BY <1>4, <2>4, StoreEffect, OneThread DEF Places
  <2>5. CASE Advance(t)
    BY <1>4, <2>5, AdvanceEffect, OneThread DEF Places
  <2>. QED
    BY <1>4, <2>1, <2>2, <2>3, <2>4, <2>5
<1>5. CASE Join
  <2>1. /\ phase = "run" /\ phase' = "joined" /\ UNCHANGED <<static, launched, thr>>
        /\ \A t \in Threads : t < nt => thr[t].at = "done"
    BY <1>5 DEF Join
  <2>2. ThreadInv'
    BY <2>1 DEF ThreadInv, static, launched, IsThread, Counts
  <2>3. \A t \in Threads : thr[t].at \in {"done", "off"}
    BY <2>1 DEF TeamInv, Threads
  <2>4. TeamInv'
    BY <2>1, <2>3, TameFrame DEF TeamInv, static, launched
  <2>. QED
    BY <2>2, <2>4
<1>. QED
  BY <1>1, <1>2, <1>3, <1>4, <1>5, NextCases

(* They hold in every reachable state, whatever the hazards allowed.        *)
LEMMA TeamSafe == Spec => [](ThreadInv /\ TeamInv)
<1>1. Init => ThreadInv /\ TeamInv
  <2>. SUFFICES ASSUME Init PROVE ThreadInv /\ TeamInv
    OBVIOUS
  <2>1. \A t \in Threads : thr[t].at = "off" /\ IsThread(thr[t])
    BY DEF Init, Idle, IsThread, Fields
  <2>2. ThreadInv
    BY <2>1 DEF Init, ThreadInv, Places
  <2>3. TeamInv
    BY DEF Init, TeamInv
  <2>. QED
    BY <2>2, <2>3
<1>2. ThreadInv /\ TeamInv /\ [Next]_vars => (ThreadInv /\ TeamInv)'
  BY TeamStep
<1>. QED
  BY <1>1, <1>2, PTL DEF Spec

-----------------------------------------------------------------------------
(* The reduction                                                            *)

(* The contributions in the private copies of the threads of the C loop, as *)
(* pairs: the first to the part-th of each thread.                          *)
Pending == {p \in Threads \X (Nat \ {0}) : p[2] <= thr[p[1]].part}

CountInv ==
  /\ acc \in Nat /\ applied \in Nat
  /\ \A t \in Threads :
       /\ thr[t].part \in Nat
       /\ thr[t].part # 0 => backend = "c" /\ thr[t].at \in {"head", "body"}
  /\ IsFiniteSet(Pending)
  /\ applied = acc + Cardinality(Pending)

(* A step that contributes to the variable itself, or not at all.           *)
LEMMA CountSame ==
  ASSUME CountInv, ThreadInv, TeamInv, NEW t \in Threads, Others(t), backend' = backend,
         thr'[t].part = thr[t].part,
         thr'[t].part # 0 => thr'[t].at \in {"head", "body"},
         UNCHANGED <<acc, applied>> \/ (acc' = acc + 1 /\ applied' = applied + 1)
  PROVE  CountInv'
<1>1. \A u \in Threads : /\ thr'[u].part = thr[u].part
                         /\ thr'[u].part # 0 => thr'[u].at \in {"head", "body"} /\ backend' = "c"
  BY DEF Others, CountInv
<1>2. Pending' = Pending
  BY <1>1 DEF Pending
<1>3. Cardinality(Pending) \in Nat
  BY FS_CardinalityType DEF CountInv
<1>. QED
  BY <1>1, <1>2, <1>3 DEF CountInv

(* A contribution to a private copy.                                        *)
LEMMA CountMore ==
  ASSUME CountInv, ThreadInv, TeamInv, NEW t \in Threads, Others(t), backend' = backend,
         backend = "c", thr'[t].part = thr[t].part + 1, thr'[t].at = "body",
         acc' = acc, applied' = applied + 1
  PROVE  CountInv'
<1>. DEFINE n == thr[t].part
<1>1. n \in Nat /\ thr'[t].part = n + 1
  BY DEF CountInv
<1>2. \A u \in Threads : /\ thr'[u].part \in Nat
                         /\ thr'[u].part # 0 => thr'[u].at \in {"head", "body"} /\ backend' = "c"
  BY <1>1 DEF Others, CountInv
<1>3. Pending' = Pending \union {<<t, n + 1>>}
  <2>1. Pending' = {p \in Threads \X (Nat \ {0}) : p[2] <= thr'[p[1]].part}
    BY DEF Pending
  <2>2. ASSUME NEW u \in Threads, NEW m \in Nat \ {0}
        PROVE  m <= thr'[u].part <=> m <= thr[u].part \/ <<u, m>> = <<t, n + 1>>
    <3>1. CASE u = t
      BY <1>1, <2>2, <3>1
    <3>2. CASE u # t
      BY <2>2, <3>2 DEF Others
    <3>. QED
      BY <3>1, <3>2
  <2>3. <<t, n + 1>> \in Threads \X (Nat \ {0})
    BY <1>1
  <2>. HIDE DEF n
  <2>. QED
    BY <2>1, <2>2, <2>3 DEF Pending
<1>4. <<t, n + 1>> \notin Pending
  BY <1>1 DEF Pending
<1>5. /\ IsFiniteSet(Pending)
      /\ Cardinality(Pending) \in Nat
  BY FS_CardinalityType DEF CountInv
<1>6. IsFiniteSet(Pending') /\ Cardinality(Pending') = Cardinality(Pending) + 1
  <2>. HIDE DEF n
  <2>. QED
    BY <1>3, <1>4, <1>5, FS_AddElement
<1>. QED
  BY <1>2, <1>5, <1>6 DEF CountInv

(* A private copy is added to the variable.                                 *)
LEMMA CountFlush ==
  ASSUME CountInv, ThreadInv, TeamInv, NEW t \in Threads, Others(t), backend' = backend,
         thr'[t].part = 0, acc' = acc + thr[t].part, applied' = applied
  PROVE  CountInv'
<1>. DEFINE n == thr[t].part
            mine == {t} \X (1 .. n)
<1>1. n \in Nat
  BY DEF CountInv
<1>2. \A u \in Threads : /\ thr'[u].part \in Nat
                         /\ thr'[u].part # 0 => thr'[u].at \in {"head", "body"} /\ backend' = "c"
  BY DEF Others, CountInv
<1>3. Pending' = Pending \ mine
  <2>1. Pending' = {p \in Threads \X (Nat \ {0}) : p[2] <= thr'[p[1]].part}
    BY DEF Pending
  <2>2. ASSUME NEW u \in Threads, NEW m \in Nat \ {0}
        PROVE  m <= thr'[u].part <=> m <= thr[u].part /\ <<u, m>> \notin mine
    <3>1. CASE u = t
      BY <1>1, <2>2, <3>1
    <3>2. CASE u # t
      BY <2>2, <3>2 DEF Others
    <3>. QED
      BY <3>1, <3>2
  <2>. HIDE DEF mine
  <2>. QED
    BY <2>1, <2>2 DEF Pending
<1>4. mine \subseteq Pending
  BY <1>1 DEF Pending
<1>5. IsFiniteSet(Pending) /\ Cardinality(Pending) \in Nat
  BY FS_CardinalityType DEF CountInv
<1>6. IsFiniteSet(mine) /\ Cardinality(mine) = n
  <2>1. IsFiniteSet(1 .. n) /\ Cardinality(1 .. n) = n
    <3>. HIDE DEF n
    <3>1. 1 \in Int /\ n \in Int /\ n >= 0
      BY <1>1
    <3>2. IsFiniteSet(1 .. n) /\ Cardinality(1 .. n) = IF 1 > n THEN 0 ELSE n - 1 + 1
      BY <3>1, FS_Interval, Zenon
    <3>. QED
      BY <3>1, <3>2
  <2>2. IsFiniteSet({t}) /\ Cardinality({t}) = 1
    BY FS_Singleton
  <2>3. IsFiniteSet(mine) /\ Cardinality(mine) = Cardinality({t}) * Cardinality(1 .. n)
    BY <2>1, <2>2, FS_Product
  <2>. QED
    BY <1>1, <2>1, <2>2, <2>3
<1>. HIDE DEF mine, n
<1>7. Pending \cap mine = mine
  BY <1>4
<1>8. IsFiniteSet(Pending') /\ Cardinality(Pending') = Cardinality(Pending) - n
  BY <1>3, <1>5, <1>6, <1>7, FS_Difference
<1>9. acc' \in Nat
  BY <1>1 DEF CountInv, n
<1>10. applied = acc + Cardinality(Pending) /\ applied \in Nat /\ acc \in Nat /\ acc' = acc + n
  BY DEF CountInv, n
<1>11. applied' = acc' + Cardinality(Pending')
  BY <1>1, <1>5, <1>8, <1>10
<1>. QED
  BY <1>2, <1>8, <1>9, <1>10, <1>11 DEF CountInv

(* No step loses a contribution.                                            *)
LEMMA CountStep ==
  ASSUME BodyInv, ThreadInv, TeamInv, CountInv, [Next]_vars
  PROVE  CountInv'
<1>1. CASE UNCHANGED RunVars \/ UNCHANGED vars \/ Join
  <2>1. UNCHANGED <<backend, thr, acc, applied>>
    BY <1>1 DEF RunVars, vars, launched, Join
  <2>. QED
    BY <2>1 DEF CountInv, Pending
<1>2. ASSUME NEW b \in Backends, NEW o \in Ops, NEW l \in Loops \union SmallLoops,
             NEW k \in 1 .. MaxThreads, Launch(b, o, l, k)
      PROVE  CountInv'
  <2>1. phase = "write" /\ (\A t \in Threads : thr'[t].part = 0) /\ UNCHANGED <<acc, applied>>
    BY <1>2, Launched
  <2>2. \A t \in Threads : thr[t].part = 0
    BY <2>1 DEF TeamInv, Idle
  <2>3. Pending' = Pending
    BY <2>1, <2>2 DEF Pending
  <2>. QED
    BY <2>1, <2>3 DEF CountInv
<1>3. ASSUME phase = "run", NEW t \in Threads,
             Start(t) \/ Header(t) \/ Step(t) \/ Store(t) \/ Advance(t)
      PROVE  CountInv'
  <2>1. CASE Start(t)
    <3>1. /\ thr[t].at = "start" /\ Others(t) /\ backend' = backend /\ UNCHANGED <<acc, applied>>
          /\ thr'[t].part = thr[t].part
      BY <2>1, StartEffect DEF launched
    <3>2. thr[t].part = 0
      BY <3>1 DEF CountInv
    <3>. QED
      BY <3>1, <3>2, CountSame
  <2>2. CASE Header(t)
    <3>1. /\ thr[t].at = "head" /\ Others(t) /\ backend' = backend /\ applied' = applied
          /\ \/ /\ thr'[t].at = "body" \/ backend # "c"
                /\ thr'[t].part = thr[t].part /\ acc' = acc
             \/ thr'[t].part = 0 /\ acc' = acc + thr[t].part
      BY <2>2, HeaderEffect DEF launched
    <3>2. backend # "c" => thr[t].part = 0
      BY DEF CountInv
    <3>. QED
      BY <3>1, <3>2, CountSame, CountFlush
  <2>3. CASE Step(t)
    <3>1. /\ thr[t].at = "body" /\ Others(t) /\ backend' = backend
          /\ \/ /\ thr'[t].at = "body" /\ thr'[t].part = thr[t].part
                /\ UNCHANGED <<acc, applied>> \/ (acc' = acc + 1 /\ applied' = applied + 1)
             \/ /\ thr'[t].at = "body" /\ thr'[t].part = thr[t].part + 1
                /\ backend = "c" /\ applied' = applied + 1 /\ acc' = acc
             \/ /\ thr'[t].part = thr[t].part
                /\ backend # "c" /\ UNCHANGED <<acc, applied>>
      BY <1>3, <2>3, StepEffect DEF launched
    <3>2. backend # "c" => thr[t].part = 0
      BY DEF CountInv
    <3>. QED
      BY <3>1, <3>2, CountSame, CountMore
  <2>4. CASE Store(t)
    <3>1. /\ thr[t].at = "loaded" /\ Others(t) /\ backend' = backend
          /\ thr'[t].at = "body" /\ thr'[t].part = thr[t].part
          /\ \/ UNCHANGED <<acc, applied>>
             \/ (Rewritten(body[thr[t].pc]) => acc' = acc + 1) /\ applied' = applied + 1
      BY <2>4, StoreEffect DEF launched
    <3>2. /\ backend # "c" /\ thr[t].pc \in 1 .. Len(body) /\ Counts(body[thr[t].pc])
          /\ Harmless(body[thr[t].pc])
      BY <3>1 DEF ThreadInv, BodyInv
    <3>3. Rewritten(body[thr[t].pc])
      BY <3>2 DEF Counts, Harmless, Rewritten
    <3>. QED
      BY <3>1, <3>3, CountSame
  <2>5. CASE Advance(t)
    <3>1. /\ Others(t) /\ backend' = backend /\ UNCHANGED <<acc, applied>>
          /\ thr'[t].part = thr[t].part /\ thr'[t].at = "head"
      BY <2>5, AdvanceEffect DEF launched
    <3>. QED
      BY <3>1, CountSame
  <2>. QED
    BY <1>3, <2>1, <2>2, <2>3, <2>4, <2>5
<1>. QED
  BY <1>1, <1>2, <1>3, NextCases

(* Nothing is counted at first.                                             *)
LEMMA CountInit == Init => CountInv
<1>. SUFFICES ASSUME Init PROVE CountInv
  OBVIOUS
<1>1. \A t \in Threads : thr[t].part = 0
  BY DEF Init, Idle
<1>2. Pending = {}
  BY <1>1 DEF Pending
<1>. QED
  BY <1>1, <1>2, FS_EmptySet DEF Init, CountInv

(* After the join every private copy has been added.                        *)
LEMMA CountJoined == TeamInv /\ CountInv => ReductionExact
<1>. SUFFICES ASSUME TeamInv, CountInv, phase = "joined" PROVE acc = applied
  BY DEF ReductionExact
<1>1. \A t \in Threads : thr[t].part = 0
  BY DEF TeamInv, CountInv
<1>2. Pending = {}
  BY <1>1 DEF Pending
<1>. QED
  BY <1>2, FS_EmptySet DEF CountInv

(* No contribution is lost or counted twice, for any body the check lets    *)
(* through, any range (those run wrongly included) and any team: the atomic *)
(* updates of the LLVM backends and the private copies of the C loop add up *)
(* to the contributions of the turns that were run.                         *)
THEOREM ReductionSafe ==
  ASSUME BodiesTame
  PROVE  Spec => []ReductionExact
<1>1. BodyInv /\ ThreadInv /\ TeamInv /\ CountInv /\ [Next]_vars => CountInv'
  BY CountStep
<1>. QED
  BY <1>1, CountInit, CountJoined, BodySafe, TeamSafe, PTL DEF Spec

-----------------------------------------------------------------------------
(* The indices                                                              *)

LoOf(t) == Lo(loop.start, loop.end, nt, t)
HiOf(t) == TreeHi(loop.start, loop.end, nt, t)

(* Where a thread leaves the loop, and the indices it runs.                 *)
RunTo(t) == IF backend = "tree_llvm" THEN Leaves(loop.ty, HiOf(t)) ELSE HiOf(t)
Slice(t) == LoOf(t) .. RunTo(t) - 1

(* The indices that are run: of a narrow unsigned type, only those below    *)
(* its half in the tree LLVM backend.                                       *)
Covered == IF backend = "tree_llvm" /\ ~loop.ty.signed /\ ~loop.ty.wide
           THEN {i \in Indices : i < NarrowHalf} ELSE Indices

(* The LLVM backends run no wide unsigned range that passes 2^63.           *)
Aligned == backend # "c" /\ loop.ty.wide => OneHalf(loop.ty, loop.start, loop.end)

CounterIs(t, n) == thr[t].ctr = IF backend = "tree_llvm" THEN Trunc(loop.ty, n) ELSE n
Reached(t, n) == \A i \in Slice(t) : i \in ran <=> i < n

(* A thread of the LLVM backends has run its slice up to its counter.       *)
Progress(t) ==
  /\ thr[t].at = "start" => Reached(t, LoOf(t))
  /\ thr[t].at = "head" =>
       /\ thr[t].hi = HiOf(t)
       /\ \E n \in Int : /\ LoOf(t) <= n /\ (n = LoOf(t) \/ n <= RunTo(t))
                         /\ CounterIs(t, n) /\ Reached(t, n)
  /\ thr[t].at \in {"body", "loaded"} =>
       /\ thr[t].hi = HiOf(t)
       /\ \E n \in Slice(t) : CounterIs(t, n) /\ Reached(t, n + 1)
  /\ thr[t].at = "done" => Reached(t, RunTo(t))

IndexInv ==
  /\ twice = {} /\ ran \subseteq Covered
  /\ phase # "write" =>
       IF backend = "c" THEN \A t \in Threads : thr[t].at = "done" => Indices \subseteq ran
                        ELSE \A t \in 0 .. nt - 1 : Progress(t)

(* The launched loop satisfies what the lemmas about slices assume.         *)
LEMMA LaunchAdmitted ==
  ASSUME NEW l \in Loops \union SmallLoops, NEW k \in 1 .. MaxThreads,
         WideSafe(l.start, l.end, k)
  PROVE  /\ Admitted(l.start, l.end, k)
         /\ k \in Nat \ {0} /\ 0 .. k - 1 \subseteq Threads
         /\ l.ty \in LoopTypes /\ l.start \in InType(l.ty) /\ l.end \in InType(l.ty)
         /\ l.start \in Int /\ l.end \in Int
<1>1. /\ l \in [ty : [signed : BOOLEAN, wide : BOOLEAN], start : Int, end : Int]
      /\ l.start \in InType(l.ty) /\ l.end \in InType(l.ty)
  BY LoopsAssumption
<1>2. InType(l.ty) \subseteq Values
  BY HalfAssumption DEF InType, Values
<1>3. k \in Nat \ {0} /\ k < WideHalf /\ 0 .. k - 1 \subseteq Threads
  BY HalfAssumption, ParallelAssumption DEF Threads
<1>. QED
  BY <1>1, <1>2, <1>3 DEF Admitted, LoopTypes

(* The same of the loop that runs.                                          *)
LEMMA LoopAdmitted ==
  ASSUME "wrap" \notin Allowed, TeamInv, phase # "write"
  PROVE  /\ nt \in Nat \ {0} /\ 0 .. nt - 1 \subseteq Threads
         /\ loop.ty \in LoopTypes /\ loop.start \in InType(loop.ty) /\ loop.end \in InType(loop.ty)
         /\ loop.start \in Int /\ loop.end \in Int
         /\ backend # "c" => Admitted(loop.start, loop.end, nt)
         /\ backend = "tree_llvm" => CounterSafe(loop.ty, loop.start, loop.end, nt)
<1>1. /\ nt \in Nat \ {0} /\ 0 .. nt - 1 \subseteq Threads
      /\ loop \in [ty : [signed : BOOLEAN, wide : BOOLEAN], start : Int, end : Int]
      /\ loop.start \in InType(loop.ty) /\ loop.end \in InType(loop.ty)
  BY LoopsAssumption, ParallelAssumption DEF TeamInv, Threads
<1>2. /\ backend # "c" => WideSafe(loop.start, loop.end, nt)
      /\ backend = "tree_llvm" => CounterSafe(loop.ty, loop.start, loop.end, nt)
  BY DEF TeamInv, TameLoop
<1>3. WideSafe(loop.start, loop.end, nt) => Admitted(loop.start, loop.end, nt)
  BY LaunchAdmitted DEF TeamInv
<1>. QED
  BY <1>1, <1>2, <1>3 DEF LoopTypes

(* The indices of a loop on one side of the half are those between its      *)
(* bounds as the wide type reads them.                                      *)
LEMMA IndicesAre ==
  ASSUME "wrap" \notin Allowed, TeamInv, phase # "write",
         loop.ty.wide => OneHalf(loop.ty, loop.start, loop.end)
  PROVE  Indices = loop.start .. loop.end - 1
<1>. DEFINE ty == loop.ty
            lo == loop.start
            end == loop.end
            from == Reading(ty, lo)
            to == Reading(ty, end)
<1>1. /\ WideHalf \in Nat \ {0} /\ NarrowHalf \in Nat \ {0} /\ 2 * NarrowHalf <= WideHalf
      /\ lo \in Int /\ end \in Int /\ lo \in InType(ty) /\ end \in InType(ty)
      /\ ty.signed \in BOOLEAN /\ ty.wide \in BOOLEAN
  BY LoopAdmitted, HalfAssumption DEF LoopTypes
<1>2. lo \in Values /\ end \in Values
  BY <1>1 DEF InType, Values
<1>3. Indices = {Wide(i) : i \in from .. to - 1}
  BY DEF Indices
<1>4. CASE from = lo /\ to = end
  <2>1. \A i \in lo .. end - 1 : i \in Values /\ i \in Int
    BY <1>1, <1>2 DEF Values
  <2>2. \A i \in lo .. end - 1 : Wide(i) = i
    BY <2>1, WideIdentity
  <2>3. Indices = {Wide(i) : i \in lo .. end - 1}
    BY <1>3, <1>4
  <2>. HIDE DEF lo, end, from, to, ty
  <2>. QED
    BY <2>2, <2>3 DEF lo, end
<1>5. CASE from = lo + 2 * WideHalf /\ to = end + 2 * WideHalf /\ end <= -1
  <2>. DEFINE W == 2 * WideHalf
  <2>1. \A j \in lo .. end - 1 : /\ j \in Int /\ j + W \in Int
                                /\ j + W \in WideHalf .. W - 1 /\ j + W - W = j
    BY <1>1, <1>2, <1>5 DEF Values
  <2>2. \A j \in lo .. end - 1 : Wide(j + W) = j
    BY <1>1, <2>1, SignedReads DEF Wide
  <2>3. \A i \in from .. to - 1 : i - W \in lo .. end - 1 /\ i = (i - W) + W
    BY <1>1, <1>5
  <2>4. \A j \in lo .. end - 1 : j + W \in from .. to - 1
    BY <1>1, <1>5
  <2>. HIDE DEF lo, end, from, to, ty, W
  <2>5. \A i \in from .. to - 1 : Wide(i) = i - W /\ Wide(i) \in lo .. end - 1
    BY <2>2, <2>3
  <2>6. {Wide(i) : i \in from .. to - 1} = lo .. end - 1
    BY <2>2, <2>4, <2>5
  <2>. QED
    BY <1>3, <2>6 DEF lo, end
<1>6. CASE ty.signed
  BY <1>4, <1>6 DEF Reading
<1>7. CASE ~ty.signed /\ ~ty.wide
  <2>1. lo \in 0 .. 2 * NarrowHalf - 1 /\ end \in 0 .. 2 * NarrowHalf - 1
    BY <1>1, <1>7 DEF InType
  <2>2. UnsignedIn(NarrowHalf, lo) = lo /\ UnsignedIn(NarrowHalf, end) = end
    BY <1>1, <2>1, UnsignedReads
  <2>. QED
    BY <1>4, <1>7, <2>2 DEF Reading, HalfOf
<1>8. CASE ~ty.signed /\ ty.wide
  <2>1. (lo < 0) <=> (end < 0)
    BY <1>8 DEF OneHalf
  <2>2. \/ lo \in 0 .. 2 * WideHalf - 1 /\ end \in 0 .. 2 * WideHalf - 1
        \/ lo \in -(2 * WideHalf) .. -1 /\ end \in -(2 * WideHalf) .. -1 /\ end <= -1
    BY <1>1, <1>2, <2>1 DEF Values
  <2>3. from = UnsignedIn(WideHalf, lo) /\ to = UnsignedIn(WideHalf, end)
    BY <1>8 DEF Reading, HalfOf
  <2>4. CASE lo \in 0 .. 2 * WideHalf - 1 /\ end \in 0 .. 2 * WideHalf - 1
    <3>1. from = lo /\ to = end
      BY <1>1, <2>3, <2>4, UnsignedReads
    <3>. QED
      BY <1>4, <3>1
  <2>5. CASE lo \in -(2 * WideHalf) .. -1 /\ end \in -(2 * WideHalf) .. -1 /\ end <= -1
    <3>1. from = lo + 2 * WideHalf /\ to = end + 2 * WideHalf
      BY <1>1, <2>3, <2>5, UnsignedReads
    <3>. QED
      BY <1>5, <2>5, <3>1
  <2>. QED
    BY <2>2, <2>4, <2>5
<1>. QED
  BY <1>1, <1>6, <1>7, <1>8

(* A thread leaves the loop at the end of its slice or before.              *)
LEMMA RunToBounds ==
  ASSUME "wrap" \notin Allowed, TeamInv, phase # "write", backend # "c", NEW t \in 0 .. nt - 1
  PROVE  /\ LoOf(t) \in Int /\ HiOf(t) \in Int /\ RunTo(t) \in Int
         /\ RunTo(t) <= HiOf(t)
<1>1. LoOf(t) \in Int /\ HiOf(t) \in Int
  BY LoopAdmitted, SliceRange DEF LoOf, HiOf
<1>. HIDE DEF HiOf
<1>. QED
  BY <1>1, HalfAssumption DEF RunTo, Leaves

(* The slices of two threads have no index in common.                       *)
LEMMA SlicesApart ==
  ASSUME "wrap" \notin Allowed, TeamInv, phase # "write", backend # "c",
         NEW t \in 0 .. nt - 1, NEW u \in 0 .. nt - 1, t # u, NEW i \in Slice(t)
  PROVE  i \notin Slice(u)
<1>1. /\ Admitted(loop.start, loop.end, nt) /\ nt \in Nat
      /\ LoOf(t) \in Int /\ HiOf(t) \in Int /\ LoOf(u) \in Int /\ HiOf(u) \in Int
  BY LoopAdmitted, SliceRange DEF LoOf, HiOf
<1>4. i < HiOf(t) /\ (i \in Slice(u) => i < HiOf(u))
  BY <1>1, RunToBounds DEF Slice
<1>2. t < u \/ u < t
  BY <1>1
<1>3. \/ HiOf(t) <= LoOf(u) \/ HiOf(u) <= LoOf(u)
      \/ HiOf(u) <= LoOf(t) \/ HiOf(t) <= LoOf(t)
  BY <1>1, <1>2, SlicesDisjoint DEF LoOf, HiOf
<1>. QED
  BY <1>1, <1>3, <1>4 DEF Slice

(* A step of one thread that adds at most an index of its own slice.        *)
LEMMA OthersProgress ==
  ASSUME "wrap" \notin Allowed, ThreadInv, TeamInv, phase = "run", IndexInv, backend # "c",
         NEW t \in 0 .. nt - 1, UNCHANGED <<phase, launched>>, Others(t),
         ran' = ran \/ (\E i \in Slice(t) : ran' = ran \union {i}),
         Progress(t)'
  PROVE  \A u \in 0 .. nt - 1 : Progress(u)'
<1>. SUFFICES ASSUME NEW u \in 0 .. nt - 1, u # t PROVE Progress(u)'
  OBVIOUS
<1>1. /\ u \in Threads /\ thr'[u] = thr[u] /\ backend' = backend /\ loop' = loop /\ nt' = nt
  BY LoopAdmitted DEF Others, launched
<1>2. LoOf(u)' = LoOf(u) /\ HiOf(u)' = HiOf(u) /\ RunTo(u)' = RunTo(u) /\ Slice(u)' = Slice(u)
  BY <1>1 DEF LoOf, HiOf, RunTo, Leaves, Slice
<1>3. \A i \in Slice(u) : i \in ran' <=> i \in ran
  BY SlicesApart
<1>4. \A n : Reached(u, n)' <=> Reached(u, n)
  BY <1>2, <1>3 DEF Reached
<1>5. \A n : CounterIs(u, n)' <=> CounterIs(u, n)
  BY <1>1 DEF CounterIs
<1>6. Progress(u)
  BY DEF IndexInv
<1>. HIDE DEF Slice, Reached, CounterIs, LoOf, HiOf, RunTo
<1>. QED
  BY <1>1, <1>2, <1>4, <1>5, <1>6 DEF Progress

(* The slice of a thread lies in the range and in the loop's type.          *)
LEMMA SliceFacts ==
  ASSUME "wrap" \notin Allowed, TeamInv, phase # "write", backend # "c", Aligned,
         NEW t \in 0 .. nt - 1
  PROVE  /\ LoOf(t) \in Int /\ HiOf(t) \in Int /\ RunTo(t) \in Int /\ RunTo(t) <= HiOf(t)
         /\ Slice(t) \subseteq Covered /\ Slice(t) \subseteq Int
         /\ \A n \in Slice(t) : n \in InType(loop.ty) /\ n + 1 \in Values
<1>1. /\ Admitted(loop.start, loop.end, nt) /\ loop.start \in Int /\ loop.end \in Int
      /\ loop.start \in InType(loop.ty) /\ loop.end \in InType(loop.ty)
      /\ loop.start \in Values /\ loop.end \in Values /\ WideHalf \in Nat
  BY LoopAdmitted, HalfAssumption DEF Admitted
<1>2. LoOf(t) \in Int /\ HiOf(t) \in Int /\ RunTo(t) \in Int /\ RunTo(t) <= HiOf(t)
  BY RunToBounds
<1>3. Indices = loop.start .. loop.end - 1
  BY IndicesAre DEF Aligned
<1>4. ASSUME NEW n \in Slice(t)
      PROVE  n \in Int /\ n \in Indices /\ n < RunTo(t)
  <2>1. n \in Int /\ LoOf(t) <= n /\ n < RunTo(t) /\ n < HiOf(t)
    BY <1>2 DEF Slice
  <2>2. n \in loop.start .. loop.end - 1
    BY <1>1, <2>1, SlicesInside DEF LoOf, HiOf
  <2>. QED
    BY <1>3, <2>1, <2>2
<1>5. Slice(t) \subseteq Covered
  <2>. SUFFICES ASSUME NEW n \in Slice(t) PROVE n \in Covered
    OBVIOUS
  <2>1. backend = "tree_llvm" /\ ~loop.ty.signed /\ ~loop.ty.wide => n < NarrowHalf
    <3>. HIDE DEF HiOf
    <3>. QED
      BY <1>2, <1>4, HalfAssumption DEF RunTo, Leaves
  <2>. QED
    BY <1>4, <2>1 DEF Covered
<1>6. ASSUME NEW n \in Indices
      PROVE  n \in InType(loop.ty) /\ n + 1 \in Values
  <2>1. n \in Int /\ loop.start <= n /\ n < loop.end
    BY <1>1, <1>3
  <2>2. n + 1 \in Values
    BY <1>1, <2>1 DEF Values
  <2>3. n \in InType(loop.ty)
    BY <1>1, <2>1, HalfAssumption DEF InType
  <2>. QED
    BY <2>2, <2>3
<1>. QED
  BY <1>2, <1>4, <1>5, <1>6

(* A thread of an LLVM backend goes through its slice in order.             *)
LEMMA SliceStep ==
  ASSUME "wrap" \notin Allowed, ThreadInv, TeamInv, Aligned, IndexInv,
         phase = "run", backend # "c",
         NEW t \in Threads, Start(t) \/ Header(t) \/ Step(t) \/ Store(t) \/ Advance(t)
  PROVE  IndexInv'
<1>1. \/ Start(t) /\ thr[t].at = "start"
      \/ Header(t) /\ thr[t].at = "head"
      \/ Step(t) /\ thr[t].at = "body"
      \/ Store(t) /\ thr[t].at = "loaded"
      \/ Advance(t) /\ thr[t].at = "body"
  BY StartEffect, HeaderEffect, StepEffect, StoreEffect, AdvanceEffect
<1>2. nt \in Nat \ {0} /\ t \in 0 .. nt - 1
  <2>1. thr[t].at # "off"
    BY <1>1
  <2>. QED
    BY <2>1, LoopAdmitted DEF TeamInv, Threads
<1>3. /\ LoOf(t) \in Int /\ HiOf(t) \in Int /\ RunTo(t) \in Int /\ RunTo(t) <= HiOf(t)
      /\ Slice(t) \subseteq Covered /\ Slice(t) \subseteq Int
      /\ \A n \in Slice(t) : n \in InType(loop.ty) /\ n + 1 \in Values
      /\ Slice(t) = LoOf(t) .. RunTo(t) - 1
      /\ Progress(t) /\ twice = {} /\ ran \subseteq Covered
  BY <1>2, SliceFacts DEF Slice, IndexInv
<1>4. UNCHANGED <<phase, launched>> /\ Others(t)
  BY <1>1, StartEffect, HeaderEffect, StepEffect, StoreEffect, AdvanceEffect
<1>5. /\ backend' = backend /\ loop' = loop /\ nt' = nt /\ phase' = "run"
      /\ LoOf(t)' = LoOf(t) /\ HiOf(t)' = HiOf(t)
      /\ RunTo(t)' = RunTo(t) /\ Slice(t)' = Slice(t)
      /\ Covered' = Covered
  BY <1>4 DEF launched, LoOf, HiOf, RunTo, Leaves, Slice, Indices, Covered
<1>6. SUFFICES /\ Progress(t)' /\ twice' = {}
               /\ ran' = ran \/ \E i \in Slice(t) : ran' = ran \union {i}
  <2>1. ASSUME Progress(t)', twice' = {},
               ran' = ran \/ \E i \in Slice(t) : ran' = ran \union {i}
        PROVE  IndexInv'
    <3>1. \A u \in 0 .. nt - 1 : Progress(u)'
      BY <1>2, <1>4, <2>1, OthersProgress
    <3>2. ran' \subseteq Covered
      BY <1>3, <2>1
    <3>. QED
      BY <1>5, <2>1, <3>1, <3>2 DEF IndexInv
  <2>. QED
    BY <2>1
<1>7. CASE Start(t)
  <2>1. /\ Reached(t, LoOf(t)) /\ ran' = ran /\ twice' = twice
        /\ thr'[t].hi = HiOf(t)
        /\ thr'[t].at = (IF backend = "ssa_llvm" /\ ~(LoOf(t) < HiOf(t)) THEN "done" ELSE "head")
        /\ thr'[t].ctr = (IF backend = "tree_llvm" THEN Trunc(loop.ty, LoOf(t)) ELSE LoOf(t))
    <3>1. SsaHi(loop.start, loop.end, nt, t) = HiOf(t)
      BY <1>2, LoopAdmitted, BackendsAgree DEF HiOf
    <3>2. /\ thr[t].at = "start" /\ ran' = ran /\ twice' = twice
          /\ thr'[t].hi = (IF backend = "ssa_llvm" THEN SsaHi(loop.start, loop.end, nt, t)
                                                   ELSE HiOf(t))
          /\ thr'[t].at = (IF backend = "ssa_llvm" /\ ~(LoOf(t) < HiOf(t)) THEN "done" ELSE "head")
          /\ thr'[t].ctr = (IF backend = "tree_llvm" THEN Trunc(loop.ty, LoOf(t)) ELSE LoOf(t))
      BY <1>7, <3>1, StartEffect DEF LoOf, HiOf
    <3>. QED
      BY <1>3, <3>1, <3>2 DEF Progress
  <2>2. \A n : Reached(t, n)' <=> Reached(t, n)
    BY <1>5, <2>1 DEF Reached
  <2>3. CounterIs(t, LoOf(t))'
    BY <1>5, <2>1 DEF CounterIs
  <2>4. ~(LoOf(t) < HiOf(t)) => Reached(t, RunTo(t))
    BY <1>3 DEF Reached
  <2>. HIDE DEF Reached, CounterIs, LoOf, HiOf, RunTo
  <2>. QED
    BY <1>3, <1>5, <2>1, <2>2, <2>3, <2>4 DEF Progress
<1>8. CASE Header(t)
  <2>1. thr[t].at = "head"
    BY <1>8, HeaderEffect
  <2>2. PICK n \in Int : /\ LoOf(t) <= n /\ (n = LoOf(t) \/ n <= RunTo(t))
                         /\ CounterIs(t, n) /\ Reached(t, n)
    BY <1>3, <2>1 DEF Progress
  <2>3. thr[t].hi = HiOf(t)
    BY <1>3, <2>1 DEF Progress
  <2>4. More(t) <=> n < RunTo(t)
    <3>1. CASE backend = "tree_llvm"
      <4>1. More(t) <=> TreeMore(loop.ty, Trunc(loop.ty, n), HiOf(t))
        BY <2>2, <2>3, <3>1 DEF More, CounterIs
      <4>. QED
        BY <1>2, <1>3, <2>2, <3>1, <4>1, LoopAdmitted, CounterExact DEF LoOf, HiOf, RunTo, Aligned
    <3>2. CASE backend # "tree_llvm"
      BY <2>2, <2>3, <3>2 DEF More, CounterIs, RunTo
    <3>. QED
      BY <3>1, <3>2
  <2>5. n < RunTo(t) => n \in Slice(t) /\ n \notin ran /\ IndexOf(loop.ty, thr[t].ctr) = n
    <3>1. SUFFICES ASSUME n < RunTo(t)
                   PROVE  n \in Slice(t) /\ n \notin ran /\ IndexOf(loop.ty, thr[t].ctr) = n
      OBVIOUS
    <3>2. n \in Slice(t)
      BY <1>3, <2>2, <3>1
    <3>3. IndexOf(loop.ty, n) = n /\ IndexOf(loop.ty, Trunc(loop.ty, n)) = n
      BY <1>3, <3>2, LoopAdmitted, IndexReads
    <3>. QED
      BY <2>2, <3>2, <3>3 DEF Reached, CounterIs
  <2>6. CASE /\ thr'[t].at = "body" /\ n < RunTo(t)
             /\ thr'[t].ctr = thr[t].ctr /\ thr'[t].hi = thr[t].hi
             /\ ran' = ran \union {n} /\ twice' = twice
    <3>1. n \in Slice(t) /\ CounterIs(t, n)'
      BY <1>5, <2>2, <2>5, <2>6 DEF CounterIs
    <3>2. Reached(t, n + 1)'
      <4>1. \A i \in Slice(t) : i \in ran \union {n} <=> i < n + 1
        BY <1>3, <2>2 DEF Reached
      <4>. QED
        BY <1>5, <2>6, <4>1 DEF Reached
    <3>3. thr'[t].hi = HiOf(t)' /\ n \in Slice(t)'
      BY <1>5, <2>3, <2>6, <3>1
    <3>4. Progress(t)'
      <4>. HIDE DEF Reached, CounterIs, LoOf, HiOf, RunTo, Slice
      <4>. QED
        BY <2>6, <3>1, <3>2, <3>3 DEF Progress
    <3>. QED
      BY <1>3, <2>6, <3>1, <3>4
  <2>7. CASE thr'[t].at = "done" /\ ~(n < RunTo(t)) /\ UNCHANGED <<ran, twice>>
    <3>1. Reached(t, RunTo(t))'
      <4>1. \A i \in Slice(t) : i \in ran <=> i < RunTo(t)
        BY <1>3, <2>2, <2>7 DEF Reached
      <4>. QED
        BY <1>5, <2>7, <4>1 DEF Reached
    <3>2. Progress(t)'
      <4>. HIDE DEF Reached, CounterIs, LoOf, HiOf, RunTo, Slice
      <4>. QED
        BY <2>7, <3>1 DEF Progress
    <3>. QED
      BY <1>3, <2>7, <3>2
  <2>8. \/ /\ thr'[t].at = "body" /\ More(t)
           /\ thr'[t].ctr = thr[t].ctr /\ thr'[t].hi = thr[t].hi
           /\ LET i == IndexOf(loop.ty, thr[t].ctr)
              IN  /\ ran' = ran \union {i}
                  /\ twice' = (IF i \in ran THEN twice \union {i} ELSE twice)
        \/ thr'[t].at = "done" /\ UNCHANGED <<ran, twice>> /\ ~More(t)
    BY <1>8, HeaderEffect
  <2>. QED
    BY <2>4, <2>5, <2>6, <2>7, <2>8
<1>9. CASE Step(t) \/ Store(t)
  <2>1. /\ thr[t].at \in {"body", "loaded"} /\ thr'[t].at \in {"body", "loaded"}
        /\ thr'[t].ctr = thr[t].ctr /\ thr'[t].hi = thr[t].hi /\ UNCHANGED <<ran, twice>>
    BY <1>9, StepEffect, StoreEffect
  <2>2. \A n : (Reached(t, n)' <=> Reached(t, n)) /\ (CounterIs(t, n)' <=> CounterIs(t, n))
    BY <1>5, <2>1 DEF Reached, CounterIs
  <2>3. Progress(t)'
    <3>. HIDE DEF Reached, CounterIs, LoOf, HiOf, RunTo, Slice
    <3>. QED
      BY <1>3, <1>5, <2>1, <2>2 DEF Progress
  <2>. QED
    BY <1>3, <2>1, <2>3
<1>10. CASE Advance(t)
  <2>1. /\ thr[t].at = "body" /\ thr'[t].at = "head" /\ thr'[t].hi = thr[t].hi
        /\ UNCHANGED <<ran, twice>>
        /\ thr'[t].ctr = (IF backend = "tree_llvm" THEN Trunc(loop.ty, thr[t].ctr + 1)
                                                   ELSE Wide(thr[t].ctr + 1))
    BY <1>10, AdvanceEffect
  <2>2. PICK n \in Slice(t) : CounterIs(t, n) /\ Reached(t, n + 1)
    BY <1>3, <2>1 DEF Progress
  <2>3. n \in Int /\ LoOf(t) <= n /\ n < RunTo(t) /\ n + 1 \in Values /\ thr[t].hi = HiOf(t)
    BY <1>3, <2>1, <2>2 DEF Progress
  <2>4. Wide(n + 1) = n + 1
    BY <2>3, WideIdentity
  <2>5. backend = "tree_llvm" => Trunc(loop.ty, Trunc(loop.ty, n) + 1) = Trunc(loop.ty, n + 1)
    <3>. SUFFICES ASSUME backend = "tree_llvm"
                  PROVE  Trunc(loop.ty, Trunc(loop.ty, n) + 1) = Trunc(loop.ty, n + 1)
      OBVIOUS
    <3>1. n <= HiOf(t) /\ n < HiOf(t)
      BY <1>3, <2>3
    <3>. QED
      BY <1>2, <2>3, <3>1, LoopAdmitted, CounterExact DEF LoOf, HiOf, Aligned
  <2>6. CounterIs(t, n + 1)' /\ Reached(t, n + 1)'
    BY <1>5, <2>1, <2>2, <2>4, <2>5 DEF CounterIs, Reached
  <2>7. n + 1 \in Int /\ LoOf(t)' <= n + 1 /\ n + 1 <= RunTo(t)' /\ thr'[t].hi = HiOf(t)'
    BY <1>3, <1>5, <2>1, <2>3
  <2>8. Progress(t)'
    <3>. HIDE DEF Reached, CounterIs, LoOf, HiOf, RunTo, Slice
    <3>. QED
      BY <2>1, <2>6, <2>7 DEF Progress
  <2>. QED
    BY <1>3, <2>1, <2>8
<1>. QED
  BY <1>1, <1>7, <1>8, <1>9, <1>10

(* The OpenMP runtime hands out what is left.                               *)
LEMMA ScheduleStep ==
  ASSUME ThreadInv, IndexInv, phase = "run", backend = "c",
         NEW t \in Threads, Start(t) \/ Header(t) \/ Step(t) \/ Store(t) \/ Advance(t)
  PROVE  IndexInv'
<1>1. UNCHANGED <<phase, launched>> /\ Others(t)
  BY StartEffect, HeaderEffect, StepEffect, StoreEffect, AdvanceEffect
<1>2. backend' = backend /\ Indices' = Indices /\ phase' = phase
      /\ Covered = Indices /\ Covered' = Indices
  BY <1>1 DEF launched, Indices, Covered
<1>3. /\ twice' = twice /\ ran \subseteq ran' /\ ran' \subseteq ran \union Indices
      /\ thr'[t].at = "done" => Indices \subseteq ran
  BY StartEffect, HeaderEffect, StepEffect, StoreEffect, AdvanceEffect, Zenon
<1>. QED
  BY <1>1, <1>2, <1>3 DEF IndexInv, Others

(* A step that leaves threads and indices alone.                            *)
LEMMA IndexFrame ==
  ASSUME IndexInv, UNCHANGED <<backend, loop, nt, thr, ran, twice>>,
         phase' # "write" => phase # "write"
  PROVE  IndexInv'
<1>1. Covered' = Covered /\ Indices' = Indices
  BY DEF Indices, Covered
<1>2. \A t : LoOf(t)' = LoOf(t) /\ HiOf(t)' = HiOf(t) /\ RunTo(t)' = RunTo(t)
  BY DEF LoOf, HiOf, RunTo, Leaves
<1>3. \A t, n : (Reached(t, n)' <=> Reached(t, n)) /\ (CounterIs(t, n)' <=> CounterIs(t, n))
  <2>. HIDE DEF LoOf, HiOf, RunTo
  <2>. QED
    BY <1>2 DEF Reached, CounterIs, Slice
<1>4. \A t : Progress(t)' <=> Progress(t)
  <2>. HIDE DEF Reached, CounterIs, LoOf, HiOf, RunTo
  <2>. QED
    BY <1>2, <1>3 DEF Progress, Slice
<1>. HIDE DEF Progress, Indices, Covered
<1>. QED
  BY <1>1, <1>4 DEF IndexInv

(* No step skips or repeats an index.                                       *)
LEMMA IndexStep ==
  ASSUME "wrap" \notin Allowed, ThreadInv, TeamInv, Aligned => IndexInv, [Next]_vars
  PROVE  (Aligned => IndexInv)'
<1>1. CASE (phase = "write" /\ UNCHANGED RunVars) \/ UNCHANGED vars \/ Join
  <2>1. /\ UNCHANGED <<backend, loop, nt, thr, ran, twice>>
        /\ phase' # "write" => phase # "write"
    BY <1>1 DEF RunVars, vars, launched, Join
  <2>2. Aligned' => Aligned
    BY <2>1 DEF Aligned, OneHalf
  <2>. QED
    BY <2>1, <2>2, IndexFrame
<1>2. ASSUME NEW b \in Backends, NEW o \in Ops, NEW l \in Loops \union SmallLoops,
             NEW k \in 1 .. MaxThreads, Launch(b, o, l, k)
      PROVE  IndexInv'
  <2>1. /\ phase = "write" /\ phase' = "run" /\ UNCHANGED <<ran, twice>> /\ nt' = k
        /\ \A t \in Threads : thr'[t].at = IF t < k THEN "start" ELSE "off"
        /\ loop' = l /\ backend' = b /\ TeamInv'
    BY <1>2, Launched
  <2>2. ran = {} /\ twice = {}
    BY <2>1 DEF TeamInv
  <2>3. ASSUME NEW t \in 0 .. nt' - 1, backend' # "c"
        PROVE  Progress(t)'
    <3>1. thr'[t].at = "start"
      BY <2>1, <2>3, ParallelAssumption DEF Threads
    <3>2. LoOf(t)' \in Int /\ RunTo(t)' \in Int
      <4>1. WideSafe(l.start, l.end, k)
        BY <2>1, <2>3 DEF TeamInv, TameLoop
      <4>2. Admitted(l.start, l.end, k)
        BY <4>1, LaunchAdmitted
      <4>3. Lo(l.start, l.end, k, t) \in Int /\ TreeHi(l.start, l.end, k, t) \in Int
        BY <2>1, <2>3, <4>2, SliceRange
      <4>4. LoOf(t)' \in Int /\ HiOf(t)' \in Int
        BY <2>1, <4>3 DEF LoOf, HiOf
      <4>. HIDE DEF HiOf, LoOf
      <4>. QED
        BY <4>4, HalfAssumption DEF RunTo, Leaves
    <3>3. Reached(t, LoOf(t))'
      <4>. HIDE DEF LoOf, RunTo
      <4>. QED
        BY <2>1, <2>2, <3>2 DEF Reached, Slice
    <3>. HIDE DEF Reached, LoOf, HiOf, RunTo
    <3>. QED
      BY <3>1, <3>3 DEF Progress
  <2>4. \A t \in Threads : thr'[t].at # "done"
    BY <2>1
  <2>. QED
    BY <2>1, <2>2, <2>3, <2>4 DEF IndexInv
<1>3. ASSUME phase = "run", NEW t \in Threads,
             Start(t) \/ Header(t) \/ Step(t) \/ Store(t) \/ Advance(t), Aligned'
      PROVE  IndexInv'
  <2>1. UNCHANGED launched
    BY <1>3, StartEffect, HeaderEffect, StepEffect, StoreEffect, AdvanceEffect
  <2>2. Aligned
    BY <1>3, <2>1 DEF Aligned, OneHalf, launched
  <2>. QED
    BY <1>3, <2>2, SliceStep, ScheduleStep
<1>. QED
  BY <1>1, <1>2, <1>3, NextCases

(* Which indices are run, for every range of a narrow type, also an         *)
(* unsigned one that passes half of it, and for every wide one that does    *)
(* not: once each index of the range, and nothing else, except that the     *)
(* tree LLVM backend runs of a narrow unsigned range only the indices below *)
(* half the type (emit_parallel_for_via_gomp sign-extends the counter and   *)
(* compares it with ult). Only the ranges in which a bound of a slice wraps *)
(* around are left out.                                                     *)
THEOREM IndicesRun ==
  ASSUME "wrap" \notin Allowed
  PROVE  Spec => [](Aligned => /\ twice = {} /\ ran \subseteq Covered
                               /\ phase = "joined" => ran = Covered)
<1>1. Init => IndexInv
  BY DEF Init, IndexInv
<1>2. ThreadInv /\ TeamInv /\ (Aligned => IndexInv) /\ [Next]_vars => (Aligned => IndexInv)'
  BY IndexStep
<1>3. ThreadInv /\ TeamInv /\ (Aligned => IndexInv) =>
        (Aligned => /\ twice = {} /\ ran \subseteq Covered
                    /\ phase = "joined" => ran = Covered)
  <2>. SUFFICES ASSUME ThreadInv, TeamInv, Aligned, IndexInv, phase = "joined"
                PROVE  Covered \subseteq ran
    BY DEF IndexInv
  <2>1. nt \in Nat \ {0} /\ 0 .. nt - 1 \subseteq Threads
    BY LoopAdmitted
  <2>2. \A t \in 0 .. nt - 1 : t \in Threads /\ thr[t].at = "done"
    BY <2>1 DEF TeamInv
  <2>3. CASE backend = "c"
    <3>1. 0 \in 0 .. nt - 1
      BY <2>1
    <3>. QED
      BY <2>2, <2>3, <3>1 DEF IndexInv, Covered
  <2>4. CASE backend # "c"
    <3>. SUFFICES ASSUME NEW i \in Covered PROVE i \in ran
      OBVIOUS
    <3>1. i \in loop.start .. loop.end - 1 /\ i \in Int
      BY <2>4, IndicesAre, LoopAdmitted DEF Covered, Aligned
    <3>2. PICK t \in 0 .. nt - 1 : LoOf(t) <= i /\ i < HiOf(t)
      BY <2>4, <3>1, LoopAdmitted, SlicesCover DEF LoOf, HiOf
    <3>3. LoOf(t) \in Int /\ HiOf(t) \in Int /\ RunTo(t) \in Int
      BY <2>4, RunToBounds
    <3>4. i < RunTo(t)
      <4>. HIDE DEF HiOf, LoOf
      <4>. QED
        BY <3>1, <3>2, <3>3, HalfAssumption DEF RunTo, Leaves, Covered
    <3>5. i \in Slice(t)
      BY <3>1, <3>2, <3>3, <3>4 DEF Slice
    <3>6. Reached(t, RunTo(t))
      BY <2>2, <2>4 DEF IndexInv, Progress
    <3>. QED
      BY <3>4, <3>5, <3>6 DEF Reached
  <2>. QED
    BY <2>3, <2>4
<1>. QED
  BY <1>1, <1>2, <1>3, TeamSafe, PTL DEF Spec

(* The body is entered once with every index of the range and with nothing  *)
(* else: with the C loop, for every schedule; with the slices and counters  *)
(* of the LLVM backends, for every width of the types and every team, but   *)
(* not for every range: "wrap" leaves out those in which a bound of a slice *)
(* wraps around, "past half" the unsigned ones that pass half their type,   *)
(* of which IndicesRun says what is run.                                    *)
THEOREM IndicesSafe ==
  ASSUME "wrap" \notin Allowed, "past half" \notin Allowed
  PROVE  Spec => []EachIndexOnce
<1>. DEFINE Runs == Aligned => /\ twice = {} /\ ran \subseteq Covered
                               /\ phase = "joined" => ran = Covered
<1>1. Spec => []Runs
  BY IndicesRun
<1>2. TeamInv /\ Runs => EachIndexOnce
  <2>. SUFFICES ASSUME TeamInv, Runs PROVE EachIndexOnce
    OBVIOUS
  <2>1. CASE phase = "write"
    BY <2>1 DEF TeamInv, EachIndexOnce
  <2>2. CASE phase # "write"
    <3>1. Aligned
      BY <2>2 DEF TeamInv, TameLoop, Aligned
    <3>2. Covered = Indices
      <4>1. SUFFICES ASSUME backend = "tree_llvm", ~loop.ty.signed, ~loop.ty.wide,
                            NEW i \in Indices
                     PROVE  i < NarrowHalf
        BY DEF Covered
      <4>2. loop.end <= NarrowHalf
        BY <2>2, <4>1 DEF TeamInv, TameLoop, OneHalf
      <4>3. i \in loop.start .. loop.end - 1 /\ loop.start \in Int /\ loop.end \in Int
        BY <2>2, <4>1, IndicesAre, LoopAdmitted
      <4>. QED
        BY ONLY <4>2, <4>3, HalfAssumption
    <3>. QED
      BY <3>1, <3>2 DEF EachIndexOnce
  <2>. QED
    BY <2>1, <2>2
<1>. QED
  BY <1>1, <1>2, TeamSafe, PTL
=============================================================================
