----------------------------- MODULE Partition -----------------------------
(***************************************************************************)
(* How the LLVM backends cut the range of a parallel for into one slice    *)
(* per thread.  Everything is computed in the wide type (i64); the tree    *)
(* backend then keeps the counter in the loop's own type, which may be     *)
(* narrower, and compares it again in the wide type.  WideHalf and         *)
(* NarrowHalf are half the number of values of the two types: 2^63 and,    *)
(* for an i8 or u8 loop, 2^7.                                              *)
(***************************************************************************)
EXTENDS Integers

CONSTANTS WideHalf, NarrowHalf

ASSUME HalfAssumption ==
    /\ NarrowHalf \in Nat \ {0}
    /\ WideHalf \in Nat
    /\ 2 * NarrowHalf <= WideHalf

\* Two's complement: the signed and the unsigned reading of x in 2*half values.
SignedIn(half, x) == ((x + half) % (2 * half)) - half
UnsignedIn(half, x) == x % (2 * half)

Wide(x) == SignedIn(WideHalf, x)

\* A loop type says whether it is signed, and whether it is the wide type itself.
HalfOf(ty) == IF ty.wide THEN WideHalf ELSE NarrowHalf

\* The values a bound of such a loop can have, as the wide type reads them.
InType(ty) == IF ty.wide THEN -WideHalf .. WideHalf - 1
              ELSE IF ty.signed THEN -NarrowHalf .. NarrowHalf - 1 ELSE 0 .. 2 * NarrowHalf - 1

\* The number such a bound is.
Reading(ty, x) == IF ty.signed THEN x ELSE UnsignedIn(HalfOf(ty), x)

\* LLVM's sdiv rounds towards zero.
Sdiv(a, b) == IF a >= 0 THEN a \div b ELSE -((-a) \div b)

\* Faulty: rounds down.
ChunkFloor(start, end, nt) == Sdiv(Wide(end - start), nt)
Chunk(start, end, nt) == Sdiv(Wide(Wide(Wide(end - start) + nt) - 1), nt)
Lo(start, end, nt, tid) == Wide(start + Wide(tid * Chunk(start, end, nt)))
TreeHi(start, end, nt, tid) ==
    LET uncapped == Wide(Lo(start, end, nt, tid) + Chunk(start, end, nt))
    IN  IF uncapped < end THEN uncapped ELSE end
SsaHi(start, end, nt, tid) ==
    LET chunk == Chunk(start, end, nt)
        raw == Wide(start + Wide(Wide(tid * chunk) + chunk))
    IN  IF raw > end THEN end ELSE raw

\* The tree backend's counter: the lower bound truncated to the loop type,
\* incremented in it, and sign-extended (whatever its signedness) to compare.
Trunc(ty, x) == SignedIn(HalfOf(ty), x)
TreeMore(ty, counter, hi) ==
    IF ty.signed THEN counter < hi
                 ELSE UnsignedIn(WideHalf, counter) < UnsignedIn(WideHalf, hi)
\* What the body reads from that counter, as the wide type reads it.
IndexOf(ty, counter) ==
    IF ty.signed \/ ty.wide THEN Trunc(ty, counter)
                            ELSE UnsignedIn(NarrowHalf, counter)

\* The bounds for which none of this wraps around.
WideSafe(start, end, nt) ==
    /\ -WideHalf <= end - start
    /\ end - start + nt < WideHalf
    /\ start + (end - start) + nt < WideHalf

\* The largest value of the type, for a range that ends at `end`; an unsigned
\* wide one above its half is read as negative.
LastOf(ty, end) ==
    CASE ty.signed \/ (ty.wide /\ end >= 0) -> HalfOf(ty) - 1
      [] ~ty.signed /\ ty.wide /\ end < 0 -> -1
      [] OTHER -> 2 * NarrowHalf - 1
\* No thread starts past it.
CounterSafe(ty, start, end, nt) ==
    start + (nt - 1) * Chunk(start, end, nt) <= LastOf(ty, end)

\* The unsigned ranges on which signed and unsigned comparisons agree.
OneHalf(ty, start, end) ==
    \/ ty.signed
    \/ ty.wide /\ ((start < 0) <=> (end < 0))
    \/ ~ty.wide /\ end <= NarrowHalf
=============================================================================
