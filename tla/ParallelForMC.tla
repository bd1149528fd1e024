--------------------------- MODULE ParallelForMC ---------------------------
(* Every range of up to four indices of a narrow signed and a narrow unsigned *)
(* type, small ones of the wide types, on both sides of half the unsigned     *)
(* one; two iterations for longer bodies.                                     *)
EXTENDS ParallelFor

Ty(s, w) == [signed |-> s, wide |-> w]
Over(ty, lo, hi) == {l \in [ty : {ty}, start : lo..hi, end : lo..hi] : l.end - l.start \in -2..4}
MCLoops == Over(Ty(TRUE, FALSE), -NarrowHalf, NarrowHalf - 1)
      \cup Over(Ty(FALSE, FALSE), 0, 2 * NarrowHalf - 1)
      \cup Over(Ty(TRUE, TRUE), -1, 2) \cup Over(Ty(FALSE, TRUE), -3, 3)
MCSmallLoops == {[ty |-> Ty(TRUE, TRUE), start |-> 0, end |-> 2]}
=============================================================================
