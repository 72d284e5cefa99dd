------------------------------- MODULE Uint64 -------------------------------
(***************************************************************************)
(* Unsigned machine integers, as Go's uint64: a sum or a difference that   *)
(* leaves 0 .. U64-1 wraps around and raises no error.  The code stands at *)
(* 2^64; a model gives U64 any value above the numbers it counts with, so  *)
(* that what wraps is still far away from what does not.                   *)
(***************************************************************************)
EXTENDS Naturals

CONSTANT U64

ASSUME WidthAssumption == U64 \in Nat \ {0}

Uint == 0 .. U64 - 1

Add64(a, b) == IF a + b < U64 THEN a + b ELSE (a + b) - U64

Sub64(a, b) == IF b <= a THEN a - b ELSE (U64 + a) - b

Larger(a, b) == IF a < b THEN b ELSE a

Smaller(a, b) == IF a < b THEN a ELSE b
=============================================================================
