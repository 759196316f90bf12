------------------------------ MODULE FixSizes ------------------------------
(* The arithmetic of sizes that fix.c and nifty.h share. *)
EXTENDS Integers

CONSTANT Bits  \* width of size_t

(* 2^k is a number to TLC but not to the proof system, which has no facts  *)
(* about exponentiation: hence the intersection.                           *)
Pow2 == Nat \intersect {2^k : k \in 0..(Bits - 1)}

(* __next_2power: v is decremented, smeared and incremented again in a     *)
(* word of Bits bits, so that 0, and what no power in the word reaches,    *)
(* come out as 0.                                                          *)
NextPow2(v) ==
  LET above == {p \in Pow2 : v <= p}
  IN  IF v = 0 \/ above = {} THEN 0
      ELSE CHOOSE p \in above : \A q \in above : p <= q

Round(x, n) == n * ((x + n - 1) \div n)

=============================================================================
