----------------------------- MODULE SizeProofs -----------------------------
(***************************************************************************)
(* Facts about sizes that the proofs about messages and stacks rest on.    *)
(***************************************************************************)
EXTENDS FixSizes, WellFoundedInduction, TLAPS

-----------------------------------------------------------------------------
(* Powers of two *)

LEMMA Pow2Nat == Pow2 \subseteq Nat
  BY DEF Pow2

(* A nonempty set of naturals has a least element. *)
LEMMA LeastElement ==
  ASSUME NEW S \in SUBSET Nat, S # {}
  PROVE  \E n \in S : \A j \in S : n <= j
<1>1. PICK n \in S : \A j \in S : ~(<<j, n>> \in OpToRel(<, Nat))
  BY NatLessThanWellFounded, WFMin
<1>2. \A j \in S : ~(j < n)
  BY <1>1 DEF OpToRel
<1> QED
  BY <1>2, SMT

(* What holds of 0, and of every number up to n with the one before, holds *)
(* up to n: otherwise there is a least number of which it does not.        *)
LEMMA UpTo ==
  ASSUME NEW n \in Nat, NEW S, 0 \in S, \A k \in 0..(n - 1) : k \in S => k + 1 \in S
  PROVE  \A k \in 0..n : k \in S
<1> DEFINE T == {k \in 0..n : k \notin S}
<1> SUFFICES ASSUME T # {} PROVE FALSE
  OBVIOUS
<1>1. T \in SUBSET Nat
  OBVIOUS
<1>2. PICK k \in T : \A j \in T : k <= j
  BY <1>1, LeastElement
<1>3. k \in 0..n /\ k \notin S /\ k # 0
  BY <1>2
<1>4. k - 1 \in 0..(n - 1) /\ (k - 1) + 1 = k /\ k - 1 \in 0..n /\ ~(k <= k - 1)
  BY <1>3
<1>5. k - 1 \in S
  BY <1>2, <1>4
<1> QED
  BY <1>3, <1>4, <1>5

(* __next_2power returns the least power of two that is not below v. *)
LEMMA NextPow2Least ==
  ASSUME NEW v \in Nat \ {0}, NEW top \in Pow2, v <= top
  PROVE  /\ NextPow2(v) \in Pow2
         /\ v <= NextPow2(v)
         /\ \A q \in Pow2 : v <= q => NextPow2(v) <= q
<1> DEFINE above == {p \in Pow2 : v <= p}
<1>1. above \in SUBSET Nat /\ above # {}
  BY Pow2Nat
<1>2. \E p \in above : \A q \in above : p <= q
  BY <1>1, LeastElement
<1>3. NextPow2(v) \in above /\ \A q \in above : NextPow2(v) <= q
  BY <1>1, <1>2 DEF NextPow2
<1> QED
  BY <1>3

(* It is monotone, and does not move a power of two. *)
LEMMA NextPow2Mono ==
  ASSUME NEW v \in Nat \ {0}, NEW w \in Nat \ {0}, NEW top \in Pow2, v <= w, w <= top
  PROVE  /\ NextPow2(v) \in Nat /\ NextPow2(w) \in Nat
         /\ NextPow2(v) <= NextPow2(w)
<1>1. v <= top
  BY Pow2Nat, SMT
<1>2. NextPow2(w) \in Pow2 /\ w <= NextPow2(w)
  BY NextPow2Least
<1>3. NextPow2(v) \in Pow2 /\ \A q \in Pow2 : v <= q => NextPow2(v) <= q
  BY <1>1, NextPow2Least
<1>4. NextPow2(w) \in Nat /\ NextPow2(v) \in Nat
  BY <1>2, <1>3, Pow2Nat
<1>5. v <= NextPow2(w)
  BY <1>2, <1>4, SMT
<1> QED
  BY <1>2, <1>3, <1>4, <1>5

(* ROUND() never rounds down. *)
LEMMA RoundUp ==
  ASSUME NEW x \in Nat, NEW n \in Nat \ {0}
  PROVE  Round(x, n) \in Nat /\ x <= Round(x, n)
<1> DEFINE q == (x + n - 1) \div n
<1>1. q \in Nat /\ x + n - 1 < n * (q + 1)
  OBVIOUS
<1>2. n * (q + 1) = n * q + n /\ n * q \in Nat
  BY <1>1
<1> QED
  BY <1>1, <1>2 DEF Round

=============================================================================
