------------------------------- MODULE Euclid -------------------------------
(***************************************************************************)
(* gcd and extended_gcd of                                                 *)
(* src/src/algebra_core/include/algebra_core/generic_algorithms.hh on the  *)
(* ring of integers, one iteration of the loop at a time.  The two loops   *)
(* have the same condition and the same remainders, a and b of gcd being   *)
(* old_r and r here.  BigInt computes exactly, so that integers stand for  *)
(* its numbers, and only its way of rounding matters.                      *)
(***************************************************************************)
EXTENDS BigInt

CONSTANT Inputs            \* the arguments of gcd

VARIABLES a, b,            \* the arguments
          old_r, r,        \* consecutive remainders
          old_s, s,        \* their cofactors of a
          old_t, t         \* their cofactors of b

euclidVars == <<a, b, old_r, r, old_s, s, old_t, t>>

EuclidStart(n, m) ==
    /\ a = n /\ b = m
    /\ old_r = n /\ r = m
    /\ old_s = 1 /\ s = 0
    /\ old_t = 0 /\ t = 1

EuclidInit == \E n, m \in Inputs : EuclidStart(n, m)

\* Mutant: rounds the quotient down, but takes the remainder of rounding toward zero.
DivideFloor ==
    LET q == old_r \div r IN
    /\ r # 0
    /\ old_r' = r /\ r' = old_r - r * Quot(old_r, r)
    /\ old_s' = s /\ s' = old_s - q * s
    /\ old_t' = t /\ t' = old_t - q * t
    /\ UNCHANGED <<a, b>>

Divide ==
    LET q == Quot(old_r, r) IN
    /\ r # 0
    /\ old_r' = r /\ r' = old_r - r * q
    /\ old_s' = s /\ s' = old_s - q * s
    /\ old_t' = t /\ t' = old_t - q * t
    /\ UNCHANGED <<a, b>>

EuclidSpec == EuclidInit /\ [][Divide]_euclidVars

-----------------------------------------------------------------------------
EuclidTypeOK == /\ a \in Int /\ b \in Int /\ old_r \in Int /\ r \in Int
                /\ old_s \in Int /\ s \in Int /\ old_t \in Int /\ t \in Int

\* The cofactors of extended_gcd combine the arguments to the remainder in
\* every iteration, also with negative arguments, where the quotient rounds
\* toward zero and remainders change sign; at the end this is the
\* x * a + y * b == gcd of generic_algorithms.hh.
Bezout == s * a + t * b = r /\ old_s * a + old_t * b = old_r

Divides(d, n) == \E k \in Int : n = k * d

\* No common divisor is lost or gained.
CommonDivisorsKept ==
    \A d \in Int : (Divides(d, old_r) /\ Divides(d, r)) <=> (Divides(d, a) /\ Divides(d, b))

\* The remainders shrink, so the loop ends.
RemaindersShrink == [][Magnitude(r') < Magnitude(r)]_euclidVars
=============================================================================
