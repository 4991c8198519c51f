-------------------------- MODULE ExactCalculator --------------------------
(***************************************************************************)
(* What the rings promise: a calculator with two registers that hold       *)
(* numbers, not representations.  A number is a fraction <<n, d>>, with    *)
(* d = 1 for integers and residues.  No width appears here.                *)
(***************************************************************************)
EXTENDS Integers

VARIABLES ring, x, y,   \* the ring in use and the two registers
          call          \* the last call and how it ended

vars == <<ring, x, y, call>>

Abs(n) == IF n < 0 THEN -n ELSE n

Divides(d, n) == IF d = 0 THEN n = 0 ELSE n % Abs(d) = 0

\* g is the greatest common divisor of n and m, and not negative.
IsGcd(g, n, m) ==
    /\ g >= 0 /\ Divides(g, n) /\ Divides(g, m)
    /\ \A d \in 1 .. Abs(n) + Abs(m) : Divides(d, n) /\ Divides(d, m) => Divides(d, g)

\* The only representative z of n / d: an integer, a fraction in lowest terms
\* over a positive denominator, or a residue.
Is(z, n, d) ==
    CASE ring.kind = "integers"  -> z = <<n, 1>>
      [] ring.kind = "rationals" -> /\ z[2] > 0 /\ z[1] * d = n * z[2]
                                    /\ IsGcd(1, z[1], z[2])
      [] ring.kind = "residues"  -> /\ z[1] \in 0 .. ring.modulus - 1 /\ z[2] = 1
                                    /\ (z[1] * d - n) % ring.modulus = 0

Init == x = <<0, 1>> /\ y = <<0, 1>> /\ call = <<"start">>

Return(op) == call' = <<op>> /\ UNCHANGED ring
Throws(op) == call' = <<op, "domain_error">> /\ UNCHANGED <<ring, x, y>>

\* The arguments of the constructor are in the call.
Load ==
    LET n == call'[2]   d == call'[3]
    IN /\ call'[1] = "load" /\ x' = x /\ UNCHANGED ring
       /\ IF d = 0 THEN call' = <<"load", n, d, "domain_error">> /\ y' = y
          ELSE call' = <<"load", n, d>> /\ Is(y', n, d)

Copy  == Return("copy") /\ y' = x /\ x' = x
Move  == Return("move") /\ y' = x /\ x' = <<0, 1>>

Add == Return("add") /\ y' = y /\ Is(x', x[1] * y[2] + y[1] * x[2], x[2] * y[2])
Sub == Return("sub") /\ y' = y /\ Is(x', x[1] * y[2] - y[1] * x[2], x[2] * y[2])
Mul == Return("mul") /\ y' = y /\ Is(x', x[1] * y[1], x[2] * y[2])
Neg == Return("neg") /\ y' = y /\ Is(x', -x[1], x[2])
Inv == IF x[1] = 0 THEN Throws("inv") ELSE Return("inv") /\ y' = y /\ Is(x', x[2], x[1])

\* The quotient goes to x and the remainder to y; among integers the quotient
\* rounds toward zero.
DivRem ==
    IF y[1] = 0 THEN Throws("div_rem")
    ELSE /\ Return("div_rem") /\ x'[2] = 1 /\ y'[2] = 1
         /\ IF ring.kind = "integers"
            THEN /\ x[1] = x'[1] * y[1] + y'[1]
                 /\ Abs(y'[1]) < Abs(y[1])
                 /\ y'[1] # 0 => (y'[1] < 0) = (x[1] < 0)
            ELSE Is(y', 0, 1) /\ (x'[1] * y[1] - x[1]) % ring.modulus = 0

Gcd    == Return("gcd") /\ y' = y /\ x'[2] = 1 /\ IsGcd(x'[1], x[1], y[1])
Bezout == /\ Return("bezout") /\ x'[2] = 1 /\ y'[2] = 1
          /\ IsGcd(x[1] * x'[1] + y[1] * y'[1], x[1], y[1])

\* A fraction within the bound whose residue is the given one.
IsCandidate(z, residue, modulus, bound) ==
    (z[1] - z[2] * residue) % modulus = 0 /\ IsGcd(1, z[1], z[2])

Within(bound) == (-bound .. bound) \X (1 .. bound)

DefaultBound(modulus) == CHOOSE b \in 0 .. modulus : 2 * b * b <= modulus
                                                 /\ 2 * (b + 1) * (b + 1) > modulus

\* With the default bound, and with every smaller one, a fraction is found
\* whenever there is one.  With a larger bound there may be several, none of
\* which need be found: what is returned is one of them.
Reconstruct ==
    LET residue == call'[2]   modulus == call'[3]   bound == call'[4]
        default == call'[5]   outcome == call'[6]
        IsOne(z) == IsCandidate(z, residue, modulus, bound)
    IN /\ call'[1] = "reconstruct" /\ y' = y /\ UNCHANGED ring
       /\ IF modulus <= 0 THEN outcome = "domain_error" /\ x' = x
          ELSE /\ default => bound = DefaultBound(modulus)
               /\ \/ outcome = "found" /\ x' \in Within(bound) /\ IsOne(x')
                  \/ /\ outcome = "nullopt" /\ x' = x
                     /\ 2 * bound * bound <= modulus => \A z \in Within(bound) : ~IsOne(z)

Next == \/ Load \/ Copy \/ Move \/ Add \/ Sub \/ Mul \/ Neg \/ Inv \/ DivRem \/ Gcd
        \/ Bezout \/ Reconstruct

Spec == Init /\ [][Next]_vars
=============================================================================
