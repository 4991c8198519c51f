-------------------------- MODULE ExactPolynomials --------------------------
(***************************************************************************)
(* What polynomial arithmetic promises: two registers that hold            *)
(* polynomials as functions from exponents to residues, no terms and no    *)
(* order of terms.  Exponents are taken modulo ExponentRange, as machine   *)
(* words are: the polynomials are those of the ring with z^ExponentRange   *)
(* equal to 1 for every variable z.                                        *)
(***************************************************************************)
EXTENDS Integers, FiniteSets, FiniteSetsExt

CONSTANT ExponentRange

VARIABLES modulus, f, g,   \* the registers: [exponents -> 0 .. modulus - 1]
          call             \* the last call and how it ended

vars == <<modulus, f, g, call>>

SameVariables == DOMAIN f = DOMAIN g

Residue(n) == n % modulus

\* The monomial whose product with n is m.
Over(m, n)     == [k \in DOMAIN m |-> (m[k] - n[k]) % ExponentRange]
Sum(p, q)      == [m \in DOMAIN p |-> Residue(p[m] + q[m])]
Sub(p, q)      == [m \in DOMAIN p |-> Residue(p[m] - q[m])]
Negative(p)    == [m \in DOMAIN p |-> Residue(-p[m])]
Convolved(p, q) ==
    [m \in DOMAIN p |->
       Residue(MapThenSumSet(LAMBDA n : p[n] * q[Over(m, n)], {n \in DOMAIN p : p[n] # 0}))]

IsZero(p) == \A m \in DOMAIN p : p[m] = 0
Above(m, n) == \E k \in DOMAIN m : m[k] > n[k] /\ \A j \in 1 .. k - 1 : m[j] = n[j]
Leads(p, m) == p[m] # 0 /\ \A n \in DOMAIN p : p[n] # 0 => n = m \/ Above(m, n)

Power(c, n) == IF n = 0 THEN 1 ELSE Residue(c^n)

\* The value c for variable v; its exponent stays in the monomials, as zero.
Value(p, v, c) ==
    [m \in DOMAIN p |->
       IF m[v] # 0 THEN 0
       ELSE Residue(MapThenSumSet(LAMBDA e : p[[m EXCEPT ![v] = e]] * Power(c, e),
                                  0 .. ExponentRange - 1))]

\* No term of r is a multiple of the leading one of the divisor.
Reduced(r, divisor) ==
    \A n \in DOMAIN divisor : Leads(divisor, n) =>
      \A m \in DOMAIN r : r[m] # 0 => \E k \in DOMAIN m : m[k] < n[k]

\* The terms of p with the highest power of v are those of q, without v.
LeadsIn(p, v, q) ==
    LET Without(m) == [k \in 1 .. Cardinality(DOMAIN m) - 1 |-> IF k < v THEN m[k] ELSE m[k + 1]]
        degree == Max({0} \cup {m[v] : m \in {n \in DOMAIN p : p[n] # 0}})
    IN \A m \in DOMAIN p : m[v] = degree => q[Without(m)] = p[m]

-----------------------------------------------------------------------------
Init == modulus \in Nat /\ call = <<"start">>

Return(op) == call' = <<op>> /\ UNCHANGED modulus
Throws(op, error) == call' = <<op, error>> /\ UNCHANGED <<modulus, f, g>>

\* Two polynomials in different variables are refused.
Binary(op, Effect) ==
    IF SameVariables THEN Return(op) /\ Effect ELSE Throws(op, "invalid_argument")

Load == Return("load") /\ f' = f

Add == Binary("add", g' = g /\ f' = Sum(f, g))
Subtract == Binary("sub", g' = g /\ f' = Sub(f, g))
Neg == Return("neg") /\ g' = g /\ f' = Negative(f)
Mul == Binary("mul", g' = g /\ f' = Convolved(f, g))

\* One variable gets a value.
Evaluate ==
    /\ call'[1] = "evaluate" /\ UNCHANGED <<modulus, g>>
    /\ f' = Value(f, call'[2], call'[3])

\* The quotient goes to f and the remainder to g.
DivRem ==
    IF ~SameVariables THEN Throws("div_rem", "invalid_argument")
    ELSE IF IsZero(g) THEN Throws("div_rem", "logic_error")
    ELSE Return("div_rem") /\ g' = Sub(f, Convolved(f', g)) /\ Reduced(g', g)

\* The first polynomial loses a variable.
LeadingCoefficient ==
    /\ call'[1] = "leading_coefficient" /\ UNCHANGED <<modulus, g>>
    /\ LeadsIn(f, call'[2], f')

Next == \/ Load \/ Add \/ Subtract \/ Neg \/ Mul \/ Evaluate \/ DivRem \/ LeadingCoefficient

Spec == Init /\ [][Next]_vars
=============================================================================
