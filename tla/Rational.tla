------------------------------ MODULE Rational ------------------------------
(* Exact fractions <<numerator, denominator>> in lowest terms, for the amounts  *)
(* and returns that the program keeps as floating-point numbers. None is the   *)
(* program's undefined.                                                        *)
EXTENDS Integers

None == <<>>

Abs(n) == IF n < 0 THEN -n ELSE n

\* Euclid's algorithm on the pair of two naturals.
GreatestDivisor[p \in Nat \X Nat] ==
  IF p[2] = 0 THEN p[1] ELSE GreatestDivisor[<<p[2], p[1] % p[2]>>]

Fraction(n, d) ==
  LET g == GreatestDivisor[<<Abs(n), Abs(d)>>]
      s == IF d < 0 THEN -1 ELSE 1
  IN  <<(s * n) \div g, (s * d) \div g>>

Whole(n) == <<n, 1>>
Zero == Whole(0)
One == Whole(1)

Plus(a, b) == Fraction(a[1] * b[2] + b[1] * a[2], a[2] * b[2])
Minus(a, b) == Fraction(a[1] * b[2] - b[1] * a[2], a[2] * b[2])
Times(a, b) == Fraction(a[1] * b[1], a[2] * b[2])
Over(a, b) == Fraction(a[1] * b[2], a[2] * b[1])
AtMost(a, b) == a[1] * b[2] <= b[1] * a[2]
Below(a, b) == a[1] * b[2] < b[1] * a[2]
Larger(a, b) == IF AtMost(a, b) THEN b ELSE a
=============================================================================
