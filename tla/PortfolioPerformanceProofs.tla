--------------------- MODULE PortfolioPerformanceProofs ----------------------
(* The properties of PortfolioPerformance for every ledger, every answer of the *)
(* market client and every range. A report is a function of the ledger and one  *)
(* answer, so the invariant of the actions (Inv) is short and what carries the  *)
(* proofs is an invariant of the loop over the valuation dates (EngineHolds).   *)
EXTENDS PortfolioPerformance, RationalProofs

\* On whole numbers the operators of Rational are those of the integers.
LEMMA WholeArithmetic ==
  ASSUME NEW a \in Int, NEW b \in Int
  PROVE  /\ Plus(Whole(a), Whole(b)) = Whole(a + b)
         /\ Minus(Whole(a), Whole(b)) = Whole(a - b)
         /\ (AtMost(Whole(a), Whole(b)) <=> a <= b)
         /\ (Whole(a) = Whole(b) <=> a = b)
<1>1. \A n \in Int : Whole(n) = Fraction(n, 1)
  BY WholeIs
<1>2. a + b \in Int /\ a - b \in Int /\ 1 \in Nat \ {0}
  OBVIOUS
<1>3. a * 1 = a /\ b * 1 = b /\ 1 * 1 = 1
  OBVIOUS
<1>4. Plus(Fraction(a, 1), Fraction(b, 1)) = Fraction(a + b, 1) /\ Minus(Fraction(a, 1), Fraction(b, 1)) = Fraction(a - b, 1)
  BY <1>2, <1>3, FractionPlus
<1>5. AtMost(Whole(a), Whole(b)) <=> a <= b
  BY <1>3 DEF AtMost, Whole
<1>6. Whole(a) = Whole(b) <=> a = b
  BY DEF Whole
<1>7. Whole(a + b) = Fraction(a + b, 1) /\ Whole(a - b) = Fraction(a - b, 1)
  BY <1>1, <1>2
<1>8. Whole(a) = Fraction(a, 1) /\ Whole(b) = Fraction(b, 1)
  BY <1>1
<1> QED
  BY <1>4, <1>5, <1>6, <1>7, <1>8

\* Ratios are closed under the operators, division by what is not positive excepted.
LEMMA RatioArithmetic ==
  ASSUME NEW r, NEW s, IsRatio(r), IsRatio(s)
  PROVE  /\ IsRatio(Plus(r, s)) /\ IsRatio(Minus(r, s)) /\ IsRatio(Times(r, s))
         /\ Below(Zero, s) => IsRatio(Over(r, s))
<1>1. r[1] \in Int /\ r[2] \in Nat \ {0} /\ s[1] \in Int /\ s[2] \in Nat \ {0}
  BY RatioParts
<1>2. ASSUME NEW a \in Int, NEW b \in Nat \ {0}, NEW c \in Int, NEW d \in Nat \ {0}
      PROVE  a * d + c * b \in Int /\ a * d - c * b \in Int /\ a * c \in Int /\ b * d \in Nat \ {0}
             /\ a * d \in Int /\ (c > 0 => b * c \in Nat \ {0})
  <2>1. b * d > 0 /\ (c > 0 => b * c > 0)
    BY SMTT(30)
  <2> QED
    BY <2>1
<1>3. /\ r[1] * s[2] + s[1] * r[2] \in Int /\ r[1] * s[2] - s[1] * r[2] \in Int
      /\ r[1] * s[1] \in Int /\ r[2] * s[2] \in Nat \ {0}
  BY <1>1, <1>2
<1>4. IsRatio(Plus(r, s)) /\ IsRatio(Minus(r, s)) /\ IsRatio(Times(r, s))
  BY <1>3, FractionIsRatio DEF Plus, Minus, Times
<1>5. ASSUME Below(Zero, s) PROVE IsRatio(Over(r, s))
  <2>1. s[1] > 0
    <3>1. 0 * s[2] < s[1] * 1
      BY <1>5 DEF Below, Zero, Whole
    <3> QED
      BY <1>1, <3>1
  <2>2. r[1] * s[2] \in Int /\ r[2] * s[1] \in Nat \ {0}
    BY <1>1, <1>2, <2>1
  <2> QED
    BY <2>2, FractionIsRatio DEF Over
<1> QED
  BY <1>4, <1>5

\* Zero and one are neutral.
LEMMA RatioUnits ==
  ASSUME NEW r, IsRatio(r)
  PROVE  Plus(r, Zero) = r /\ Plus(Zero, r) = r /\ Times(One, r) = r /\ Times(Zero, r) = Zero
         /\ IsRatio(One) /\ IsRatio(Zero) /\ Minus(One, One) = Zero
<1>1. r[1] \in Int /\ r[2] \in Nat \ {0} /\ r = Fraction(r[1], r[2])
  BY RatioParts
<1>2. Zero = <<0, 1>> /\ One = <<1, 1>>
  BY DEF Zero, One, Whole
<1> DEFINE a == r[1]
           b == r[2]
<1>3. /\ a * 1 + 0 * b = a /\ 0 * b + a * 1 = a /\ b * 1 = b /\ 1 * b = b /\ 1 * a = a
      /\ 0 * a = 0
  BY <1>1
<1>4. Plus(r, Zero) = Fraction(a, b) /\ Plus(Zero, r) = Fraction(a, b) /\ Times(One, r) = Fraction(a, b)
  BY <1>2, <1>3 DEF Plus, Times
<1>5. Times(Zero, r) = Zero
  <2>1. Times(Zero, r) = Fraction(0, b)
    BY <1>2, <1>3 DEF Times
  <2>2. 0 * 1 = 0 * b /\ 0 \in Int /\ 1 \in Nat \ {0}
    BY <1>1
  <2>3. Fraction(0, b) = Fraction(0, 1)
    BY <1>1, <2>2, FractionsAreSame
  <2>4. Zero = Fraction(0, 1)
    BY WholeIs DEF Zero
  <2> QED
    BY <2>1, <2>3, <2>4
<1>6. IsRatio(One) /\ IsRatio(Zero) /\ Minus(One, One) = Zero
  <2>1. Minus(Whole(1), Whole(1)) = Whole(1 - 1)
    BY WholeArithmetic
  <2> QED
    BY <2>1, WholeIs DEF One, Zero
<1> QED
  BY <1>1, <1>4, <1>5, <1>6

\* The link of one more return, seen from the growth.
LEMMA LinkStep ==
  ASSUME NEW g, NEW r, IsRatio(g), IsRatio(r)
  PROVE  Plus(Times(Minus(g, One), Plus(One, r)), r) = Minus(Times(g, Plus(One, r)), One)
<1> DEFINE a == g[1]
           b == g[2]
           c == r[1]
           d == r[2]
<1>1. a \in Int /\ b \in Nat \ {0} /\ g = Fraction(a, b) /\ c \in Int /\ d \in Nat \ {0} /\ r = Fraction(c, d)
  BY RatioParts
<1>2. One = Fraction(1, 1)
  BY WholeIs DEF One
<1> HIDE DEF a, b, c, d
<1>3. Minus(g, One) = Fraction(a - b, b)
  <2>1. a * 1 - 1 * b = a - b /\ b * 1 = b /\ 1 \in Int /\ 1 \in Nat \ {0}
    BY <1>1
  <2>2. Minus(Fraction(a, b), Fraction(1, 1)) = Fraction(a * 1 - 1 * b, b * 1)
    BY <1>1, <2>1, FractionPlus
  <2> QED
    BY <1>1, <1>2, <2>1, <2>2
<1>4. Plus(One, r) = Fraction(d + c, d)
  <2>1. 1 * d + c * 1 = d + c /\ 1 * d = d /\ 1 \in Int /\ 1 \in Nat \ {0}
    BY <1>1
  <2>2. Plus(Fraction(1, 1), Fraction(c, d)) = Fraction(1 * d + c * 1, 1 * d)
    BY <1>1, <2>1, FractionPlus
  <2> QED
    BY <1>1, <1>2, <2>1, <2>2
<1> DEFINE e == b * d
           p == (a - b) * (d + c)
           q == a * (d + c)
<1>5. e \in Nat \ {0} /\ p \in Int /\ q \in Int /\ a - b \in Int /\ d + c \in Int
  <2>1. b * d > 0
    BY <1>1, SMTT(30)
  <2> QED
    BY <1>1, <2>1
<1>6. Times(Minus(g, One), Plus(One, r)) = Fraction(p, e) /\ Times(g, Plus(One, r)) = Fraction(q, e)
  <2>1. \A x, y \in Int : Times(Fraction(x, b), Fraction(y, d)) = Fraction(x * y, b * d)
    BY <1>1, FractionPlus
  <2>2. Times(Fraction(a - b, b), Fraction(d + c, d)) = Fraction((a - b) * (d + c), b * d)
    BY <1>5, <2>1
  <2>3. Times(Fraction(a, b), Fraction(d + c, d)) = Fraction(a * (d + c), b * d)
    BY <1>1, <1>5, <2>1
  <2> QED
    BY <1>1, <1>3, <1>4, <2>2, <2>3
<1>7. p + c * b = q - e /\ p * d + c * e = d * (p + c * b)
  <2>1. (a - b) * (d + c) + c * b = a * (d + c) - b * d
    BY <1>1, SMTT(30)
  <2>2. p * d + c * (b * d) = d * (p + c * b)
    <3> HIDE DEF p
    <3> QED
      BY <1>1, <1>5, SMTT(30)
  <2> QED
    BY <2>1, <2>2
<1> HIDE DEF e, p, q
<1>8. Plus(Fraction(p, e), r) = Fraction(p * d + c * e, e * d)
  BY <1>1, <1>5, FractionPlus
<1>9. Minus(Fraction(q, e), One) = Fraction(q - e, e)
  <2>1. q * 1 - 1 * e = q - e /\ e * 1 = e /\ 1 \in Int /\ 1 \in Nat \ {0}
    BY <1>5
  <2>2. Minus(Fraction(q, e), Fraction(1, 1)) = Fraction(q * 1 - 1 * e, e * 1)
    BY <1>5, <2>1, FractionPlus
  <2> QED
    BY <1>2, <2>1, <2>2
<1>10. Fraction(d * (q - e), d * e) = Fraction(q - e, e)
  <2>1. q - e \in Int
    BY <1>5
  <2> QED
    BY <1>1, <1>5, <2>1, FractionScales
<1>11. e * d = d * e
  BY <1>1, <1>5
<1> QED
  BY <1>6, <1>7, <1>8, <1>9, <1>10, <1>11

\* A growth to a value, followed by the return from it, is the growth to the next.
LEMMA GrowthStep ==
  ASSUME NEW a \in Nat \ {0}, NEW b \in Nat \ {0}, NEW c \in Int
  PROVE  Times(Fraction(a, b), Plus(One, Over(Whole(c - a), Whole(a)))) = Fraction(c, b)
<1>1. One = Fraction(1, 1) /\ Whole(c - a) = Fraction(c - a, 1) /\ Whole(a) = Fraction(a, 1)
  BY WholeIs DEF One
<1>2. c - a \in Int /\ 1 \in Nat \ {0} /\ (c - a) * 1 = c - a /\ 1 * a = a /\ a \in Int /\ 1 \in Int
  OBVIOUS
<1>3. Over(Fraction(c - a, 1), Fraction(a, 1)) = Fraction(c - a, a)
  <2>1. Over(Fraction(c - a, 1), Fraction(a, 1)) = Fraction((c - a) * 1, 1 * a)
    BY <1>2, FractionOver
  <2> QED
    BY <1>2, <2>1
<1>4. Plus(Fraction(1, 1), Fraction(c - a, a)) = Fraction(c, a)
  <2>1. Plus(Fraction(1, 1), Fraction(c - a, a)) = Fraction(1 * a + (c - a) * 1, 1 * a)
    BY <1>2, FractionPlus
  <2>2. 1 * a + (c - a) * 1 = c
    OBVIOUS
  <2> QED
    BY <1>2, <2>1, <2>2
<1>5. Times(Fraction(a, b), Fraction(c, a)) = Fraction(a * c, b * a)
  BY <1>2, FractionPlus
<1>6. Fraction(a * c, a * b) = Fraction(c, b)
  BY FractionScales
<1>7. b * a = a * b
  OBVIOUS
<1> QED
  BY <1>1, <1>3, <1>4, <1>5, <1>6, <1>7

\* The growth from a base, times the base, is the value again.
LEMMA GrowthTimesBase ==
  ASSUME NEW a \in Int, NEW b \in Nat \ {0}
  PROVE  Times(Fraction(a, b), Whole(b)) = Whole(a)
<1>1. Whole(b) = Fraction(b, 1) /\ Whole(a) = Fraction(a, 1)
  BY WholeIs
<1>2. 1 \in Nat \ {0} /\ b \in Int /\ a * b = b * a /\ b * 1 = b
  OBVIOUS
<1>3. Times(Fraction(a, b), Fraction(b, 1)) = Fraction(b * a, b * 1)
  BY <1>2, FractionPlus
<1>4. Fraction(b * a, b * 1) = Fraction(a, 1)
  BY <1>2, FractionScales
<1> QED
  BY <1>1, <1>3, <1>4

\* The order of fractions.
LEMMA RatioOrder ==
  ASSUME NEW r, NEW s, NEW t, IsRatio(r), IsRatio(s), IsRatio(t)
  PROVE  /\ AtMost(r, r)
         /\ AtMost(r, s) \/ AtMost(s, r)
         /\ AtMost(r, s) /\ AtMost(s, r) => r = s
         /\ AtMost(r, s) /\ AtMost(s, t) => AtMost(r, t)
         /\ Below(r, s) <=> ~AtMost(s, r)
<1> DEFINE a == r[1]
           b == r[2]
           c == s[1]
           d == s[2]
           e == t[1]
           f == t[2]
<1>1. /\ a \in Int /\ b \in Nat \ {0} /\ r = Fraction(a, b)
      /\ c \in Int /\ d \in Nat \ {0} /\ s = Fraction(c, d)
      /\ e \in Int /\ f \in Nat \ {0} /\ t = Fraction(e, f)
  BY RatioParts
<1>2. a * b \in Int /\ a * d \in Int /\ c * b \in Int
  BY <1>1
<1>3. /\ AtMost(r, r) <=> a * b <= a * b
      /\ AtMost(r, s) <=> a * d <= c * b
      /\ AtMost(s, r) <=> c * b <= a * d
      /\ AtMost(s, t) <=> c * f <= e * d
      /\ AtMost(r, t) <=> a * f <= e * b
      /\ Below(r, s) <=> a * d < c * b
  BY DEF AtMost, Below
<1> HIDE DEF a, b, c, d, e, f
<1>4. a * d <= c * b /\ c * b <= a * d => r = s
  BY <1>1, <1>2, FractionsAreSame
<1>5. a * d <= c * b /\ c * f <= e * d => a * f <= e * b
  <2>1. SUFFICES ASSUME a * d <= c * b, c * f <= e * d PROVE a * f <= e * b
    OBVIOUS
  <2>2. (a * d) * f <= (c * b) * f
    <3> DEFINE u == a * d
               v == c * b
    <3>1. u \in Int /\ v \in Int /\ u <= v
      BY <1>2, <2>1
    <3> HIDE DEF u, v
    <3> QED
      BY <1>1, <3>1, SMTT(30) DEF u, v
  <2>3. (c * f) * b <= (e * d) * b
    <3> DEFINE u == c * f
               v == e * d
    <3>1. u \in Int /\ v \in Int /\ u <= v
      BY <1>1, <2>1
    <3> HIDE DEF u, v
    <3> QED
      BY <1>1, <3>1, SMTT(30) DEF u, v
  <2>4. (c * b) * f = (c * f) * b /\ (a * d) * f = d * (a * f) /\ (e * d) * b = d * (e * b)
    BY <1>1, SMTT(30)
  <2> DEFINE u == a * f
             v == e * b
  <2>5. u \in Int /\ v \in Int
    BY <1>1
  <2>6. d * u <= d * v
    <3> DEFINE x == d * u
               y == (c * b) * f
               z == d * v
    <3>1. x \in Int /\ y \in Int /\ z \in Int
      BY <1>1
    <3>2. x <= y /\ y <= z
      BY <2>2, <2>3, <2>4
    <3> HIDE DEF x, y, z
    <3>3. x <= z
      BY <3>1, <3>2
    <3> QED
      BY <3>3 DEF x, z
  <2> HIDE DEF u, v
  <2>7. u <= v
    <3>1. v < u => d * v < d * u
      BY <1>1, <2>5, SMTT(30)
    <3>2. d * v \in Int /\ d * u \in Int
      BY <1>1, <2>5
    <3> QED
      BY <2>5, <2>6, <3>1, <3>2
  <2> QED
    BY <2>7 DEF u, v
<1> QED
  BY <1>2, <1>3, <1>4, <1>5

\* The larger of two ratios is one of them and not below either.
LEMMA LargerIs ==
  ASSUME NEW r, NEW s, IsRatio(r), IsRatio(s)
  PROVE  /\ IsRatio(Larger(r, s)) /\ Larger(r, s) \in {r, s}
         /\ AtMost(r, Larger(r, s)) /\ AtMost(s, Larger(r, s))
BY RatioOrder DEF Larger

-----------------------------------------------------------------------------
(* The replay of a ledger for a symbol.                                        *)

TakesPart(events, at, symbol, n) == n \in at /\ events[n].symbol = symbol
ReplayStep(a, p, events, at, symbol, n) ==
  IF n = 0 THEN p
  ELSE IF TakesPart(events, at, symbol, n) THEN PositionAfter(a[n - 1], events[n]) ELSE a[n - 1]
ReplayRule(a, p, events, at, symbol) ==
  a = [n \in 0..Len(events) |-> ReplayStep(a, p, events, at, symbol, n)]
Positions(p, events, at, symbol) == CHOOSE a : ReplayRule(a, p, events, at, symbol)

\* A replay is the last of the positions it passes through.
LEMMA ReplayIs ==
  ASSUME NEW p, NEW events, NEW at, NEW symbol
  PROVE  Replay(p, events, at, symbol) = Positions(p, events, at, symbol)[Len(events)]
BY DEF Replay, Positions, ReplayRule, ReplayStep, TakesPart

\* The recursive function behind a replay exists.
LEMMA ReplayIsDefined ==
  ASSUME NEW p, NEW events, NEW at, NEW symbol, Len(events) \in Nat
  PROVE  ReplayRule(Positions(p, events, at, symbol), p, events, at, symbol)
<1> DEFINE bound == Len(events)
           step(a, n) == ReplayStep(a, p, events, at, symbol, n)
           Rule(a, k) == a = [n \in 0..k |-> step(a, n)]
           known == {k \in 0..bound : \E a : Rule(a, k)}
<1>0. \A a, b, n : a[n - 1] = b[n - 1] => step(a, n) = step(b, n)
  BY DEF ReplayStep
<1>1. 0 \in known
  <2> DEFINE a == [n \in 0..0 |-> p]
  <2>1. \A n \in 0..0 : step(a, n) = p
    BY DEF ReplayStep
  <2>2. Rule(a, 0)
    <3> HIDE DEF step
    <3> QED
      BY <2>1
  <2> HIDE DEF Rule, a
  <2> QED
    BY <2>2
<1> HIDE DEF step
<1>2. ASSUME NEW k \in 0..bound, k \in known, k < bound PROVE k + 1 \in known
  <2>1. PICK a : Rule(a, k)
    BY <1>2
  <2> DEFINE b == [n \in 0..(k + 1) |-> IF n <= k THEN a[n] ELSE step(a, k + 1)]
  <2>2. \A n \in 0..(k + 1) : b[n] = step(b, n)
    <3>1. \A n \in 0..k : b[n] = a[n] /\ a[n] = step(a, n)
      BY <2>1
    <3>2. b[k + 1] = step(a, k + 1)
      OBVIOUS
    <3>3. \A n \in 0..(k + 1) : n = 0 \/ (n - 1 \in 0..k /\ b[n - 1] = a[n - 1])
      BY <3>1
    <3>4. step(b, 0) = step(a, 0)
      BY DEF step, ReplayStep
    <3>5. \A n \in 0..(k + 1) : step(b, n) = step(a, n)
      BY <1>0, <3>3, <3>4
    <3>6. \A n \in 0..(k + 1) : n \in 0..k \/ n = k + 1
      OBVIOUS
    <3> HIDE DEF b
    <3> QED
      BY <3>1, <3>2, <3>5, <3>6
  <2>3. b = [n \in 0..(k + 1) |-> b[n]]
    OBVIOUS
  <2> HIDE DEF b
  <2>4. Rule(b, k + 1)
    BY <2>2, <2>3
  <2>5. k + 1 \in 0..bound
    BY <1>2
  <2> HIDE DEF Rule
  <2> QED
    BY <2>4, <2>5
<1> HIDE DEF known
<1>3. bound \in known
  <2>1. bound \in Nat
    OBVIOUS
  <2> HIDE DEF bound
  <2>2. 0..bound \subseteq known
    BY <1>1, <1>2, <2>1, UpTo
  <2> QED
    BY <2>1, <2>2
<1>4. \E a : ReplayRule(a, p, events, at, symbol)
  BY <1>3 DEF known, ReplayRule, step
<1> QED
  BY <1>4 DEF Positions

\* One event of a replay.
LEMMA PositionsStep ==
  ASSUME NEW p, NEW events, NEW at, NEW symbol, Len(events) \in Nat
  PROVE  /\ Positions(p, events, at, symbol)[0] = p
         /\ \A n \in 1..Len(events) :
              Positions(p, events, at, symbol)[n] =
                IF TakesPart(events, at, symbol, n)
                THEN PositionAfter(Positions(p, events, at, symbol)[n - 1], events[n])
                ELSE Positions(p, events, at, symbol)[n - 1]
<1> DEFINE a == Positions(p, events, at, symbol)
<1>1. ReplayRule(a, p, events, at, symbol)
  BY ReplayIsDefined
<1> HIDE DEF a
<1>2. \A n \in 0..Len(events) : a[n] = ReplayStep(a, p, events, at, symbol, n)
  BY <1>1 DEF ReplayRule
<1>3. a[0] = p
  BY <1>2 DEF ReplayStep
<1>4. \A n \in 1..Len(events) : a[n] = IF TakesPart(events, at, symbol, n)
                THEN PositionAfter(a[n - 1], events[n]) ELSE a[n - 1]
  BY <1>2 DEF ReplayStep
<1> QED
  BY <1>3, <1>4 DEF a

\* Where nothing takes part, the position stays.
LEMMA PositionsStay ==
  ASSUME NEW p, NEW events, NEW at, NEW symbol, Len(events) \in Nat,
         NEW m \in 0..Len(events), \A n \in (m + 1)..Len(events) : ~TakesPart(events, at, symbol, n)
  PROVE  Replay(p, events, at, symbol) = Positions(p, events, at, symbol)[m]
<1> DEFINE a == Positions(p, events, at, symbol)
           bound == Len(events)
           known == {k \in 0..bound : k < m \/ a[k] = a[m]}
<1>1. 0 \in known
  OBVIOUS
<1>2. ASSUME NEW k \in 0..bound, k \in known, k < bound PROVE k + 1 \in known
  <2>1. k + 1 \in 1..bound /\ (k + 1) - 1 = k
    BY <1>2
  <2>2. CASE k + 1 < m
    BY <2>1, <2>2
  <2>3. CASE k + 1 = m
    BY <2>1, <2>3
  <2>4. CASE k + 1 > m
    <3>1. a[k] = a[m] /\ k + 1 \in (m + 1)..bound
      BY <1>2, <2>4
    <3>2. a[k + 1] = a[(k + 1) - 1]
      <4> HIDE DEF a, bound
      <4> QED
        BY <2>1, <3>1, PositionsStep DEF a, bound
    <3> HIDE DEF a
    <3> QED
      BY <2>1, <3>1, <3>2
  <2> QED
    BY <2>2, <2>3, <2>4
<1> HIDE DEF known
<1>3. bound \in known
  <2>1. bound \in Nat
    OBVIOUS
  <2> HIDE DEF bound
  <2>2. 0..bound \subseteq known
    BY <1>1, <1>2, <2>1, UpTo
  <2> QED
    BY <2>1, <2>2
<1>4. a[bound] = a[m]
  BY <1>3 DEF known
<1> QED
  BY <1>4, ReplayIs

\* The replay of no events leaves the position.
LEMMA ReplayNone ==
  ASSUME NEW p, NEW events, NEW symbol, Len(events) \in Nat
  PROVE  Replay(p, events, {}, symbol) = p
<1>1. \A n \in (0 + 1)..Len(events) : ~TakesPart(events, {}, symbol, n)
  BY DEF TakesPart
<1>2. 0 \in 0..Len(events)
  OBVIOUS
<1> QED
  BY <1>1, <1>2, PositionsStay, PositionsStep

\* The last of the events is the last to count.
LEMMA ReplayLast ==
  ASSUME NEW p, NEW events, NEW symbol, Len(events) \in Nat,
         NEW m \in 1..Len(events), NEW at, \A i \in at : i < m
  PROVE  Replay(p, events, at \union {m}, symbol)
           = IF events[m].symbol = symbol
             THEN PositionAfter(Replay(p, events, at, symbol), events[m])
             ELSE Replay(p, events, at, symbol)
<1> DEFINE a == Positions(p, events, at, symbol)
           b == Positions(p, events, at \union {m}, symbol)
           known == {k \in 0..(m - 1) : a[k] = b[k]}
<1>1. a[0] = p /\ b[0] = p
  BY PositionsStep
<1>2. \A n \in 1..Len(events) :
        /\ a[n] = IF TakesPart(events, at, symbol, n) THEN PositionAfter(a[n - 1], events[n]) ELSE a[n - 1]
        /\ b[n] = IF TakesPart(events, at \union {m}, symbol, n) THEN PositionAfter(b[n - 1], events[n]) ELSE b[n - 1]
  BY PositionsStep
<1>3. Replay(p, events, at, symbol) = a[m - 1]
  <2>1. m - 1 \in 0..Len(events) /\ \A n \in ((m - 1) + 1)..Len(events) : ~(n \in at)
    OBVIOUS
  <2>2. \A n \in ((m - 1) + 1)..Len(events) : ~TakesPart(events, at, symbol, n)
    BY <2>1 DEF TakesPart
  <2> DEFINE k == m - 1
  <2>3. k \in 0..Len(events) /\ \A n \in (k + 1)..Len(events) : ~TakesPart(events, at, symbol, n)
    BY <2>1, <2>2
  <2> HIDE DEF k
  <2>4. Replay(p, events, at, symbol) = Positions(p, events, at, symbol)[k]
    BY <2>3, PositionsStay
  <2>5. Replay(p, events, at, symbol) = a[k]
    BY <2>4
  <2> HIDE DEF a
  <2> QED
    BY <2>5 DEF k
<1>4. Replay(p, events, at \union {m}, symbol) = b[m]
  <2>1. m \in 0..Len(events) /\ \A n \in (m + 1)..Len(events) : ~(n \in at \union {m})
    OBVIOUS
  <2>2. \A n \in (m + 1)..Len(events) : ~TakesPart(events, at \union {m}, symbol, n)
    BY <2>1 DEF TakesPart
  <2> DEFINE both == at \union {m}
  <2>3. m \in 0..Len(events) /\ \A n \in (m + 1)..Len(events) : ~TakesPart(events, both, symbol, n)
    BY <2>1, <2>2
  <2> HIDE DEF both
  <2>4. Replay(p, events, both, symbol) = Positions(p, events, both, symbol)[m]
    BY <2>3, PositionsStay
  <2> QED
    BY <2>4 DEF both
<1> HIDE DEF a, b
<1>5. 0 \in known
  BY <1>1
<1>6. ASSUME NEW k \in 0..(m - 1), k \in known, k < m - 1 PROVE k + 1 \in known
  <2>1. k + 1 \in 1..Len(events) /\ k + 1 \in 0..(m - 1) /\ (k + 1) - 1 = k /\ k + 1 # m
    BY <1>6
  <2>2. TakesPart(events, at, symbol, k + 1) <=> TakesPart(events, at \union {m}, symbol, k + 1)
    BY <2>1 DEF TakesPart
  <2> QED
    BY <1>2, <1>6, <2>1, <2>2
<1> HIDE DEF known
<1>7. m - 1 \in known
  <2>1. m - 1 \in Nat
    OBVIOUS
  <2> QED
    BY <1>5, <1>6, <2>1, UpTo
<1>8. a[m - 1] = b[m - 1]
  BY <1>7 DEF known
<1>9. TakesPart(events, at \union {m}, symbol, m) <=> events[m].symbol = symbol
  BY DEF TakesPart
<1> QED
  BY <1>2, <1>3, <1>4, <1>8, <1>9

\* What is left of a replay goes on from where the first part ends.
LEMMA ReplayGoesOn ==
  ASSUME NEW p, NEW events, NEW symbol, Len(events) \in Nat,
         NEW A \in SUBSET (1..Len(events)), NEW B \in SUBSET (1..Len(events)),
         \A i \in A : \A j \in B : i < j
  PROVE  Replay(Replay(p, events, A, symbol), events, B, symbol) = Replay(p, events, A \union B, symbol)
<1> DEFINE q == Replay(p, events, A, symbol)
           upTo(k) == {i \in B : i <= k}
           known == {k \in 0..Len(events) :
                       Replay(q, events, upTo(k), symbol) = Replay(p, events, A \union upTo(k), symbol)}
<1>0. \A i \in B : i \in Int /\ 1 <= i /\ i <= Len(events)
  OBVIOUS
<1>1. 0 \in known
  <2>1. upTo(0) = {} /\ A \union {} = A
    <3>1. \A i \in B : ~(i <= 0)
      BY <1>0
    <3>2. {i \in B : i <= 0} = {}
      BY <3>1
    <3> QED
      BY <3>2
  <2>2. Replay(q, events, {}, symbol) = q
    BY ReplayNone
  <2> HIDE DEF q, upTo
  <2>3. Replay(q, events, upTo(0), symbol) = Replay(p, events, A \union upTo(0), symbol)
    BY <2>1, <2>2 DEF q
  <2> QED
    BY <2>3
<1>2. ASSUME NEW k \in 0..Len(events), k \in known, k < Len(events) PROVE k + 1 \in known
  <2> DEFINE m == k + 1
  <2>1. m \in 1..Len(events) /\ m \in 0..Len(events)
    BY <1>2
  <2>2. CASE m \notin B
    <3>1. upTo(m) = upTo(k)
      <4>1. \A i \in B : i <= m <=> i <= k
        BY <1>0, <2>2
      <4> QED
        BY <4>1
    <3> HIDE DEF m, upTo, q
    <3> QED
      BY <1>2, <2>1, <3>1 DEF m
  <2>3. CASE m \in B
    <3>1. upTo(m) = upTo(k) \union {m} /\ \A i \in upTo(k) : i < m
      <4>1. \A i \in B : (i <= m <=> i <= k \/ i = m) /\ (i <= k => i < m)
        BY <1>0
      <4> QED
        BY <2>3, <4>1
    <3>2. \A i \in A \union upTo(k) : i < m
      BY <2>3, <3>1
    <3>3. A \union (upTo(k) \union {m}) = (A \union upTo(k)) \union {m}
      OBVIOUS
    <3>4. Replay(q, events, upTo(k), symbol) = Replay(p, events, A \union upTo(k), symbol)
      BY <1>2
    <3> HIDE DEF m, upTo, q
    <3> DEFINE u == upTo(k)
               v == A \union upTo(k)
    <3>a. \A i \in u : i < m
      BY <3>1
    <3>b. \A i \in v : i < m
      BY <3>2
    <3> HIDE DEF u, v
    <3>5. Replay(q, events, u \union {m}, symbol) =
            IF events[m].symbol = symbol THEN PositionAfter(Replay(q, events, u, symbol), events[m])
            ELSE Replay(q, events, u, symbol)
      BY <2>1, <3>a, ReplayLast
    <3>6. Replay(p, events, v \union {m}, symbol) =
            IF events[m].symbol = symbol THEN PositionAfter(Replay(p, events, v, symbol), events[m])
            ELSE Replay(p, events, v, symbol)
      BY <2>1, <3>b, ReplayLast
    <3>7. Replay(q, events, u \union {m}, symbol) = Replay(p, events, v \union {m}, symbol)
      BY <3>4, <3>5, <3>6 DEF u, v
    <3>8. Replay(q, events, upTo(m), symbol) = Replay(p, events, A \union upTo(m), symbol)
      BY <3>1, <3>3, <3>7 DEF u, v
    <3> QED
      BY <2>1, <3>8 DEF m
  <2> QED
    BY <2>2, <2>3
<1>3. upTo(Len(events)) = B
  BY <1>0
<1> HIDE DEF known
<1>4. Len(events) \in known
  <2>1. 0..Len(events) \subseteq known
    BY <1>1, <1>2, UpTo
  <2> QED
    BY <2>1
<1> HIDE DEF upTo
<1> QED
  BY <1>3, <1>4 DEF known

\* Induction over a set of places in their order.
LEMMA GrowInOrder ==
  ASSUME NEW n \in Nat, NEW A \in SUBSET (1..n), NEW F, {} \in F,
         \A m \in A : \A T \in SUBSET A : (\A i \in T : i < m) /\ T \in F => T \union {m} \in F
  PROVE  A \in F
<1> DEFINE upTo(k) == {i \in A : i <= k}
           known == {k \in 0..n : upTo(k) \in F}
<1>0. \A i \in A : i \in Int /\ 1 <= i /\ i <= n
  OBVIOUS
<1>1. 0 \in known
  <2>1. \A i \in A : ~(i <= 0)
    BY <1>0
  <2>2. upTo(0) = {}
    BY <2>1
  <2> QED
    BY <2>2
<1>2. ASSUME NEW k \in 0..n, k \in known, k < n PROVE k + 1 \in known
  <2>1. k + 1 \in 0..n
    BY <1>2
  <2>2. CASE k + 1 \notin A
    <3>1. \A i \in A : i <= k + 1 <=> i <= k
      BY <1>0, <2>2
    <3>2. upTo(k + 1) = upTo(k)
      BY <3>1
    <3> QED
      BY <1>2, <2>1, <3>2
  <2>3. CASE k + 1 \in A
    <3>1. \A i \in A : (i <= k + 1 <=> i <= k \/ i = k + 1) /\ (i <= k => i < k + 1)
      BY <1>0
    <3>2. upTo(k + 1) = upTo(k) \union {k + 1} /\ (\A i \in upTo(k) : i < k + 1) /\ upTo(k) \in SUBSET A
      BY <2>3, <3>1
    <3> HIDE DEF upTo
    <3>3. upTo(k) \union {k + 1} \in F
      BY <1>2, <2>3, <3>2
    <3> QED
      BY <2>1, <3>2, <3>3
  <2> QED
    BY <2>2, <2>3
<1> HIDE DEF known
<1>3. n \in known
  BY <1>1, <1>2, UpTo
<1>4. upTo(n) = A
  BY <1>0
<1> HIDE DEF upTo
<1> QED
  BY <1>3, <1>4 DEF known

\* The beginning of a sequence has a length.
LEMMA BeginningIs ==
  ASSUME NEW n \in Nat, NEW A \in SUBSET (1..n), \A j \in A : \A i \in 1..n : i < j => i \in A
  PROVE  \E k \in 0..n : A = 1..k
<1> DEFINE F == {1..k : k \in 0..n}
<1>1. {} \in F
  <2>1. 1..0 = {} /\ 0 \in 0..n
    OBVIOUS
  <2> QED
    BY <2>1
<1> DEFINE G == {T \in SUBSET A : (\A j \in T : \A i \in 1..n : i < j => i \in T) => T \in F}
<1>2. ASSUME NEW m \in A, NEW T \in SUBSET A, \A i \in T : i < m, T \in G PROVE T \union {m} \in G
  <2>1. SUFFICES ASSUME \A j \in T \union {m} : \A i \in 1..n : i < j => i \in T \union {m}
                 PROVE  T \union {m} \in F
    OBVIOUS
  <2>2. T \union {m} = 1..m
    <3>1. \A i \in 1..m : i \in T \union {m}
      <4> TAKE i \in 1..m
      <4>1. i = m \/ (i \in 1..n /\ i < m)
        OBVIOUS
      <4> QED
        BY <2>1, <4>1
    <3>2. \A i \in T \union {m} : i \in 1..m
      BY <1>2
    <3> QED
      BY <3>1, <3>2
  <2>3. m \in 0..n
    OBVIOUS
  <2> QED
    BY <2>2, <2>3
<1>3. {} \in G
  BY <1>1
<1> HIDE DEF G
<1>4. A \in G
  BY <1>2, <1>3, GrowInOrder
<1>5. A \in F
  BY <1>4 DEF G
<1> QED
  BY <1>5

-----------------------------------------------------------------------------
(* Positions.                                                                  *)

IsPosition(p) ==
  p = [quantity |-> p.quantity, cost |-> p.cost, realized |-> p.realized] /\ p.quantity \in Int

\* Events as the repository takes them.
IsLedger(events) ==
  events \in Seq(LedgerEvent) /\ \A i \in DOMAIN events : events[i] \in Entries /\ IsValid(events[i])

\* What the events of a ledger are.
LEMMA EventIs ==
  ASSUME NEW events, IsLedger(events)
  PROVE  /\ Len(events) \in Nat /\ DOMAIN events = 1..Len(events)
         /\ \A i \in 1..Len(events) :
              /\ events[i] \in LedgerEvent /\ IsValid(events[i])
              /\ events[i].type \in EventType /\ events[i].quantity \in Nat /\ events[i].price \in Nat
              /\ events[i].amount \in Nat /\ events[i].date \in Nat
              /\ events[i].type \in {"buy", "sell", "split"} => events[i].symbol # "" /\ events[i].symbol \in Symbols
<1>1. Len(events) \in Nat /\ DOMAIN events = 1..Len(events)
  BY DEF IsLedger
<1>2. ASSUME NEW i \in 1..Len(events) PROVE events[i] \in LedgerEvent /\ events[i] \in Entries /\ IsValid(events[i])
  BY <1>1 DEF IsLedger
<1>3. \A e \in LedgerEvent : e.type \in EventType /\ e.quantity \in Nat /\ e.price \in Nat /\ e.amount \in Nat /\ e.date \in Nat
  BY DEF LedgerEvent
<1>4. \A e \in Entries : e.type \in {"buy", "sell", "split"} => e.symbol # "" /\ e.symbol \in Symbols
  BY PortfolioAssumption DEF Symbols
<1> QED
  BY <1>1, <1>2, <1>3, <1>4

\* The empty position is one.
LEMMA NoPositionIs == IsPosition(NoPosition) /\ NoPosition.quantity = 0
BY DEF IsPosition, NoPosition

\* A position stays one after an event, and its quantity follows the kind of the event.
LEMMA PositionAfterIs ==
  ASSUME NEW p, IsPosition(p), NEW e \in LedgerEvent
  PROVE  /\ IsPosition(PositionAfter(p, e))
         /\ e.type = "buy" => PositionAfter(p, e).quantity = p.quantity + e.quantity
         /\ e.type = "sell" => PositionAfter(p, e).quantity = p.quantity - e.quantity
         /\ e.type = "split" => PositionAfter(p, e) = [p EXCEPT !.quantity = @ * e.quantity]
                                /\ PositionAfter(p, e).quantity = p.quantity * e.quantity
         /\ e.type \notin {"buy", "sell", "split"} => PositionAfter(p, e) = p
<1>1. e.quantity \in Nat
  BY DEF LedgerEvent
<1>2. CASE e.type = "buy"
  <2> DEFINE c == Plus(p.cost, Whole(e.quantity * e.price))
  <2>1. PositionAfter(p, e) = [p EXCEPT !.quantity = @ + e.quantity, !.cost = c]
    BY <1>2 DEF PositionAfter
  <2> HIDE DEF c
  <2>2. PositionAfter(p, e) = [quantity |-> p.quantity + e.quantity, cost |-> c, realized |-> p.realized]
    BY <2>1 DEF IsPosition
  <2> QED
    BY <1>1, <1>2, <2>2 DEF IsPosition
<1>3. CASE e.type = "sell"
  <2>1. PICK c, r : PositionAfter(p, e) = [quantity |-> p.quantity - e.quantity, cost |-> c, realized |-> r]
    BY <1>3 DEF PositionAfter
  <2> QED
    BY <1>1, <1>3, <2>1 DEF IsPosition
<1>4. CASE e.type = "split"
  <2>1. PositionAfter(p, e) = [p EXCEPT !.quantity = @ * e.quantity]
    BY <1>4 DEF PositionAfter
  <2>2. PositionAfter(p, e) = [quantity |-> p.quantity * e.quantity, cost |-> p.cost, realized |-> p.realized]
    BY <2>1 DEF IsPosition
  <2>3. p.quantity * e.quantity \in Int
    BY <1>1 DEF IsPosition
  <2> QED
    BY <1>4, <2>1, <2>2, <2>3 DEF IsPosition
<1>5. CASE e.type \notin {"buy", "sell", "split"}
  BY <1>5 DEF PositionAfter
<1> QED
  BY <1>2, <1>3, <1>4, <1>5

\* A replay ends in a position.
LEMMA ReplayIsPosition ==
  ASSUME NEW events, IsLedger(events), NEW p, IsPosition(p), NEW symbol
  PROVE  \A A \in SUBSET (1..Len(events)) : IsPosition(Replay(p, events, A, symbol))
<1> TAKE A \in SUBSET (1..Len(events))
<1> DEFINE F == {T \in SUBSET A : IsPosition(Replay(p, events, T, symbol))}
<1>0. Len(events) \in Nat
  BY EventIs
<1>1. {} \in F
  <2> HIDE DEF IsPosition
  <2> QED
    BY <1>0, ReplayNone
<1>2. ASSUME NEW m \in A, NEW T \in SUBSET A, \A i \in T : i < m, T \in F PROVE T \union {m} \in F
  <2>a. \A i \in T : i < m
    BY <1>2
  <2>1. events[m] \in LedgerEvent /\ m \in 1..Len(events)
    BY EventIs
  <2> DEFINE q == Replay(p, events, T, symbol)
  <2>2. Replay(p, events, T \union {m}, symbol)
          = IF events[m].symbol = symbol THEN PositionAfter(q, events[m]) ELSE q
    <3> HIDE DEF F
    <3>1. \A at : (\A i \in at : i < m) => 
          Replay(p, events, at \union {m}, symbol)
        = IF events[m].symbol = symbol
          THEN PositionAfter(Replay(p, events, at, symbol), events[m])
          ELSE Replay(p, events, at, symbol)
      BY <1>0, <2>1, ReplayLast
    <3>2. (\A i \in T : i < m) => 
          Replay(p, events, T \union {m}, symbol)
        = IF events[m].symbol = symbol
          THEN PositionAfter(Replay(p, events, T, symbol), events[m])
          ELSE Replay(p, events, T, symbol)
      BY <3>1
    <3> QED
      BY <3>2, <2>a
  <2>3. IsPosition(q)
    BY <1>2
  <2> HIDE DEF q
  <2>4. IsPosition(Replay(p, events, T \union {m}, symbol))
    <3>1. IsPosition(PositionAfter(q, events[m]))
      BY <2>1, <2>3, PositionAfterIs
    <3> HIDE DEF IsPosition
    <3> QED
      BY <2>2, <2>3, <3>1
  <2> QED
    BY <2>4
<1> HIDE DEF F
<1>3. A \in F
  BY <1>0, <1>1, <1>2, GrowInOrder
<1> QED
  BY <1>3 DEF F

\* A ledger whose sales are covered never owes a share.
LEMMA CoveredIsHeld ==
  ASSUME NEW events, IsLedger(events), Covered(events), NEW symbol
  PROVE  \A k \in 0..Len(events) : QuantityOf(events, 1..k, symbol) \in Nat
<1> DEFINE known == {k \in 0..Len(events) : QuantityOf(events, 1..k, symbol) \in Nat}
<1>0. Len(events) \in Nat /\ DOMAIN events = 1..Len(events)
  BY EventIs
<1>1. 0 \in known
  <2>1. 1..0 = {} /\ 0 \in 0..Len(events)
    BY <1>0
  <2>2. QuantityOf(events, {}, symbol) = 0
    BY <1>0, ReplayNone, NoPositionIs DEF QuantityOf
  <2> QED
    BY <2>1, <2>2
<1>2. ASSUME NEW k \in 0..Len(events), k \in known, k < Len(events) PROVE k + 1 \in known
  <2> DEFINE m == k + 1
             A == 1..k
             p == Replay(NoPosition, events, A, symbol)
             e == events[m]
  <2>1. m \in 1..Len(events) /\ A \in SUBSET (1..Len(events)) /\ 1..m = A \union {m} /\ m - 1 = k
        /\ (\A i \in A : i < m) /\ m \in 0..Len(events)
    BY <1>0, <1>2
  <2>2. p.quantity \in Nat
    BY <1>2 DEF QuantityOf
  <2>3. IsPosition(p)
    <3> HIDE DEF A, IsPosition
    <3> QED
      BY <2>1, ReplayIsPosition, NoPositionIs
  <2>4. /\ e \in LedgerEvent /\ e.quantity \in Nat
        /\ e.type = "sell" /\ e.symbol = symbol => e.quantity <= p.quantity
    <3>1. e \in LedgerEvent /\ e.quantity \in Nat
      BY <2>1, EventIs
    <3>2. m \in DOMAIN events
      BY <1>0, <2>1
    <3>3. e.type = "sell" => e.quantity <= QuantityOf(events, 1..(m - 1), e.symbol)
      BY <3>2 DEF Covered
    <3> QED
      BY <2>1, <3>1, <3>3 DEF QuantityOf
  <2>5. Replay(NoPosition, events, A \union {m}, symbol)
          = IF e.symbol = symbol THEN PositionAfter(p, e) ELSE p
    <3> HIDE DEF A
    <3> QED
      BY <1>0, <2>1, ReplayLast
  <2> HIDE DEF p, e, IsPosition
  <2>6. e.symbol = symbol => PositionAfter(p, e).quantity \in Nat
    <3>1. SUFFICES ASSUME e.symbol = symbol PROVE PositionAfter(p, e).quantity \in Nat
      OBVIOUS
    <3>2. p.quantity * e.quantity \in Nat
      BY <2>2, <2>4
    <3> DEFINE q == PositionAfter(p, e)
    <3>3. /\ e.type = "buy" => q.quantity = p.quantity + e.quantity
          /\ e.type = "sell" => q.quantity = p.quantity - e.quantity
          /\ e.type = "split" => q.quantity = p.quantity * e.quantity
          /\ e.type \notin {"buy", "sell", "split"} => q = p
      BY <2>3, <2>4, PositionAfterIs
    <3> HIDE DEF q
    <3>4. q.quantity \in Nat
      BY <2>2, <2>4, <3>1, <3>2, <3>3
    <3> QED
      BY <3>4 DEF q
  <2>7. QuantityOf(events, 1..m, symbol) \in Nat
    BY <2>1, <2>2, <2>5, <2>6 DEF QuantityOf
  <2> QED
    BY <2>1, <2>7
<1> HIDE DEF known
<1>3. 0..Len(events) \subseteq known
  BY <1>0, <1>1, <1>2, UpTo
<1> QED
  BY <1>3 DEF known

\* What was never bought or sold is not held.
LEMMA UntradedIsNone ==
  ASSUME NEW events, IsLedger(events), NEW A \in SUBSET (1..Len(events)), NEW symbol,
         symbol \notin Traded(events, A)
  PROVE  Replay(NoPosition, events, A, symbol) = NoPosition
<1> DEFINE F == {T \in SUBSET A : Replay(NoPosition, events, T, symbol) = NoPosition}
<1>0. Len(events) \in Nat
  BY EventIs
<1>1. {} \in F
  BY <1>0, ReplayNone
<1>2. ASSUME NEW m \in A, NEW T \in SUBSET A, \A i \in T : i < m, T \in F PROVE T \union {m} \in F
  <2>a. \A i \in T : i < m
    BY <1>2
  <2>1. m \in 1..Len(events) /\ events[m] \in LedgerEvent /\ events[m].quantity \in Nat
    BY EventIs
  <2>2. events[m].symbol = symbol => events[m].type \notin {"buy", "sell"}
    BY DEF Traded
  <2>3. Replay(NoPosition, events, T \union {m}, symbol)
          = IF events[m].symbol = symbol THEN PositionAfter(NoPosition, events[m]) ELSE NoPosition
    <3> HIDE DEF F
    <3>1. \A at : (\A i \in at : i < m) =>
            Replay(NoPosition, events, at \union {m}, symbol)
              = IF events[m].symbol = symbol
                THEN PositionAfter(Replay(NoPosition, events, at, symbol), events[m])
                ELSE Replay(NoPosition, events, at, symbol)
      BY <1>0, <2>1, ReplayLast
    <3>2. (\A i \in T : i < m) =>
            Replay(NoPosition, events, T \union {m}, symbol)
              = IF events[m].symbol = symbol
                THEN PositionAfter(Replay(NoPosition, events, T, symbol), events[m])
                ELSE Replay(NoPosition, events, T, symbol)
      BY <3>1
    <3>3. Replay(NoPosition, events, T, symbol) = NoPosition
      BY <1>2 DEF F
    <3> QED
      BY <3>2, <3>3, <2>a
  <2>4. events[m].symbol = symbol => PositionAfter(NoPosition, events[m]) = NoPosition
    <3>1. CASE events[m].type = "split"
      <4>1. PositionAfter(NoPosition, events[m]) = [NoPosition EXCEPT !.quantity = @ * events[m].quantity]
        BY <2>1, <3>1, PositionAfterIs, NoPositionIs
      <4>2. 0 * events[m].quantity = 0
        BY <2>1
      <4> QED
        BY <4>1, <4>2 DEF NoPosition
    <3>2. CASE events[m].type # "split"
      BY <2>1, <2>2, <3>2, PositionAfterIs, NoPositionIs
    <3> QED
      BY <3>1, <3>2
  <2> QED
    BY <2>3, <2>4
<1> HIDE DEF F
<1>3. A \in F
  BY <1>0, <1>1, <1>2, GrowInOrder
<1> QED
  BY <1>3 DEF F

\* What is held from nothing was bought.
LEMMA HeldWasBought ==
  ASSUME NEW events, IsLedger(events), NEW A \in SUBSET (1..Len(events)), NEW symbol,
         NEW p, IsPosition(p), p.quantity <= 0,
         \A i \in A : ~(events[i].type = "buy" /\ events[i].symbol = symbol)
  PROVE  Replay(p, events, A, symbol).quantity <= 0
<1> DEFINE F == {T \in SUBSET A : Replay(p, events, T, symbol).quantity <= 0}
<1>0. Len(events) \in Nat
  BY EventIs
<1>1. {} \in F
  BY <1>0, ReplayNone
<1>2. ASSUME NEW m \in A, NEW T \in SUBSET A, \A i \in T : i < m, T \in F PROVE T \union {m} \in F
  <2>a. \A i \in T : i < m
    BY <1>2
  <2> DEFINE q == Replay(p, events, T, symbol)
             e == events[m]
  <2>1. m \in 1..Len(events) /\ e \in LedgerEvent /\ e.quantity \in Nat /\ e.type \in EventType
    BY EventIs
  <2>2. Replay(p, events, T \union {m}, symbol) = IF e.symbol = symbol THEN PositionAfter(q, e) ELSE q
    <3> HIDE DEF F, e
    <3>1. \A at : (\A i \in at : i < m) =>
            Replay(p, events, at \union {m}, symbol)
              = IF events[m].symbol = symbol
                THEN PositionAfter(Replay(p, events, at, symbol), events[m])
                ELSE Replay(p, events, at, symbol)
      BY <1>0, <2>1, ReplayLast
    <3>2. (\A i \in T : i < m) =>
            Replay(p, events, T \union {m}, symbol)
              = IF events[m].symbol = symbol
                THEN PositionAfter(Replay(p, events, T, symbol), events[m])
                ELSE Replay(p, events, T, symbol)
      BY <3>1
    <3> QED
      BY <3>2, <2>a DEF e
  <2>3. IsPosition(q) /\ q.quantity <= 0
    <3>1. T \in SUBSET (1..Len(events))
      OBVIOUS
    <3> HIDE DEF IsPosition
    <3> QED
      BY <1>2, <3>1, ReplayIsPosition
  <2>4. e.symbol = symbol => e.type # "buy"
    OBVIOUS
  <2> HIDE DEF q, e
  <2>5. e.symbol = symbol => PositionAfter(q, e).quantity <= 0
    <3>1. SUFFICES ASSUME e.symbol = symbol PROVE PositionAfter(q, e).quantity <= 0
      OBVIOUS
    <3> DEFINE r == PositionAfter(q, e)
    <3>2. /\ e.type = "sell" => r.quantity = q.quantity - e.quantity
          /\ e.type = "split" => r.quantity = q.quantity * e.quantity
          /\ e.type \notin {"buy", "sell", "split"} => r = q
      BY <2>1, <2>3, PositionAfterIs
    <3>3. q.quantity \in Int /\ q.quantity * e.quantity <= 0
      <4>1. q.quantity \in Int
        BY <2>3 DEF IsPosition
      <4> QED
        BY <2>1, <2>3, <4>1, SMTT(30)
    <3> HIDE DEF r
    <3>4. r.quantity <= 0
      BY <2>1, <2>3, <2>4, <3>1, <3>2, <3>3
    <3> QED
      BY <3>4 DEF r
  <2>6. Replay(p, events, T \union {m}, symbol).quantity <= 0
    BY <2>2, <2>3, <2>5
  <2> QED
    BY <2>6
<1> HIDE DEF F
<1>3. A \in F
  BY <1>0, <1>1, <1>2, GrowInOrder
<1> QED
  BY <1>3 DEF F

\* The order of a ledger.
Before(i) == {j \in DOMAIN ledger : Precedes(j, i)}
Place(n) == CHOOSE i \in DOMAIN ledger : Cardinality(Before(i)) = n - 1

\* sortLedgerEvents orders by date, kind and place: a strict total order.
LEMMA PrecedesIsOrder ==
  ASSUME IsLedger(ledger), NEW i \in DOMAIN ledger, NEW j \in DOMAIN ledger
  PROVE  /\ ~Precedes(i, i)
         /\ i = j \/ Precedes(i, j) \/ Precedes(j, i)
         /\ \A k \in DOMAIN ledger : Precedes(i, j) /\ Precedes(j, k) => Precedes(i, k)
<1>0. Len(ledger) \in Nat /\ DOMAIN ledger = 1..Len(ledger)
  BY EventIs
<1>1. \A k \in DOMAIN ledger : ledger[k].date \in Nat /\ k \in Nat
  <2>1. \A k \in 1..Len(ledger) : ledger[k].date \in Nat
    BY EventIs
  <2>2. \A k \in 1..Len(ledger) : k \in Nat
    BY <1>0
  <2> QED
    BY <1>0, <2>1, <2>2
<1>2. ~Precedes(i, i)
  BY <1>1 DEF Precedes
<1>3. i = j \/ Precedes(i, j) \/ Precedes(j, i)
  <2>1. ledger[i].date < ledger[j].date \/ ledger[i].date = ledger[j].date \/ ledger[j].date < ledger[i].date
    BY <1>1
  <2>2. i < j \/ i = j \/ j < i
    BY <1>1
  <2> QED
    BY <2>1, <2>2 DEF Precedes
<1>4. ASSUME NEW k \in DOMAIN ledger, Precedes(i, j), Precedes(j, k) PROVE Precedes(i, k)
  <2> DEFINE x == ledger[i].date
             y == ledger[j].date
             z == ledger[k].date
  <2>1. x \in Nat /\ y \in Nat /\ z \in Nat /\ i \in Nat /\ j \in Nat /\ k \in Nat
    BY <1>1
  <2>2. x < y \/ (x = y /\ ((ledger[i].type = "split" /\ ledger[j].type # "split")
                             \/ ((ledger[i].type = "split" <=> ledger[j].type = "split") /\ i < j)))
    BY <1>4 DEF Precedes
  <2>3. y < z \/ (y = z /\ ((ledger[j].type = "split" /\ ledger[k].type # "split")
                             \/ ((ledger[j].type = "split" <=> ledger[k].type = "split") /\ j < k)))
    BY <1>4 DEF Precedes
  <2>4. x < z \/ (x = z /\ ((ledger[i].type = "split" /\ ledger[k].type # "split")
                             \/ ((ledger[i].type = "split" <=> ledger[k].type = "split") /\ i < k)))
    <3> HIDE DEF x, y, z
    <3> QED
      BY <2>1, <2>2, <2>3
  <2> QED
    BY <2>4 DEF Precedes
<1> QED
  BY <1>2, <1>3, <1>4

\* What precedes has fewer events before it.
LEMMA RanksIncrease ==
  ASSUME IsLedger(ledger), NEW i \in DOMAIN ledger, NEW j \in DOMAIN ledger, Precedes(i, j)
  PROVE  Cardinality(Before(i)) < Cardinality(Before(j))
<1>0. Len(ledger) \in Nat /\ DOMAIN ledger = 1..Len(ledger)
  BY EventIs
<1>1. IsFiniteSet(DOMAIN ledger)
  BY <1>0, FS_Interval
<1>2. IsFiniteSet(Before(i)) /\ IsFiniteSet(Before(j))
  BY <1>1, FS_Subset DEF Before
<1>3. Before(i) \in SUBSET Before(j) /\ i \in Before(j) /\ i \notin Before(i)
  BY PrecedesIsOrder DEF Before
<1>4. Cardinality(Before(i)) <= Cardinality(Before(j)) /\ Cardinality(Before(i)) # Cardinality(Before(j))
  <2>1. Cardinality(Before(j)) = Cardinality(Before(i)) => Before(j) = Before(i)
    BY <1>2, <1>3, FS_Subset
  <2> QED
    BY <1>2, <1>3, <2>1, FS_Subset
<1>5. Cardinality(Before(i)) \in Nat /\ Cardinality(Before(j)) \in Nat
  BY <1>2, FS_CardinalityType
<1> QED
  BY <1>4, <1>5

\* Every place is taken by one event, in the order.
LEMMA PlaceIs ==
  ASSUME IsLedger(ledger)
  PROVE  /\ \A n \in DOMAIN ledger : Place(n) \in DOMAIN ledger /\ Cardinality(Before(Place(n))) = n - 1
         /\ \A i \in DOMAIN ledger : \E n \in DOMAIN ledger : Place(n) = i
         /\ \A n, m \in DOMAIN ledger : n < m => Precedes(Place(n), Place(m))
<1> DEFINE N == Len(ledger)
           D == DOMAIN ledger
           rank == [i \in D |-> Cardinality(Before(i)) + 1]
<1>0. N \in Nat /\ D = 1..N
  BY EventIs
<1>1. IsFiniteSet(D) /\ Cardinality(D) = N
  <2>1. IsFiniteSet(1..N) /\ Cardinality(1..N) = IF 1 > N THEN 0 ELSE N - 1 + 1
    BY <1>0, FS_Interval
  <2>2. (IF 1 > N THEN 0 ELSE N - 1 + 1) = N
    BY <1>0
  <2> HIDE DEF N, D
  <2> QED
    BY <1>0, <2>1, <2>2
<1>2. ASSUME NEW i \in D PROVE Cardinality(Before(i)) \in 0..(N - 1)
  <2>1. Before(i) \in SUBSET (D \ {i})
    BY PrecedesIsOrder DEF Before
  <2>2. IsFiniteSet(D \ {i}) /\ Cardinality(D \ {i}) = N - 1
    <3> HIDE DEF D
    <3> QED
      BY <1>1, FS_RemoveElement
  <2>3. Cardinality(Before(i)) <= N - 1 /\ IsFiniteSet(Before(i))
    <3> HIDE DEF D
    <3> QED
      BY <2>1, <2>2, FS_Subset
  <2>4. Cardinality(Before(i)) \in Nat
    BY <2>3, FS_CardinalityType
  <2> QED
    BY <1>0, <2>3, <2>4
<1>3. \A i, j \in D : Cardinality(Before(i)) = Cardinality(Before(j)) => i = j
  <2> SUFFICES ASSUME NEW i \in D, NEW j \in D, Cardinality(Before(i)) = Cardinality(Before(j)), i # j
               PROVE  FALSE
    OBVIOUS
  <2>1. Precedes(i, j) \/ Precedes(j, i)
    BY PrecedesIsOrder
  <2>2. Cardinality(Before(i)) < Cardinality(Before(j)) \/ Cardinality(Before(j)) < Cardinality(Before(i))
    BY <2>1, RanksIncrease
  <2> QED
    BY <1>2, <2>2
<1>4. rank \in [D -> D]
  <2>1. \A i \in D : rank[i] \in D
    <3> TAKE i \in D
    <3>1. Cardinality(Before(i)) \in 0..(N - 1)
      BY <1>2
    <3> HIDE DEF N, D
    <3>2. Cardinality(Before(i)) + 1 \in 1..N
      BY <1>0, <3>1
    <3> QED
      BY <1>0, <3>2
  <2> HIDE DEF D
  <2> QED
    BY <2>1
<1>5. rank \in Injection(D, D)
  <2>1. \A i, j \in D : rank[i] = rank[j] => i = j
    <3> TAKE i, j \in D
    <3>1. Cardinality(Before(i)) \in Nat /\ Cardinality(Before(j)) \in Nat
      BY <1>0, <1>2
    <3>2. rank[i] = Cardinality(Before(i)) + 1 /\ rank[j] = Cardinality(Before(j)) + 1
      OBVIOUS
    <3> HIDE DEF rank
    <3>3. rank[i] = rank[j] => Cardinality(Before(i)) = Cardinality(Before(j))
      BY <3>1, <3>2
    <3> QED
      BY <1>3, <3>3
  <2> HIDE DEF D, rank
  <2> QED
    BY <1>4, <2>1, Zenon DEF Injection, IsInjective
<1>6. rank \in Surjection(D, D)
  <2> HIDE DEF D, rank
  <2> QED
    BY <1>1, <1>5, FS_Injection
<1>7. ASSUME NEW n \in D PROVE Place(n) \in D /\ Cardinality(Before(Place(n))) = n - 1
  <2>1. PICK i \in D : rank[i] = n
    <3> HIDE DEF D, rank
    <3> QED
      BY <1>6 DEF Surjection
  <2>2. Cardinality(Before(i)) = n - 1
    <3>1. Cardinality(Before(i)) \in Nat /\ Cardinality(Before(i)) + 1 = n
      BY <1>0, <1>2, <2>1
    <3> QED
      BY <3>1
  <2> QED
    BY <2>2 DEF Place
<1>8. ASSUME NEW i \in D PROVE \E n \in D : Place(n) = i
  <2> DEFINE n == Cardinality(Before(i)) + 1
  <2>1. n \in D /\ n - 1 = Cardinality(Before(i))
    BY <1>0, <1>2
  <2>2. Place(n) \in D /\ Cardinality(Before(Place(n))) = Cardinality(Before(i))
    <3> HIDE DEF n
    <3> QED
      BY <1>7, <2>1
  <2>3. Place(n) = i
    BY <1>3, <2>2
  <2> QED
    BY <2>1, <2>3
<1>9. ASSUME NEW n \in D, NEW m \in D, n < m PROVE Precedes(Place(n), Place(m))
  <2> DEFINE i == Place(n)
             j == Place(m)
  <2>1. i \in D /\ j \in D /\ Cardinality(Before(i)) = n - 1 /\ Cardinality(Before(j)) = m - 1
    BY <1>7
  <2> HIDE DEF i, j
  <2>2. Cardinality(Before(i)) < Cardinality(Before(j)) /\ n \in Nat /\ m \in Nat
    BY <1>0, <1>9, <2>1
  <2>3. ~Precedes(j, i)
    <3>1. SUFFICES ASSUME Precedes(j, i) PROVE FALSE
      OBVIOUS
    <3>2. Cardinality(Before(j)) < Cardinality(Before(i))
      BY <2>1, <3>1, RanksIncrease
    <3> QED
      BY <2>1, <2>2, <3>2
  <2>4. i # j
    BY <2>1, <2>2
  <2>5. Precedes(i, j)
    BY <2>1, <2>3, <2>4, PrecedesIsOrder
  <2> QED
    BY <2>5 DEF i, j
<1> HIDE DEF D
<1>10. /\ \A n \in D : Place(n) \in D /\ Cardinality(Before(Place(n))) = n - 1
       /\ \A i \in D : \E n \in D : Place(n) = i
       /\ \A n, m \in D : n < m => Precedes(Place(n), Place(m))
  BY <1>7, <1>8, <1>9
<1> QED
  BY <1>10 DEF D

\* A ledger by date, a split before what else happens that day.
InOrder(events) ==
  \A i, j \in 1..Len(events) : i < j =>
    /\ events[i].date <= events[j].date
    /\ events[i].date = events[j].date /\ events[j].type = "split" => events[i].type = "split"

\* sortLedgerEvents puts the same events in order.
LEMMA SortedIs ==
  ASSUME IsLedger(ledger)
  PROVE  /\ IsLedger(Sorted) /\ Len(Sorted) = Len(ledger) /\ InOrder(Sorted)
         /\ \A i \in DOMAIN ledger : \E n \in DOMAIN Sorted : Sorted[n] = ledger[i]
         /\ \A n \in DOMAIN Sorted : \E i \in DOMAIN ledger : Sorted[n] = ledger[i]
<1>0. Len(ledger) \in Nat /\ DOMAIN ledger = 1..Len(ledger)
  BY EventIs
<1>1. Sorted = [n \in DOMAIN ledger |-> ledger[Place(n)]]
  BY DEF Sorted, Place, Before
<1>2. \A n \in DOMAIN ledger : Sorted[n] = ledger[Place(n)] /\ Place(n) \in DOMAIN ledger
  BY <1>1, PlaceIs
<1>3. IsLedger(Sorted) /\ Len(Sorted) = Len(ledger)
  <2>1. \A n \in 1..Len(ledger) : Sorted[n] \in LedgerEvent /\ Sorted[n] \in Entries /\ IsValid(Sorted[n])
    BY <1>0, <1>2, EventIs DEF IsLedger
  <2>2. Sorted = [n \in 1..Len(ledger) |-> Sorted[n]]
    BY <1>0, <1>1
  <2>3. Sorted \in [1..Len(ledger) -> LedgerEvent]
    BY <2>1, <2>2
  <2> HIDE DEF Sorted
  <2>4. Sorted \in Seq(LedgerEvent) /\ Len(Sorted) = Len(ledger) /\ DOMAIN Sorted = 1..Len(ledger)
    BY <1>0, <2>3
  <2> QED
    BY <2>1, <2>4 DEF IsLedger
<1>4. DOMAIN Sorted = DOMAIN ledger
  BY <1>1
<1>5. InOrder(Sorted)
  <2> SUFFICES ASSUME NEW i \in 1..Len(ledger), NEW j \in 1..Len(ledger), i < j
               PROVE  /\ Sorted[i].date <= Sorted[j].date
                      /\ Sorted[i].date = Sorted[j].date /\ Sorted[j].type = "split" => Sorted[i].type = "split"
    BY <1>3 DEF InOrder
  <2>1. Precedes(Place(i), Place(j)) /\ Place(i) \in DOMAIN ledger /\ Place(j) \in DOMAIN ledger
    BY <1>0, PlaceIs
  <2>2. Sorted[i] = ledger[Place(i)] /\ Sorted[j] = ledger[Place(j)]
    BY <1>0, <1>2
  <2>3. ledger[Place(i)].date \in Nat /\ ledger[Place(j)].date \in Nat
    BY <1>0, <2>1, EventIs
  <2> QED
    BY <2>1, <2>2, <2>3 DEF Precedes
<1>6. \A i \in DOMAIN ledger : \E n \in DOMAIN ledger : Sorted[n] = ledger[i]
  BY <1>2, PlaceIs
<1> QED
  BY <1>2, <1>3, <1>4, <1>5, <1>6

\* The least element of a set of naturals.
LEMMA LeastIs ==
  ASSUME NEW n \in Nat, NEW S \in SUBSET (0..n), S # {}
  PROVE  Min(S) \in S /\ \A y \in S : Min(S) <= y
<1>1. SUFFICES ASSUME \A x \in S : \E y \in S : ~(x <= y) PROVE FALSE
  BY DEF Min
<1> DEFINE known == {m \in 0..n : \A x \in S : x > m}
<1>2. 0 \in known
  <2>1. 0 \notin S
    BY <1>1
  <2> QED
    BY <2>1
<1>3. ASSUME NEW m \in 0..n, m \in known, m < n PROVE m + 1 \in known
  <2>1. \A x \in S : x \in Nat /\ x > m
    BY <1>3
  <2>2. m + 1 \notin S
    BY <1>1, <1>3, <2>1
  <2> QED
    BY <1>3, <2>1, <2>2
<1> HIDE DEF known
<1>4. n \in known
  BY <1>2, <1>3, UpTo
<1>5. PICK x \in S : TRUE
  OBVIOUS
<1>6. x > n /\ x \in 0..n
  BY <1>4, <1>5 DEF known
<1> QED
  BY <1>6

\* The greatest element of a set of naturals.
LEMMA GreatestIs ==
  ASSUME NEW n \in Nat, NEW S \in SUBSET (0..n), S # {}
  PROVE  Max(S) \in S /\ \A y \in S : y <= Max(S)
<1>1. SUFFICES ASSUME \A x \in S : \E y \in S : ~(x >= y) PROVE FALSE
  <2>1. \A x, y \in S : x >= y <=> y <= x
    OBVIOUS
  <2> QED
    BY <2>1 DEF Max
<1> DEFINE known == {m \in 0..n : \A x \in S : x < n - m}
<1>2. 0 \in known
  <2>1. n \notin S
    BY <1>1
  <2> QED
    BY <2>1
<1>3. ASSUME NEW m \in 0..n, m \in known, m < n PROVE m + 1 \in known
  <2>1. \A x \in S : x \in Nat /\ x < n - m
    BY <1>3
  <2>2. n - m - 1 \notin S
    BY <1>1, <1>3, <2>1
  <2> QED
    BY <1>3, <2>1, <2>2
<1> HIDE DEF known
<1>4. n \in known
  BY <1>2, <1>3, UpTo
<1>5. PICK x \in S : TRUE
  OBVIOUS
<1>6. x < n - n /\ x \in 0..n
  BY <1>4, <1>5 DEF known
<1> QED
  BY <1>6

-----------------------------------------------------------------------------
(* What the engine is given.                                                   *)

IsHistory(h) ==
  /\ IsLedger(h.events) /\ InOrder(h.events)
  /\ h.bars \in [DOMAIN h.bars -> [1..To -> Nat]]
  /\ DOMAIN h.bars = {h.events[i].symbol : i \in {j \in DOMAIN h.events :
                        h.events[j].type \in {"buy", "sell", "split"}}}
  /\ h.bench \in [1..To -> Nat]
  /\ \A split \in h.pending : split.date \in Nat

\* What the loader gives the engine is well formed.
LEMMA HistoryIs ==
  ASSUME IsLedger(ledger), NEW answer \in Histories
  PROVE  /\ IsHistory(History(answer)) /\ History(answer).events = Sorted
         /\ DOMAIN History(answer).bars \subseteq Symbols
<1> DEFINE h == History(answer)
<1>1. h.events = Sorted /\ h.bench = answer.bench /\ h.pending = PendingSplits(answer.splits)
      /\ h.bars = [symbol \in Requested |-> answer.bars[symbol]]
  BY DEF History
<1>2. answer \in Answers(1..To)
  BY PerformanceAssumption
<1>3. answer.bench \in [1..To -> Nat] /\ answer.bars \in [Symbols -> [1..To -> Nat]]
      /\ answer.splits \in SUBSET Entries
  BY <1>2 DEF Answers
<1>4. Requested \subseteq Symbols
  BY EventIs DEF Requested
<1>5. h.bars \in [DOMAIN h.bars -> [1..To -> Nat]] /\ DOMAIN h.bars = Requested
  <2>1. \A symbol \in Requested : answer.bars[symbol] \in [1..To -> Nat]
    BY <1>3, <1>4
  <2>2. DOMAIN h.bars = Requested
    BY <1>1
  <2>3. h.bars \in [Requested -> [1..To -> Nat]]
    BY <1>1, <2>1
  <2> HIDE DEF h
  <2> QED
    BY <2>2, <2>3
<1>6. Requested = {Sorted[i].symbol : i \in {j \in DOMAIN Sorted : Sorted[j].type \in {"buy", "sell", "split"}}}
  <2>1. /\ \A i \in DOMAIN ledger : \E n \in DOMAIN Sorted : Sorted[n] = ledger[i]
        /\ \A n \in DOMAIN Sorted : \E i \in DOMAIN ledger : Sorted[n] = ledger[i]
    BY SortedIs
  <2> HIDE DEF Sorted
  <2>2. ASSUME NEW s \in Requested
        PROVE  s \in {Sorted[i].symbol : i \in {j \in DOMAIN Sorted : Sorted[j].type \in {"buy", "sell", "split"}}}
    <3>1. PICK i \in DOMAIN ledger : ledger[i].type \in {"buy", "sell", "split"} /\ s = ledger[i].symbol
      BY DEF Requested
    <3>2. PICK n \in DOMAIN Sorted : Sorted[n] = ledger[i]
      BY <2>1
    <3> QED
      BY <3>1, <3>2
  <2>3. ASSUME NEW n \in DOMAIN Sorted, Sorted[n].type \in {"buy", "sell", "split"}
        PROVE  Sorted[n].symbol \in Requested
    <3>1. PICK i \in DOMAIN ledger : Sorted[n] = ledger[i]
      BY <2>1
    <3> QED
      BY <2>3, <3>1 DEF Requested
  <2> QED
    BY <2>2, <2>3
<1>7. \A split \in h.pending : split.date \in Nat
  <2>1. h.pending \subseteq Entries
    BY <1>1, <1>3 DEF PendingSplits
  <2>2. \A e \in Entries : e.date \in Nat
    BY PortfolioAssumption DEF LedgerEvent
  <2> QED
    BY <2>1, <2>2
<1>8. IsLedger(Sorted) /\ InOrder(Sorted)
  BY SortedIs
<1> HIDE DEF h
<1>9. IsHistory(h)
  BY <1>1, <1>3, <1>5, <1>6, <1>7, <1>8 DEF IsHistory
<1> QED
  BY <1>1, <1>4, <1>5, <1>9 DEF h

\* An event counts on the first valuation date not before its own, if there is one.
LEMMA ValuationDateIs ==
  ASSUME NEW h, NEW e, e.date \in Nat
  PROVE  LET v == ValuationDate(h, e) IN
         /\ v = 0 \/ (v \in ValuationDates(h) /\ v \in 1..To /\ v >= e.date)
         /\ \A d \in ValuationDates(h) : d >= e.date => v # 0 /\ v <= d
<1> DEFINE later == {d \in ValuationDates(h) : d >= e.date}
<1>0. To \in Nat
  BY PerformanceAssumption
<1>1. ValuationDates(h) \subseteq 1..To
  BY DEF ValuationDates
<1>2. ValuationDate(h, e) = IF later = {} THEN 0 ELSE Min(later)
  BY DEF ValuationDate
<1>3. CASE later = {}
  BY <1>1, <1>2, <1>3
<1>4. CASE later # {}
  <2>1. later \in SUBSET (0..To)
    BY <1>0, <1>1
  <2>2. Min(later) \in later /\ \A y \in later : Min(later) <= y
    <3> HIDE DEF later
    <3> QED
      BY <1>0, <1>4, <2>1, LeastIs
  <2>3. Min(later) \in ValuationDates(h) /\ Min(later) \in 1..To /\ Min(later) >= e.date
    BY <1>1, <2>2
  <2>4. Min(later) # 0
    BY <2>3
  <2>5. ValuationDate(h, e) = Min(later)
    BY <1>2, <1>4
  <2>6. \A d \in ValuationDates(h) : d >= e.date => Min(later) <= d
    BY <2>2
  <2> HIDE DEF later
  <2> QED
    BY <2>3, <2>4, <2>5, <2>6
<1> QED
  BY <1>3, <1>4

\* The events that count up to a date.
Counted(h, d) == {i \in DOMAIN h.events : ValuationDate(h, h.events[i]) \in 1..d}

\* The events that count up to a date are a beginning of the sorted ledger, and each date
\* adds its own behind the ones before.
LEMMA CountedIs ==
  ASSUME NEW h, IsHistory(h)
  PROVE  /\ Counted(h, 0) = {}
         /\ \A d \in 0..To : Counted(h, d) \in SUBSET (1..Len(h.events))
         /\ \A d \in 1..To : \A i \in Counted(h, d - 1) : \A j \in EventsOn(h, d) : i < j
         /\ \A d \in 1..To : Counted(h, d) = Counted(h, d - 1) \union EventsOn(h, d)
         /\ \A d \in (1..To) \ ValuationDates(h) : EventsOn(h, d) = {}
         /\ \A d \in 0..To : \E k \in 0..Len(h.events) : Counted(h, d) = 1..k
<1> DEFINE ev == h.events
           n == Len(ev)
           v(i) == ValuationDate(h, ev[i])
<1>0. To \in Nat /\ n \in Nat /\ DOMAIN ev = 1..n
  BY PerformanceAssumption, EventIs DEF IsHistory
<1>1. \A i \in 1..n : ev[i].date \in Nat
  BY EventIs DEF IsHistory
<1>2. \A i \in 1..n : /\ v(i) = 0 \/ (v(i) \in ValuationDates(h) /\ v(i) \in 1..To /\ v(i) >= ev[i].date)
                      /\ \A d \in ValuationDates(h) : d >= ev[i].date => v(i) # 0 /\ v(i) <= d
  <2> HIDE DEF ev, n
  <2> QED
    BY <1>1, ValuationDateIs
<1>3. \A i \in 1..n : v(i) \in 0..To
  <2> HIDE DEF v, n
  <2> QED
    BY <1>0, <1>2
<1>4. \A i, j \in 1..n : i < j /\ v(j) # 0 => v(i) # 0 /\ v(i) <= v(j)
  <2> TAKE i, j \in 1..n
  <2>1. i < j => ev[i].date <= ev[j].date
    BY DEF IsHistory, InOrder
  <2> HAVE i < j /\ v(j) # 0
  <2>2. v(j) \in ValuationDates(h) /\ v(j) >= ev[j].date /\ v(j) \in 1..To
    BY <1>2
  <2>3. v(j) >= ev[i].date
    <3>1. ev[i].date \in Nat /\ ev[j].date \in Nat
      BY <1>1
    <3> HIDE DEF v, ev, n
    <3> QED
      BY <2>1, <2>2, <3>1
  <2> HIDE DEF v, ev, n
  <2> QED
    BY <1>2, <2>2, <2>3
<1>5. \A d : /\ Counted(h, d) = {i \in 1..n : v(i) \in 1..d}
             /\ EventsOn(h, d) = {i \in 1..n : v(i) = d}
  BY <1>0 DEF Counted, EventsOn
<1> HIDE DEF v, n, ev
<1>6. Counted(h, 0) = {}
  BY <1>3, <1>5
<1>7. \A d \in 0..To : Counted(h, d) \in SUBSET (1..n)
  BY <1>5
<1>8. \A d \in 1..To : \A i \in Counted(h, d - 1) : \A j \in EventsOn(h, d) : i < j
  <2> TAKE d \in 1..To
  <2> TAKE i \in Counted(h, d - 1)
  <2> TAKE j \in EventsOn(h, d)
  <2>1. i \in 1..n /\ j \in 1..n /\ v(i) \in 1..(d - 1) /\ v(j) = d
    BY <1>5
  <2>2. i # j /\ (j < i => v(j) <= v(i))
    BY <1>4, <2>1
  <2> QED
    BY <1>0, <2>1, <2>2
<1>9. \A d \in 1..To : Counted(h, d) = Counted(h, d - 1) \union EventsOn(h, d)
  <2> TAKE d \in 1..To
  <2>1. \A i \in 1..n : v(i) \in 1..d <=> v(i) \in 1..(d - 1) \/ v(i) = d
    BY <1>3
  <2> QED
    BY <1>5, <2>1
<1>10. \A d \in (1..To) \ ValuationDates(h) : EventsOn(h, d) = {}
  <2> TAKE d \in (1..To) \ ValuationDates(h)
  <2>1. \A i \in 1..n : v(i) # d
    BY <1>2
  <2> QED
    BY <1>5, <2>1
<1>11. \A d \in 0..To : \E k \in 0..n : Counted(h, d) = 1..k
  <2> TAKE d \in 0..To
  <2> DEFINE A == Counted(h, d)
  <2>1. A \in SUBSET (1..n)
    BY <1>7
  <2>2. \A j \in A : \A i \in 1..n : i < j => i \in A
    <3> TAKE j \in A
    <3> TAKE i \in 1..n
    <3> HAVE i < j
    <3>1. j \in 1..n /\ v(j) \in 1..d
      BY <1>5
    <3>2. v(i) # 0 /\ v(i) <= v(j) /\ v(i) \in 0..To
      BY <1>3, <1>4, <3>1
    <3>3. v(i) \in 1..d
      BY <3>1, <3>2
    <3> QED
      BY <1>5, <3>3
  <2> HIDE DEF A
  <2>3. \E k \in 0..n : A = 1..k
    BY <1>0, <2>1, <2>2, BeginningIs
  <2> QED
    BY <2>3 DEF A
<1> QED
  BY <1>6, <1>7, <1>8, <1>9, <1>10, <1>11 DEF n, ev

-----------------------------------------------------------------------------
(* The loop over the dates.                                                    *)

InnerStep(after, h, d) ==
  IF d = 0 THEN Opening ELSE IF d \in ValuationDates(h) THEN Value(h, after[d - 1], d) ELSE after[d - 1]
InnerRule(after, h) == after = [d \in 0..To |-> InnerStep(after, h, d)]

\* The recursive function of the loop exists.
LEMMA InnerIsDefined ==
  ASSUME NEW h
  PROVE  /\ Inner(h)[0] = Opening
         /\ \A d \in 1..To : Inner(h)[d] = IF d \in ValuationDates(h) THEN Value(h, Inner(h)[d - 1], d)
                                           ELSE Inner(h)[d - 1]
<1> DEFINE step(a, d) == InnerStep(a, h, d)
           Rule(a, k) == a = [d \in 0..k |-> step(a, d)]
           known == {k \in 0..To : \E a : Rule(a, k)}
<1>0. \A a, b, d : a[d - 1] = b[d - 1] => step(a, d) = step(b, d)
  BY DEF InnerStep
<1>a. To \in Nat
  BY PerformanceAssumption
<1>1. 0 \in known
  <2> DEFINE a == [d \in 0..0 |-> Opening]
  <2>1. \A d \in 0..0 : step(a, d) = Opening
    BY DEF InnerStep
  <2>2. Rule(a, 0)
    <3> HIDE DEF step
    <3> QED
      BY <2>1
  <2> HIDE DEF Rule, a
  <2> QED
    BY <1>a, <2>2
<1> HIDE DEF step
<1>2. ASSUME NEW k \in 0..To, k \in known, k < To PROVE k + 1 \in known
  <2>1. PICK a : Rule(a, k)
    BY <1>2
  <2> DEFINE b == [d \in 0..(k + 1) |-> IF d <= k THEN a[d] ELSE step(a, k + 1)]
  <2>2. \A d \in 0..(k + 1) : b[d] = step(b, d)
    <3>1. \A d \in 0..k : b[d] = a[d] /\ a[d] = step(a, d)
      BY <2>1
    <3>2. b[k + 1] = step(a, k + 1)
      OBVIOUS
    <3>3. \A d \in 0..(k + 1) : d = 0 \/ (d - 1 \in 0..k /\ b[d - 1] = a[d - 1])
      BY <3>1
    <3>4. step(b, 0) = step(a, 0)
      BY DEF step, InnerStep
    <3>5. \A d \in 0..(k + 1) : step(b, d) = step(a, d)
      BY <1>0, <3>3, <3>4
    <3>6. \A d \in 0..(k + 1) : d \in 0..k \/ d = k + 1
      OBVIOUS
    <3> HIDE DEF b
    <3> QED
      BY <3>1, <3>2, <3>5, <3>6
  <2>3. b = [d \in 0..(k + 1) |-> b[d]]
    OBVIOUS
  <2> HIDE DEF b
  <2>4. Rule(b, k + 1)
    BY <2>2, <2>3
  <2>5. k + 1 \in 0..To
    BY <1>a, <1>2
  <2> HIDE DEF Rule
  <2> QED
    BY <2>4, <2>5
<1> HIDE DEF known
<1>3. To \in known
  <2>1. 0..To \subseteq known
    BY <1>a, <1>1, <1>2, UpTo
  <2> QED
    BY <1>a, <2>1
<1>4. \E a : InnerRule(a, h)
  BY <1>3 DEF known, InnerRule, step
<1>5. Inner(h) = CHOOSE a : InnerRule(a, h)
  BY DEF Inner, InnerRule, InnerStep
<1>6. InnerRule(Inner(h), h)
  BY <1>4, <1>5
<1>7. \A d \in 0..To : Inner(h)[d] = InnerStep(Inner(h), h, d)
  BY <1>6 DEF InnerRule
<1>8. Inner(h)[0] = Opening
  BY <1>a, <1>7 DEF InnerStep
<1>9. \A d \in 1..To : d \in 0..To /\ d # 0
  OBVIOUS
<1> QED
  BY <1>7, <1>8, <1>9 DEF InnerStep

-----------------------------------------------------------------------------
(* One turn of the loop, stage by stage.                                       *)

TurnAt(h, s, d) == Marked(h, s, d, EventsOn(h, d), Replayed(h, s, EventsOn(h, d)))
TurnValue(h, s, d) == Valued(h, s, d, TurnAt(h, s, d))
TurnCapital(h, s, d) == Capital(h, s, d, TurnAt(h, s, d), TurnValue(h, s, d))
TurnReturn(h, s, d) == ReturnOn(h, TurnCapital(h, s, d), TurnAt(h, s, d), TurnValue(h, s, d))
TurnLink(h, s, d) == Chained(h, s, d, TurnReturn(h, s, d))
TurnDay(h, s, d) ==
  Day(h, s, d, TurnAt(h, s, d), TurnValue(h, s, d), TurnCapital(h, s, d), TurnLink(h, s, d))

\* A turn of the loop in its named stages.
LEMMA ValueIs ==
  ASSUME NEW h, NEW s, NEW d
  PROVE  Value(h, s, d) =
           After(h, s, d, TurnAt(h, s, d), TurnValue(h, s, d), TurnCapital(h, s, d), TurnLink(h, s, d))
BY DEF Value, TurnAt, TurnValue, TurnCapital, TurnLink, TurnReturn

\* What a turn leaves for the next one.
LEMMA TurnGoesOn ==
  ASSUME NEW h, NEW s, NEW d
  PROVE  /\ Value(h, s, d).cash = TurnValue(h, s, d).cash
         /\ Value(h, s, d).positions = TurnAt(h, s, d).positions
         /\ Value(h, s, d).marks = TurnAt(h, s, d).marks
         /\ Value(h, s, d).total = TurnValue(h, s, d).total
         /\ Value(h, s, d).valuedAt = IF TurnValue(h, s, d).total = None THEN 3 ELSE 3 * d + 1
         /\ Value(h, s, d).valued = (s.valued \/ TurnValue(h, s, d).total # None)
         /\ Value(h, s, d).entered = (s.entered \/ TurnLink(h, s, d).entering)
         /\ Value(h, s, d).start = IF TurnValue(h, s, d).total = None THEN 0
                                   ELSE IF TurnLink(h, s, d).fresh THEN d ELSE s.start
         /\ Value(h, s, d).growth = TurnLink(h, s, d).growth
         /\ Value(h, s, d).peak = TurnLink(h, s, d).peak
         /\ Value(h, s, d).days = IF d >= From THEN Append(s.days, TurnDay(h, s, d)) ELSE s.days
BY ValueIs DEF After, TurnDay

\* The events, positions and closes of a turn.
LEMMA TurnAtIs ==
  ASSUME NEW h, NEW s, NEW d
  PROVE  /\ TurnAt(h, s, d).events = EventsOn(h, d)
         /\ TurnAt(h, s, d).positions = Replayed(h, s, EventsOn(h, d))
         /\ TurnAt(h, s, d).marks = [symbol \in DOMAIN Replayed(h, s, EventsOn(h, d)) |->
                MarkedAt(MarkBefore(s, symbol), h.bars[symbol][d],
                         Replayed(h, s, EventsOn(h, d))[symbol].quantity,
                         BoughtFor(h, EventsOn(h, d), symbol))]
BY DEF TurnAt, Marked

-----------------------------------------------------------------------------
(* The money of the loop.                                                      *)

Effective(h, at) == {i \in at : h.events[i].type # "dividend" \/ h.events[i].symbol # ""}
Mark == [last : Nat, age : Nat, known : BOOLEAN, carried : BOOLEAN]

\* The state after the events of the dates so far: its cash, positions and closes.
LoopHolds(h, s, d) ==
  /\ s.cash = InitialCash + Sum(h.events, Effective(h, Counted(h, d)), CashEffect)
  /\ s.positions = [x \in Traded(h.events, Counted(h, d)) |-> Replay(NoPosition, h.events, Counted(h, d), x)]
  /\ s.marks \in [Traded(h.events, Counted(h, d)) -> Mark]

\* Each event changes the cash by an integer.
LEMMA CashEffectIs ==
  \A e \in LedgerEvent : CashEffect(e) \in Int
<1> TAKE e \in LedgerEvent
<1>1. e.quantity \in Nat /\ e.price \in Nat /\ e.amount \in Nat
  BY DEF LedgerEvent
<1>2. e.quantity * e.price \in Int
  BY <1>1
<1> QED
  BY <1>1, <1>2 DEF CashEffect

\* Sums over the events of a ledger.
LEMMA EventSum ==
  ASSUME NEW events, IsLedger(events)
  PROVE  /\ IsFiniteSet(1..Len(events))
         /\ \A A \in SUBSET (1..Len(events)) : IsFiniteSet(A)
         /\ \A A : Sum(events, A, CashEffect) = SumFunctionOnSet([i \in DOMAIN events |-> CashEffect(events[i])], A)
         /\ \A i \in 1..Len(events) : [k \in DOMAIN events |-> CashEffect(events[k])][i] \in Int
<1>1. IsFiniteSet(1..Len(events))
  <2>1. Len(events) \in Int
    <3>1. Len(events) \in Nat
      BY EventIs
    <3> QED
      BY <3>1
  <2> QED
    BY <2>1, FS_Interval
<1>2. \A A \in SUBSET (1..Len(events)) : IsFiniteSet(A)
  BY <1>1, FS_Subset
<1>3. \A A : Sum(events, A, CashEffect) = SumFunctionOnSet([i \in DOMAIN events |-> CashEffect(events[i])], A)
  BY DEF Sum
<1>4. \A i \in 1..Len(events) : [k \in DOMAIN events |-> CashEffect(events[k])][i] \in Int
  BY EventIs, CashEffectIs
<1> QED
  BY <1>1, <1>2, <1>3, <1>4

\* The cash of two parts of a ledger adds up.
LEMMA CashSumIs ==
  ASSUME NEW events, IsLedger(events),
         NEW A \in SUBSET (1..Len(events)), NEW B \in SUBSET (1..Len(events)), A \intersect B = {}
  PROVE  /\ Sum(events, A, CashEffect) \in Int
         /\ Sum(events, A \union B, CashEffect) = Sum(events, A, CashEffect) + Sum(events, B, CashEffect)
<1> DEFINE f == [i \in DOMAIN events |-> CashEffect(events[i])]
           S == 1..Len(events)
<1>1. IsFiniteSet(S) /\ \A i \in S : f[i] \in Int
  BY EventSum
<1>2. \A T : Sum(events, T, CashEffect) = SumFunctionOnSet(f, T)
  BY EventSum
<1> HIDE DEF f, S
<1>3. A \in SUBSET S /\ B \in SUBSET S
  BY DEF S
<1>4. SumFunctionOnSet(f, A) \in Int
  BY <1>1, <1>3, SumIsInt
<1>5. SumFunctionOnSet(f, A \union B) = SumFunctionOnSet(f, A) + SumFunctionOnSet(f, B)
  <2>1. \A X, Y \in SUBSET S : X \intersect Y = {} =>
          SumFunctionOnSet(f, X \union Y) = SumFunctionOnSet(f, X) + SumFunctionOnSet(f, Y)
    BY <1>1, SumUnion
  <2> QED
    BY <1>3, <2>1
<1> QED
  BY <1>2, <1>4, <1>5

\* The price a symbol was bought for is there, and positive, when it was bought.
LEMMA BoughtForIs ==
  ASSUME NEW h, IsHistory(h), NEW B \in SUBSET (1..Len(h.events)), NEW x
  PROVE  /\ BoughtFor(h, B, x) \in Nat
         /\ (\E i \in B : h.events[i].type = "buy" /\ h.events[i].symbol = x) => BoughtFor(h, B, x) > 0
<1> DEFINE buys == {i \in OfSymbol(h, B, x) : h.events[i].type = "buy"}
<1>1. IsLedger(h.events)
  BY DEF IsHistory
<1>2. Len(h.events) \in Nat
  BY <1>1, EventIs
<1>3. BoughtFor(h, B, x) = IF buys = {} THEN 0 ELSE h.events[Max(buys)].price
  BY DEF BoughtFor
<1>4. buys # {} => Max(buys) \in buys
  <2>1. buys \in SUBSET (0..Len(h.events))
    <3>1. \A i \in buys : i \in B
      BY DEF OfSymbol
    <3>2. \A i \in B : i \in 0..Len(h.events)
      BY <1>2
    <3> QED
      BY <3>1, <3>2
  <2> HIDE DEF buys
  <2> QED
    BY <1>2, <2>1, GreatestIs
<1>5. \A i \in buys : h.events[i].price \in Nat \ {0}
  <2> TAKE i \in buys
  <2>1. i \in 1..Len(h.events) /\ h.events[i].type = "buy"
    BY DEF OfSymbol
  <2>2. h.events[i].price \in Nat /\ IsValid(h.events[i])
    BY <1>1, <2>1, EventIs
  <2> QED
    BY <2>1, <2>2 DEF IsValid
<1>6. (\E i \in B : h.events[i].type = "buy" /\ h.events[i].symbol = x) => buys # {}
  BY DEF OfSymbol
<1> HIDE DEF buys
<1> QED
  BY <1>3, <1>4, <1>5, <1>6

\* The close of a symbol stays one.
LEMMA MarkedAtIs ==
  ASSUME NEW m \in Mark, NEW bar \in Nat, NEW quantity \in Int, NEW bought \in Nat
  PROVE  MarkedAt(m, bar, quantity, bought) \in Mark
<1>1. CASE bar > 0
  BY <1>1 DEF MarkedAt, Mark
<1>2. CASE bar = 0 /\ quantity > 0 /\ m.last = 0 /\ bought > 0
  BY <1>2 DEF MarkedAt, Mark
<1>3. CASE bar = 0 /\ quantity > 0 /\ m.last > 0 /\ m.age < CarryLimit
  <2>1. MarkedAt(m, bar, quantity, bought) = [m EXCEPT !.age = @ + 1, !.known = TRUE, !.carried = TRUE]
    BY <1>3 DEF MarkedAt, Mark
  <2>2. /\ m = [last |-> m.last, age |-> m.age, known |-> m.known, carried |-> m.carried]
        /\ m.last \in Nat /\ m.age \in Nat
    BY DEF Mark
  <2>3. MarkedAt(m, bar, quantity, bought)
          = [last |-> m.last, age |-> m.age + 1, known |-> TRUE, carried |-> TRUE]
    BY <2>1, <2>2
  <2> QED
    BY <2>2, <2>3 DEF Mark
<1>4. CASE ~(bar > 0) /\ ~(bar = 0 /\ quantity > 0 /\ m.last = 0 /\ bought > 0)
           /\ ~(bar = 0 /\ quantity > 0 /\ m.last > 0 /\ m.age < CarryLimit)
  <2>1. MarkedAt(m, bar, quantity, bought) = [m EXCEPT !.known = FALSE, !.carried = FALSE]
    BY <1>4 DEF MarkedAt
  <2> QED
    BY <2>1 DEF Mark
<1> QED
  BY <1>1, <1>2, <1>3, <1>4

\* The positions after a turn are those of the longer beginning of the ledger.
LEMMA TurnPositions ==
  ASSUME NEW h, IsHistory(h), NEW s, NEW d \in 1..To, LoopHolds(h, s, d - 1)
  PROVE  /\ Replayed(h, s, EventsOn(h, d)) =
              [x \in Traded(h.events, Counted(h, d)) |-> Replay(NoPosition, h.events, Counted(h, d), x)]
         /\ \A x : PositionBefore(s, x) = Replay(NoPosition, h.events, Counted(h, d - 1), x)
         /\ Traded(h.events, Counted(h, d)) = DOMAIN s.positions \union Traded(h.events, EventsOn(h, d))
         /\ Traded(h.events, Counted(h, d)) \subseteq DOMAIN h.bars
<1> DEFINE ev == h.events
           A == Counted(h, d - 1)
           B == EventsOn(h, d)
           C == Counted(h, d)
<1>0. IsLedger(ev) /\ Len(ev) \in Nat /\ DOMAIN ev = 1..Len(ev)
  BY EventIs DEF IsHistory
<1>a. d - 1 \in 0..To /\ d \in 0..To
  BY PerformanceAssumption
<1>1. /\ A \in SUBSET (1..Len(ev)) /\ C \in SUBSET (1..Len(ev)) /\ C = A \union B
      /\ \A i \in A : \A j \in B : i < j
  BY <1>a, CountedIs
<1> HIDE DEF A, B, C, ev
<1>2. B \in SUBSET (1..Len(ev))
  BY <1>1
<1>3. s.positions = [x \in Traded(ev, A) |-> Replay(NoPosition, ev, A, x)]
  BY DEF LoopHolds, A, ev
<1>4. \A x : PositionBefore(s, x) = Replay(NoPosition, ev, A, x)
  <2> TAKE x
  <2>1. CASE x \in Traded(ev, A)
    BY <1>3, <2>1 DEF PositionBefore
  <2>2. CASE x \notin Traded(ev, A)
    <3>1. PositionBefore(s, x) = NoPosition
      BY <1>3, <2>2 DEF PositionBefore
    <3>2. Replay(NoPosition, ev, A, x) = NoPosition
      BY <1>0, <1>1, <2>2, UntradedIsNone
    <3> QED
      BY <3>1, <3>2
  <2> QED
    BY <2>1, <2>2
<1>5. Traded(ev, C) = Traded(ev, A) \union Traded(ev, B)
  BY <1>1 DEF Traded
<1>6. DOMAIN s.positions = Traded(ev, A)
  BY <1>3
<1>7. \A x : Replay(PositionBefore(s, x), ev, B, x) = Replay(NoPosition, ev, C, x)
  <2> TAKE x
  <2>1. Replay(Replay(NoPosition, ev, A, x), ev, B, x) = Replay(NoPosition, ev, A \union B, x)
    BY <1>0, <1>1, <1>2, ReplayGoesOn
  <2>2. PositionBefore(s, x) = Replay(NoPosition, ev, A, x)
    BY <1>4
  <2> QED
    BY <1>1, <2>1, <2>2
<1>8. Replayed(h, s, B) = [x \in Traded(ev, C) |-> Replay(PositionBefore(s, x), ev, B, x)]
  BY <1>5, <1>6 DEF Replayed, ev
<1>9. Replayed(h, s, B) = [x \in Traded(ev, C) |-> Replay(NoPosition, ev, C, x)]
  BY <1>7, <1>8
<1>10. Traded(ev, C) \subseteq DOMAIN h.bars
  <2> SUFFICES ASSUME NEW i \in C, ev[i].type \in {"buy", "sell"} PROVE ev[i].symbol \in DOMAIN h.bars
    BY DEF Traded
  <2>1. i \in DOMAIN ev
    BY <1>0, <1>1
  <2> QED
    BY <2>1 DEF IsHistory, ev
<1> QED
  BY <1>4, <1>5, <1>6, <1>9, <1>10 DEF ev, A, B, C

\* The closes of a turn, symbol by symbol.
LEMMA TurnMarks ==
  ASSUME NEW h, IsHistory(h), NEW s, NEW d \in 1..To, LoopHolds(h, s, d - 1)
  PROVE  /\ TurnAt(h, s, d).marks \in [Traded(h.events, Counted(h, d)) -> Mark]
         /\ \A x : MarkBefore(s, x) \in Mark
         /\ \A x \in Traded(h.events, Counted(h, d)) :
              /\ h.bars[x][d] \in Nat
              /\ TurnAt(h, s, d).marks[x] =
                   MarkedAt(MarkBefore(s, x), h.bars[x][d],
                            Replay(NoPosition, h.events, Counted(h, d), x).quantity,
                            BoughtFor(h, EventsOn(h, d), x))
<1> DEFINE ev == h.events
           A == Counted(h, d - 1)
           B == EventsOn(h, d)
           C == Counted(h, d)
           q(x) == Replay(NoPosition, ev, C, x).quantity
           mark(x) == MarkedAt(MarkBefore(s, x), h.bars[x][d], q(x), BoughtFor(h, B, x))
<1>0. IsLedger(ev)
  BY DEF IsHistory
<1>a. d - 1 \in 0..To /\ d \in 0..To
  BY PerformanceAssumption
<1>1. C \in SUBSET (1..Len(ev)) /\ C = A \union B
  BY <1>a, CountedIs
<1>2. TurnAt(h, s, d).marks = [x \in Traded(ev, C) |-> mark(x)]
  <2>1. Replayed(h, s, B) = [x \in Traded(ev, C) |-> Replay(NoPosition, ev, C, x)]
    BY TurnPositions
  <2>2. TurnAt(h, s, d).marks = [x \in DOMAIN Replayed(h, s, B) |->
                MarkedAt(MarkBefore(s, x), h.bars[x][d], Replayed(h, s, B)[x].quantity, BoughtFor(h, B, x))]
    BY TurnAtIs
  <2> HIDE DEF B, C, ev
  <2> QED
    BY <2>1, <2>2
<1>3. \A x : MarkBefore(s, x) \in Mark
  <2>1. Unmarked \in Mark
    BY DEF Unmarked, Mark
  <2>2. \A x \in DOMAIN s.marks : s.marks[x] \in Mark
    BY DEF LoopHolds
  <2> QED
    BY <2>1, <2>2 DEF MarkBefore
<1>4. \A x \in Traded(ev, C) : h.bars[x][d] \in Nat
  <2>1. Traded(ev, C) \subseteq DOMAIN h.bars
    BY TurnPositions
  <2>2. h.bars \in [DOMAIN h.bars -> [1..To -> Nat]]
    BY DEF IsHistory
  <2> QED
    BY <2>1, <2>2
<1>5. \A x \in Traded(ev, C) : mark(x) \in Mark
  <2> TAKE x \in Traded(ev, C)
  <2>1. IsPosition(Replay(NoPosition, ev, C, x))
    <3> HIDE DEF IsPosition
    <3> QED
      BY <1>0, <1>1, ReplayIsPosition, NoPositionIs
  <2>2. q(x) \in Int
    BY <2>1 DEF IsPosition
  <2>3. BoughtFor(h, B, x) \in Nat
    BY <1>1, BoughtForIs
  <2> HIDE DEF q, B, C, ev
  <2> QED
    BY <1>3, <1>4, <2>2, <2>3, MarkedAtIs
<1> HIDE DEF mark
<1>6. TurnAt(h, s, d).marks \in [Traded(ev, C) -> Mark]
  BY <1>2, <1>5
<1>7. \A x \in Traded(ev, C) : TurnAt(h, s, d).marks[x] = mark(x)
  BY <1>2
<1> QED
  BY <1>3, <1>4, <1>6, <1>7 DEF mark

\* The cash after a turn is that of the longer beginning of the ledger.
LEMMA TurnCash ==
  ASSUME NEW h, IsHistory(h), NEW s, NEW d \in 1..To, LoopHolds(h, s, d - 1)
  PROVE  /\ s.cash \in Int
         /\ Sum(h.events, Effective(h, EventsOn(h, d)), CashEffect) \in Int
         /\ TurnValue(h, s, d).cash = s.cash + Sum(h.events, Effective(h, EventsOn(h, d)), CashEffect)
         /\ TurnValue(h, s, d).cash = InitialCash + Sum(h.events, Effective(h, Counted(h, d)), CashEffect)
<1> DEFINE ev == h.events
           A == Effective(h, Counted(h, d - 1))
           B == Effective(h, EventsOn(h, d))
<1>0. IsLedger(ev)
  BY DEF IsHistory
<1>a. d - 1 \in 0..To /\ d \in 0..To /\ InitialCash \in Int
  <2>1. InitialCash \in Nat
    BY PortfolioAssumption
  <2> QED
    BY <2>1, PerformanceAssumption
<1>1. /\ Counted(h, d) \in SUBSET (1..Len(ev)) /\ Counted(h, d) = Counted(h, d - 1) \union EventsOn(h, d)
      /\ \A i \in Counted(h, d - 1) : \A j \in EventsOn(h, d) : i < j
  BY <1>a, CountedIs
<1>2. A \in SUBSET (1..Len(ev)) /\ B \in SUBSET (1..Len(ev)) /\ Effective(h, Counted(h, d)) = A \union B
  BY <1>1 DEF Effective
<1>3. A \intersect B = {}
  <2>1. \A i \in A : i \in Counted(h, d - 1) /\ i \in Int
    <3>1. \A i \in A : i \in Counted(h, d - 1)
      BY DEF Effective
    <3>2. \A i \in A : i \in 1..Len(ev)
      BY <1>2
    <3> HIDE DEF A
    <3> QED
      BY <3>1, <3>2
  <2>2. \A i \in B : i \in EventsOn(h, d)
    BY DEF Effective
  <2>3. \A i \in A : i \notin B
    BY <1>1, <2>1, <2>2
  <2> QED
    BY <2>3
<1>4. TurnValue(h, s, d).cash = s.cash + Sum(ev, B, CashEffect)
  <2>1. TurnAt(h, s, d).events = EventsOn(h, d)
    BY DEF TurnAt, Marked
  <2>2. TurnValue(h, s, d).cash =
          s.cash + Sum(h.events, {i \in TurnAt(h, s, d).events : h.events[i].type # "dividend" \/ h.events[i].symbol # ""}, CashEffect)
    BY DEF TurnValue, Valued
  <2> QED
    BY <2>1, <2>2 DEF Effective
<1>5. s.cash = InitialCash + Sum(ev, A, CashEffect)
  BY DEF LoopHolds
<1> HIDE DEF A, B
<1>6. Sum(ev, A, CashEffect) \in Int /\ Sum(ev, A \union B, CashEffect) = Sum(ev, A, CashEffect) + Sum(ev, B, CashEffect)
  BY <1>0, <1>2, <1>3, CashSumIs
<1>7. Sum(ev, B, CashEffect) \in Int
  <2>1. B \intersect {} = {} /\ {} \in SUBSET (1..Len(ev))
    OBVIOUS
  <2> QED
    BY <1>0, <1>2, <2>1, CashSumIs
<1>8. Sum(ev, Effective(h, Counted(h, d)), CashEffect) = Sum(ev, A, CashEffect) + Sum(ev, B, CashEffect)
  BY <1>2, <1>6
<1> QED
  BY <1>a, <1>4, <1>5, <1>6, <1>7, <1>8 DEF B

\* The loop begins with nothing counted.
LEMMA LoopBegins == ASSUME NEW h, IsHistory(h) PROVE LoopHolds(h, Opening, 0)
<1>1. Counted(h, 0) = {}
  BY CountedIs
<1>2. Traded(h.events, {}) = {}
  BY DEF Traded
<1>3. Effective(h, {}) = {} /\ Sum(h.events, {}, CashEffect) = 0
  BY SumEmpty DEF Effective, Sum
<1>4. \A f, g : DOMAIN <<>> = {} /\ <<>> = [x \in {} |-> Replay(NoPosition, h.events, Counted(h, 0), x)]
  OBVIOUS
<1>5. InitialCash + 0 = InitialCash
  <2>1. InitialCash \in Nat
    BY PortfolioAssumption
  <2> QED
    BY <2>1
<1> QED
  BY <1>1, <1>2, <1>3, <1>4, <1>5 DEF LoopHolds, Opening

\* A turn keeps LoopHolds.
LEMMA LoopTurns ==
  ASSUME NEW h, IsHistory(h), NEW s, NEW d \in 1..To, LoopHolds(h, s, d - 1)
  PROVE  /\ d \in ValuationDates(h) => LoopHolds(h, Value(h, s, d), d)
         /\ d \notin ValuationDates(h) => LoopHolds(h, s, d)
<1>1. LoopHolds(h, Value(h, s, d), d)
  BY TurnGoesOn, TurnAtIs, TurnPositions, TurnMarks, TurnCash DEF LoopHolds
<1>2. ASSUME d \notin ValuationDates(h) PROVE LoopHolds(h, s, d)
  <2>1. Counted(h, d) = Counted(h, d - 1)
    <3>1. EventsOn(h, d) = {} /\ Counted(h, d) = Counted(h, d - 1) \union EventsOn(h, d)
      BY <1>2, CountedIs
    <3> QED
      BY <3>1
  <2> QED
    BY <2>1 DEF LoopHolds
<1> QED
  BY <1>1, <1>2

\* LoopHolds on every date, by induction over the dates.
LEMMA LoopAlwaysHolds ==
  ASSUME NEW h, IsHistory(h)
  PROVE  \A d \in 0..To : LoopHolds(h, Inner(h)[d], d)
<1> DEFINE known == {d \in 0..To : LoopHolds(h, Inner(h)[d], d)}
<1>0. To \in Nat
  BY PerformanceAssumption
<1>1. 0 \in known
  BY <1>0, LoopBegins, InnerIsDefined
<1>2. ASSUME NEW k \in 0..To, k \in known, k < To PROVE k + 1 \in known
  <2> DEFINE d == k + 1
             s == Inner(h)[k]
  <2>1. d \in 1..To /\ d - 1 = k /\ d \in 0..To
    BY <1>0, <1>2
  <2>2. LoopHolds(h, s, d - 1)
    BY <1>2, <2>1
  <2>3. Inner(h)[d] = IF d \in ValuationDates(h) THEN Value(h, s, d) ELSE s
    BY <2>1, InnerIsDefined
  <2> HIDE DEF d, s
  <2>4. LoopHolds(h, Inner(h)[d], d)
    BY <2>1, <2>2, <2>3, LoopTurns
  <2> QED
    BY <2>1, <2>4 DEF d
<1> HIDE DEF known
<1>3. 0..To \subseteq known
  BY <1>0, <1>1, <1>2, UpTo
<1> QED
  BY <1>3 DEF known

-----------------------------------------------------------------------------
(* The money of a date.                                                        *)

\* The members of a set with a key, and those with a key of a set.
WithKey(S, key, x) == {i \in S : key[i] = x}
WithKeys(S, key, D) == {i \in S : key[i] \in D}

\* Sums over the members of each class are a sum over their union.
LEMMA SumByClass ==
  ASSUME NEW f, NEW S, IsFiniteSet(S), \A i \in S : f[i] \in Int,
         NEW key, NEW D, IsFiniteSet(D),
         NEW g, \A x \in D : g[x] = SumFunctionOnSet(f, WithKey(S, key, x))
  PROVE  /\ \A x \in D : g[x] \in Int
         /\ SumFunctionOnSet(g, D) = SumFunctionOnSet(f, WithKeys(S, key, D))
<1> DEFINE class(x) == WithKey(S, key, x)
           all(T) == WithKeys(S, key, T)
           F == {T \in SUBSET D : SumFunctionOnSet(g, T) = SumFunctionOnSet(f, all(T))}
<1>0. \A x \in D : g[x] \in Int
  <2>1. \A x : class(x) \in SUBSET S
    BY DEF WithKey
  <2> HIDE DEF class
  <2>2. \A x : SumFunctionOnSet(f, class(x)) \in Int
    BY <2>1, SumIsInt
  <2> QED
    BY <2>2 DEF class
<1>1. {} \in F
  <2>1. all({}) = {}
    BY DEF WithKeys
  <2> HIDE DEF all
  <2> QED
    BY <2>1, SumEmpty
<1>2. ASSUME NEW T \in SUBSET D, NEW x \in D \ T, T \in F PROVE T \union {x} \in F
  <2>1. all(T \union {x}) = all(T) \union class(x) /\ all(T) \intersect class(x) = {}
        /\ all(T) \in SUBSET S /\ class(x) \in SUBSET S
    BY DEF WithKey, WithKeys
  <2>2. g[x] = SumFunctionOnSet(f, class(x))
    OBVIOUS
  <2>3. SumFunctionOnSet(g, T \union {x}) = SumFunctionOnSet(g, T) + g[x]
    BY <1>0, SumAdd
  <2>4. SumFunctionOnSet(g, T) = SumFunctionOnSet(f, all(T))
    BY <1>2
  <2> HIDE DEF all, class
  <2>5. SumFunctionOnSet(f, all(T) \union class(x)) = SumFunctionOnSet(f, all(T)) + SumFunctionOnSet(f, class(x))
    <3>1. \A X, Y \in SUBSET S : X \intersect Y = {} =>
            SumFunctionOnSet(f, X \union Y) = SumFunctionOnSet(f, X) + SumFunctionOnSet(f, Y)
      BY SumUnion
    <3> QED
      BY <2>1, <3>1
  <2>6. SumFunctionOnSet(g, T \union {x}) = SumFunctionOnSet(f, all(T \union {x}))
    BY <2>1, <2>2, <2>3, <2>4, <2>5
  <2> QED
    BY <2>6
<1> HIDE DEF F
<1>3. D \in F
  <2>1. \A T \in SUBSET D : T \in F
    BY <1>1, <1>2, FiniteGrow
  <2> QED
    BY <2>1
<1> QED
  BY <1>0, <1>3 DEF F

\* A sum over a part, as one over the whole.
LEMMA SumRestricts ==
  ASSUME NEW f, NEW g, NEW S, IsFiniteSet(S), NEW A \in SUBSET S,
         \A x \in A : f[x] \in Int /\ g[x] = f[x], \A x \in S \ A : f[x] = 0
  PROVE  SumFunctionOnSet(g, A) = SumFunctionOnSet(f, S)
<1>1. SumFunctionOnSet(f, S) = SumFunctionOnSet(f, A)
  BY SumOfPart
<1>2. IsFiniteSet(A)
  BY FS_Subset
<1>3. SumFunctionOnSet(f, A) = SumFunctionOnSet(g, A)
  BY <1>2, SumSame
<1> QED
  BY <1>1, <1>3

\* What an event is to the cash: a trade or income of a symbol, a flow, or a fee.
Bought(e) == IF e.type = "buy" THEN e.quantity * e.price ELSE 0
Sold(e) == IF e.type = "sell" THEN e.quantity * e.price ELSE 0
Paid(e) == IF e.type = "dividend" THEN e.amount ELSE 0
Charged(e) == IF e.type = "fee" THEN e.amount ELSE 0
Deposited(e) == IF e.type = "deposit" THEN e.amount ELSE 0
Withdrawn(e) == IF e.type = "withdrawal" THEN e.amount ELSE 0
Gained(e) == IF e.type = "dividend" THEN e.amount ELSE IF e.type = "sell" THEN e.quantity * e.price
             ELSE IF e.type = "buy" THEN -(e.quantity * e.price) ELSE 0

\* What an event does to money, kind by kind.
LEMMA EffectsAre ==
  ASSUME NEW e \in LedgerEvent
  PROVE  /\ Bought(e) \in Nat /\ Sold(e) \in Nat /\ Paid(e) \in Nat /\ Charged(e) \in Nat
         /\ Deposited(e) \in Nat /\ Withdrawn(e) \in Nat /\ Gained(e) \in Int /\ Flow(e) \in Int
         /\ CashEffect(e) \in Int
         /\ Gained(e) + Bought(e) = Sold(e) + Paid(e)
         /\ Flow(e) + Withdrawn(e) = Deposited(e)
         /\ CashEffect(e) + Charged(e) = Gained(e) + Flow(e)
<1>1. e.amount \in Nat /\ e.quantity * e.price \in Nat /\ e.type \in EventType
  BY DEF LedgerEvent
<1> DEFINE p == e.quantity * e.price
<1>2. p \in Nat
  BY <1>1
<1>3. /\ Bought(e) = IF e.type = "buy" THEN p ELSE 0
      /\ Sold(e) = IF e.type = "sell" THEN p ELSE 0
      /\ Gained(e) = IF e.type = "dividend" THEN e.amount ELSE IF e.type = "sell" THEN p
                     ELSE IF e.type = "buy" THEN -p ELSE 0
      /\ CashEffect(e) = CASE e.type = "buy" -> -p [] e.type = "sell" -> p
                           [] e.type \in {"dividend", "deposit"} -> e.amount
                           [] e.type \in {"fee", "withdrawal"} -> -e.amount [] OTHER -> 0
  BY DEF Bought, Sold, Gained, CashEffect
<1> HIDE DEF p
<1>4. CashEffect(e) = IF e.type = "buy" THEN -p ELSE IF e.type = "sell" THEN p
                      ELSE IF e.type \in {"dividend", "deposit"} THEN e.amount
                      ELSE IF e.type \in {"fee", "withdrawal"} THEN -e.amount ELSE 0
  BY <1>3
<1> QED
  BY <1>1, <1>2, <1>3, <1>4 DEF Paid, Charged, Deposited, Withdrawn, Flow

BoughtOf(ev) == [i \in DOMAIN ev |-> Bought(ev[i])]
SoldOf(ev) == [i \in DOMAIN ev |-> Sold(ev[i])]
PaidOf(ev) == [i \in DOMAIN ev |-> Paid(ev[i])]
ChargedOf(ev) == [i \in DOMAIN ev |-> Charged(ev[i])]
DepositedOf(ev) == [i \in DOMAIN ev |-> Deposited(ev[i])]
WithdrawnOf(ev) == [i \in DOMAIN ev |-> Withdrawn(ev[i])]
GainedOf(ev) == [i \in DOMAIN ev |-> Gained(ev[i])]
FlowOf(ev) == [i \in DOMAIN ev |-> Flow(ev[i])]
CashOf(ev) == [i \in DOMAIN ev |-> CashEffect(ev[i])]

\* The same for every event of a ledger.
LEMMA EffectsOf ==
  ASSUME NEW ev, IsLedger(ev)
  PROVE  \A i \in 1..Len(ev) :
           /\ BoughtOf(ev)[i] = Bought(ev[i]) /\ SoldOf(ev)[i] = Sold(ev[i])
           /\ PaidOf(ev)[i] = Paid(ev[i]) /\ ChargedOf(ev)[i] = Charged(ev[i])
           /\ DepositedOf(ev)[i] = Deposited(ev[i]) /\ WithdrawnOf(ev)[i] = Withdrawn(ev[i])
           /\ GainedOf(ev)[i] = Gained(ev[i]) /\ FlowOf(ev)[i] = Flow(ev[i]) /\ CashOf(ev)[i] = CashEffect(ev[i])
           /\ BoughtOf(ev)[i] \in Nat /\ SoldOf(ev)[i] \in Nat /\ PaidOf(ev)[i] \in Nat /\ ChargedOf(ev)[i] \in Nat
           /\ DepositedOf(ev)[i] \in Nat /\ WithdrawnOf(ev)[i] \in Nat /\ GainedOf(ev)[i] \in Int
           /\ FlowOf(ev)[i] \in Int /\ CashOf(ev)[i] \in Int
           /\ GainedOf(ev)[i] + BoughtOf(ev)[i] = SoldOf(ev)[i] + PaidOf(ev)[i]
           /\ FlowOf(ev)[i] + WithdrawnOf(ev)[i] = DepositedOf(ev)[i]
           /\ CashOf(ev)[i] + ChargedOf(ev)[i] = GainedOf(ev)[i] + FlowOf(ev)[i]
<1> TAKE i \in 1..Len(ev)
<1>1. ev[i] \in LedgerEvent /\ i \in DOMAIN ev
  BY EventIs
<1>2. /\ BoughtOf(ev)[i] = Bought(ev[i]) /\ SoldOf(ev)[i] = Sold(ev[i])
      /\ PaidOf(ev)[i] = Paid(ev[i]) /\ ChargedOf(ev)[i] = Charged(ev[i])
      /\ DepositedOf(ev)[i] = Deposited(ev[i]) /\ WithdrawnOf(ev)[i] = Withdrawn(ev[i])
      /\ GainedOf(ev)[i] = Gained(ev[i]) /\ FlowOf(ev)[i] = Flow(ev[i]) /\ CashOf(ev)[i] = CashEffect(ev[i])
  BY <1>1 DEF BoughtOf, SoldOf, PaidOf, ChargedOf, DepositedOf, WithdrawnOf, GainedOf, FlowOf, CashOf
<1> QED
  BY <1>1, <1>2, EffectsAre

\* Two pairs of functions with the same sums at each place have the same sums.
LEMMA SumsBalance ==
  ASSUME NEW a, NEW b, NEW c, NEW e, NEW S, IsFiniteSet(S),
         \A i \in S : a[i] \in Int /\ b[i] \in Int /\ c[i] \in Int /\ e[i] \in Int /\ a[i] + b[i] = c[i] + e[i]
  PROVE  SumFunctionOnSet(a, S) + SumFunctionOnSet(b, S) = SumFunctionOnSet(c, S) + SumFunctionOnSet(e, S)
<1> DEFINE h == [i \in S |-> a[i] + b[i]]
<1>1. SumFunctionOnSet(h, S) = SumFunctionOnSet(a, S) + SumFunctionOnSet(b, S)
  BY SumPlus
<1>2. \A i \in S : h[i] = c[i] + e[i]
  OBVIOUS
<1> HIDE DEF h
<1>3. SumFunctionOnSet(h, S) = SumFunctionOnSet(c, S) + SumFunctionOnSet(e, S)
  BY <1>2, SumPlus
<1> QED
  BY <1>1, <1>3

\* The events of a kind among those at some positions.
OfType(ev, A, t) == {i \in A : ev[i].type \in {t}}

\* A function is another one on the events of a kind, and 0 on the others.
IsOfKind(f, g, ev, A, t) ==
  \A i \in A :
    /\ f[i] \in Int
    /\ ev[i].type = t => g[i] = f[i]
    /\ ev[i].type # t => f[i] = 0

\* A total over the events of one kind is a sum of an amount that other kinds do not have.
LEMMA TotalIs ==
  ASSUME NEW ev, NEW A, IsFiniteSet(A), NEW t, NEW f, NEW g, IsOfKind(f, g, ev, A, t)
  PROVE  SumFunctionOnSet(g, OfType(ev, A, t)) = SumFunctionOnSet(f, A)
<1> DEFINE B == OfType(ev, A, t)
<1>1. \A i : i \in B <=> i \in A /\ ev[i].type = t
  BY DEF OfType
<1> HIDE DEF B
<1>2. B \in SUBSET A
  BY <1>1
<1>a. \A i \in A : f[i] \in Int /\ (ev[i].type = t => g[i] = f[i]) /\ (ev[i].type # t => f[i] = 0)
  BY DEF IsOfKind
<1>3. \A i \in B : f[i] \in Int /\ g[i] = f[i]
  BY <1>1, <1>a
<1>4. \A i \in A \ B : f[i] = 0
  BY <1>1, <1>a
<1>5. SumFunctionOnSet(g, B) = SumFunctionOnSet(f, A)
  BY <1>2, <1>3, <1>4, SumRestricts
<1> QED
  BY <1>5 DEF B

\* The totals of a day, kind by kind.
LEMMA TotalsAre ==
  ASSUME NEW h, IsLedger(h.events), NEW A \in SUBSET (1..Len(h.events))
  PROVE  /\ Total(h, A, {"buy"}, Traffic) = SumFunctionOnSet(BoughtOf(h.events), A)
         /\ Total(h, A, {"sell"}, Traffic) = SumFunctionOnSet(SoldOf(h.events), A)
         /\ Total(h, A, {"dividend"}, Amount) = SumFunctionOnSet(PaidOf(h.events), A)
         /\ Total(h, A, {"fee"}, Amount) = SumFunctionOnSet(ChargedOf(h.events), A)
         /\ Total(h, A, {"deposit"}, Amount) = SumFunctionOnSet(DepositedOf(h.events), A)
         /\ Total(h, A, {"withdrawal"}, Amount) = SumFunctionOnSet(WithdrawnOf(h.events), A)
<1> DEFINE ev == h.events
           amount == [i \in DOMAIN ev |-> Amount(ev[i])]
           traffic == [i \in DOMAIN ev |-> Traffic(ev[i])]
<1>0. IsFiniteSet(A) /\ DOMAIN ev = 1..Len(ev) /\ IsLedger(ev) /\ \A i \in A : i \in 1..Len(ev)
  BY EventSum, EventIs
<1>1. \A i \in A : amount[i] = ev[i].amount /\ traffic[i] = ev[i].quantity * ev[i].price
  BY <1>0 DEF Amount, Traffic
<1>2. /\ Total(h, A, {"buy"}, Traffic) = SumFunctionOnSet(traffic, OfType(ev, A, "buy"))
      /\ Total(h, A, {"sell"}, Traffic) = SumFunctionOnSet(traffic, OfType(ev, A, "sell"))
      /\ Total(h, A, {"dividend"}, Amount) = SumFunctionOnSet(amount, OfType(ev, A, "dividend"))
      /\ Total(h, A, {"fee"}, Amount) = SumFunctionOnSet(amount, OfType(ev, A, "fee"))
      /\ Total(h, A, {"deposit"}, Amount) = SumFunctionOnSet(amount, OfType(ev, A, "deposit"))
      /\ Total(h, A, {"withdrawal"}, Amount) = SumFunctionOnSet(amount, OfType(ev, A, "withdrawal"))
  BY DEF Total, Sum, OfType
<1> HIDE DEF amount, traffic, ev
<1>3. SumFunctionOnSet(traffic, OfType(ev, A, "buy")) = SumFunctionOnSet(BoughtOf(ev), A)
  <2>1. \A i \in A : BoughtOf(ev)[i] = Bought(ev[i]) /\ BoughtOf(ev)[i] \in Int
    <3> TAKE i \in A
    <3>1. i \in 1..Len(ev)
      BY <1>0
    <3>2. BoughtOf(ev)[i] = Bought(ev[i]) /\ BoughtOf(ev)[i] \in Nat
      BY <1>0, <3>1, EffectsOf
    <3> QED
      BY <3>2
  <2>2. IsOfKind(BoughtOf(ev), traffic, ev, A, "buy")
    BY <1>1, <2>1 DEF Bought, IsOfKind
  <2> QED
    BY <1>0, <2>2, TotalIs
<1>4. SumFunctionOnSet(traffic, OfType(ev, A, "sell")) = SumFunctionOnSet(SoldOf(ev), A)
  <2>1. \A i \in A : SoldOf(ev)[i] = Sold(ev[i]) /\ SoldOf(ev)[i] \in Int
    <3> TAKE i \in A
    <3>1. i \in 1..Len(ev)
      BY <1>0
    <3>2. SoldOf(ev)[i] = Sold(ev[i]) /\ SoldOf(ev)[i] \in Nat
      BY <1>0, <3>1, EffectsOf
    <3> QED
      BY <3>2
  <2>2. IsOfKind(SoldOf(ev), traffic, ev, A, "sell")
    BY <1>1, <2>1 DEF Sold, IsOfKind
  <2> QED
    BY <1>0, <2>2, TotalIs
<1>5. SumFunctionOnSet(amount, OfType(ev, A, "dividend")) = SumFunctionOnSet(PaidOf(ev), A)
  <2>1. \A i \in A : PaidOf(ev)[i] = Paid(ev[i]) /\ PaidOf(ev)[i] \in Int
    <3> TAKE i \in A
    <3>1. i \in 1..Len(ev)
      BY <1>0
    <3>2. PaidOf(ev)[i] = Paid(ev[i]) /\ PaidOf(ev)[i] \in Nat
      BY <1>0, <3>1, EffectsOf
    <3> QED
      BY <3>2
  <2>2. IsOfKind(PaidOf(ev), amount, ev, A, "dividend")
    BY <1>1, <2>1 DEF Paid, IsOfKind
  <2> QED
    BY <1>0, <2>2, TotalIs
<1>6. SumFunctionOnSet(amount, OfType(ev, A, "fee")) = SumFunctionOnSet(ChargedOf(ev), A)
  <2>1. \A i \in A : ChargedOf(ev)[i] = Charged(ev[i]) /\ ChargedOf(ev)[i] \in Int
    <3> TAKE i \in A
    <3>1. i \in 1..Len(ev)
      BY <1>0
    <3>2. ChargedOf(ev)[i] = Charged(ev[i]) /\ ChargedOf(ev)[i] \in Nat
      BY <1>0, <3>1, EffectsOf
    <3> QED
      BY <3>2
  <2>2. IsOfKind(ChargedOf(ev), amount, ev, A, "fee")
    BY <1>1, <2>1 DEF Charged, IsOfKind
  <2> QED
    BY <1>0, <2>2, TotalIs
<1>7. SumFunctionOnSet(amount, OfType(ev, A, "deposit")) = SumFunctionOnSet(DepositedOf(ev), A)
  <2>1. \A i \in A : DepositedOf(ev)[i] = Deposited(ev[i]) /\ DepositedOf(ev)[i] \in Int
    <3> TAKE i \in A
    <3>1. i \in 1..Len(ev)
      BY <1>0
    <3>2. DepositedOf(ev)[i] = Deposited(ev[i]) /\ DepositedOf(ev)[i] \in Nat
      BY <1>0, <3>1, EffectsOf
    <3> QED
      BY <3>2
  <2>2. IsOfKind(DepositedOf(ev), amount, ev, A, "deposit")
    BY <1>1, <2>1 DEF Deposited, IsOfKind
  <2> QED
    BY <1>0, <2>2, TotalIs
<1>8. SumFunctionOnSet(amount, OfType(ev, A, "withdrawal")) = SumFunctionOnSet(WithdrawnOf(ev), A)
  <2>1. \A i \in A : WithdrawnOf(ev)[i] = Withdrawn(ev[i]) /\ WithdrawnOf(ev)[i] \in Int
    <3> TAKE i \in A
    <3>1. i \in 1..Len(ev)
      BY <1>0
    <3>2. WithdrawnOf(ev)[i] = Withdrawn(ev[i]) /\ WithdrawnOf(ev)[i] \in Nat
      BY <1>0, <3>1, EffectsOf
    <3> QED
      BY <3>2
  <2>2. IsOfKind(WithdrawnOf(ev), amount, ev, A, "withdrawal")
    BY <1>1, <2>1 DEF Withdrawn, IsOfKind
  <2> QED
    BY <1>0, <2>2, TotalIs
<1> QED
  BY <1>2, <1>3, <1>4, <1>5, <1>6, <1>7, <1>8 DEF ev

-----------------------------------------------------------------------------
(* What a date made.                                                           *)

\* The symbols of a ledger are finitely many, and each is named.
LEMMA TradedIs ==
  ASSUME NEW ev, IsLedger(ev), NEW A \in SUBSET (1..Len(ev))
  PROVE  /\ IsFiniteSet(Traded(ev, A))
         /\ \A x \in Traded(ev, A) : x # "" /\ x \in Symbols
<1> DEFINE S == {j \in A : ev[j].type \in {"buy", "sell"}}
           f == [i \in S |-> ev[i].symbol]
<1>1. IsFiniteSet(S)
  <2>1. IsFiniteSet(A) /\ S \in SUBSET A
    BY EventSum
  <2> QED
    BY <2>1, FS_Subset
<1>2. f \in Surjection(S, Traded(ev, A))
  BY DEF Traded, Surjection
<1>3. IsFiniteSet(Traded(ev, A))
  BY <1>1, <1>2, FS_Surjection
<1>4. \A i \in S : ev[i].symbol # "" /\ ev[i].symbol \in Symbols
  <2> TAKE i \in S
  <2>1. i \in 1..Len(ev) /\ ev[i].type \in {"buy", "sell", "split"}
    OBVIOUS
  <2> QED
    BY <2>1, EventIs
<1>5. \A x \in Traded(ev, A) : \E i \in S : x = ev[i].symbol
  BY DEF Traded
<1> QED
  BY <1>3, <1>4, <1>5

\* The value of each symbol's position after the events of a date, and before them.
Endings(h, s, d) == [x \in Traded(h.events, Counted(h, d)) |-> Ending(TurnAt(h, s, d), x)]
Beginnings(h, s, d) ==
  [x \in Traded(h.events, Counted(h, d)) |-> PositionBefore(s, x).quantity * MarkBefore(s, x).last]

\* A split that is open, or a market that did not answer, leaves the date without a value.
Blocked(h, d) == h.state = "unavailable" \/ \E split \in h.pending : split.date <= d
Missing(h, s, d) ==
  {x \in Traded(h.events, Counted(h, d)) :
     QuantityOf(h.events, Counted(h, d), x) > 0 /\ ~TurnAt(h, s, d).marks[x].known}

\* What the positions of a turn are worth before and after it.
LEMMA TurnWorth ==
  ASSUME NEW h, IsHistory(h), NEW s, NEW d \in 1..To, LoopHolds(h, s, d - 1)
  PROVE  /\ IsFiniteSet(Traded(h.events, Counted(h, d)))
         /\ Counted(h, d) \in SUBSET (1..Len(h.events))
         /\ DOMAIN TurnAt(h, s, d).positions = Traded(h.events, Counted(h, d))
         /\ \A x \in Traded(h.events, Counted(h, d)) :
              /\ TurnAt(h, s, d).positions[x].quantity = QuantityOf(h.events, Counted(h, d), x)
              /\ TurnAt(h, s, d).positions[x].quantity \in Int
              /\ TurnAt(h, s, d).marks[x] \in Mark
              /\ Endings(h, s, d)[x] = Ending(TurnAt(h, s, d), x) /\ Endings(h, s, d)[x] \in Int
              /\ Beginnings(h, s, d)[x] = PositionBefore(s, x).quantity * MarkBefore(s, x).last
              /\ Beginnings(h, s, d)[x] \in Int
<1> DEFINE ev == h.events
           C == Counted(h, d)
           D == Traded(ev, C)
<1>0. IsLedger(ev) /\ d \in 0..To /\ d - 1 \in 0..To
  BY PerformanceAssumption DEF IsHistory
<1>1. C \in SUBSET (1..Len(ev)) /\ Counted(h, d - 1) \in SUBSET (1..Len(ev))
  BY <1>0, CountedIs
<1> HIDE DEF ev
<1>2. IsFiniteSet(D)
  <2> HIDE DEF C
  <2> QED
    BY <1>0, <1>1, TradedIs
<1>3. TurnAt(h, s, d).positions = [x \in D |-> Replay(NoPosition, ev, C, x)]
  <2>1. TurnAt(h, s, d).positions = Replayed(h, s, EventsOn(h, d))
    BY DEF TurnAt, Marked
  <2>2. Replayed(h, s, EventsOn(h, d))
          = [x \in Traded(h.events, Counted(h, d)) |-> Replay(NoPosition, h.events, Counted(h, d), x)]
    BY TurnPositions
  <2> QED
    BY <2>1, <2>2 DEF ev
<1>4. \A x : \A A \in SUBSET (1..Len(ev)) : Replay(NoPosition, ev, A, x).quantity \in Int
  <2>1. \A x : \A A \in SUBSET (1..Len(ev)) : IsPosition(Replay(NoPosition, ev, A, x))
    <3> HIDE DEF IsPosition
    <3> QED
      BY <1>0, ReplayIsPosition, NoPositionIs
  <2> QED
    BY <2>1 DEF IsPosition
<1>5. \A x : PositionBefore(s, x).quantity \in Int
  <2>1. \A x : PositionBefore(s, x) = Replay(NoPosition, h.events, Counted(h, d - 1), x)
    BY TurnPositions
  <2> QED
    BY <1>1, <1>4, <2>1 DEF ev
<1>6. \A x : MarkBefore(s, x).last \in Nat
  BY TurnMarks DEF Mark
<1>7. TurnAt(h, s, d).marks \in [D -> Mark]
  BY TurnMarks DEF ev
<1>8. ASSUME NEW x \in D
      PROVE  /\ TurnAt(h, s, d).positions[x].quantity = QuantityOf(ev, C, x)
             /\ TurnAt(h, s, d).positions[x].quantity \in Int
             /\ TurnAt(h, s, d).marks[x] \in Mark
             /\ Ending(TurnAt(h, s, d), x) \in Int
             /\ PositionBefore(s, x).quantity * MarkBefore(s, x).last \in Int
  <2> DEFINE p == TurnAt(h, s, d).positions[x].quantity
             m == TurnAt(h, s, d).marks[x]
  <2>1. p = QuantityOf(ev, C, x) /\ p \in Int
    BY <1>1, <1>3, <1>4 DEF QuantityOf
  <2>2. m \in Mark
    BY <1>7
  <2>3. m.last \in Int
    BY <2>2 DEF Mark
  <2>4. Ending(TurnAt(h, s, d), x) = IF p > 0 /\ m.known THEN p * m.last ELSE 0
    BY DEF Ending, EndingValue
  <2>5. PositionBefore(s, x).quantity * MarkBefore(s, x).last \in Int
    <3>1. \A a, b \in Int : a * b \in Int
      OBVIOUS
    <3>2. MarkBefore(s, x).last \in Int
      BY <1>6
    <3> QED
      BY <1>5, <3>1, <3>2
  <2> HIDE DEF p, m
  <2>6. p * m.last \in Int
    BY <2>1, <2>3
  <2>7. Ending(TurnAt(h, s, d), x) \in Int
    BY <2>4, <2>6
  <2> QED
    BY <2>1, <2>2, <2>5, <2>7 DEF p, m
<1>9. \A x \in D : Endings(h, s, d)[x] = Ending(TurnAt(h, s, d), x)
                   /\ Beginnings(h, s, d)[x] = PositionBefore(s, x).quantity * MarkBefore(s, x).last
  BY DEF Endings, Beginnings, ev
<1> HIDE DEF D, C
<1>10. DOMAIN TurnAt(h, s, d).positions = D
  BY <1>3
<1>11. \A x \in D : Ending(TurnAt(h, s, d), x) \in Int /\ PositionBefore(s, x).quantity * MarkBefore(s, x).last \in Int
                    /\ TurnAt(h, s, d).positions[x].quantity = QuantityOf(ev, C, x)
                    /\ TurnAt(h, s, d).positions[x].quantity \in Int
                    /\ TurnAt(h, s, d).marks[x] \in Mark
  BY <1>8
<1> QED
  BY <1>1, <1>2, <1>9, <1>10, <1>11 DEF ev, C, D

\* The total of a turn is its cash and the worth of its positions, or nothing.
LEMMA TurnTotal ==
  ASSUME NEW h, IsHistory(h), NEW s, NEW d \in 1..To, LoopHolds(h, s, d - 1)
  PROVE  /\ SumFunctionOnSet(Endings(h, s, d), Traded(h.events, Counted(h, d))) \in Int
         /\ TurnValue(h, s, d).cash \in Int
         /\ TurnValue(h, s, d).total =
              IF Blocked(h, d) \/ Missing(h, s, d) # {} THEN None
              ELSE Whole(TurnValue(h, s, d).cash
                         + SumFunctionOnSet(Endings(h, s, d), Traded(h.events, Counted(h, d))))
         /\ TurnValue(h, s, d).begin = IF s.total # None THEN s.total
                                       ELSE IF s.valued THEN None ELSE Whole(InitialCash)
<1> DEFINE ev == h.events
           at == TurnAt(h, s, d)
           D == Traded(ev, Counted(h, d))
           missing == {x \in DOMAIN at.positions : at.positions[x].quantity > 0 /\ ~at.marks[x].known}
<1>1. /\ DOMAIN at.positions = D /\ IsFiniteSet(D)
      /\ \A x \in D : at.positions[x].quantity = QuantityOf(ev, Counted(h, d), x)
      /\ \A x \in D : Endings(h, s, d)[x] \in Int
  BY TurnWorth
<1> HIDE DEF at
<1>2. missing = Missing(h, s, d)
  BY <1>1 DEF Missing, at
<1>3. [x \in DOMAIN at.positions |-> Ending(at, x)] = Endings(h, s, d) /\ DOMAIN Endings(h, s, d) = D
  BY <1>1 DEF Endings, at
<1>4. SumFunction([x \in DOMAIN at.positions |-> Ending(at, x)]) = SumFunctionOnSet(Endings(h, s, d), D)
  BY <1>3 DEF SumFunction
<1>5. SumFunctionOnSet(Endings(h, s, d), D) \in Int
  <2> HIDE DEF D
  <2>1. \A T \in SUBSET D : SumFunctionOnSet(Endings(h, s, d), T) \in Int
    BY <1>1, SumIsInt
  <2> QED
    BY <2>1
<1>6. TurnValue(h, s, d).cash \in Int
  <2>1. \A a, b \in Int : a + b \in Int
    OBVIOUS
  <2> QED
    BY <2>1, TurnCash
<1>7. TurnValue(h, s, d).total =
        IF Blocked(h, d) \/ missing # {} THEN None
        ELSE Whole(TurnValue(h, s, d).cash + SumFunction([x \in DOMAIN at.positions |-> Ending(at, x)]))
  BY DEF TurnValue, Valued, Blocked, at
<1>8. TurnValue(h, s, d).begin = IF s.total # None THEN s.total
                                 ELSE IF s.valued THEN None ELSE Whole(InitialCash)
  BY DEF TurnValue, Valued
<1> HIDE DEF missing, D
<1> QED
  BY <1>2, <1>4, <1>5, <1>6, <1>7, <1>8 DEF D, ev

\* What a symbol contributes is the change of its worth and what was gained by its trades.
LEMMA PartMoney ==
  ASSUME NEW h, IsHistory(h), NEW s, NEW d \in 1..To, LoopHolds(h, s, d - 1),
         NEW x \in Traded(h.events, Counted(h, d))
  PROVE  /\ SumFunctionOnSet(GainedOf(h.events), OfSymbol(h, EventsOn(h, d), x)) \in Int
         /\ Contribution(Part(h, s, TurnAt(h, s, d), x))
              = Endings(h, s, d)[x] - Beginnings(h, s, d)[x]
                + SumFunctionOnSet(GainedOf(h.events), OfSymbol(h, EventsOn(h, d), x))
<1> DEFINE ev == h.events
           B == EventsOn(h, d)
           A == OfSymbol(h, B, x)
           p == Part(h, s, TurnAt(h, s, d), x)
<1>0. IsLedger(ev) /\ d \in 0..To
  BY DEF IsHistory
<1>1. B \in SUBSET (1..Len(ev))
  <2>1. Counted(h, d) \in SUBSET (1..Len(ev)) /\ Counted(h, d) = Counted(h, d - 1) \union EventsOn(h, d)
    BY <1>0, CountedIs
  <2> QED
    BY <2>1
<1>2. A \in SUBSET (1..Len(ev))
  BY <1>1 DEF OfSymbol
<1>3. TurnAt(h, s, d).events = B
  BY DEF TurnAt, Marked
<1>4. /\ p.ending = Ending(TurnAt(h, s, d), x)
      /\ p.beginning = PositionBefore(s, x).quantity * MarkBefore(s, x).last
      /\ p.bought = Total(h, A, {"buy"}, Traffic)
      /\ p.sold = Total(h, A, {"sell"}, Traffic)
      /\ p.dividends = Total(h, A, {"dividend"}, Amount)
  BY <1>3 DEF Part
<1>5. Endings(h, s, d)[x] = p.ending /\ Endings(h, s, d)[x] \in Int
      /\ Beginnings(h, s, d)[x] = p.beginning /\ Beginnings(h, s, d)[x] \in Int
  BY <1>4, TurnWorth
<1> HIDE DEF p, A
<1>6. /\ p.bought = SumFunctionOnSet(BoughtOf(ev), A)
      /\ p.sold = SumFunctionOnSet(SoldOf(ev), A)
      /\ p.dividends = SumFunctionOnSet(PaidOf(ev), A)
  BY <1>0, <1>2, <1>4, TotalsAre
<1> HIDE DEF ev, B
<1>7. IsFiniteSet(A)
  BY <1>0, <1>2, EventSum
<1>8. \A i \in A : /\ GainedOf(ev)[i] \in Int /\ BoughtOf(ev)[i] \in Int
                   /\ SoldOf(ev)[i] \in Int /\ PaidOf(ev)[i] \in Int
                   /\ GainedOf(ev)[i] + BoughtOf(ev)[i] = SoldOf(ev)[i] + PaidOf(ev)[i]
  <2> TAKE i \in A
  <2>1. i \in 1..Len(ev)
    BY <1>2
  <2>2. /\ GainedOf(ev)[i] \in Int /\ BoughtOf(ev)[i] \in Nat
        /\ SoldOf(ev)[i] \in Nat /\ PaidOf(ev)[i] \in Nat
        /\ GainedOf(ev)[i] + BoughtOf(ev)[i] = SoldOf(ev)[i] + PaidOf(ev)[i]
    BY <1>0, <2>1, EffectsOf
  <2> QED
    BY <2>2
<1>9. SumFunctionOnSet(GainedOf(ev), A) + SumFunctionOnSet(BoughtOf(ev), A)
        = SumFunctionOnSet(SoldOf(ev), A) + SumFunctionOnSet(PaidOf(ev), A)
  BY <1>7, <1>8, SumsBalance
<1>10. /\ SumFunctionOnSet(GainedOf(ev), A) \in Int /\ SumFunctionOnSet(BoughtOf(ev), A) \in Int
       /\ SumFunctionOnSet(SoldOf(ev), A) \in Int /\ SumFunctionOnSet(PaidOf(ev), A) \in Int
  <2>1. \A f : (\A i \in A : f[i] \in Int) => SumFunctionOnSet(f, A) \in Int
    <3> SUFFICES ASSUME NEW f, \A i \in A : f[i] \in Int PROVE SumFunctionOnSet(f, A) \in Int
      OBVIOUS
    <3>1. \A T \in SUBSET A : SumFunctionOnSet(f, T) \in Int
      BY <1>7, SumIsInt
    <3> QED
      BY <3>1
  <2> QED
    BY <1>8, <2>1
<1>11. Contribution(p) = p.ending - p.beginning - p.bought + p.sold + p.dividends
  BY DEF Contribution
<1>12. Contribution(p) = Endings(h, s, d)[x] - Beginnings(h, s, d)[x] + SumFunctionOnSet(GainedOf(ev), A)
  BY <1>5, <1>6, <1>9, <1>10, <1>11
<1> QED
  BY <1>10, <1>12 DEF ev, A, B, p

\* Where every sale and dividend is covered, income belongs to a symbol that was traded.
LEMMA CoveredIncome ==
  ASSUME NEW h, IsHistory(h), Covered(h.events), NEW d \in 0..To
  PROVE  /\ \A i \in Counted(h, d) : GainedOf(h.events)[i] # 0 => h.events[i].symbol \in Traded(h.events, Counted(h, d))
         /\ Effective(h, Counted(h, d)) = Counted(h, d)
         /\ \A x : QuantityOf(h.events, Counted(h, d), x) \in Nat
<1> DEFINE ev == h.events
<1>0. IsLedger(ev)
  BY DEF IsHistory
<1>1. PICK k \in 0..Len(ev) : Counted(h, d) = 1..k
  BY CountedIs
<1> HIDE DEF ev
<1>a. Len(ev) \in Nat /\ DOMAIN ev = 1..Len(ev)
  BY <1>0, EventIs
<1>2. \A i \in 1..k : i \in 1..Len(ev) /\ (ev[i].type = "dividend" => ev[i].symbol \in Traded(ev, 1..k))
  <2> TAKE i \in 1..k
  <2>1. i \in 1..Len(ev) /\ i \in DOMAIN ev
    BY <1>a
  <2>2. ev[i].type = "dividend" => ev[i].symbol \in Traded(ev, 1..(i - 1))
    BY <2>1 DEF Covered, ev
  <2>3. Traded(ev, 1..(i - 1)) \subseteq Traded(ev, 1..k)
    <3>1. 1..(i - 1) \subseteq 1..k
      BY <1>a, <2>1
    <3> QED
      BY <3>1 DEF Traded
  <2> QED
    BY <2>1, <2>2, <2>3
<1>3. \A i \in 1..k : GainedOf(ev)[i] # 0 => ev[i].symbol \in Traded(ev, 1..k)
  <2> TAKE i \in 1..k
  <2>1. GainedOf(ev)[i] = Gained(ev[i])
    BY <1>0, <1>2, EffectsOf
  <2>2. ev[i].type \in {"buy", "sell"} => ev[i].symbol \in Traded(ev, 1..k)
    BY DEF Traded
  <2>3. Gained(ev[i]) # 0 => ev[i].type \in {"buy", "sell", "dividend"}
    BY DEF Gained
  <2> QED
    BY <1>2, <2>1, <2>2, <2>3
<1>4. \A x \in Traded(ev, 1..k) : x # ""
  <2>1. 1..k \in SUBSET (1..Len(ev))
    BY <1>2
  <2>2. \A A \in SUBSET (1..Len(ev)) : \A x \in Traded(ev, A) : x # ""
    BY <1>0, TradedIs
  <2> QED
    BY <2>1, <2>2
<1>5. Effective(h, 1..k) = 1..k
  BY <1>2, <1>4 DEF Effective, ev
<1>6. \A x : QuantityOf(ev, 1..k, x) \in Nat
  BY <1>0, CoveredIsHeld DEF ev
<1> QED
  BY <1>1, <1>3, <1>5, <1>6 DEF ev

\* The flows of a date are what its point shows as deposits and withdrawals.
LEMMA DayFlow ==
  ASSUME NEW h, IsHistory(h), NEW d \in 1..To
  PROVE  /\ EventsOn(h, d) \in SUBSET (1..Len(h.events)) /\ IsFiniteSet(EventsOn(h, d))
         /\ Sum(h.events, EventsOn(h, d), Flow) = SumFunctionOnSet(FlowOf(h.events), EventsOn(h, d))
         /\ SumFunctionOnSet(FlowOf(h.events), EventsOn(h, d)) \in Int
         /\ SumFunctionOnSet(DepositedOf(h.events), EventsOn(h, d)) \in Nat
         /\ SumFunctionOnSet(WithdrawnOf(h.events), EventsOn(h, d)) \in Nat
         /\ SumFunctionOnSet(ChargedOf(h.events), EventsOn(h, d)) \in Nat
         /\ SumFunctionOnSet(GainedOf(h.events), EventsOn(h, d)) \in Int
         /\ SumFunctionOnSet(FlowOf(h.events), EventsOn(h, d))
              = SumFunctionOnSet(DepositedOf(h.events), EventsOn(h, d))
                - SumFunctionOnSet(WithdrawnOf(h.events), EventsOn(h, d))
         /\ Sum(h.events, EventsOn(h, d), CashEffect) + SumFunctionOnSet(ChargedOf(h.events), EventsOn(h, d))
              = SumFunctionOnSet(GainedOf(h.events), EventsOn(h, d))
                + SumFunctionOnSet(FlowOf(h.events), EventsOn(h, d))
         /\ Sum(h.events, EventsOn(h, d), CashEffect) \in Int
<1> DEFINE ev == h.events
           B == EventsOn(h, d)
<1>0. IsLedger(ev) /\ d \in 0..To
  BY DEF IsHistory
<1>1. B \in SUBSET (1..Len(ev))
  <2>1. Counted(h, d) \in SUBSET (1..Len(ev)) /\ Counted(h, d) = Counted(h, d - 1) \union EventsOn(h, d)
    BY <1>0, CountedIs
  <2> QED
    BY <2>1
<1> HIDE DEF ev, B
<1>2. IsFiniteSet(B)
  BY <1>0, <1>1, EventSum
<1>3. \A i \in B : i \in 1..Len(ev)
  BY <1>1
<1>4. \A i \in B :
           /\ ChargedOf(ev)[i] \in Nat /\ DepositedOf(ev)[i] \in Nat /\ WithdrawnOf(ev)[i] \in Nat
           /\ ChargedOf(ev)[i] \in Int /\ DepositedOf(ev)[i] \in Int /\ WithdrawnOf(ev)[i] \in Int
           /\ GainedOf(ev)[i] \in Int /\ FlowOf(ev)[i] \in Int /\ CashOf(ev)[i] \in Int
           /\ FlowOf(ev)[i] = Flow(ev[i])
           /\ DepositedOf(ev)[i] = Deposited(ev[i]) /\ WithdrawnOf(ev)[i] = Withdrawn(ev[i])
           /\ FlowOf(ev)[i] + WithdrawnOf(ev)[i] = DepositedOf(ev)[i]
           /\ CashOf(ev)[i] + ChargedOf(ev)[i] = GainedOf(ev)[i] + FlowOf(ev)[i]
  <2> TAKE i \in B
  <2>1. i \in 1..Len(ev)
    BY <1>3
  <2>2. /\ ChargedOf(ev)[i] \in Nat /\ DepositedOf(ev)[i] \in Nat /\ WithdrawnOf(ev)[i] \in Nat
        /\ GainedOf(ev)[i] \in Int /\ FlowOf(ev)[i] \in Int /\ CashOf(ev)[i] \in Int
        /\ FlowOf(ev)[i] = Flow(ev[i])
        /\ DepositedOf(ev)[i] = Deposited(ev[i]) /\ WithdrawnOf(ev)[i] = Withdrawn(ev[i])
        /\ FlowOf(ev)[i] + WithdrawnOf(ev)[i] = DepositedOf(ev)[i]
        /\ CashOf(ev)[i] + ChargedOf(ev)[i] = GainedOf(ev)[i] + FlowOf(ev)[i]
    BY <1>0, <2>1, EffectsOf
  <2> QED
    BY <2>2
<1>5. \A f : (\A i \in B : f[i] \in Int) => SumFunctionOnSet(f, B) \in Int
  <2> SUFFICES ASSUME NEW f, \A i \in B : f[i] \in Int PROVE SumFunctionOnSet(f, B) \in Int
    OBVIOUS
  <2>1. \A T \in SUBSET B : SumFunctionOnSet(f, T) \in Int
    BY <1>2, SumIsInt
  <2> QED
    BY <2>1
<1>6. \A f : (\A i \in B : f[i] \in Nat) =>
         SumFunctionOnSet(f, B) \in Nat /\ (SumFunctionOnSet(f, B) = 0 => \A i \in B : f[i] = 0)
  BY <1>2, SumOfNaturals
<1>7. Sum(ev, B, Flow) = SumFunctionOnSet(FlowOf(ev), B) /\ Sum(ev, B, CashEffect) = SumFunctionOnSet(CashOf(ev), B)
  BY DEF Sum, FlowOf, CashOf
<1>8. SumFunctionOnSet(CashOf(ev), B) + SumFunctionOnSet(ChargedOf(ev), B)
        = SumFunctionOnSet(GainedOf(ev), B) + SumFunctionOnSet(FlowOf(ev), B)
  BY <1>2, <1>4, SumsBalance
<1>9. SumFunctionOnSet(DepositedOf(ev), B) = SumFunctionOnSet(FlowOf(ev), B) + SumFunctionOnSet(WithdrawnOf(ev), B)
  BY <1>2, <1>4, SumPlus
<1>10. /\ SumFunctionOnSet(ChargedOf(ev), B) \in Nat /\ SumFunctionOnSet(DepositedOf(ev), B) \in Nat
       /\ SumFunctionOnSet(WithdrawnOf(ev), B) \in Nat /\ SumFunctionOnSet(GainedOf(ev), B) \in Int
       /\ SumFunctionOnSet(FlowOf(ev), B) \in Int /\ SumFunctionOnSet(CashOf(ev), B) \in Int
  BY <1>4, <1>5, <1>6
<1>11. SumFunctionOnSet(FlowOf(ev), B) = SumFunctionOnSet(DepositedOf(ev), B) - SumFunctionOnSet(WithdrawnOf(ev), B)
  BY <1>9, <1>10
<1> QED
  BY <1>1, <1>2, <1>7, <1>8, <1>10, <1>11 DEF ev, B
\* Where nothing was deposited or withdrawn, no event is a flow.
LEMMA DayWithoutFlow ==
  ASSUME NEW h, IsHistory(h), NEW d \in 1..To,
         SumFunctionOnSet(DepositedOf(h.events), EventsOn(h, d)) = 0,
         SumFunctionOnSet(WithdrawnOf(h.events), EventsOn(h, d)) = 0
  PROVE  \A i \in EventsOn(h, d) : Flow(h.events[i]) = 0
<1> DEFINE ev == h.events
           B == EventsOn(h, d)
<1>1. IsLedger(ev) /\ IsFiniteSet(B) /\ B \in SUBSET (1..Len(ev))
  BY DayFlow DEF IsHistory
<1> HIDE DEF ev, B
<1>2. \A i \in B : /\ DepositedOf(ev)[i] \in Nat /\ WithdrawnOf(ev)[i] \in Nat
                   /\ Flow(ev[i]) + WithdrawnOf(ev)[i] = DepositedOf(ev)[i] /\ Flow(ev[i]) \in Int
  <2> TAKE i \in B
  <2>1. i \in 1..Len(ev)
    BY <1>1
  <2>2. /\ DepositedOf(ev)[i] \in Nat /\ WithdrawnOf(ev)[i] \in Nat /\ FlowOf(ev)[i] = Flow(ev[i])
        /\ FlowOf(ev)[i] + WithdrawnOf(ev)[i] = DepositedOf(ev)[i] /\ FlowOf(ev)[i] \in Int
    BY <1>1, <2>1, EffectsOf
  <2> QED
    BY <2>2
<1>3. \A i \in B : DepositedOf(ev)[i] = 0
  <2>1. SumFunctionOnSet(DepositedOf(ev), B) = 0
    BY DEF ev, B
  <2> QED
    BY <1>1, <1>2, <2>1, SumOfNaturals
<1>4. \A i \in B : WithdrawnOf(ev)[i] = 0
  <2>1. SumFunctionOnSet(WithdrawnOf(ev), B) = 0
    BY DEF ev, B
  <2> QED
    BY <1>1, <1>2, <2>1, SumOfNaturals
<1>5. \A i \in B : Flow(ev[i]) = 0
  BY <1>2, <1>3, <1>4
<1> QED
  BY <1>5 DEF ev, B

\* The parts of a day are those of its turn.
LEMMA TurnPartsAre ==
  ASSUME NEW h, NEW s, NEW d
  PROVE  TurnDay(h, s, d).parts = [x \in DOMAIN TurnAt(h, s, d).positions |-> Part(h, s, TurnAt(h, s, d), x)]
<1>1. TurnDay(h, s, d) =
        Day(h, s, d, TurnAt(h, s, d), TurnValue(h, s, d), TurnCapital(h, s, d), TurnLink(h, s, d))
  BY DEF TurnDay
<1>2. \A at, value, capital, link :
        Day(h, s, d, at, value, capital, link).parts = [x \in DOMAIN at.positions |-> Part(h, s, at, x)]
  BY DEF Day
<1> QED
  BY <1>1, <1>2

\* The point of a date on the page, from its turn.
LEMMA TurnDayIs ==
  ASSUME NEW h, IsHistory(h), NEW s, NEW d \in 1..To
  PROVE  /\ TurnDay(h, s, d).date = d
         /\ TurnDay(h, s, d).begin = TurnValue(h, s, d).begin
         /\ TurnDay(h, s, d).total = TurnValue(h, s, d).total
         /\ TurnDay(h, s, d).deposits = SumFunctionOnSet(DepositedOf(h.events), EventsOn(h, d))
         /\ TurnDay(h, s, d).withdrawals = SumFunctionOnSet(WithdrawnOf(h.events), EventsOn(h, d))
         /\ TurnDay(h, s, d).fees = SumFunctionOnSet(ChargedOf(h.events), EventsOn(h, d))
         /\ TurnDay(h, s, d).denominator = TurnCapital(h, s, d)
         /\ TurnDay(h, s, d).return = TurnReturn(h, s, d)
         /\ TurnDay(h, s, d).growth = IF TurnValue(h, s, d).total = None THEN None ELSE TurnLink(h, s, d).growth
         /\ TurnDay(h, s, d).drawdown = IF TurnValue(h, s, d).total = None THEN None
                                        ELSE Drawdown(TurnLink(h, s, d).peak, TurnLink(h, s, d).growth)
<1>1. TurnAt(h, s, d).events = EventsOn(h, d)
  BY DEF TurnAt, Marked
<1>2. EventsOn(h, d) \in SUBSET (1..Len(h.events)) /\ IsLedger(h.events)
  BY DayFlow DEF IsHistory
<1>3. /\ Total(h, EventsOn(h, d), {"fee"}, Amount) = SumFunctionOnSet(ChargedOf(h.events), EventsOn(h, d))
      /\ Total(h, EventsOn(h, d), {"deposit"}, Amount) = SumFunctionOnSet(DepositedOf(h.events), EventsOn(h, d))
      /\ Total(h, EventsOn(h, d), {"withdrawal"}, Amount) = SumFunctionOnSet(WithdrawnOf(h.events), EventsOn(h, d))
  BY <1>2, TotalsAre
<1>4. TurnLink(h, s, d).return = TurnReturn(h, s, d)
  BY DEF TurnLink, Chained
<1>5. TurnDay(h, s, d) =
        Day(h, s, d, TurnAt(h, s, d), TurnValue(h, s, d), TurnCapital(h, s, d), TurnLink(h, s, d))
  BY DEF TurnDay
<1>6. \A at, value, capital, link :
        LET day == Day(h, s, d, at, value, capital, link) IN
        /\ day.date = d /\ day.begin = value.begin /\ day.total = value.total
        /\ day.deposits = Total(h, at.events, {"deposit"}, Amount)
        /\ day.withdrawals = Total(h, at.events, {"withdrawal"}, Amount)
        /\ day.fees = Total(h, at.events, {"fee"}, Amount)
        /\ day.denominator = capital /\ day.return = link.return
        /\ day.growth = IF value.total = None THEN None ELSE link.growth
        /\ day.drawdown = IF value.total = None THEN None ELSE Drawdown(link.peak, link.growth)
  BY DEF Day
<1> QED
  BY <1>1, <1>3, <1>4, <1>5, <1>6

\* What the symbols made, less the fees, is the change of the value less the flows.
LEMMA DayMoneyIs ==
  ASSUME NEW h, IsHistory(h), Covered(h.events), NEW s, NEW d \in 1..To, LoopHolds(h, s, d - 1)
  PROVE  /\ SumFunctionOnSet(Beginnings(h, s, d), Traded(h.events, Counted(h, d))) \in Int
         /\ DayMoney(TurnDay(h, s, d)) \in Int
         /\ DayMoney(TurnDay(h, s, d)) =
              (TurnValue(h, s, d).cash + SumFunctionOnSet(Endings(h, s, d), Traded(h.events, Counted(h, d))))
              - (s.cash + SumFunctionOnSet(Beginnings(h, s, d), Traded(h.events, Counted(h, d))))
              - Sum(h.events, EventsOn(h, d), Flow)
<1> DEFINE ev == h.events
           B == EventsOn(h, d)
           C == Counted(h, d)
           D == Traded(ev, C)
           c == [x \in D |-> Contribution(Part(h, s, TurnAt(h, s, d), x))]
           g == [x \in D |-> SumFunctionOnSet(GainedOf(ev), OfSymbol(h, B, x))]
           e == Endings(h, s, d)
           b == Beginnings(h, s, d)
<1>0. IsLedger(ev) /\ d \in 0..To
  BY DEF IsHistory
<1>1. IsFiniteSet(D) /\ DOMAIN TurnAt(h, s, d).positions = D /\ \A x \in D : e[x] \in Int /\ b[x] \in Int
  BY TurnWorth
<1>2. \A x \in D : g[x] \in Int /\ c[x] = e[x] - b[x] + g[x]
  <2> TAKE x \in D
  <2>1. g[x] \in Int /\ Contribution(Part(h, s, TurnAt(h, s, d), x)) = e[x] - b[x] + g[x]
    BY PartMoney
  <2> QED
    BY <2>1
<1>3. SumFunction([x \in DOMAIN TurnDay(h, s, d).parts |-> Contribution(TurnDay(h, s, d).parts[x])])
        = SumFunctionOnSet(c, D)
  <2>1. TurnDay(h, s, d).parts = [x \in D |-> Part(h, s, TurnAt(h, s, d), x)]
    BY <1>1, TurnPartsAre
  <2> HIDE DEF D
  <2>2. [x \in DOMAIN TurnDay(h, s, d).parts |-> Contribution(TurnDay(h, s, d).parts[x])] = c
    BY <2>1
  <2>3. DOMAIN c = D
    OBVIOUS
  <2> HIDE DEF c
  <2> QED
    BY <2>2, <2>3 DEF SumFunction
<1>4. SumFunctionOnSet(g, D) = SumFunctionOnSet(GainedOf(ev), B)
  <2>1. IsFiniteSet(B) /\ B \in SUBSET (1..Len(ev)) /\ B \subseteq C
    <3>1. Counted(h, d) = Counted(h, d - 1) \union EventsOn(h, d)
      BY CountedIs
    <3> QED
      BY <3>1, DayFlow
  <2>2. \A i \in B : GainedOf(ev)[i] \in Int
    <3> TAKE i \in B
    <3>1. i \in 1..Len(ev)
      BY <2>1
    <3> HIDE DEF ev, B
    <3> QED
      BY <1>0, <3>1, EffectsOf
  <2>3. \A i \in B : GainedOf(ev)[i] # 0 => ev[i].symbol \in D
    BY <1>0, <2>1, CoveredIncome
  <2> DEFINE key == [i \in B |-> ev[i].symbol]
             A == WithKeys(B, key, D)
  <2>4. \A x \in D : g[x] = SumFunctionOnSet(GainedOf(ev), WithKey(B, key, x))
    <3> TAKE x \in D
    <3>1. OfSymbol(h, B, x) = WithKey(B, key, x)
      BY DEF OfSymbol, WithKey
    <3>2. g[x] = SumFunctionOnSet(GainedOf(ev), OfSymbol(h, B, x))
      OBVIOUS
    <3> QED
      BY <3>1, <3>2
  <2>5. A \in SUBSET B /\ (\A i \in B \ A : GainedOf(ev)[i] = 0)
    BY <2>3 DEF WithKeys
  <2> HIDE DEF D, g, key, B, ev
  <2>6. SumFunctionOnSet(g, D) = SumFunctionOnSet(GainedOf(ev), A)
    <3>1. IsFiniteSet(D) /\ IsFiniteSet(B)
      BY <1>1, <2>1
    <3>2. \A f, G : /\ \A i \in B : f[i] \in Int
                    /\ \A x \in D : G[x] = SumFunctionOnSet(f, WithKey(B, key, x))
                    => SumFunctionOnSet(G, D) = SumFunctionOnSet(f, WithKeys(B, key, D))
      BY <3>1, SumByClass
    <3> QED
      BY <2>2, <2>4, <3>2 DEF A
  <2> HIDE DEF A
  <2>7. SumFunctionOnSet(GainedOf(ev), B) = SumFunctionOnSet(GainedOf(ev), A)
    <3>1. \A i \in A : GainedOf(ev)[i] \in Int
      BY <2>2, <2>5
    <3> QED
      BY <2>1, <2>5, <3>1, SumOfPart
  <2> QED
    BY <2>6, <2>7
<1>5. /\ SumFunctionOnSet(c, D) \in Int /\ SumFunctionOnSet(e, D) \in Int /\ SumFunctionOnSet(b, D) \in Int
      /\ SumFunctionOnSet(g, D) \in Int
      /\ SumFunctionOnSet(c, D) + SumFunctionOnSet(b, D) = SumFunctionOnSet(e, D) + SumFunctionOnSet(g, D)
  <2> HIDE DEF c, b, e, g, D
  <2>1. \A x \in D : c[x] \in Int /\ b[x] \in Int /\ e[x] \in Int /\ g[x] \in Int /\ c[x] + b[x] = e[x] + g[x]
    BY <1>1, <1>2
  <2>2. \A f : (\A x \in D : f[x] \in Int) => SumFunctionOnSet(f, D) \in Int
    <3> SUFFICES ASSUME NEW f, \A x \in D : f[x] \in Int PROVE SumFunctionOnSet(f, D) \in Int
      OBVIOUS
    <3>1. \A T \in SUBSET D : SumFunctionOnSet(f, T) \in Int
      BY <1>1, SumIsInt
    <3> QED
      BY <3>1
  <2>3. SumFunctionOnSet(c, D) + SumFunctionOnSet(b, D) = SumFunctionOnSet(e, D) + SumFunctionOnSet(g, D)
    BY <1>1, <2>1, SumsBalance
  <2> QED
    BY <2>1, <2>2, <2>3
<1>6. TurnValue(h, s, d).cash = s.cash + Sum(ev, B, CashEffect) /\ s.cash \in Int
  <2>1. Effective(h, B) = B
    <3>1. Effective(h, C) = C /\ B \subseteq C
      <4>1. Counted(h, d) = Counted(h, d - 1) \union EventsOn(h, d)
        BY CountedIs
      <4> QED
        BY <1>0, <4>1, CoveredIncome
    <3> QED
      BY <3>1 DEF Effective
  <2> QED
    BY <2>1, TurnCash
<1>7. TurnDay(h, s, d).fees = SumFunctionOnSet(ChargedOf(ev), B)
  <2>1. TurnDay(h, s, d).fees = SumFunctionOnSet(ChargedOf(h.events), EventsOn(h, d))
    BY TurnDayIs
  <2> QED
    BY <2>1
<1>8. /\ Sum(ev, B, CashEffect) + SumFunctionOnSet(ChargedOf(ev), B)
          = SumFunctionOnSet(GainedOf(ev), B) + SumFunctionOnSet(FlowOf(ev), B)
      /\ Sum(ev, B, Flow) = SumFunctionOnSet(FlowOf(ev), B)
      /\ Sum(ev, B, CashEffect) \in Int /\ SumFunctionOnSet(ChargedOf(ev), B) \in Int
      /\ SumFunctionOnSet(GainedOf(ev), B) \in Int /\ SumFunctionOnSet(FlowOf(ev), B) \in Int
  <2> HIDE DEF c, g, D, e, b
  <2> QED
    BY DayFlow DEF ev, B
<1>9. DayMoney(TurnDay(h, s, d)) = SumFunctionOnSet(c, D) - SumFunctionOnSet(ChargedOf(ev), B)
  BY <1>3, <1>7 DEF DayMoney
<1> HIDE DEF c, g, D, B, ev, e, b
<1>10. DayMoney(TurnDay(h, s, d)) \in Int
  BY <1>5, <1>8, <1>9
<1>11. DayMoney(TurnDay(h, s, d)) =
         (TurnValue(h, s, d).cash + SumFunctionOnSet(e, D)) - (s.cash + SumFunctionOnSet(b, D)) - Sum(ev, B, Flow)
  BY <1>4, <1>5, <1>6, <1>8, <1>9
<1> QED
  BY <1>5, <1>10, <1>11 DEF ev, B, C, D, e, b

\* A number is not None.
LEMMA RatioIsSome ==
  /\ \A n : Whole(n) # None
  /\ \A r : IsRatio(r) => r # None
<1>1. \A a, b : <<a, b>> # <<>>
  OBVIOUS
<1>2. \A r : IsRatio(r) => r = <<r[1], r[2]>>
  BY RatioParts
<1> QED
  BY <1>1, <1>2 DEF Whole, None

-----------------------------------------------------------------------------
(* Values and what they rest on.                                               *)

\* The worth of the positions of the loop at the closes it has.
Held(s) == [x \in DOMAIN s.positions |-> PositionBefore(s, x).quantity * MarkBefore(s, x).last]
WorthHolds(s) == s.total # None => s.total = Whole(s.cash + SumFunctionOnSet(Held(s), DOMAIN s.positions))

\* Before the first value the loop has met no event, or the dates so far are blocked.
ValuedHolds(h, s, d) ==
  /\ s.valued \in BOOLEAN
  /\ s.total # None => s.valued /\ \E n \in Int : s.total = Whole(n)
  /\ ~s.valued => s = Opening \/ Blocked(h, d)

\* A split that blocks a date blocks the later ones.
LEMMA BlockedStays ==
  ASSUME NEW h, IsHistory(h), NEW d \in 1..To
  PROVE  Blocked(h, d - 1) => Blocked(h, d)
<1>1. \A split \in h.pending : split.date \in Nat
  BY DEF IsHistory
<1> QED
  BY <1>1 DEF Blocked

\* On the first date with events everything held has just been bought.
LEMMA FirstIsKnown ==
  ASSUME NEW h, IsHistory(h), NEW d \in 1..To, LoopHolds(h, Opening, d - 1)
  PROVE  Missing(h, Opening, d) = {}
<1> DEFINE ev == h.events
           C == Counted(h, d)
           A == Counted(h, d - 1)
           B == EventsOn(h, d)
<1>0. IsLedger(ev) /\ d \in 0..To /\ d - 1 \in 0..To
  BY PerformanceAssumption DEF IsHistory
<1>1. C \in SUBSET (1..Len(ev)) /\ C = A \union B /\ B \in SUBSET (1..Len(ev))
  <2>1. C \in SUBSET (1..Len(ev)) /\ C = A \union B
    BY <1>0, CountedIs
  <2> QED
    BY <2>1
<1>2. Traded(ev, A) = {}
  <2>1. DOMAIN Opening.positions = {}
    BY DEF Opening
  <2>2. DOMAIN Opening.positions = Traded(ev, A)
    BY DEF LoopHolds
  <2> QED
    BY <2>1, <2>2
<1> HIDE DEF A, B, C, ev
<1>3. ASSUME NEW x \in Traded(ev, C), QuantityOf(ev, C, x) > 0 PROVE TurnAt(h, Opening, d).marks[x].known
  <2>1. \E i \in C : ev[i].type = "buy" /\ ev[i].symbol = x
    <3> SUFFICES ASSUME \A i \in C : ~(ev[i].type = "buy" /\ ev[i].symbol = x) PROVE FALSE
      OBVIOUS
    <3>1. IsPosition(NoPosition) /\ NoPosition.quantity <= 0
      BY NoPositionIs
    <3>2. Replay(NoPosition, ev, C, x).quantity <= 0
      <4> HIDE DEF IsPosition
      <4> QED
        BY <1>0, <1>1, <3>1, HeldWasBought
    <3>3. IsPosition(Replay(NoPosition, ev, C, x))
      <4> HIDE DEF IsPosition
      <4> QED
        BY <1>0, <1>1, <3>1, ReplayIsPosition
    <3>4. Replay(NoPosition, ev, C, x).quantity \in Int
      BY <3>3 DEF IsPosition
    <3> QED
      BY <1>3, <3>2, <3>4 DEF QuantityOf
  <2>2. \E i \in B : ev[i].type = "buy" /\ ev[i].symbol = x
    BY <1>1, <1>2, <2>1 DEF Traded
  <2>3. BoughtFor(h, B, x) \in Nat /\ BoughtFor(h, B, x) > 0
    BY <1>1, <2>2, BoughtForIs DEF ev
  <2>4. MarkBefore(Opening, x) = Unmarked
    BY DEF MarkBefore, Opening
  <2>5. /\ h.bars[x][d] \in Nat
        /\ TurnAt(h, Opening, d).marks[x]
             = MarkedAt(Unmarked, h.bars[x][d], QuantityOf(ev, C, x), BoughtFor(h, B, x))
    BY <2>4, TurnMarks DEF ev, C, B, QuantityOf
  <2>6. \A bar, bought \in Nat : \A q : q > 0 /\ bought > 0 => MarkedAt(Unmarked, bar, q, bought).known
    BY DEF MarkedAt, Unmarked
  <2> QED
    BY <1>3, <2>3, <2>5, <2>6
<1> QED
  BY <1>3 DEF Missing, ev, C

\* A turn keeps ValuedHolds, and its values are whole.
LEMMA TurnValued ==
  ASSUME NEW h, IsHistory(h), NEW s, NEW d \in 1..To, LoopHolds(h, s, d - 1), ValuedHolds(h, s, d - 1)
  PROVE  /\ ValuedHolds(h, Value(h, s, d), d)
         /\ ValuedHolds(h, s, d)
         /\ TurnValue(h, s, d).total # None => \E n \in Int : TurnValue(h, s, d).total = Whole(n)
         /\ TurnValue(h, s, d).begin # None => \E n \in Int : TurnValue(h, s, d).begin = Whole(n)
<1> DEFINE v == TurnValue(h, s, d)
           sum == SumFunctionOnSet(Endings(h, s, d), Traded(h.events, Counted(h, d)))
<1>1. sum \in Int /\ v.cash \in Int
      /\ v.total = (IF Blocked(h, d) \/ Missing(h, s, d) # {} THEN None ELSE Whole(v.cash + sum))
      /\ v.begin = (IF s.total # None THEN s.total ELSE IF s.valued THEN None ELSE Whole(InitialCash))
  BY TurnTotal
<1>2. Value(h, s, d).total = v.total /\ Value(h, s, d).valued = (s.valued \/ v.total # None)
  BY TurnGoesOn
<1>3. InitialCash \in Int
  <2>1. InitialCash \in Nat
    BY PortfolioAssumption
  <2> QED
    BY <2>1
<1> HIDE DEF v, sum
<1>4. v.total # None => \E n \in Int : v.total = Whole(n)
  <2>1. v.cash + sum \in Int
    BY <1>1
  <2> QED
    BY <1>1, <2>1
<1>5. v.begin # None => \E n \in Int : v.begin = Whole(n)
  BY <1>1, <1>3 DEF ValuedHolds
<1>6. ValuedHolds(h, s, d)
  BY BlockedStays DEF ValuedHolds
<1>7. ~s.valued /\ v.total = None => Blocked(h, d)
  <2> SUFFICES ASSUME ~s.valued, v.total = None, ~Blocked(h, d) PROVE FALSE
    OBVIOUS
  <2>1. s = Opening
    BY <1>6 DEF ValuedHolds
  <2>2. Missing(h, s, d) = {}
    BY <2>1, FirstIsKnown
  <2>3. v.total = Whole(v.cash + sum)
    BY <1>1, <2>2
  <2> QED
    BY <2>3, RatioIsSome
<1>8. ValuedHolds(h, Value(h, s, d), d)
  BY <1>2, <1>4, <1>7 DEF ValuedHolds
<1> QED
  BY <1>4, <1>5, <1>6, <1>8 DEF v

\* What a turn starts from: the beginnings of the symbols, over those held before.
LEMMA BeginningsSum ==
  ASSUME NEW h, IsHistory(h), NEW s, NEW d \in 1..To, LoopHolds(h, s, d - 1)
  PROVE  SumFunctionOnSet(Beginnings(h, s, d), Traded(h.events, Counted(h, d)))
           = SumFunctionOnSet(Held(s), DOMAIN s.positions)
<1> DEFINE D == Traded(h.events, Counted(h, d))
           A == DOMAIN s.positions
<1>1. /\ IsFiniteSet(D)
      /\ \A x \in D :
           /\ Beginnings(h, s, d)[x] \in Int
           /\ Beginnings(h, s, d)[x] = PositionBefore(s, x).quantity * MarkBefore(s, x).last
  <2>1. IsFiniteSet(D) /\ \A x \in D : Beginnings(h, s, d)[x] \in Int
    BY TurnWorth
  <2>2. \A x \in D : Beginnings(h, s, d)[x] = PositionBefore(s, x).quantity * MarkBefore(s, x).last
    BY TurnWorth
  <2> QED
    BY <2>1, <2>2
<1>2. A \in SUBSET D
  <2>1. D = A \union Traded(h.events, EventsOn(h, d))
    BY TurnPositions
  <2> QED
    BY <2>1
<1>3. \A x \in A : Held(s)[x] = Beginnings(h, s, d)[x] /\ Beginnings(h, s, d)[x] \in Int
  <2>1. \A x \in A : Held(s)[x] = PositionBefore(s, x).quantity * MarkBefore(s, x).last
    BY DEF Held
  <2> HIDE DEF A, D
  <2> QED
    BY <1>1, <1>2, <2>1
<1>4. \A x \in D \ A : Beginnings(h, s, d)[x] = 0
  <2> TAKE x \in D \ A
  <2>1. PositionBefore(s, x).quantity = 0
    BY DEF PositionBefore, NoPosition
  <2>2. MarkBefore(s, x).last \in Nat
    BY TurnMarks DEF Mark
  <2>3. \A n \in Nat : 0 * n = 0
    OBVIOUS
  <2> HIDE DEF A, D
  <2> QED
    BY <1>1, <2>1, <2>2, <2>3
<1> HIDE DEF A, D
<1>5. SumFunctionOnSet(Held(s), A) = SumFunctionOnSet(Beginnings(h, s, d), D)
  <2>1. \A f, g : \A T \in SUBSET D :
          (\A x \in T : f[x] \in Int /\ g[x] = f[x]) /\ (\A x \in D \ T : f[x] = 0)
          => SumFunctionOnSet(g, T) = SumFunctionOnSet(f, D)
    BY <1>1, SumRestricts
  <2> QED
    BY <1>2, <1>3, <1>4, <2>1
<1> QED
  BY <1>5 DEF A, D

\* Where no position lacks a close, the worth of all of them is what the date adds up.
LEMMA EndingsSum ==
  ASSUME NEW h, IsHistory(h), Covered(h.events), NEW s, NEW d \in 1..To, LoopHolds(h, s, d - 1),
         Missing(h, s, d) = {}
  PROVE  /\ SumFunctionOnSet(Endings(h, s, d), Traded(h.events, Counted(h, d)))
              = SumFunctionOnSet(Held(Value(h, s, d)), DOMAIN Value(h, s, d).positions)
         /\ \A x \in DOMAIN TurnDay(h, s, d).parts : TurnDay(h, s, d).parts[x].valued
<1> DEFINE D == Traded(h.events, Counted(h, d))
           at == TurnAt(h, s, d)
           t == Value(h, s, d)
<1>1. /\ IsFiniteSet(D) /\ DOMAIN at.positions = D
      /\ \A x \in D : at.positions[x].quantity = QuantityOf(h.events, Counted(h, d), x)
      /\ \A x \in D : at.marks[x] \in Mark
      /\ \A x \in D : Endings(h, s, d)[x] = Ending(at, x) /\ Endings(h, s, d)[x] \in Int
  BY TurnWorth
<1>2. t.positions = at.positions /\ t.marks = at.marks
  BY TurnGoesOn
<1>3. \A x \in D : at.positions[x].quantity \in Nat
  <2>1. d \in 0..To
    OBVIOUS
  <2>2. \A x : QuantityOf(h.events, Counted(h, d), x) \in Nat
    BY <2>1, CoveredIncome
  <2> QED
    BY <1>1, <2>2
<1>4. \A x \in D : at.positions[x].quantity > 0 => at.marks[x].known
  BY <1>1 DEF Missing
<1>5. \A x \in D : PositionBefore(t, x) = at.positions[x] /\ MarkBefore(t, x) = at.marks[x]
  <2>1. DOMAIN at.marks = D
    <3>1. at.marks \in [Traded(h.events, Counted(h, d)) -> Mark]
      BY TurnMarks
    <3> QED
      BY <3>1
  <2> QED
    BY <1>1, <1>2, <2>1 DEF PositionBefore, MarkBefore
<1> HIDE DEF at, t, D
<1>6. \A x \in D : Held(t)[x] = at.positions[x].quantity * at.marks[x].last
  BY <1>1, <1>2, <1>5 DEF Held
<1>7. \A x \in D : Held(t)[x] = Endings(h, s, d)[x]
  <2> TAKE x \in D
  <2> DEFINE q == at.positions[x].quantity
             m == at.marks[x]
  <2>1. q \in Nat /\ (q > 0 => m.known) /\ m.last \in Nat
    BY <1>1, <1>3, <1>4 DEF Mark
  <2>2. Endings(h, s, d)[x] = IF q > 0 /\ m.known THEN q * m.last ELSE 0
    BY <1>1 DEF Ending, EndingValue
  <2>3. Held(t)[x] = q * m.last
    BY <1>6
  <2>4. \A n \in Nat : 0 * n = 0
    OBVIOUS
  <2> HIDE DEF q, m
  <2> QED
    BY <2>1, <2>2, <2>3, <2>4
<1>8. SumFunctionOnSet(Endings(h, s, d), D) = SumFunctionOnSet(Held(t), D)
  BY <1>1, <1>7, SumSame
<1>9. \A x \in DOMAIN TurnDay(h, s, d).parts : TurnDay(h, s, d).parts[x].valued
  <2>1. TurnDay(h, s, d).parts = [x \in D |-> Part(h, s, at, x)]
    BY <1>1, TurnPartsAre DEF at
  <2>2. \A x : Part(h, s, at, x).valued = IsValued(at.positions[x], at.marks[x])
    BY DEF Part
  <2>3. \A x \in D : IsValued(at.positions[x], at.marks[x])
    BY <1>3, <1>4 DEF IsValued
  <2> QED
    BY <2>1, <2>2, <2>3
<1> QED
  BY <1>1, <1>2, <1>8, <1>9 DEF at, t, D

\* A turn keeps WorthHolds.
LEMMA TurnWorthHolds ==
  ASSUME NEW h, IsHistory(h), Covered(h.events), NEW s, NEW d \in 1..To, LoopHolds(h, s, d - 1)
  PROVE  WorthHolds(Value(h, s, d))
<1>1. Value(h, s, d).total = TurnValue(h, s, d).total /\ Value(h, s, d).cash = TurnValue(h, s, d).cash
  BY TurnGoesOn
<1>2. TurnValue(h, s, d).total # None =>
        /\ Missing(h, s, d) = {}
        /\ TurnValue(h, s, d).total = Whole(TurnValue(h, s, d).cash
                         + SumFunctionOnSet(Endings(h, s, d), Traded(h.events, Counted(h, d))))
  BY TurnTotal
<1>3. Missing(h, s, d) = {} =>
        SumFunctionOnSet(Endings(h, s, d), Traded(h.events, Counted(h, d)))
          = SumFunctionOnSet(Held(Value(h, s, d)), DOMAIN Value(h, s, d).positions)
  BY EndingsSum
<1> QED
  BY <1>1, <1>2, <1>3 DEF WorthHolds

\* A date makes the difference between its two values and what flowed in.
LEMMA DayMakes ==
  ASSUME NEW h, IsHistory(h), Covered(h.events), NEW s, NEW d \in 1..To, LoopHolds(h, s, d - 1),
         ValuedHolds(h, s, d - 1), WorthHolds(s),
         NEW t \in Int, TurnValue(h, s, d).total = Whole(t),
         NEW b \in Int, TurnValue(h, s, d).begin = Whole(b)
  PROVE  DayMoney(TurnDay(h, s, d)) = t - b - Sum(h.events, EventsOn(h, d), Flow)
<1> DEFINE D == Traded(h.events, Counted(h, d))
           v == TurnValue(h, s, d)
           ends == SumFunctionOnSet(Endings(h, s, d), D)
           begins == SumFunctionOnSet(Beginnings(h, s, d), D)
           flow == Sum(h.events, EventsOn(h, d), Flow)
<1>1. v.total # None /\ v.begin # None
  BY RatioIsSome
<1>2. ends \in Int /\ v.cash \in Int /\ v.total = Whole(v.cash + ends) /\ ~Blocked(h, d)
      /\ v.begin = IF s.total # None THEN s.total ELSE IF s.valued THEN None ELSE Whole(InitialCash)
  BY <1>1, TurnTotal
<1>3. begins \in Int /\ DayMoney(TurnDay(h, s, d)) = (v.cash + ends) - (s.cash + begins) - flow
  BY DayMoneyIs
<1>4. s.cash \in Int
  BY TurnCash
<1>5. begins = SumFunctionOnSet(Held(s), DOMAIN s.positions)
  BY BeginningsSum
<1>6. flow \in Int
  BY DayFlow
<1> HIDE DEF ends, begins, flow, D, v
<1>7. v.cash + ends = t
  <2>1. v.cash + ends \in Int
    BY <1>2
  <2>2. Whole(v.cash + ends) = Whole(t)
    BY <1>2 DEF v
  <2> QED
    BY <2>1, <2>2, WholeArithmetic
<1>8. v.begin = Whole(s.cash + begins)
  <2>1. CASE s.total # None
    BY <1>2, <1>5, <2>1 DEF WorthHolds
  <2>2. CASE s.total = None
    <3>1. ~s.valued /\ v.begin = Whole(InitialCash)
      BY <1>1, <1>2, <2>2 DEF ValuedHolds
    <3>2. s = Opening
      <4>1. Blocked(h, d - 1) => Blocked(h, d)
        BY BlockedStays
      <4> QED
        BY <1>2, <3>1, <4>1 DEF ValuedHolds
    <3>3. s.cash = InitialCash /\ DOMAIN s.positions = {}
      BY <3>2 DEF Opening
    <3>4. begins = 0
      BY <1>5, <3>3, SumEmpty
    <3>5. s.cash + begins = s.cash
      BY <1>4, <3>4
    <3> QED
      BY <3>1, <3>3, <3>5
  <2> QED
    BY <2>1, <2>2
<1>9. s.cash + begins = b
  <2>1. s.cash + begins \in Int
    BY <1>3, <1>4
  <2>2. Whole(s.cash + begins) = Whole(b)
    BY <1>8 DEF v
  <2> QED
    BY <2>1, <2>2, WholeArithmetic
<1> QED
  BY <1>3, <1>7, <1>9 DEF flow

\* The weighted flows are a ratio, and zero without flows.
LEMMA WeightedIs ==
  ASSUME NEW h, IsHistory(h), NEW d \in 1..To, NEW start \in Int, NEW end \in Int
  PROVE  /\ IsRatio(Weighted(h, EventsOn(h, d), start, end))
         /\ (\A i \in EventsOn(h, d) : Flow(h.events[i]) = 0) =>
              Weighted(h, EventsOn(h, d), start, end) = Zero
<1> DEFINE ev == h.events
           B == EventsOn(h, d)
           span == end - start
           stay(e) == IF end < At(e) THEN 0 ELSE IF At(e) < start THEN span ELSE end - At(e)
           f == [i \in DOMAIN ev |-> Flow(ev[i]) * stay(ev[i])]
           sum == SumFunctionOnSet(f, B)
<1>1. Weighted(h, B, start, end) = IF end > start THEN Fraction(sum, span) ELSE Zero
  BY DEF Weighted, Sum
<1>2. IsLedger(ev) /\ B \in SUBSET (1..Len(ev)) /\ IsFiniteSet(B) /\ DOMAIN ev = 1..Len(ev)
  BY DayFlow, EventIs DEF IsHistory
<1>3. \A i \in B : stay(ev[i]) \in Int /\ Flow(ev[i]) \in Int
  <2> TAKE i \in B
  <2>1. i \in 1..Len(ev)
    BY <1>2
  <2>2. ev[i].date \in Nat /\ ev[i] \in LedgerEvent
    BY <1>2, <2>1, EventIs
  <2>3. At(ev[i]) \in Int
    BY <2>2 DEF At
  <2>4. stay(ev[i]) \in Int
    <3> HIDE DEF ev
    <3> QED
      BY <2>3
  <2>5. Flow(ev[i]) \in Int
    BY <2>2, EffectsAre
  <2> QED
    BY <2>4, <2>5
<1>4. \A i \in B : f[i] = Flow(ev[i]) * stay(ev[i])
  BY <1>2
<1> HIDE DEF stay, f, ev, B
<1>5. \A i \in B : f[i] \in Int /\ (Flow(ev[i]) = 0 => f[i] = 0)
  <2> TAKE i \in B
  <2>1. \A a, b \in Int : a * b \in Int /\ 0 * b = 0
    OBVIOUS
  <2> QED
    BY <1>3, <1>4, <2>1
<1>6. sum \in Int
  <2>1. \A T \in SUBSET B : SumFunctionOnSet(f, T) \in Int
    BY <1>2, <1>5, SumIsInt
  <2> QED
    BY <2>1
<1>7. (\A i \in B : Flow(ev[i]) = 0) => sum = 0
  BY <1>2, <1>5, SumOfZeros
<1> HIDE DEF sum
<1>8. end > start => span \in Nat \ {0} /\ Fraction(0, span) = Zero
  <2> SUFFICES ASSUME end > start PROVE span \in Nat \ {0} /\ Fraction(0, span) = Zero
    OBVIOUS
  <2>1. span \in Nat \ {0}
    OBVIOUS
  <2> HIDE DEF span
  <2>2. 1 \in Nat \ {0} /\ 0 \in Int /\ 0 * 1 = 0 * span
    BY <2>1
  <2>3. Fraction(0, span) = Fraction(0, 1)
    BY <2>1, <2>2, FractionsAreSame
  <2> QED
    BY <2>1, <2>3, WholeIs DEF Zero
<1>9. IsRatio(Zero)
  BY WholeIs DEF Zero
<1> HIDE DEF span
<1>10. IsRatio(Weighted(h, B, start, end))
  BY <1>1, <1>6, <1>8, <1>9, FractionIsRatio
<1>11. (\A i \in B : Flow(ev[i]) = 0) => Weighted(h, B, start, end) = Zero
  BY <1>1, <1>7, <1>8
<1> QED
  BY <1>10, <1>11 DEF B, ev

\* The return of a date is what it made on the capital at work.
Returned(h, s, d, t, b, flow) ==
  /\ TurnValue(h, s, d).total = Whole(t) /\ TurnValue(h, s, d).begin = Whole(b)
  /\ IsRatio(TurnCapital(h, s, d)) /\ Below(Zero, TurnCapital(h, s, d))
  /\ TurnReturn(h, s, d) = Over(Whole(t - b - flow), TurnCapital(h, s, d))
  /\ IsRatio(TurnReturn(h, s, d))
  /\ (\A i \in EventsOn(h, d) : Flow(h.events[i]) = 0) => TurnCapital(h, s, d) = Whole(b)

\* A return, where there is one, is the gain over a positive capital.
LEMMA TurnReturns ==
  ASSUME NEW h, IsHistory(h), NEW s, NEW d \in 1..To, LoopHolds(h, s, d - 1),
         ValuedHolds(h, s, d - 1), s.valuedAt \in Int, TurnReturn(h, s, d) # None
  PROVE  /\ IsRatio(TurnReturn(h, s, d))
         /\ \E t, b \in Int : Returned(h, s, d, t, b, Sum(h.events, EventsOn(h, d), Flow))
<1> DEFINE v == TurnValue(h, s, d)
           w == Weighted(h, EventsOn(h, d), s.valuedAt, 3 * d + 1)
           cap == TurnCapital(h, s, d)
           ret == TurnReturn(h, s, d)
           flow == Sum(h.events, EventsOn(h, d), Flow)
<1>1. TurnAt(h, s, d).events = EventsOn(h, d)
  BY DEF TurnAt, Marked
<1>2. cap = IF v.begin = None \/ v.total = None THEN None ELSE Plus(v.begin, w)
  BY <1>1 DEF TurnCapital, Capital
<1>3. ret = IF cap = None \/ AtMost(cap, Zero) THEN None ELSE Over(Minus(Minus(v.total, v.begin), Whole(flow)), cap)
  BY <1>1 DEF TurnReturn, ReturnOn
<1>4. IsRatio(w) /\ ((\A i \in EventsOn(h, d) : Flow(h.events[i]) = 0) => w = Zero)
  <2>1. 3 * d + 1 \in Int
    OBVIOUS
  <2> QED
    BY <2>1, WeightedIs
<1>5. flow \in Int
  BY DayFlow
<1>6. /\ v.total # None => \E n \in Int : v.total = Whole(n)
      /\ v.begin # None => \E n \in Int : v.begin = Whole(n)
  BY TurnValued
<1> HIDE DEF v, w, cap, ret, flow
<1>a. ret # None
  BY DEF ret
<1>7. cap # None /\ ~AtMost(cap, Zero) /\ v.begin # None /\ v.total # None /\ cap = Plus(v.begin, w)
  BY <1>2, <1>3, <1>a
<1>8. PICK t \in Int : v.total = Whole(t)
  BY <1>6, <1>7
<1>9. PICK b \in Int : v.begin = Whole(b)
  BY <1>6, <1>7
<1>10. IsRatio(Whole(b)) /\ IsRatio(Zero)
  BY WholeIs DEF Zero
<1>11. IsRatio(cap)
  BY <1>4, <1>7, <1>9, <1>10, RatioArithmetic
<1>12. Below(Zero, cap)
  BY <1>7, <1>10, <1>11, RatioOrder
<1>13. Minus(Minus(Whole(t), Whole(b)), Whole(flow)) = Whole(t - b - flow) /\ t - b - flow \in Int
  <2>1. Minus(Whole(t), Whole(b)) = Whole(t - b) /\ t - b \in Int
    BY WholeArithmetic
  <2>2. Minus(Whole(t - b), Whole(flow)) = Whole(t - b - flow)
    BY <1>5, <2>1, WholeArithmetic
  <2> QED
    BY <1>5, <2>1, <2>2
<1>14. ret = Over(Whole(t - b - flow), cap)
  BY <1>3, <1>7, <1>8, <1>9, <1>13
<1>15. IsRatio(ret)
  BY <1>11, <1>12, <1>13, <1>14, RatioArithmetic, WholeIs
<1>16. (\A i \in EventsOn(h, d) : Flow(h.events[i]) = 0) => cap = Whole(b)
  BY <1>4, <1>7, <1>9, <1>10, RatioUnits
<1>17. Returned(h, s, d, t, b, flow)
  BY <1>8, <1>9, <1>11, <1>12, <1>14, <1>15, <1>16 DEF Returned, v, cap, ret
<1> QED
  BY <1>15, <1>17 DEF flow, ret

-----------------------------------------------------------------------------
(* The chain of the days on the page.                                          *)

DaysOf(h) == {TurnDay(h, Inner(h)[d - 1], d) : d \in ValuationDates(h)}

\* A stretch of valued days begins at a day, and runs from one day to another.
Begins(days, i) == i = 1 \/ days[i - 1].total = None
Unbroken(days, k, i) == \A j \in k..i : days[j].total # None

\* The highest growth, and at least that of the opening, in the stretch up to a day.
IsPeak(p, days, i) ==
  /\ IsRatio(p) /\ AtMost(One, p)
  /\ \A k \in 1..i : Unbroken(days, k, i) => IsRatio(days[k].growth) /\ AtMost(days[k].growth, p)
  /\ p = One \/ \E k \in 1..i : Unbroken(days, k, i) /\ p = days[k].growth

LinkedAt(days, i) ==
  LET day == days[i]
      before == IF Begins(days, i) THEN One ELSE days[i - 1].growth
  IN  /\ day.total # None =>
           /\ day.growth = Times(before, IF day.return = None THEN One ELSE Plus(One, day.return))
           /\ IsRatio(day.growth)
           /\ \E peak : IsPeak(peak, days, i) /\ day.drawdown = Drawdown(peak, day.growth)
      /\ ~Begins(days, i) => day.begin = days[i - 1].total

\* The state after a date goes on from the last day shown.
ChainHolds(h, s, d) ==
  /\ s.valuedAt \in Int /\ IsRatio(s.growth) /\ IsRatio(s.peak)
  /\ s.days \in Seq(DaysOf(h))
  /\ s.entered = (s.days # <<>>)
  /\ s.days # <<>> => d >= From
  /\ s.start = 0 <=> s.total = None
  /\ s.days # <<>> =>
       LET last == s.days[Len(s.days)] IN
       /\ s.total = last.total
       /\ s.total # None => s.growth = last.growth /\ IsPeak(s.peak, s.days, Len(s.days))
  /\ \A i \in 1..Len(s.days) : LinkedAt(s.days, i)

\* A peak of a beginning of the days is one of all of them.
LEMMA PeakStays ==
  ASSUME NEW p, NEW days, NEW more, NEW i \in Nat, \A j \in 1..i : more[j] = days[j], IsPeak(p, days, i)
  PROVE  IsPeak(p, more, i)
<1>1. \A k \in 1..i : \A j \in k..i : j \in 1..i
  OBVIOUS
<1>2. \A k \in 1..i : Unbroken(more, k, i) <=> Unbroken(days, k, i)
  BY <1>1 DEF Unbroken
<1>3. \A k \in 1..i : more[k].growth = days[k].growth
  OBVIOUS
<1> QED
  BY <1>2, <1>3 DEF IsPeak

\* How a day is linked does not depend on the days after it.
LEMMA LinkStays ==
  ASSUME NEW days, NEW more, NEW i \in Nat \ {0}, \A j \in 1..i : more[j] = days[j], LinkedAt(days, i)
  PROVE  LinkedAt(more, i)
<1>1. more[i] = days[i]
  OBVIOUS
<1>2. i # 1 => more[i - 1] = days[i - 1]
  OBVIOUS
<1>3. \A p : IsPeak(p, days, i) => IsPeak(p, more, i)
  <2>1. i \in Nat
    OBVIOUS
  <2> QED
    BY <2>1, PeakStays
<1>4. Begins(more, i) <=> Begins(days, i)
  BY <1>2 DEF Begins
<1>5. ~Begins(days, i) => more[i - 1] = days[i - 1]
  BY <1>2 DEF Begins
<1> QED
  BY <1>1, <1>3, <1>4, <1>5 DEF LinkedAt

\* The highest growth goes on with the stretch, or begins with it.
LEMMA PeakGoesOn ==
  ASSUME NEW days, NEW n \in Nat \ {0}, days[n].total # None, IsRatio(days[n].growth),
         NEW p, Begins(days, n) => p = One, ~Begins(days, n) => IsPeak(p, days, n - 1)
  PROVE  IsPeak(Larger(p, days[n].growth), days, n)
<1> DEFINE g == days[n].growth
           q == Larger(p, g)
<1>1. IsRatio(p) /\ AtMost(One, p) /\ IsRatio(One)
  <2>1. IsRatio(One) /\ AtMost(One, One)
    <3>1. IsRatio(One)
      BY WholeIs DEF One
    <3> QED
      BY <3>1, RatioOrder
  <2> QED
    BY <2>1 DEF IsPeak
<1>2. IsRatio(q) /\ q \in {p, g} /\ AtMost(p, q) /\ AtMost(g, q)
  BY <1>1, LargerIs
<1> HIDE DEF q
<1>3. AtMost(One, q)
  BY <1>1, <1>2, RatioOrder
<1>4. n \in 1..n /\ Unbroken(days, n, n)
  <2>1. \A j \in n..n : j = n
    OBVIOUS
  <2> QED
    BY <2>1 DEF Unbroken
<1>5. CASE Begins(days, n)
  <2>1. \A k \in 1..n : Unbroken(days, k, n) => k = n
    <3> SUFFICES ASSUME NEW k \in 1..n, Unbroken(days, k, n), k # n PROVE FALSE
      OBVIOUS
    <3>1. n - 1 \in k..n /\ n # 1
      OBVIOUS
    <3> QED
      BY <1>5, <3>1 DEF Begins, Unbroken
  <2>2. p = One
    BY <1>5
  <2>3. IsPeak(q, days, n)
    BY <1>2, <1>3, <1>4, <2>1, <2>2 DEF IsPeak
  <2> QED
    BY <2>3 DEF q
<1>6. CASE ~Begins(days, n)
  <2>1. IsPeak(p, days, n - 1) /\ n # 1
    BY <1>6 DEF Begins
  <2>2. \A k \in 1..(n - 1) : Unbroken(days, k, n) <=> Unbroken(days, k, n - 1)
    <3> TAKE k \in 1..(n - 1)
    <3>1. \A j \in k..n : j \in k..(n - 1) \/ j = n
      OBVIOUS
    <3>2. \A j \in k..(n - 1) : j \in k..n
      OBVIOUS
    <3> QED
      BY <3>1, <3>2 DEF Unbroken
  <2>3. \A k \in 1..n : k \in 1..(n - 1) \/ k = n
    OBVIOUS
  <2>4. \A k \in 1..n : Unbroken(days, k, n) => IsRatio(days[k].growth) /\ AtMost(days[k].growth, q)
    <3> SUFFICES ASSUME NEW k \in 1..n, Unbroken(days, k, n)
                 PROVE  IsRatio(days[k].growth) /\ AtMost(days[k].growth, q)
      OBVIOUS
    <3>1. CASE k = n
      BY <1>2, <3>1
    <3>2. CASE k \in 1..(n - 1)
      <4>1. IsRatio(days[k].growth) /\ AtMost(days[k].growth, p)
        BY <2>1, <2>2, <3>2 DEF IsPeak
      <4> QED
        BY <1>1, <1>2, <4>1, RatioOrder
    <3> QED
      BY <2>3, <3>1, <3>2
  <2>5. q = One \/ \E k \in 1..n : Unbroken(days, k, n) /\ q = days[k].growth
    <3>1. CASE q = g
      BY <1>4, <3>1
    <3>2. CASE q = p
      <4>1. p = One \/ \E k \in 1..(n - 1) : Unbroken(days, k, n - 1) /\ p = days[k].growth
        BY <2>1 DEF IsPeak
      <4>2. \A k \in 1..(n - 1) : k \in 1..n
        OBVIOUS
      <4> QED
        BY <2>2, <3>2, <4>1, <4>2
    <3> QED
      BY <1>2, <3>1, <3>2
  <2>6. IsPeak(q, days, n)
    BY <1>2, <1>3, <2>4, <2>5 DEF IsPeak
  <2> QED
    BY <2>6 DEF q
<1> QED
  BY <1>5, <1>6 DEF q

\* How a turn links its return.
LEMMA TurnLinks ==
  ASSUME NEW h, IsHistory(h), NEW s, NEW d \in 1..To, LoopHolds(h, s, d - 1),
         ValuedHolds(h, s, d - 1), ChainHolds(h, s, d - 1)
  PROVE  LET link == TurnLink(h, s, d)
             ret == TurnReturn(h, s, d)
             fresh == link.fresh
         IN  /\ link.entering = (d >= From /\ ~s.entered)
             /\ fresh = (link.entering \/ s.start = 0)
             /\ link.growth = Times(IF fresh THEN One ELSE s.growth, IF ret = None THEN One ELSE Plus(One, ret))
             /\ link.peak = Larger(IF fresh THEN One ELSE s.peak, link.growth)
             /\ IsRatio(link.growth) /\ IsRatio(link.peak)
<1> DEFINE link == TurnLink(h, s, d)
           ret == TurnReturn(h, s, d)
<1>1. /\ link.entering = (d >= From /\ ~s.entered)
      /\ link.fresh = (link.entering \/ s.start = 0)
      /\ link.growth = Times(IF link.fresh THEN One ELSE s.growth, IF ret = None THEN One ELSE Plus(One, ret))
      /\ link.peak = Larger(IF link.fresh THEN One ELSE s.peak, link.growth)
  BY DEF TurnLink, Chained, Compounded
<1>2. IsRatio(s.growth) /\ IsRatio(s.peak) /\ s.valuedAt \in Int
  BY DEF ChainHolds
<1>3. ret # None => IsRatio(ret)
  BY <1>2, TurnReturns
<1>4. IsRatio(One)
  BY WholeIs DEF One
<1> HIDE DEF link, ret
<1>5. IsRatio(IF ret = None THEN One ELSE Plus(One, ret))
  BY <1>3, <1>4, RatioArithmetic
<1>6. IsRatio(link.growth)
  BY <1>1, <1>2, <1>4, <1>5, RatioArithmetic
<1>7. IsRatio(link.peak)
  BY <1>1, <1>2, <1>4, <1>6, LargerIs
<1> QED
  BY <1>1, <1>6, <1>7 DEF link, ret

\* The chain begins without days.
LEMMA ChainBegins ==
  ASSUME NEW h PROVE ChainHolds(h, Opening, 0)
<1>1. IsRatio(One)
  BY WholeIs DEF One
<1>2. <<>> \in Seq(DaysOf(h)) /\ Len(<<>>) = 0
  OBVIOUS
<1>3. \A i \in 1..0 : FALSE
  OBVIOUS
<1>4. /\ Opening.valuedAt = 3 /\ Opening.growth = One /\ Opening.peak = One /\ Opening.days = <<>>
      /\ Opening.entered = FALSE /\ Opening.start = 0 /\ Opening.total = None
  BY DEF Opening
<1>5. \A i \in 1..Len(Opening.days) : FALSE
  BY <1>2, <1>3, <1>4
<1>6. Opening.entered = (Opening.days # <<>>)
  BY <1>4
<1>7. Opening.days = <<>> => ~(Opening.days # <<>>)
  OBVIOUS
<1>8. Opening.valuedAt \in Int /\ IsRatio(Opening.growth) /\ IsRatio(Opening.peak)
      /\ Opening.days \in Seq(DaysOf(h)) /\ (Opening.start = 0 <=> Opening.total = None)
  BY <1>1, <1>2, <1>4
<1> HIDE DEF Opening
<1> QED
  BY <1>4, <1>5, <1>6, <1>7, <1>8 DEF ChainHolds

\* A turn keeps ChainHolds.
LEMMA ChainTurns ==
  ASSUME NEW h, IsHistory(h), NEW d \in ValuationDates(h), d \in 1..To, NEW s, s = Inner(h)[d - 1],
         LoopHolds(h, s, d - 1), ValuedHolds(h, s, d - 1), ChainHolds(h, s, d - 1)
  PROVE  ChainHolds(h, Value(h, s, d), d)
<1> DEFINE t == Value(h, s, d)
           v == TurnValue(h, s, d)
           link == TurnLink(h, s, d)
           day == TurnDay(h, s, d)
           ret == TurnReturn(h, s, d)
           n == Len(s.days) + 1
           more == Append(s.days, day)
<1>1. /\ t.total = v.total
      /\ t.valuedAt = IF v.total = None THEN 3 ELSE 3 * d + 1
      /\ t.entered = (s.entered \/ link.entering)
      /\ t.start = IF v.total = None THEN 0 ELSE IF link.fresh THEN d ELSE s.start
      /\ t.growth = link.growth /\ t.peak = link.peak
      /\ t.days = IF d >= From THEN more ELSE s.days
  BY TurnGoesOn
<1>2. /\ link.entering = (d >= From /\ ~s.entered)
      /\ link.fresh = (link.entering \/ s.start = 0)
      /\ link.growth = Times(IF link.fresh THEN One ELSE s.growth, IF ret = None THEN One ELSE Plus(One, ret))
      /\ link.peak = Larger(IF link.fresh THEN One ELSE s.peak, link.growth)
      /\ IsRatio(link.growth) /\ IsRatio(link.peak)
  BY TurnLinks
<1>3. /\ day.begin = v.begin /\ day.total = v.total /\ day.return = ret
      /\ day.growth = IF v.total = None THEN None ELSE link.growth
      /\ day.drawdown = IF v.total = None THEN None ELSE Drawdown(link.peak, link.growth)
  BY TurnDayIs
<1>4. v.begin = IF s.total # None THEN s.total ELSE IF s.valued THEN None ELSE Whole(InitialCash)
  BY DEF TurnValue, Valued
<1>5. day \in DaysOf(h)
  BY DEF DaysOf
<1> HIDE DEF t, v, link, day, ret
<1>6. /\ s.days \in Seq(DaysOf(h)) /\ s.entered = (s.days # <<>>) /\ (s.days # <<>> => d - 1 >= From)
      /\ (s.start = 0 <=> s.total = None)
      /\ \A i \in 1..Len(s.days) : LinkedAt(s.days, i)
      /\ s.days # <<>> => LET last == s.days[Len(s.days)] IN
           /\ s.total = last.total
           /\ s.total # None => s.growth = last.growth /\ IsPeak(s.peak, s.days, Len(s.days))
  BY DEF ChainHolds
<1>7. d \in Nat \ {0} /\ From \in Nat
  BY PerformanceAssumption
<1>8. t.valuedAt \in Int /\ IsRatio(t.growth) /\ IsRatio(t.peak)
  <2>1. 3 * d + 1 \in Int
    BY <1>7
  <2> QED
    BY <1>1, <1>2, <2>1
<1>9. t.start = 0 <=> t.total = None
  BY <1>1, <1>2, <1>6, <1>7
<1>10. CASE ~(d >= From)
  <2>1. s.days = <<>>
    BY <1>6, <1>7, <1>10
  <2>2. t.days = <<>> /\ t.entered = FALSE
    BY <1>1, <1>2, <1>6, <1>10, <2>1
  <2>3. <<>> \in Seq(DaysOf(h)) /\ \A i \in 1..Len(<<>>) : FALSE
    OBVIOUS
  <2>4. ChainHolds(h, t, d)
    BY <1>8, <1>9, <2>2, <2>3 DEF ChainHolds
  <2> QED
    BY <2>4 DEF t
<1>11. CASE d >= From
  <2>1. /\ more \in Seq(DaysOf(h)) /\ Len(more) = n /\ n \in Nat \ {0} /\ more[n] = day /\ more # <<>>
        /\ \A j \in 1..(n - 1) : more[j] = s.days[j]
        /\ (s.days = <<>> <=> n = 1)
        /\ Len(s.days) = n - 1
    BY <1>5, <1>6
  <2> HIDE DEF more, n
  <2>2. t.days = more /\ t.entered = TRUE /\ link.entering = (n = 1)
    BY <1>1, <1>2, <1>6, <1>11, <2>1
  <2>3. n # 1 => /\ more[n - 1] = s.days[n - 1] /\ s.total = more[n - 1].total
                 /\ s.total # None => s.growth = more[n - 1].growth /\ IsPeak(s.peak, more, n - 1)
    <3> SUFFICES ASSUME n # 1
                 PROVE  /\ more[n - 1] = s.days[n - 1] /\ s.total = more[n - 1].total
                        /\ s.total # None => s.growth = more[n - 1].growth /\ IsPeak(s.peak, more, n - 1)
      OBVIOUS
    <3>1. n - 1 \in 1..(n - 1) /\ n - 1 \in Nat
      BY <2>1
    <3>2. more[n - 1] = s.days[n - 1]
      BY <2>1, <3>1
    <3>3. s.total = more[n - 1].total
          /\ (s.total # None => s.growth = more[n - 1].growth /\ IsPeak(s.peak, s.days, n - 1))
      BY <1>6, <2>1, <3>2
    <3>4. IsPeak(s.peak, s.days, n - 1) => IsPeak(s.peak, more, n - 1)
      BY <2>1, <3>1, PeakStays
    <3> QED
      BY <3>2, <3>3, <3>4
  <2>4. link.fresh <=> Begins(more, n)
    BY <1>2, <1>6, <2>2, <2>3 DEF Begins
  <2>5. ~Begins(more, n) => n # 1 /\ s.total # None
    BY <2>3 DEF Begins
  <2>6. link.fresh \in BOOLEAN
    BY <1>2
  <2>7. v.total # None => IsPeak(link.peak, more, n)
    <3> SUFFICES ASSUME v.total # None PROVE IsPeak(link.peak, more, n)
      OBVIOUS
    <3> DEFINE p == IF link.fresh THEN One ELSE s.peak
    <3>1. more[n].total # None /\ more[n].growth = link.growth /\ IsRatio(more[n].growth)
      BY <1>2, <1>3, <2>1
    <3>2. Begins(more, n) => p = One
      BY <2>4
    <3>3. ~Begins(more, n) => IsPeak(p, more, n - 1)
      BY <2>3, <2>4, <2>5
    <3>4. link.peak = Larger(p, more[n].growth)
      BY <1>2, <3>1
    <3> HIDE DEF p
    <3>5. IsPeak(Larger(p, more[n].growth), more, n)
      BY <2>1, <3>1, <3>2, <3>3, PeakGoesOn
    <3> QED
      BY <3>4, <3>5
  <2>8. LinkedAt(more, n)
    <3>1. v.total # None =>
            /\ day.growth = Times(IF Begins(more, n) THEN One ELSE more[n - 1].growth,
                                  IF ret = None THEN One ELSE Plus(One, ret))
            /\ IsRatio(day.growth)
            /\ day.drawdown = Drawdown(link.peak, day.growth)
      BY <1>2, <1>3, <2>3, <2>4, <2>5
    <3>2. ~Begins(more, n) => day.begin = more[n - 1].total
      BY <1>3, <1>4, <2>3, <2>5
    <3> QED
      BY <1>3, <2>1, <2>7, <3>1, <3>2 DEF LinkedAt
  <2>9. \A i \in 1..Len(more) : LinkedAt(more, i)
    <3> SUFFICES ASSUME NEW i \in 1..n PROVE LinkedAt(more, i)
      BY <2>1
    <3>1. CASE i = n
      BY <2>8, <3>1
    <3>2. CASE i # n
      <4>1. i \in 1..Len(s.days) /\ i \in Nat \ {0} /\ \A j \in 1..i : j \in 1..(n - 1)
        BY <2>1, <3>2
      <4>2. LinkedAt(s.days, i)
        BY <1>6, <4>1
      <4> QED
        BY <2>1, <4>1, <4>2, LinkStays
    <3> QED
      BY <3>1, <3>2
  <2>10. t.total = more[n].total /\ (t.total # None => t.growth = more[n].growth /\ IsPeak(t.peak, more, n))
    BY <1>1, <1>3, <2>1, <2>7
  <2>11. ChainHolds(h, t, d)
    BY <1>8, <1>9, <1>11, <2>1, <2>2, <2>9, <2>10 DEF ChainHolds
  <2> QED
    BY <2>11 DEF t
<1> QED
  BY <1>10, <1>11

\* Valuation dates lie in the range.
LEMMA DatesAre ==
  ASSUME NEW h PROVE ValuationDates(h) \subseteq 1..To
BY DEF ValuationDates

\* What holds of the loop after each date.
EngineHolds(h, d) ==
  /\ LoopHolds(h, Inner(h)[d], d)
  /\ ValuedHolds(h, Inner(h)[d], d)
  /\ ChainHolds(h, Inner(h)[d], d)
  /\ Covered(h.events) => WorthHolds(Inner(h)[d])

\* The invariant of the loop holds on every date.
LEMMA EngineAlwaysHolds ==
  ASSUME NEW h, IsHistory(h)
  PROVE  \A d \in 0..To : EngineHolds(h, d)
<1> DEFINE known == {d \in 0..To : EngineHolds(h, d)}
<1>0. To \in Nat
  BY PerformanceAssumption
<1>1. 0 \in known
  <2>1. Inner(h)[0] = Opening
    BY InnerIsDefined
  <2>2. ValuedHolds(h, Opening, 0)
    BY DEF ValuedHolds, Opening
  <2>3. WorthHolds(Opening)
    BY DEF WorthHolds, Opening
  <2>4. EngineHolds(h, 0)
    BY <2>1, <2>2, <2>3, LoopBegins, ChainBegins DEF EngineHolds
  <2> QED
    BY <1>0, <2>4
<1>2. ASSUME NEW k \in 0..To, k \in known, k < To PROVE k + 1 \in known
  <2> DEFINE d == k + 1
             s == Inner(h)[k]
  <2>1. d \in 1..To /\ d - 1 = k /\ d \in 0..To
    BY <1>0, <1>2
  <2>2. EngineHolds(h, d - 1)
    BY <1>2, <2>1
  <2>3. s = Inner(h)[d - 1]
    BY <2>1
  <2> HIDE DEF d, s
  <2>4. LoopHolds(h, s, d - 1) /\ ValuedHolds(h, s, d - 1) /\ ChainHolds(h, s, d - 1)
        /\ (Covered(h.events) => WorthHolds(s))
    BY <2>2, <2>3 DEF EngineHolds
  <2>5. Inner(h)[d] = IF d \in ValuationDates(h) THEN Value(h, s, d) ELSE s
    BY <2>1, <2>3, InnerIsDefined
  <2>6. LoopHolds(h, Inner(h)[d], d)
    BY <2>1, <2>4, <2>5, LoopTurns
  <2>7. ValuedHolds(h, Inner(h)[d], d)
    BY <2>1, <2>4, <2>5, TurnValued
  <2>8. ChainHolds(h, Inner(h)[d], d)
    <3>1. CASE d \in ValuationDates(h)
      BY <2>1, <2>3, <2>4, <2>5, <3>1, ChainTurns
    <3>2. CASE d \notin ValuationDates(h)
      <4>1. d - 1 >= From => d >= From
        BY <2>1, PerformanceAssumption
      <4> QED
        BY <2>4, <2>5, <3>2, <4>1 DEF ChainHolds
    <3> QED
      BY <3>1, <3>2
  <2>9. Covered(h.events) => WorthHolds(Inner(h)[d])
    BY <2>1, <2>4, <2>5, TurnWorthHolds
  <2>10. EngineHolds(h, d)
    BY <2>6, <2>7, <2>8, <2>9 DEF EngineHolds
  <2> QED
    BY <2>1, <2>10 DEF d
<1> HIDE DEF known
<1>3. 0..To \subseteq known
  BY <1>0, <1>1, <1>2, UpTo
<1> QED
  BY <1>3 DEF known

\* What holds of each day on the page.
DayHolds(h, day) ==
  /\ day.deposits \in Nat /\ day.withdrawals \in Nat
  /\ day.total # None => \E n \in Int : day.total = Whole(n)
  /\ day.begin # None => \E n \in Int : day.begin = Whole(n)
  /\ day.return # None =>
       \E t, b \in Int :
         /\ day.total = Whole(t) /\ day.begin = Whole(b)
         /\ IsRatio(day.denominator) /\ Below(Zero, day.denominator)
         /\ day.return = Over(Whole(t - b - (day.deposits - day.withdrawals)), day.denominator)
         /\ IsRatio(day.return)
         /\ day.deposits = 0 /\ day.withdrawals = 0 => day.denominator = Whole(b)
         /\ Covered(h.events) => DayMoney(day) = t - b - (day.deposits - day.withdrawals)
  /\ Covered(h.events) /\ day.total # None => \A x \in DOMAIN day.parts : day.parts[x].valued

\* What every day on the page satisfies.
LEMMA DaysHold ==
  ASSUME NEW h, IsHistory(h)
  PROVE  \A day \in DaysOf(h) : DayHolds(h, day)
<1> SUFFICES ASSUME NEW d \in ValuationDates(h) PROVE DayHolds(h, TurnDay(h, Inner(h)[d - 1], d))
  BY DEF DaysOf
<1> DEFINE s == Inner(h)[d - 1]
           day == TurnDay(h, s, d)
           v == TurnValue(h, s, d)
           flow == Sum(h.events, EventsOn(h, d), Flow)
<1>1. d \in 1..To /\ d - 1 \in 0..To
  BY PerformanceAssumption, DatesAre
<1>2. LoopHolds(h, s, d - 1) /\ ValuedHolds(h, s, d - 1) /\ s.valuedAt \in Int
      /\ (Covered(h.events) => WorthHolds(s))
  BY <1>1, EngineAlwaysHolds DEF EngineHolds, ChainHolds
<1>3. /\ day.begin = v.begin /\ day.total = v.total
      /\ day.deposits = SumFunctionOnSet(DepositedOf(h.events), EventsOn(h, d))
      /\ day.withdrawals = SumFunctionOnSet(WithdrawnOf(h.events), EventsOn(h, d))
      /\ day.denominator = TurnCapital(h, s, d) /\ day.return = TurnReturn(h, s, d)
  BY <1>1, TurnDayIs
<1>4. day.deposits \in Nat /\ day.withdrawals \in Nat /\ flow = day.deposits - day.withdrawals /\ flow \in Int
  BY <1>1, <1>3, DayFlow
<1>5. day.deposits = 0 /\ day.withdrawals = 0 => \A i \in EventsOn(h, d) : Flow(h.events[i]) = 0
  BY <1>1, <1>3, DayWithoutFlow
<1> HIDE DEF s, flow
<1>6. /\ v.total # None => \E n \in Int : v.total = Whole(n)
      /\ v.begin # None => \E n \in Int : v.begin = Whole(n)
  BY <1>1, <1>2, TurnValued
<1>7. day.return # None =>
       \E t, b \in Int :
         /\ day.total = Whole(t) /\ day.begin = Whole(b)
         /\ IsRatio(day.denominator) /\ Below(Zero, day.denominator)
         /\ day.return = Over(Whole(t - b - (day.deposits - day.withdrawals)), day.denominator)
         /\ IsRatio(day.return)
         /\ day.deposits = 0 /\ day.withdrawals = 0 => day.denominator = Whole(b)
         /\ Covered(h.events) => DayMoney(day) = t - b - (day.deposits - day.withdrawals)
  <2> SUFFICES ASSUME day.return # None
               PROVE \E t, b \in Int :
         /\ day.total = Whole(t) /\ day.begin = Whole(b)
         /\ IsRatio(day.denominator) /\ Below(Zero, day.denominator)
         /\ day.return = Over(Whole(t - b - (day.deposits - day.withdrawals)), day.denominator)
         /\ IsRatio(day.return)
         /\ day.deposits = 0 /\ day.withdrawals = 0 => day.denominator = Whole(b)
         /\ Covered(h.events) => DayMoney(day) = t - b - (day.deposits - day.withdrawals)
    OBVIOUS
  <2>1. TurnReturn(h, s, d) # None
    BY <1>3
  <2>2. PICK t, b \in Int : Returned(h, s, d, t, b, flow)
    BY <1>1, <1>2, <2>1, TurnReturns DEF flow
  <2>a. /\ TurnValue(h, s, d).total = Whole(t) /\ TurnValue(h, s, d).begin = Whole(b)
        /\ IsRatio(TurnCapital(h, s, d)) /\ Below(Zero, TurnCapital(h, s, d))
        /\ TurnReturn(h, s, d) = Over(Whole(t - b - flow), TurnCapital(h, s, d))
        /\ IsRatio(TurnReturn(h, s, d))
        /\ (\A i \in EventsOn(h, d) : Flow(h.events[i]) = 0) => TurnCapital(h, s, d) = Whole(b)
    BY <2>2 DEF Returned
  <2>3. Covered(h.events) => DayMoney(day) = t - b - flow
    BY <1>1, <1>2, <2>a, DayMakes DEF flow
  <2> HIDE DEF day, v
  <2>4. day.deposits = 0 /\ day.withdrawals = 0 => day.denominator = Whole(b)
    BY <1>3, <1>5, <2>a
  <2>5. day.total = Whole(t) /\ day.begin = Whole(b)
    BY <1>3, <2>a DEF v
  <2> QED
    BY <1>3, <1>4, <2>a, <2>3, <2>4, <2>5
<1>8. Covered(h.events) /\ day.total # None => \A x \in DOMAIN day.parts : day.parts[x].valued
  <2>1. v.total # None => Missing(h, s, d) = {}
    BY <1>1, <1>2, TurnTotal
  <2> QED
    BY <1>1, <1>2, <1>3, <2>1, EndingsSum
<1> HIDE DEF day, v
<1>9. DayHolds(h, day)
  BY <1>3, <1>4, <1>6, <1>7, <1>8 DEF DayHolds
<1> QED
  BY <1>9 DEF day, s

-----------------------------------------------------------------------------
(* The last stretch of valued days.                                            *)

\* The last stretch is the last unbroken run of valued days.
LEMMA StretchIs ==
  ASSUME NEW S, NEW days \in Seq(S), LastStretch(days) # <<>>
  PROVE  \E a, b \in Nat :
           /\ a < b /\ b <= Len(days)
           /\ LastStretch(days) = SubSeq(days, a + 1, b)
           /\ Unbroken(days, a + 1, b)
           /\ a = 0 \/ days[a].total = None
<1> DEFINE valued == {i \in DOMAIN days : days[i].total # None}
           gaps(last) == {i \in 1..last : days[i].total = None}
           b == Max(valued)
           a == Max(gaps(b) \union {0})
           n == Len(days)
<1>0. n \in Nat /\ DOMAIN days = 1..n
  OBVIOUS
<1>1. valued # {} /\ LastStretch(days) = SubSeq(days, a + 1, b)
  BY DEF LastStretch
<1>2. b \in valued
  <2>1. valued \in SUBSET (0..n)
    BY <1>0
  <2> HIDE DEF valued
  <2> QED
    BY <1>0, <1>1, <2>1, GreatestIs
<1>3. b \in 1..n /\ days[b].total # None
  BY <1>0, <1>2
<1> HIDE DEF b, valued, n
<1>4. a \in gaps(b) \union {0} /\ \A y \in gaps(b) \union {0} : y <= a
  <2> DEFINE G == gaps(b) \union {0}
  <2>1. G \in SUBSET (0..b) /\ G # {} /\ b \in Nat
    BY <1>0, <1>3
  <2>2. Max(G) \in G /\ \A y \in G : y <= Max(G)
    <3> HIDE DEF G
    <3> QED
      BY <2>1, GreatestIs
  <2> QED
    BY <2>2
<1> HIDE DEF a
<1>5. a = 0 \/ (a \in 1..b /\ days[a].total = None)
  BY <1>4
<1>6. a \in Nat /\ b \in Nat /\ a < b /\ b <= n
  BY <1>0, <1>3, <1>5
<1>7. \A j \in (a + 1)..b : days[j].total # None
  <2> SUFFICES ASSUME NEW j \in (a + 1)..b, days[j].total = None PROVE FALSE
    OBVIOUS
  <2>1. j \in 1..b
    BY <1>6
  <2>2. j <= a
    BY <1>4, <2>1
  <2> QED
    BY <1>6, <2>2
<1> QED
  BY <1>1, <1>5, <1>6, <1>7 DEF Unbroken, n

\* The days of a stretch follow each other as they do in the range.
LEMMA StretchLinks ==
  ASSUME NEW S, NEW days \in Seq(S), \A i \in 1..Len(days) : LinkedAt(days, i), LastStretch(days) # <<>>
  PROVE  LET stretch == LastStretch(days) IN
         /\ stretch \in Seq(S) /\ Len(stretch) \in Nat \ {0}
         /\ \A i \in 1..Len(stretch) : stretch[i] \in S /\ stretch[i].total # None /\ LinkedAt(stretch, i)
<1> DEFINE st == LastStretch(days)
<1>1. PICK a, b \in Nat :
           /\ a < b /\ b <= Len(days)
           /\ st = SubSeq(days, a + 1, b)
           /\ Unbroken(days, a + 1, b)
           /\ a = 0 \/ days[a].total = None
  BY StretchIs
<1> HIDE DEF st
<1>2. /\ Len(st) = b - a /\ \A i \in 1..(b - a) : st[i] = days[a + i]
      /\ st \in Seq(S) /\ b - a \in Nat \ {0}
  BY <1>1
<1>3. \A i \in 1..(b - a) : a + i \in (a + 1)..b /\ a + i \in 1..Len(days)
  BY <1>1
<1>4. \A i \in 1..(b - a) : st[i] \in S /\ st[i].total # None
  BY <1>1, <1>2, <1>3 DEF Unbroken
<1>5. \A i \in 1..(b - a) : Begins(st, i) <=> i = 1
  <2> TAKE i \in 1..(b - a)
  <2>1. i # 1 => i - 1 \in 1..(b - a)
    OBVIOUS
  <2> QED
    BY <1>4, <2>1 DEF Begins
<1>6. \A i \in 1..(b - a) : Begins(days, a + i) <=> i = 1
  <2> TAKE i \in 1..(b - a)
  <2>1. i # 1 => i - 1 \in 1..(b - a) /\ a + i - 1 = a + (i - 1) /\ a + i # 1
    BY <1>1
  <2>2. i # 1 => days[a + i - 1].total # None
    BY <1>2, <1>4, <2>1
  <2>3. i = 1 => a + i - 1 = a /\ (a = 0 => a + i = 1)
    BY <1>1
  <2> QED
    BY <1>1, <2>1, <2>2, <2>3 DEF Begins
<1>7. ASSUME NEW i \in 1..(b - a), NEW p, IsPeak(p, days, a + i) PROVE IsPeak(p, st, i)
  <2>1. \A k \in 1..i : k \in 1..(b - a) /\ a + k \in 1..(a + i) /\ st[k] = days[a + k]
    <3>1. \A k \in 1..i : k \in 1..(b - a) /\ a + k \in 1..(a + i)
      OBVIOUS
    <3> QED
      BY <1>2, <3>1
  <2>2. \A k \in 1..i : Unbroken(days, a + k, a + i)
    <3>1. \A k \in 1..i : \A j \in (a + k)..(a + i) : j \in (a + 1)..b
      BY <1>1
    <3> QED
      BY <1>1, <3>1 DEF Unbroken
  <2>3. \A k \in 1..i : Unbroken(st, k, i)
    <3>1. \A k \in 1..i : \A j \in k..i : j \in 1..(b - a)
      OBVIOUS
    <3> QED
      BY <1>4, <3>1 DEF Unbroken
  <2>4. \A k \in 1..(a + i) : Unbroken(days, k, a + i) => k - a \in 1..i /\ k = a + (k - a)
    <3> SUFFICES ASSUME NEW k \in 1..(a + i), Unbroken(days, k, a + i), ~(k - a \in 1..i) PROVE FALSE
      BY <1>1
    <3>1. a \in k..(a + i) /\ a # 0
      BY <1>1
    <3> QED
      BY <1>1, <3>1 DEF Unbroken
  <2>5. \A k \in 1..i : IsRatio(st[k].growth) /\ AtMost(st[k].growth, p)
    BY <1>7, <2>1, <2>2 DEF IsPeak
  <2>6. p = One \/ \E k \in 1..i : p = st[k].growth
    <3>1. p = One \/ \E k \in 1..(a + i) : Unbroken(days, k, a + i) /\ p = days[k].growth
      BY <1>7 DEF IsPeak
    <3>2. ASSUME NEW k \in 1..(a + i), Unbroken(days, k, a + i), p = days[k].growth
          PROVE  \E m \in 1..i : p = st[m].growth
      <4>1. k - a \in 1..i /\ k = a + (k - a)
        BY <2>4, <3>2
      <4>2. st[k - a] = days[k]
        BY <2>1, <4>1
      <4> QED
        BY <3>2, <4>1, <4>2
    <3> QED
      BY <3>1, <3>2
  <2> QED
    BY <1>7, <2>3, <2>5, <2>6 DEF IsPeak
<1>8. ASSUME NEW i \in 1..(b - a) PROVE LinkedAt(st, i)
  <2>1. LinkedAt(days, a + i) /\ st[i] = days[a + i]
    BY <1>2, <1>3
  <2>2. i # 1 => st[i - 1] = days[a + i - 1]
    <3>1. i # 1 => i - 1 \in 1..(b - a) /\ a + i - 1 = a + (i - 1)
      BY <1>1
    <3> QED
      BY <1>2, <3>1
  <2>3. Begins(st, i) <=> Begins(days, a + i)
    BY <1>5, <1>6
  <2>4. ~Begins(st, i) => st[i - 1] = days[a + i - 1]
    BY <1>5, <2>2
  <2> QED
    BY <1>7, <2>1, <2>3, <2>4 DEF LinkedAt
<1> QED
  BY <1>2, <1>4, <1>8 DEF st

-----------------------------------------------------------------------------
(* The days that are linked: those of the stretch that have an opening value.   *)

LinkedOf(stretch) == IF stretch # <<>> /\ stretch[1].begin = None THEN Tail(stretch) ELSE stretch
GrowsBy(day) == IF day.return = None THEN One ELSE Plus(One, day.return)

LinkHolds(h, days) ==
  /\ days \in Seq(DaysOf(h)) /\ Len(days) \in Nat \ {0}
  /\ \A i \in 1..Len(days) : DayHolds(h, days[i]) /\ days[i].total # None /\ IsRatio(days[i].growth)
  /\ days[1].growth = Times(One, GrowsBy(days[1]))
  /\ \A i \in 2..Len(days) : days[i].growth = Times(days[i - 1].growth, GrowsBy(days[i]))
                             /\ days[i].begin = days[i - 1].total

\* The linked days of a stretch follow one another without a gap.
LEMMA LinkedHolds ==
  ASSUME NEW h, IsHistory(h), NEW stretch, stretch = LastStretch(Inner(h)[To].days), LinkedOf(stretch) # <<>>
  PROVE  /\ LinkHolds(h, LinkedOf(stretch))
         /\ stretch \in Seq(DaysOf(h)) /\ Len(stretch) \in Nat \ {0}
         /\ stretch[Len(stretch)] = LinkedOf(stretch)[Len(LinkedOf(stretch))]
         /\ IF stretch[1].begin = None
            THEN /\ stretch[1].return = None /\ LinkedOf(stretch) = Tail(stretch)
                 /\ LinkedOf(stretch)[1].begin = stretch[1].total
            ELSE LinkedOf(stretch) = stretch
<1> DEFINE days == Inner(h)[To].days
           n == Len(stretch)
           ln == LinkedOf(stretch)
<1>1. days \in Seq(DaysOf(h)) /\ \A i \in 1..Len(days) : LinkedAt(days, i)
  <2>1. To \in 0..To
    BY PerformanceAssumption
  <2> QED
    BY <2>1, EngineAlwaysHolds DEF EngineHolds, ChainHolds
<1>2. stretch # <<>>
  BY DEF LinkedOf
<1>3. /\ stretch \in Seq(DaysOf(h)) /\ n \in Nat \ {0}
      /\ \A i \in 1..n : stretch[i] \in DaysOf(h) /\ stretch[i].total # None /\ LinkedAt(stretch, i)
  <2> HIDE DEF days
  <2> QED
    BY <1>1, <1>2, StretchLinks DEF days
<1> HIDE DEF n, days
<1>4. \A i \in 1..n : DayHolds(h, stretch[i])
  BY <1>3, DaysHold
<1>5. \A i \in 1..n : Begins(stretch, i) <=> i = 1
  <2> TAKE i \in 1..n
  <2>1. i # 1 => i - 1 \in 1..n
    BY <1>3
  <2> QED
    BY <1>3, <2>1 DEF Begins
<1>6. /\ \A i \in 1..n : IsRatio(stretch[i].growth)
      /\ stretch[1].growth = Times(One, GrowsBy(stretch[1]))
      /\ \A i \in 2..n : stretch[i].growth = Times(stretch[i - 1].growth, GrowsBy(stretch[i]))
                         /\ stretch[i].begin = stretch[i - 1].total
  <2>1. \A i \in 1..n : /\ IsRatio(stretch[i].growth)
                        /\ stretch[i].growth = Times(IF Begins(stretch, i) THEN One ELSE stretch[i - 1].growth,
                                                     GrowsBy(stretch[i]))
                        /\ ~Begins(stretch, i) => stretch[i].begin = stretch[i - 1].total
    BY <1>3 DEF LinkedAt, GrowsBy
  <2>2. 1 \in 1..n
    BY <1>3
  <2>3. \A i \in 2..n : i \in 1..n /\ i # 1
    BY <1>3
  <2> QED
    BY <1>5, <2>1, <2>2, <2>3
<1>7. CASE stretch[1].begin # None
  <2>1. ln = stretch
    BY <1>7 DEF LinkedOf
  <2>2. LinkHolds(h, stretch)
    BY <1>3, <1>4, <1>6 DEF LinkHolds, n
  <2> QED
    BY <1>3, <1>7, <2>1, <2>2 DEF n
<1>8. CASE stretch[1].begin = None
  <2>1. ln = Tail(stretch)
    BY <1>2, <1>8 DEF LinkedOf
  <2> DEFINE m == n - 1
  <2>2. /\ Tail(stretch) \in Seq(DaysOf(h)) /\ Len(Tail(stretch)) = m
        /\ \A i \in 1..m : Tail(stretch)[i] = stretch[i + 1]
    BY <1>3 DEF n
  <2>3. m \in Nat \ {0}
    <3>1. Tail(stretch) # <<>>
      BY <2>1
    <3>2. m \in Nat /\ (m = 0 => Tail(stretch) = <<>>)
      BY <1>3, <2>2
    <3> QED
      BY <3>1, <3>2
  <2>4. stretch[1].return = None
    <3>1. DayHolds(h, stretch[1])
      BY <1>3, <1>4
    <3> QED
      BY <1>8, <3>1, RatioIsSome DEF DayHolds
  <2>5. stretch[1].growth = One
    <3>1. Times(One, One) = One
      <4>1. IsRatio(One)
        BY WholeIs DEF One
      <4> QED
        BY <4>1, RatioUnits
    <3> QED
      BY <1>6, <2>4, <3>1 DEF GrowsBy
  <2> HIDE DEF m, ln
  <2>6. \A i \in 1..m : i + 1 \in 1..n /\ i + 1 \in 2..n /\ (i + 1) - 1 = i
    BY <1>3, <2>3 DEF m
  <2>7. \A i \in 1..m : ln[i] = stretch[i + 1] /\ ln \in Seq(DaysOf(h)) /\ Len(ln) = m
    BY <2>1, <2>2
  <2>8. ln[1].growth = Times(One, GrowsBy(ln[1])) /\ ln[1].begin = stretch[1].total
    <3>1. 1 \in 1..m
      BY <2>3
    <3>2. ln[1] = stretch[2] /\ 2 \in 2..n
      BY <2>6, <2>7, <3>1
    <3>3. stretch[2].growth = Times(stretch[1].growth, GrowsBy(stretch[2])) /\ stretch[2].begin = stretch[1].total
      BY <1>6, <3>2
    <3> QED
      BY <2>5, <3>2, <3>3
  <2>9. \A i \in 2..m : ln[i].growth = Times(ln[i - 1].growth, GrowsBy(ln[i])) /\ ln[i].begin = ln[i - 1].total
    <3> TAKE i \in 2..m
    <3>1. i \in 1..m /\ i - 1 \in 1..m /\ i + 1 \in 2..n /\ (i + 1) - 1 = i /\ (i - 1) + 1 = i
      BY <2>3, <2>6
    <3>2. ln[i] = stretch[i + 1] /\ ln[i - 1] = stretch[i]
      BY <2>7, <3>1
    <3> QED
      BY <1>6, <3>1, <3>2
  <2>10. \A i \in 1..m : DayHolds(h, ln[i]) /\ ln[i].total # None /\ IsRatio(ln[i].growth)
    BY <1>3, <1>4, <1>6, <2>6, <2>7
  <2>11. ln \in Seq(DaysOf(h)) /\ Len(ln) = m
    BY <2>1, <2>2
  <2>12. LinkHolds(h, ln)
    BY <2>3, <2>8, <2>9, <2>10, <2>11 DEF LinkHolds
  <2>13. stretch[n] = ln[m]
    <3>1. m \in 1..m /\ m + 1 = n
      BY <1>3, <2>3 DEF m
    <3> QED
      BY <2>7, <3>1
  <2> QED
    BY <1>3, <1>8, <2>1, <2>4, <2>8, <2>11, <2>12, <2>13 DEF ln, n
<1> QED
  BY <1>7, <1>8

-----------------------------------------------------------------------------
(* Attribution.                                                                *)

LinkedStep(a, days, n) ==
  IF n = 0 THEN Zero
  ELSE Plus(Times(a[n - 1], Plus(One, days[n].return)),
            Over(Whole(DayMoney(days[n])), days[n].denominator))
LinkedRule(a, days) == a = [n \in 0..Len(days) |-> LinkedStep(a, days, n)]

\* The recursive function behind the linked contributions exists.
LEMMA LinkedIsDefined ==
  ASSUME NEW days, Len(days) \in Nat
  PROVE  \E a : /\ LinkedContribution(days) = a[Len(days)]
                /\ a[0] = Zero
                /\ \A n \in 1..Len(days) :
                     a[n] = Plus(Times(a[n - 1], Plus(One, days[n].return)),
                                 Over(Whole(DayMoney(days[n])), days[n].denominator))
<1> DEFINE top == Len(days)
           step(a, n) == LinkedStep(a, days, n)
           Rule(a, k) == a = [n \in 0..k |-> step(a, n)]
           known == {k \in 0..top : \E a : Rule(a, k)}
<1>0. \A a, b, n : a[n - 1] = b[n - 1] => step(a, n) = step(b, n)
  BY DEF LinkedStep
<1>1. 0 \in known
  <2> DEFINE a == [n \in 0..0 |-> Zero]
  <2>1. \A n \in 0..0 : step(a, n) = Zero
    BY DEF LinkedStep
  <2>2. Rule(a, 0)
    <3> HIDE DEF step
    <3> QED
      BY <2>1
  <2> HIDE DEF Rule, a
  <2> QED
    BY <2>2
<1> HIDE DEF step
<1>2. ASSUME NEW k \in 0..top, k \in known, k < top PROVE k + 1 \in known
  <2>1. PICK a : Rule(a, k)
    BY <1>2
  <2> DEFINE b == [n \in 0..(k + 1) |-> IF n <= k THEN a[n] ELSE step(a, k + 1)]
  <2>2. \A n \in 0..(k + 1) : b[n] = step(b, n)
    <3>1. \A n \in 0..k : b[n] = a[n] /\ a[n] = step(a, n)
      BY <2>1
    <3>2. b[k + 1] = step(a, k + 1)
      OBVIOUS
    <3>3. \A n \in 0..(k + 1) : n = 0 \/ (n - 1 \in 0..k /\ b[n - 1] = a[n - 1])
      BY <3>1
    <3>4. step(b, 0) = step(a, 0)
      BY DEF step, LinkedStep
    <3>5. \A n \in 0..(k + 1) : step(b, n) = step(a, n)
      BY <1>0, <3>3, <3>4
    <3>6. \A n \in 0..(k + 1) : n \in 0..k \/ n = k + 1
      OBVIOUS
    <3> HIDE DEF b
    <3> QED
      BY <3>1, <3>2, <3>5, <3>6
  <2>3. b = [n \in 0..(k + 1) |-> b[n]]
    OBVIOUS
  <2> HIDE DEF b
  <2>4. Rule(b, k + 1)
    BY <2>2, <2>3
  <2>5. k + 1 \in 0..top
    BY <1>2
  <2> HIDE DEF Rule
  <2> QED
    BY <2>4, <2>5
<1> HIDE DEF known
<1>3. top \in known
  <2>1. 0..top \subseteq known
    BY <1>1, <1>2, UpTo
  <2> QED
    BY <2>1
<1>4. \E a : LinkedRule(a, days)
  BY <1>3 DEF known, LinkedRule, step
<1> DEFINE a == CHOOSE x : LinkedRule(x, days)
<1>5. LinkedContribution(days) = a[Len(days)]
  BY DEF LinkedContribution, LinkedRule, LinkedStep
<1>6. LinkedRule(a, days)
  BY <1>4
<1> HIDE DEF a
<1>7. \A n \in 0..Len(days) : a[n] = LinkedStep(a, days, n)
  BY <1>6 DEF LinkedRule
<1>8. a[0] = Zero
  BY <1>7 DEF LinkedStep
<1>9. \A n \in 1..Len(days) : n \in 0..Len(days) /\ n # 0
  OBVIOUS
<1>10. \A n \in 1..Len(days) : a[n] = Plus(Times(a[n - 1], Plus(One, days[n].return)),
                                  Over(Whole(DayMoney(days[n])), days[n].denominator))
  BY <1>7, <1>9 DEF LinkedStep
<1> QED
  BY <1>5, <1>8, <1>10

\* The numbers of a day whose return is known.
Ends(day) == day.total[1]
Starts(day) == day.begin[1]
Flows(day) == day.deposits - day.withdrawals

\* The numbers of a day that has a return.
LEMMA DayNumbers ==
  ASSUME NEW h, NEW day, DayHolds(h, day), day.return # None
  PROVE  /\ Ends(day) \in Int /\ Starts(day) \in Int /\ Flows(day) \in Int
         /\ day.total = Whole(Ends(day)) /\ day.begin = Whole(Starts(day))
         /\ IsRatio(day.denominator) /\ Below(Zero, day.denominator) /\ IsRatio(day.return)
         /\ day.return = Over(Whole(Ends(day) - Starts(day) - Flows(day)), day.denominator)
         /\ day.deposits = 0 /\ day.withdrawals = 0 => day.denominator = Whole(Starts(day)) /\ Flows(day) = 0
         /\ Covered(h.events) =>
              /\ DayMoney(day) = Ends(day) - Starts(day) - Flows(day)
              /\ DayReconciles(day)
<1>1. Flows(day) \in Int
  BY DEF DayHolds, Flows
<1>2. PICK t, b \in Int :
         /\ day.total = Whole(t) /\ day.begin = Whole(b)
         /\ IsRatio(day.denominator) /\ Below(Zero, day.denominator)
         /\ day.return = Over(Whole(t - b - Flows(day)), day.denominator)
         /\ IsRatio(day.return)
         /\ day.deposits = 0 /\ day.withdrawals = 0 => day.denominator = Whole(b)
         /\ Covered(h.events) => DayMoney(day) = t - b - Flows(day)
  BY DEF DayHolds, Flows
<1>3. Ends(day) = t /\ Starts(day) = b
  BY <1>2, WholeIs DEF Ends, Starts
<1>4. day.total # None
  BY <1>2, RatioIsSome
<1>5. Covered(h.events) => DayReconciles(day)
  BY <1>2, <1>4 DEF DayReconciles, DayHolds
<1>6. day.deposits = 0 /\ day.withdrawals = 0 => Flows(day) = 0
  BY DEF Flows
<1> QED
  BY <1>1, <1>2, <1>3, <1>5, <1>6

\* The linked contributions are the linked return.
LEMMA LinkedContributionIs ==
  ASSUME NEW h, Covered(h.events), NEW days, LinkHolds(h, days), \A i \in 1..Len(days) : days[i].return # None
  PROVE  LinkedContribution(days) = Minus(days[Len(days)].growth, One)
<1> DEFINE top == Len(days)
<1>0. top \in Nat \ {0}
  BY DEF LinkHolds
<1>1. PICK a : /\ LinkedContribution(days) = a[Len(days)]
               /\ a[0] = Zero
               /\ \A n \in 1..Len(days) :
                    a[n] = Plus(Times(a[n - 1], Plus(One, days[n].return)),
                                Over(Whole(DayMoney(days[n])), days[n].denominator))
  BY <1>0, LinkedIsDefined
<1>2. \A n \in 1..top : /\ IsRatio(days[n].return) /\ IsRatio(days[n].growth)
                        /\ Over(Whole(DayMoney(days[n])), days[n].denominator) = days[n].return
                        /\ GrowsBy(days[n]) = Plus(One, days[n].return)
  <2> TAKE n \in 1..top
  <2>1. DayHolds(h, days[n]) /\ IsRatio(days[n].growth) /\ days[n].return # None
    BY DEF LinkHolds
  <2>2. IsRatio(days[n].return) /\ DayReconciles(days[n])
    BY <2>1, DayNumbers
  <2> QED
    BY <2>1, <2>2 DEF DayReconciles, GrowsBy
<1>3. IsRatio(One) /\ Minus(One, One) = Zero
  <2>1. IsRatio(One)
    BY WholeIs DEF One
  <2> QED
    BY <2>1, RatioUnits
<1> DEFINE known == {n \in 0..top : n > 0 => a[n] = Minus(days[n].growth, One)}
<1>4. 0 \in known
  OBVIOUS
<1>5. ASSUME NEW k \in 0..top, k \in known, k < top PROVE k + 1 \in known
  <2> DEFINE n == k + 1
             r == days[n].return
  <2>1. n \in 1..top /\ n - 1 = k
    BY <1>0, <1>5
  <2>2. a[n] = Plus(Times(a[k], Plus(One, r)), r) /\ IsRatio(r)
    BY <1>1, <1>2, <2>1
  <2>3. CASE k = 0
    <3>1. a[k] = Minus(One, One)
      BY <1>1, <1>3, <2>3
    <3>2. days[n].growth = Times(One, Plus(One, r))
      <4>1. n = 1
        BY <2>3
      <4>2. days[1].growth = Times(One, GrowsBy(days[1]))
        BY DEF LinkHolds
      <4>3. GrowsBy(days[n]) = Plus(One, r)
        BY <1>2, <2>1
      <4> HIDE DEF n
      <4> QED
        BY <4>1, <4>2, <4>3
    <3>3. a[n] = Minus(days[n].growth, One)
      <4> HIDE DEF n, r
      <4> QED
        BY <1>3, <2>2, <3>1, <3>2, LinkStep
    <3> QED
      BY <2>1, <3>3
  <2>4. CASE k # 0
    <3>1. a[k] = Minus(days[k].growth, One) /\ IsRatio(days[k].growth)
      <4>1. k > 0 /\ k \in 1..top
        BY <1>5, <2>4
      <4> QED
        BY <1>2, <1>5, <4>1
    <3>2. days[n].growth = Times(days[k].growth, Plus(One, r))
      <4>1. n \in 2..top
        BY <1>0, <2>1, <2>4
      <4>2. days[n].growth = Times(days[n - 1].growth, GrowsBy(days[n]))
        BY <4>1 DEF LinkHolds
      <4>3. GrowsBy(days[n]) = Plus(One, r)
        BY <1>2, <2>1
      <4> HIDE DEF n
      <4> QED
        BY <2>1, <4>2, <4>3
    <3>3. a[n] = Minus(days[n].growth, One)
      <4> HIDE DEF n, r
      <4> QED
        BY <2>2, <3>1, <3>2, LinkStep
    <3> QED
      BY <2>1, <3>3
  <2> QED
    BY <2>3, <2>4
<1> HIDE DEF known, top
<1>6. top \in known
  <2>1. 0..top \subseteq known
    BY <1>0, <1>4, <1>5, UpTo
  <2> QED
    BY <1>0, <2>1
<1>7. a[top] = Minus(days[top].growth, One)
  BY <1>0, <1>6 DEF known
<1> QED
  BY <1>1, <1>7 DEF top

\* The days of a stretch together make its last value less its first and the flows.
LEMMA DaysMake ==
  ASSUME NEW h, Covered(h.events), NEW days, LinkHolds(h, days), \A i \in 1..Len(days) : days[i].return # None
  PROVE  /\ Ends(days[Len(days)]) \in Int /\ Starts(days[1]) \in Int
         /\ SumFunctionOnSet([i \in DOMAIN days |-> Flows(days[i])], 1..Len(days)) \in Int
         /\ SumFunction([i \in DOMAIN days |-> DayMoney(days[i])])
              = Ends(days[Len(days)]) - Starts(days[1])
                - SumFunctionOnSet([i \in DOMAIN days |-> Flows(days[i])], 1..Len(days))
<1> DEFINE top == Len(days)
           f == [i \in DOMAIN days |-> DayMoney(days[i])]
           g == [i \in DOMAIN days |-> Flows(days[i])]
<1>0. top \in Nat \ {0} /\ DOMAIN days = 1..top /\ IsFiniteSet(1..top)
  <2>1. top \in Nat \ {0} /\ DOMAIN days = 1..top
    BY DEF LinkHolds
  <2> HIDE DEF top
  <2>2. IsFiniteSet(1..top)
    <3>1. 1 \in Int /\ top \in Int
      BY <2>1
    <3> QED
      BY <3>1, FS_Interval
  <2> QED
    BY <2>1, <2>2
<1>1. SumFunction(f) = SumFunctionOnSet(f, 1..top)
  <2>1. DOMAIN f = 1..top
    BY <1>0
  <2> HIDE DEF f
  <2> QED
    BY <2>1 DEF SumFunction
<1>2. \A i \in 1..top : /\ Ends(days[i]) \in Int /\ Starts(days[i]) \in Int /\ Flows(days[i]) \in Int
                        /\ days[i].total = Whole(Ends(days[i])) /\ days[i].begin = Whole(Starts(days[i]))
                        /\ DayMoney(days[i]) = Ends(days[i]) - Starts(days[i]) - Flows(days[i])
  <2> TAKE i \in 1..top
  <2>1. DayHolds(h, days[i]) /\ days[i].return # None
    BY DEF LinkHolds
  <2> QED
    BY <2>1, DayNumbers
<1>3. \A i \in 1..top : f[i] = Ends(days[i]) - Starts(days[i]) - Flows(days[i]) /\ f[i] \in Int
                        /\ g[i] = Flows(days[i]) /\ g[i] \in Int
  BY <1>0, <1>2
<1>4. \A i \in 2..top : Starts(days[i]) = Ends(days[i - 1])
  <2> TAKE i \in 2..top
  <2>1. days[i].begin = days[i - 1].total
    BY DEF LinkHolds
  <2> QED
    BY <2>1 DEF Starts, Ends
<1> HIDE DEF top, f, g
<1>5. \A n \in 0..top : /\ SumFunctionOnSet(f, 1..n) \in Int /\ SumFunctionOnSet(g, 1..n) \in Int
                        /\ n < top => SumFunctionOnSet(f, 1..(n + 1)) = SumFunctionOnSet(f, 1..n) + f[n + 1]
                        /\ n < top => SumFunctionOnSet(g, 1..(n + 1)) = SumFunctionOnSet(g, 1..n) + g[n + 1]
  <2> TAKE n \in 0..top
  <2>1. 1..n \in SUBSET (1..top)
    BY <1>0
  <2>2. \A F : (\A i \in 1..top : F[i] \in Int) =>
           /\ \A T \in SUBSET (1..top) : SumFunctionOnSet(F, T) \in Int
           /\ \A T \in SUBSET (1..top) : \A x \in (1..top) \ T :
                SumFunctionOnSet(F, T \union {x}) = SumFunctionOnSet(F, T) + F[x]
    <3> SUFFICES ASSUME NEW F, \A i \in 1..top : F[i] \in Int
                 PROVE  /\ \A T \in SUBSET (1..top) : SumFunctionOnSet(F, T) \in Int
                        /\ \A T \in SUBSET (1..top) : \A x \in (1..top) \ T :
                             SumFunctionOnSet(F, T \union {x}) = SumFunctionOnSet(F, T) + F[x]
      OBVIOUS
    <3> QED
      BY <1>0, SumIsInt, SumAdd
  <2>3. n < top => n + 1 \in (1..top) \ (1..n) /\ 1..(n + 1) = (1..n) \union {n + 1}
    BY <1>0
  <2>4. (\A i \in 1..top : f[i] \in Int) /\ (\A i \in 1..top : g[i] \in Int)
    BY <1>3
  <2>5. SumFunctionOnSet(f, 1..n) \in Int /\ SumFunctionOnSet(g, 1..n) \in Int
    BY <2>1, <2>2, <2>4
  <2>6. n < top => SumFunctionOnSet(f, (1..n) \union {n + 1}) = SumFunctionOnSet(f, 1..n) + f[n + 1]
    BY <2>1, <2>2, <2>3, <2>4
  <2>7. n < top => SumFunctionOnSet(g, (1..n) \union {n + 1}) = SumFunctionOnSet(g, 1..n) + g[n + 1]
    BY <2>1, <2>2, <2>3, <2>4
  <2> QED
    BY <2>3, <2>5, <2>6, <2>7
<1> DEFINE known == {n \in 0..top : n > 0 => SumFunctionOnSet(f, 1..n)
                                      = Ends(days[n]) - Starts(days[1]) - SumFunctionOnSet(g, 1..n)}
<1>6. 0 \in known
  BY <1>0
<1>7. ASSUME NEW k \in 0..top, k \in known, k < top PROVE k + 1 \in known
  <2> DEFINE n == k + 1
  <2>1. n \in 1..top /\ n - 1 = k /\ n \in 0..top
    BY <1>0, <1>7
  <2>2. /\ SumFunctionOnSet(f, 1..n) = SumFunctionOnSet(f, 1..k) + f[n]
        /\ SumFunctionOnSet(g, 1..n) = SumFunctionOnSet(g, 1..k) + g[n]
        /\ SumFunctionOnSet(f, 1..k) \in Int /\ SumFunctionOnSet(g, 1..k) \in Int
    BY <1>5, <1>7
  <2>3. f[n] = Ends(days[n]) - Starts(days[n]) - Flows(days[n]) /\ g[n] = Flows(days[n])
        /\ Ends(days[n]) \in Int /\ Starts(days[n]) \in Int /\ Flows(days[n]) \in Int
    BY <1>2, <1>3, <2>1
  <2>4. CASE k = 0
    <3>1. SumFunctionOnSet(f, 1..k) = 0 /\ SumFunctionOnSet(g, 1..k) = 0 /\ n = 1
      <4>1. 1..k = {} /\ n = 1
        BY <2>4
      <4> HIDE DEF n
      <4> QED
        BY <4>1, SumEmpty
    <3> HIDE DEF n
    <3>2. SumFunctionOnSet(f, 1..n) = Ends(days[n]) - Starts(days[1]) - SumFunctionOnSet(g, 1..n)
      BY <2>2, <2>3, <3>1
    <3> QED
      BY <2>1, <3>2 DEF n
  <2>5. CASE k # 0
    <3>1. k \in 1..top /\ n \in 2..top
      BY <1>0, <1>7, <2>1, <2>5
    <3>2. Starts(days[n]) = Ends(days[k])
      <4>1. Starts(days[n]) = Ends(days[n - 1])
        BY <1>4, <3>1
      <4> QED
        BY <2>1, <4>1
    <3>3. SumFunctionOnSet(f, 1..k) = Ends(days[k]) - Starts(days[1]) - SumFunctionOnSet(g, 1..k)
      BY <1>7, <3>1
    <3>4. Ends(days[k]) \in Int /\ Starts(days[1]) \in Int
      <4>1. 1 \in 1..top
        BY <1>0
      <4> QED
        BY <1>2, <3>1, <4>1
    <3> HIDE DEF n
    <3>5. SumFunctionOnSet(f, 1..n) = Ends(days[n]) - Starts(days[1]) - SumFunctionOnSet(g, 1..n)
      BY <2>2, <2>3, <3>2, <3>3, <3>4
    <3> QED
      BY <2>1, <3>5 DEF n
  <2> QED
    BY <2>4, <2>5
<1> HIDE DEF known
<1>8. top \in known
  <2>1. 0..top \subseteq known
    BY <1>0, <1>6, <1>7, UpTo
  <2> QED
    BY <1>0, <2>1
<1>9. SumFunctionOnSet(f, 1..top) = Ends(days[top]) - Starts(days[1]) - SumFunctionOnSet(g, 1..top)
  BY <1>0, <1>8 DEF known
<1>10. Ends(days[top]) \in Int /\ Starts(days[1]) \in Int /\ SumFunctionOnSet(g, 1..top) \in Int
  <2>1. 1 \in 1..top /\ top \in 1..top /\ top \in 0..top
    BY <1>0
  <2> QED
    BY <1>2, <1>5, <2>1
<1> QED
  BY <1>1, <1>9, <1>10 DEF f, g, top

\* The flows of a stretch are those of its linked days.
LEMMA NetFlowIs ==
  ASSUME NEW h, IsHistory(h), NEW stretch, stretch = LastStretch(Inner(h)[To].days), LinkedOf(stretch) # <<>>
  PROVE  NetFlow(stretch)
           = SumFunctionOnSet([i \in DOMAIN LinkedOf(stretch) |-> Flows(LinkedOf(stretch)[i])],
                              1..Len(LinkedOf(stretch)))
<1> DEFINE ln == LinkedOf(stretch)
           n == Len(stretch)
           F == [i \in DOMAIN stretch |-> stretch[i].deposits - stretch[i].withdrawals]
           G == [i \in DOMAIN ln |-> Flows(ln[i])]
           at == {i \in DOMAIN stretch : i > 1 \/ stretch[1].begin # None}
<1>1. /\ LinkHolds(h, ln) /\ stretch \in Seq(DaysOf(h)) /\ n \in Nat \ {0}
      /\ IF stretch[1].begin = None THEN ln = Tail(stretch) ELSE ln = stretch
  BY LinkedHolds
<1>2. NetFlow(stretch) = SumFunctionOnSet(F, at)
  BY DEF NetFlow
<1>3. DOMAIN stretch = 1..n /\ \A i \in 1..n : F[i] = Flows(stretch[i])
  BY <1>1 DEF Flows
<1>4. \A i \in 1..Len(ln) : G[i] = Flows(ln[i]) /\ Flows(ln[i]) \in Int
  <2> TAKE i \in 1..Len(ln)
  <2>1. DayHolds(h, ln[i]) /\ DOMAIN ln = 1..Len(ln)
    BY <1>1 DEF LinkHolds
  <2>2. Flows(ln[i]) \in Int
    BY <2>1 DEF DayHolds, Flows
  <2> QED
    BY <2>1, <2>2
<1>5. Len(ln) \in Nat \ {0}
  BY <1>1 DEF LinkHolds
<1> HIDE DEF F, G, ln
<1>6. CASE stretch[1].begin # None
  <2>1. ln = stretch
    BY <1>1, <1>6
  <2>2. at = 1..n
    BY <1>3, <1>6
  <2>3. \A i \in 1..n : F[i] \in Int /\ G[i] = F[i]
    BY <1>3, <1>4, <2>1
  <2>4. IsFiniteSet(1..n)
    <3>1. 1 \in Int /\ n \in Int
      BY <1>1
    <3> HIDE DEF n
    <3> QED
      BY <3>1, FS_Interval
  <2> HIDE DEF n, at
  <2>5. SumFunctionOnSet(F, 1..n) = SumFunctionOnSet(G, 1..n)
    BY <2>3, <2>4, SumSame
  <2> QED
    BY <1>2, <2>1, <2>2, <2>5 DEF G, ln, n
<1>7. CASE stretch[1].begin = None
  <2> DEFINE m == Len(ln)
  <2>1. m + 1 = n /\ \A i \in 1..m : ln[i] = stretch[i + 1]
    BY <1>1, <1>7
  <2>2. at = 2..(m + 1)
    BY <1>1, <1>3, <1>7, <2>1
  <2>3. \A i \in 1..m : i + 1 \in 1..n
    BY <1>1, <2>1
  <2>4. \A i \in 1..m : G[i] \in Int /\ F[i + 1] = G[i]
    BY <1>3, <1>4, <2>1, <2>3
  <2>5. m \in Nat
    BY <1>5
  <2> HIDE DEF m, n, at
  <2>6. SumFunctionOnSet(G, 1..m) = SumFunctionOnSet(F, 2..(m + 1))
    BY <2>4, <2>5, SumShifted
  <2> QED
    BY <1>2, <2>2, <2>6 DEF G, ln, m
<1> QED
  BY <1>6, <1>7

\* The attribution of a stretch reconciles.
LEMMA AttributedIs ==
  ASSUME NEW h, IsHistory(h), Covered(h.events),
         NEW stretch, stretch = LastStretch(Inner(h)[To].days), LinkedOf(stretch) # <<>>,
         \A i \in DOMAIN LinkedOf(stretch) : LinkedOf(stretch)[i].return # None
  PROVE  Attributed(stretch)
<1> DEFINE ln == LinkedOf(stretch)
           m == Len(ln)
           n == Len(stretch)
           flow == SumFunctionOnSet([i \in DOMAIN ln |-> Flows(ln[i])], 1..m)
           made == SumFunction([i \in DOMAIN ln |-> DayMoney(ln[i])])
<1>1. /\ LinkHolds(h, ln) /\ stretch \in Seq(DaysOf(h)) /\ n \in Nat \ {0} /\ stretch[n] = ln[m]
      /\ IF stretch[1].begin = None
         THEN /\ stretch[1].return = None /\ ln = Tail(stretch) /\ ln[1].begin = stretch[1].total
         ELSE ln = stretch
  BY LinkedHolds
<1>2. DOMAIN ln = 1..m /\ m \in Nat \ {0} /\ \A i \in 1..m : ln[i].return # None /\ DayHolds(h, ln[i])
  BY <1>1 DEF LinkHolds
<1>3. NetFlow(stretch) = flow
  BY NetFlowIs
<1> HIDE DEF ln, m, n
<1>4. flow \in Int /\ Ends(ln[m]) \in Int /\ Starts(ln[1]) \in Int
      /\ made = Ends(ln[m]) - Starts(ln[1]) - flow
  BY <1>1, <1>2, DaysMake DEF m
<1> HIDE DEF flow, made
<1>5. \A i \in 1..m : DayReconciles(ln[i])
  BY <1>2, DayNumbers
<1>6. LinkedContribution(ln) = Minus(stretch[n].growth, One)
  <2>1. LinkedContribution(ln) = Minus(ln[m].growth, One)
    BY <1>1, <1>2, LinkedContributionIs DEF m
  <2> QED
    BY <1>1, <2>1
<1>7. ln[m].total = Whole(Ends(ln[m])) /\ ln[1].begin = Whole(Starts(ln[1]))
  <2>1. m \in 1..m /\ 1 \in 1..m
    BY <1>2
  <2> QED
    BY <1>2, <2>1, DayNumbers
<1>8. (IF stretch[1].begin = None THEN stretch[1].total ELSE stretch[1].begin) = ln[1].begin
  BY <1>1
<1>9. MoneyMade(stretch) = Minus(Minus(stretch[n].total, ln[1].begin), Whole(NetFlow(stretch)))
  BY <1>8 DEF MoneyMade, Last, n
<1>a. \A x, y \in Int : x - y \in Int /\ Minus(Whole(x), Whole(y)) = Whole(x - y)
  BY WholeArithmetic
<1>10. Minus(Minus(Whole(Ends(ln[m])), Whole(Starts(ln[1]))), Whole(flow)) = Whole(made)
  <2>1. Minus(Whole(Ends(ln[m])), Whole(Starts(ln[1]))) = Whole(Ends(ln[m]) - Starts(ln[1]))
        /\ Ends(ln[m]) - Starts(ln[1]) \in Int
    BY <1>4, <1>a
  <2>2. Minus(Whole(Ends(ln[m]) - Starts(ln[1])), Whole(flow)) = Whole(Ends(ln[m]) - Starts(ln[1]) - flow)
    BY <1>4, <1>a, <2>1
  <2> QED
    BY <1>4, <2>1, <2>2
<1>11. Whole(made) = MoneyMade(stretch)
  BY <1>1, <1>3, <1>7, <1>9, <1>10
<1>12. (IF stretch[1].begin = None /\ stretch[1].return = None THEN Tail(stretch) ELSE stretch) = ln
  BY <1>1
<1>13. ln # <<>>
  BY <1>2 DEF m
<1> QED
  BY <1>2, <1>5, <1>6, <1>11, <1>12, <1>13 DEF Attributed, made, n, Last

-----------------------------------------------------------------------------
(* The two replays of the ledger.                                              *)

\* Sorting keeps the symbols of a ledger.
LEMMA SortedTrades ==
  ASSUME IsLedger(ledger)
  PROVE  Traded(ledger, DOMAIN ledger) = Traded(Sorted, DOMAIN Sorted)
<1>1. /\ \A i \in DOMAIN ledger : \E n \in DOMAIN Sorted : Sorted[n] = ledger[i]
      /\ \A n \in DOMAIN Sorted : \E i \in DOMAIN ledger : Sorted[n] = ledger[i]
  BY SortedIs
<1> HIDE DEF Sorted
<1>2. ASSUME NEW i \in DOMAIN ledger, ledger[i].type \in {"buy", "sell"}
      PROVE  ledger[i].symbol \in Traded(Sorted, DOMAIN Sorted)
  <2>1. PICK n \in DOMAIN Sorted : Sorted[n] = ledger[i]
    BY <1>1
  <2> QED
    BY <1>2, <2>1 DEF Traded
<1>3. ASSUME NEW n \in DOMAIN Sorted, Sorted[n].type \in {"buy", "sell"}
      PROVE  Sorted[n].symbol \in Traded(ledger, DOMAIN ledger)
  <2>1. PICK i \in DOMAIN ledger : Sorted[n] = ledger[i]
    BY <1>1
  <2> QED
    BY <1>3, <2>1 DEF Traded
<1>4. Traded(ledger, DOMAIN ledger) \subseteq Traded(Sorted, DOMAIN Sorted)
  BY <1>2 DEF Traded
<1>5. Traded(Sorted, DOMAIN Sorted) \subseteq Traded(ledger, DOMAIN ledger)
  BY <1>3 DEF Traded
<1> QED
  BY <1>4, <1>5

\* Where every event counts on some date, the loop ends with all of the ledger.
LEMMA EndIsWhole ==
  ASSUME NEW h, IsHistory(h), Covered(h.events),
         \A i \in DOMAIN h.events : ValuationDate(h, h.events[i]) # 0
  PROVE  LET end == Inner(h)[To] IN
         /\ end.cash = InitialCash + Sum(h.events, DOMAIN h.events, CashEffect)
         /\ end.positions = [x \in Traded(h.events, DOMAIN h.events)
                               |-> Replay(NoPosition, h.events, DOMAIN h.events, x)]
         /\ end.marks \in [Traded(h.events, DOMAIN h.events) -> Mark]
         /\ WorthHolds(end)
         /\ \A x : QuantityOf(h.events, DOMAIN h.events, x) \in Nat
<1> DEFINE end == Inner(h)[To]
           ev == h.events
           C == Counted(h, To)
<1>0. To \in Nat /\ To \in 0..To
  BY PerformanceAssumption
<1>1. C = DOMAIN ev
  <2>1. \A i \in DOMAIN ev : i \in 1..Len(ev) /\ ev[i].date \in Nat
    BY EventIs DEF IsHistory
  <2>2. ASSUME NEW i \in DOMAIN ev PROVE ValuationDate(h, ev[i]) \in 1..To
    <3>1. ValuationDate(h, ev[i]) # 0
      OBVIOUS
    <3> QED
      BY <2>1, <3>1, ValuationDateIs
  <2> QED
    BY <2>2 DEF Counted
<1>2. LoopHolds(h, end, To) /\ WorthHolds(end)
  BY <1>0, EngineAlwaysHolds DEF EngineHolds
<1>3. Effective(h, C) = C /\ \A x : QuantityOf(ev, C, x) \in Nat
  BY <1>0, CoveredIncome
<1> HIDE DEF C, end
<1> QED
  BY <1>1, <1>2, <1>3 DEF LoopHolds, C, end

\* The overview in the terms of the engine.
LEMMA OverviewIs ==
  ASSUME NEW quotes, NEW T, T = Traded(ledger, DOMAIN ledger)
  PROVE  LET position == [x \in T |-> Replay(NoPosition, Sorted, DOMAIN Sorted, x)]
             held == {x \in T : position[x].quantity > 0}
             worth == [x \in held |-> position[x].quantity * quotes[x]]
             cash == InitialCash + Sum(Sorted, DOMAIN Sorted, CashEffect)
         IN  /\ Overview(quotes).cash = cash
             /\ Overview(quotes).held = held
             /\ Overview(quotes).totalValue = Whole(cash + SumFunction(worth))
<1> DEFINE position == [x \in T |-> Replay(NoPosition, Sorted, DOMAIN Sorted, x)]
           held == {x \in T : position[x].quantity > 0}
           worth == [x \in held |-> position[x].quantity * quotes[x]]
           cash == InitialCash + Sum(Sorted, DOMAIN Sorted, CashEffect)
           pnl == CumulativePnl(Sorted, position, worth)
<1>0. DOMAIN position = T
  OBVIOUS
<1>1. Overview(quotes) = [cash |-> cash, held |-> held, totalValue |-> Whole(cash + SumFunction(worth)),
                          cumulativePnl |-> pnl]
  BY Zenon, <1>0 DEF Overview
<1> HIDE DEF held, worth, cash, position, pnl
<1> QED
  BY <1>1 DEF held, worth, cash, position

\* After all events the engine has the cash, the positions and the total of the overview.
LEMMA ViewsAgree ==
  ASSUME IsLedger(ledger), NEW answer \in Histories, Covered(Sorted),
         NEW h, h = History(answer),
         \A i \in DOMAIN ledger : ValuationDate(h, ledger[i]) # 0
  PROVE  LET end == Inner(h)[To]
             view == Overview([symbol \in Symbols |-> IF symbol \in DOMAIN end.marks
                                                       THEN end.marks[symbol].last ELSE 0])
         IN  /\ view.cash = end.cash
             /\ view.held = {symbol \in DOMAIN end.positions : end.positions[symbol].quantity > 0}
             /\ end.total # None => end.total = view.totalValue
<1> DEFINE end == Inner(h)[To]
           ev == Sorted
           all == DOMAIN ev
           T == Traded(ev, all)
           quotes == [symbol \in Symbols |-> IF symbol \in DOMAIN end.marks THEN end.marks[symbol].last ELSE 0]
           view == Overview(quotes)
           position == [x \in T |-> Replay(NoPosition, ev, all, x)]
           held == {x \in T : position[x].quantity > 0}
           worth == [x \in held |-> position[x].quantity * quotes[x]]
           cash == InitialCash + Sum(ev, all, CashEffect)
<1>1. IsHistory(h) /\ h.events = ev
  BY HistoryIs
<1>2. \A n \in all : ValuationDate(h, ev[n]) # 0
  <2>1. \A n \in DOMAIN Sorted : \E i \in DOMAIN ledger : Sorted[n] = ledger[i]
    BY SortedIs
  <2> HIDE DEF Sorted
  <2> QED
    BY <2>1
<1>3. Traded(ledger, DOMAIN ledger) = T
  BY SortedTrades
<1>4. view.cash = cash /\ view.held = held /\ view.totalValue = Whole(cash + SumFunction(worth))
  BY <1>3, OverviewIs
<1> HIDE DEF ev, Sorted
<1>5. /\ end.cash = cash /\ end.positions = position
      /\ end.marks \in [T -> Mark] /\ WorthHolds(end)
      /\ \A x : QuantityOf(ev, all, x) \in Nat
  <2>1. Covered(h.events)
    BY <1>1 DEF ev
  <2>2. \A i \in DOMAIN h.events : ValuationDate(h, h.events[i]) # 0
    BY <1>1, <1>2
  <2>3. LET e == Inner(h)[To] IN
         /\ e.cash = InitialCash + Sum(h.events, DOMAIN h.events, CashEffect)
         /\ e.positions = [x \in Traded(h.events, DOMAIN h.events)
                               |-> Replay(NoPosition, h.events, DOMAIN h.events, x)]
         /\ e.marks \in [Traded(h.events, DOMAIN h.events) -> Mark]
         /\ WorthHolds(e)
         /\ \A x : QuantityOf(h.events, DOMAIN h.events, x) \in Nat
    BY <1>1, <2>1, <2>2, EndIsWhole
  <2> QED
    BY <1>1, <2>3
<1>6. view.held = {symbol \in DOMAIN end.positions : end.positions[symbol].quantity > 0}
  <2>1. DOMAIN position = T
    OBVIOUS
  <2> HIDE DEF position
  <2> QED
    BY <1>4, <1>5, <2>1
<1>7. IsFiniteSet(T) /\ T \subseteq Symbols
  <2>1. IsLedger(ev)
    BY <1>1 DEF IsHistory
  <2>2. all \in SUBSET (1..Len(ev))
    BY <2>1, EventIs
  <2> HIDE DEF all
  <2> QED
    BY <2>1, <2>2, TradedIs
<1>8. \A x \in T : position[x].quantity \in Nat /\ end.marks[x].last \in Nat /\ quotes[x] = end.marks[x].last
  <2> TAKE x \in T
  <2>1. position[x].quantity \in Nat
    BY <1>5 DEF QuantityOf
  <2>2. x \in DOMAIN end.marks /\ end.marks[x] \in Mark
    BY <1>5
  <2> QED
    BY <1>7, <2>1, <2>2 DEF Mark
<1>9. \A x \in T : Held(end)[x] = position[x].quantity * end.marks[x].last
  <2>1. DOMAIN position = T
    OBVIOUS
  <2> HIDE DEF position
  <2> QED
    BY <1>5, <2>1 DEF Held, PositionBefore, MarkBefore
<1>10. \A x \in held : worth[x] = Held(end)[x] /\ Held(end)[x] \in Int
  <2> TAKE x \in held
  <2>1. x \in T /\ worth[x] = position[x].quantity * quotes[x]
    OBVIOUS
  <2>2. \A a, b \in Nat : a * b \in Int
    OBVIOUS
  <2> HIDE DEF worth, position, quotes, held
  <2> QED
    BY <1>8, <1>9, <2>1, <2>2
<1>11. \A x \in T \ held : Held(end)[x] = 0
  <2> TAKE x \in T \ held
  <2>1. x \in T /\ ~(position[x].quantity > 0)
    OBVIOUS
  <2>2. \A b \in Nat : 0 * b = 0
    OBVIOUS
  <2> HIDE DEF position, quotes, held
  <2> QED
    BY <1>8, <1>9, <2>1, <2>2
<1>12. SumFunction(worth) = SumFunctionOnSet(Held(end), T)
  <2>1. held \in SUBSET T /\ DOMAIN worth = held
    OBVIOUS
  <2> HIDE DEF worth, held, T
  <2>2. \A f, g : \A A \in SUBSET T :
          (\A x \in A : f[x] \in Int /\ g[x] = f[x]) /\ (\A x \in T \ A : f[x] = 0)
          => SumFunctionOnSet(g, A) = SumFunctionOnSet(f, T)
    BY <1>7, SumRestricts
  <2> QED
    BY <1>10, <1>11, <2>1, <2>2 DEF SumFunction
<1>13. DOMAIN end.positions = T
  BY <1>5
<1> HIDE DEF worth, position, quotes, held, T, all, cash, end
<1>14. end.total # None => end.total = view.totalValue
  BY <1>4, <1>5, <1>12, <1>13 DEF WorthHolds
<1>15. view.cash = end.cash
  BY <1>4, <1>5
<1> QED
  BY <1>6, <1>14, <1>15 DEF end, quotes

-----------------------------------------------------------------------------
(* The inductive invariant.                                                   *)

\* A result on the page is the performance of the ledger as it stands.
IsCurrent == report # None => \E answer \in Histories : report = Performance(History(answer))

Inv == IsLedger(ledger) /\ IsCurrent

\* The fields of a report.
LEMMA PerformanceIs ==
  ASSUME NEW h
  PROVE  /\ Performance(h) # None
         /\ Performance(h).history = h /\ Performance(h).end = Inner(h)[To]
         /\ Performance(h).stretch = LastStretch(Inner(h)[To].days)
         /\ Performance(h).reconciled = (Performance(h).stretch # <<>> /\ Attributed(Performance(h).stretch))
<1> DEFINE s == LastStretch(Inner(h)[To].days)
           r == Result(h, Inner(h)[To], s)
           ok == s # <<>> /\ Attributed(s)
<1>1. Performance(h) = r
  BY DEF Performance
<1>2. r = [history |-> h, end |-> Inner(h)[To], stretch |-> s, reconciled |-> ok]
  BY Zenon DEF Result
<1> HIDE DEF r, ok
<1>3. r.history = h /\ r.end = Inner(h)[To] /\ r.stretch = s /\ r.reconciled = ok
  BY <1>2
<1>4. r # None
  <2>1. ASSUME r = None PROVE FALSE
    <3>1. DOMAIN r = {"history", "end", "stretch", "reconciled"}
      BY <1>2
    <3>2. DOMAIN None = 1..0
      BY DEF None
    <3>3. "history" \in DOMAIN None
      BY <2>1, <3>1
    <3> QED
      BY <3>2, <3>3
  <2> QED
    BY <2>1
<1> QED
  BY <1>1, <1>3, <1>4 DEF ok

\* An entry of the form is an event.
LEMMA EntryIsEvent ==
  ASSUME NEW e \in Entries
  PROVE  e \in LedgerEvent
  BY PortfolioAssumption

\* Entering an event keeps the invariant.
LEMMA EnterKeeps ==
  ASSUME Inv, NEW e \in Entries, Enter(e)
  PROVE  Inv'
<1>1. ledger' = Append(ledger, e) /\ IsValid(e) /\ report' = None
  BY DEF Enter, AppendEvent
<1>2. e \in LedgerEvent
  BY EntryIsEvent
<1>3. IsLedger(ledger')
  <2>1. ledger \in Seq(LedgerEvent) /\ \A i \in DOMAIN ledger : ledger[i] \in Entries /\ IsValid(ledger[i])
    BY DEF Inv, IsLedger
  <2>2. ledger' \in Seq(LedgerEvent) /\ DOMAIN ledger' = 1..(Len(ledger) + 1) /\ DOMAIN ledger = 1..Len(ledger)
    BY <1>1, <1>2, <2>1
  <2>3. \A i \in DOMAIN ledger' : ledger'[i] = e \/ (i \in DOMAIN ledger /\ ledger'[i] = ledger[i])
    BY <1>1, <1>2, <2>1
  <2>4. ASSUME NEW i \in DOMAIN ledger' PROVE ledger'[i] \in Entries /\ IsValid(ledger'[i])
    BY <1>1, <2>1, <2>3
  <2> QED
    BY <2>2, <2>4 DEF IsLedger
<1> QED
  BY <1>1, <1>3 DEF Inv, IsCurrent

\* Loading a report keeps the invariant.
LEMMA LoadKeeps ==
  ASSUME Inv, NEW answer \in Histories, Load(answer)
  PROVE  Inv'
<1>1. ledger' = ledger /\ ignored' = ignored /\ report' = Performance(History(answer))
  BY DEF Load, portfolio
<1>2. History(answer)' = History(answer)
  <2>1. Sorted' = Sorted /\ Requested' = Requested
    BY <1>1 DEF Sorted, Precedes, Requested
  <2>2. PendingSplits(answer.splits)' = PendingSplits(answer.splits)
    BY <1>1, <2>1 DEF PendingSplits
  <2> QED
    BY <2>1, <2>2 DEF History
<1>3. report' = Performance(History(answer)')
  BY <1>1, <1>2
<1> QED
  BY <1>1, <1>3 DEF Inv, IsCurrent

\* The invariant holds in every state.
LEMMA InvHolds ==
  Spec => []Inv
<1>1. Init => Inv
  <2> SUFFICES ASSUME Init PROVE Inv
    OBVIOUS
  <2>1. ledger = <<>> /\ report = None
    BY DEF Init
  <2> QED
    BY <2>1 DEF Inv, IsCurrent, IsLedger
<1>2. Inv /\ [Next]_vars => Inv'
  <2> SUFFICES ASSUME Inv, [Next]_vars PROVE Inv'
    OBVIOUS
  <2>1. ASSUME NEW e \in Entries, Enter(e) PROVE Inv'
    BY <2>1, EnterKeeps
  <2>2. ASSUME NEW split \in Entries, Ignore(split) PROVE Inv'
    BY <2>2 DEF Ignore, IgnoreSplit, Inv, IsCurrent
  <2>3. ASSUME NEW answer \in Histories, Load(answer) PROVE Inv'
    BY <2>3, LoadKeeps
  <2>4. CASE UNCHANGED vars
    <3>1. ledger' = ledger /\ ignored' = ignored /\ report' = report
      BY <2>4 DEF vars
    <3>2. \A answer : History(answer)' = History(answer)
      BY <3>1 DEF History, PendingSplits, Requested, HeldOn, Sorted, Precedes
    <3> QED
      BY <3>1, <3>2 DEF Inv, IsCurrent
  <2> QED
    BY <2>1, <2>2, <2>3, <2>4 DEF Next
<1> QED
  BY <1>1, <1>2, PTL DEF Spec

\* What is loaded comes from a history in order.
LEMMA ReportIs ==
  ASSUME Inv, IsLoaded
  PROVE  \E answer \in Histories :
           /\ report.history = History(answer) /\ IsHistory(report.history)
           /\ Events = Sorted /\ Events = report.history.events
           /\ report.end = Inner(report.history)[To]
           /\ report.stretch = LastStretch(Inner(report.history)[To].days)
           /\ report.reconciled = (report.stretch # <<>> /\ Attributed(report.stretch))
           /\ Linked = LinkedOf(report.stretch) /\ Stretch = report.stretch
<1>1. PICK answer \in Histories : report = Performance(History(answer))
  BY DEF Inv, IsCurrent, IsLoaded
<1>2. report.history = History(answer) /\ report.end = Inner(report.history)[To]
      /\ report.stretch = LastStretch(Inner(report.history)[To].days)
      /\ report.reconciled = (report.stretch # <<>> /\ Attributed(report.stretch))
  BY <1>1, PerformanceIs
<1>3. IsHistory(report.history) /\ report.history.events = Sorted
  BY <1>2, HistoryIs DEF Inv
<1> QED
  BY <1>2, <1>3 DEF Events, Linked, LinkedOf, Stretch, IsLoaded

\* Attribution reconciles in every state of the invariant.
LEMMA Reconciles ==
  ASSUME Inv
  PROVE  AttributionReconciles
<1> SUFFICES ASSUME Linked # <<>>, Covered(Events), CapitalIsPositive PROVE report.reconciled
  BY DEF AttributionReconciles
<1>1. IsLoaded
  BY DEF Linked, Stretch
<1> DEFINE h == report.history
           stretch == report.stretch
<1>2. /\ IsHistory(h) /\ Events = h.events
      /\ stretch = LastStretch(Inner(h)[To].days)
      /\ report.reconciled = (stretch # <<>> /\ Attributed(stretch))
      /\ Linked = LinkedOf(stretch)
  BY <1>1, ReportIs
<1>3. \A i \in DOMAIN LinkedOf(stretch) : LinkedOf(stretch)[i].return # None
  BY <1>2 DEF CapitalIsPositive
<1>4. Attributed(stretch)
  <2> HIDE DEF h, stretch
  <2> QED
    BY <1>2, <1>3, AttributedIs
<1>5. stretch # <<>>
  BY <1>2 DEF LinkedOf
<1> QED
  BY <1>2, <1>4, <1>5

\* The two replays agree in every state of the invariant.
LEMMA Agree ==
  ASSUME Inv
  PROVE  ReplaysAgree
<1> SUFFICES ASSUME IsLoaded, Covered(Events),
                    \A i \in DOMAIN ledger : ValuationDate(report.history, ledger[i]) # 0
             PROVE  LET end == report.end
                        view == Overview([symbol \in Symbols |-> IF symbol \in DOMAIN end.marks
                                                                  THEN end.marks[symbol].last ELSE 0])
                    IN  /\ view.cash = end.cash
                        /\ view.held = {symbol \in DOMAIN end.positions : end.positions[symbol].quantity > 0}
                        /\ end.total # None => end.total = view.totalValue
  BY DEF ReplaysAgree
<1>1. PICK answer \in Histories : /\ report.history = History(answer) /\ Events = Sorted
                                  /\ report.end = Inner(report.history)[To]
  BY ReportIs
<1>2. IsLedger(ledger)
  BY DEF Inv
<1>3. Covered(Sorted)
  BY <1>1
<1>4. \A i \in DOMAIN ledger : ValuationDate(History(answer), ledger[i]) # 0
  BY <1>1
<1>5. report.end = Inner(History(answer))[To]
  BY <1>1
<1> QED
  BY <1>2, <1>3, <1>4, <1>5, ViewsAgree

\* Whatever is entered, ignored and loaded, the contributions on the performance page add
\* up to the returns and the money made, and the page agrees with the overview in cash,
\* positions and total (calculateAttribution, calculatePortfolio).
THEOREM MoneyAlwaysAddsUp == Spec => []MoneyAddsUp
<1>1. Inv => MoneyAddsUp
  BY Reconciles, Agree DEF MoneyAddsUp
<1> QED
  BY <1>1, InvHolds, PTL

-----------------------------------------------------------------------------
(* Without flows the linked returns are the growth of the value.               *)

\* A first return of its own: growth from one base, of a day that starts at it.
LEMMA FirstGrowth ==
  ASSUME NEW a \in Nat \ {0}, NEW c \in Int
  PROVE  Times(One, Plus(One, Over(Whole(c - a), Whole(a)))) = Fraction(c, a)
<1>1. Fraction(a, a) = One
  <2>1. Fraction(a, a) = Fraction(1, 1)
    BY FractionsAreSame, 1 \in Nat \ {0}
  <2> QED
    BY <2>1, WholeIs DEF One
<1>2. Times(Fraction(a, a), Plus(One, Over(Whole(c - a), Whole(a)))) = Fraction(c, a)
  BY GrowthStep
<1> QED
  BY <1>1, <1>2

\* Without flows the growth of linked days is their last value over their first opening.
LEMMA GrowthOfDays ==
  ASSUME NEW h, NEW days, LinkHolds(h, days),
         \A i \in 1..Len(days) : /\ days[i].return # None
                                 /\ days[i].deposits = 0
                                 /\ days[i].withdrawals = 0
  PROVE  /\ Starts(days[1]) \in Nat \ {0} /\ days[1].begin = Whole(Starts(days[1]))
         /\ Ends(days[Len(days)]) \in Int /\ days[Len(days)].total = Whole(Ends(days[Len(days)]))
         /\ days[Len(days)].growth = Fraction(Ends(days[Len(days)]), Starts(days[1]))
<1> DEFINE top == Len(days)
           base == Starts(days[1])
<1>0. top \in Nat \ {0} /\ 1 \in 1..top /\ top \in 1..top
  BY DEF LinkHolds
<1>1. ASSUME NEW i \in 1..top
      PROVE  /\ Starts(days[i]) \in Nat \ {0} /\ Ends(days[i]) \in Int
             /\ days[i].total = Whole(Ends(days[i])) /\ days[i].begin = Whole(Starts(days[i]))
             /\ days[i].return = Over(Whole(Ends(days[i]) - Starts(days[i])), Whole(Starts(days[i])))
             /\ GrowsBy(days[i]) = Plus(One, days[i].return)
  <2> DEFINE day == days[i]
             s == Starts(day)
             e == Ends(day)
             f == Flows(day)
  <2>1. DayHolds(h, day) /\ day.return # None /\ day.deposits = 0 /\ day.withdrawals = 0
    BY DEF LinkHolds
  <2> HIDE DEF day
  <2>2. /\ e \in Int /\ s \in Int /\ f = 0
        /\ day.total = Whole(e) /\ day.begin = Whole(s)
        /\ day.denominator = Whole(s) /\ Below(Zero, day.denominator)
        /\ day.return = Over(Whole(e - s - f), day.denominator)
    BY <2>1, DayNumbers
  <2> HIDE DEF s, e, f
  <2>3. s \in Nat \ {0}
    BY <2>2 DEF Below, Zero, Whole
  <2>4. e - s - f = e - s
    BY <2>2
  <2> QED
    BY <2>1, <2>2, <2>3, <2>4 DEF GrowsBy, day, s, e
<1> DEFINE known == {n \in 0..top : n > 0 => days[n].growth = Fraction(Ends(days[n]), base)}
<1>2. 0 \in known
  BY <1>0
<1>3. ASSUME NEW k \in 0..top, k \in known, k < top PROVE k + 1 \in known
  <2> DEFINE n == k + 1
             r == days[n].return
             a == Starts(days[n])
             c == Ends(days[n])
  <2>1. n \in 1..top /\ n - 1 = k
    BY <1>0, <1>3
  <2>2. a \in Nat \ {0} /\ c \in Int /\ GrowsBy(days[n]) = Plus(One, Over(Whole(c - a), Whole(a)))
    BY <1>1, <2>1
  <2>3. base \in Nat \ {0}
    BY <1>0, <1>1
  <2>4. CASE k = 0
    <3>1. n = 1 /\ a = base
      BY <2>4
    <3>2. days[1].growth = Times(One, GrowsBy(days[1]))
      BY DEF LinkHolds
    <3>3. days[n].growth = Times(One, Plus(One, Over(Whole(c - a), Whole(a))))
      BY <2>2, <3>1, <3>2
    <3>4. days[n].growth = Fraction(c, base)
      <4> HIDE DEF n, r, a, c, base
      <4> QED
        BY <2>2, <3>1, <3>3, FirstGrowth
    <3> QED
      BY <2>1, <3>4
  <2>5. CASE k # 0
    <3>1. k \in 1..top /\ days[k].growth = Fraction(Ends(days[k]), base)
      BY <1>3, <2>5
    <3>2. n \in 2..top
      BY <1>0, <2>1, <2>5
    <3>3. days[n].growth = Times(days[n - 1].growth, GrowsBy(days[n])) /\ days[n].begin = days[n - 1].total
      BY <3>2 DEF LinkHolds
    <3>4. a = Ends(days[k])
      <4>1. days[n].begin = days[k].total
        BY <2>1, <3>3
      <4> QED
        BY <4>1 DEF Starts, Ends
    <3>5. days[n].growth = Times(Fraction(a, base), Plus(One, Over(Whole(c - a), Whole(a))))
      BY <2>1, <2>2, <3>1, <3>3, <3>4
    <3>6. days[n].growth = Fraction(c, base)
      <4> HIDE DEF n, r, a, c, base
      <4> QED
        BY <2>2, <2>3, <3>5, GrowthStep
    <3> QED
      BY <2>1, <3>6
  <2> QED
    BY <2>4, <2>5
<1> HIDE DEF known, top, base
<1>4. top \in known
  <2>1. 0..top \subseteq known
    BY <1>0, <1>2, <1>3, UpTo
  <2> QED
    BY <1>0, <2>1
<1>5. days[top].growth = Fraction(Ends(days[top]), base)
  BY <1>0, <1>4 DEF known
<1> QED
  BY <1>0, <1>1, <1>5 DEF top, base

\* ReturnIsGrowth in every state of the invariant.
LEMMA ReturnsAreGrowth ==
  ASSUME Inv
  PROVE  ReturnIsGrowth
<1> SUFFICES ASSUME Linked # <<>>, CapitalIsPositive,
                    \A i \in DOMAIN Linked : Linked[i].deposits = 0 /\ Linked[i].withdrawals = 0
             PROVE  Times(Last(Linked).growth, Linked[1].begin) = Last(Linked).total
  BY DEF ReturnIsGrowth
<1>1. IsLoaded
  BY DEF Linked, Stretch
<1> DEFINE h == report.history
           stretch == report.stretch
           days == Linked
<1>2. IsHistory(h) /\ stretch = LastStretch(Inner(h)[To].days) /\ days = LinkedOf(stretch)
  BY <1>1, ReportIs
<1>3. LinkHolds(h, days)
  <2> HIDE DEF h, stretch, days
  <2>1. LinkedOf(stretch) # <<>>
    BY <1>2 DEF days
  <2> QED
    BY <1>2, <2>1, LinkedHolds
<1>4. DOMAIN days = 1..Len(days) /\ Last(days) = days[Len(days)]
  BY <1>3 DEF LinkHolds, Last
<1>5. \A i \in 1..Len(days) : days[i].return # None /\ days[i].deposits = 0 /\ days[i].withdrawals = 0
  BY <1>4 DEF CapitalIsPositive
<1> HIDE DEF days, h
<1> DEFINE c == Ends(days[Len(days)])
           b == Starts(days[1])
<1>6. /\ b \in Nat \ {0} /\ days[1].begin = Whole(b)
      /\ c \in Int /\ days[Len(days)].total = Whole(c)
      /\ days[Len(days)].growth = Fraction(c, b)
  BY <1>3, <1>5, GrowthOfDays
<1> HIDE DEF b, c
<1>7. Times(Fraction(c, b), Whole(b)) = Whole(c)
  BY <1>6, GrowthTimesBase
<1>8. Times(Last(days).growth, days[1].begin) = Last(days).total
  BY <1>4, <1>6, <1>7
<1> QED
  BY <1>8 DEF days

-----------------------------------------------------------------------------
(* The drawdown is the worst fall.                                            *)

\* The fall from a value to a later one, as a part of the value it falls from.
Fall(v, g) == Over(Minus(v, g), v)

\* A fall from a positive fraction, as a fraction.
LEMMA FallIs ==
  ASSUME NEW a \in Nat \ {0}, NEW b \in Nat \ {0}, NEW c \in Int, NEW d \in Nat \ {0}
  PROVE  Fall(Fraction(a, b), Fraction(c, d)) = Fraction(a * d - c * b, d * a)
         /\ a * d - c * b \in Int /\ d * a \in Nat \ {0}
<1> DEFINE n == a * d - c * b
           m == b * d
<1>1. n \in Int /\ m \in Nat \ {0} /\ m * a \in Nat \ {0} /\ d * a \in Nat \ {0} /\ n * b \in Int
  <2>1. \A x, y \in Nat \ {0} : x * y \in Nat \ {0}
    <3> SUFFICES ASSUME NEW x \in Nat \ {0}, NEW y \in Nat \ {0} PROVE x * y \in Nat \ {0}
      OBVIOUS
    <3>1. x * y > 0
      BY SMTT(30)
    <3> QED
      BY <3>1
  <2>2. \A x \in Int : \A y \in Int : x * y \in Int
    OBVIOUS
  <2> QED
    BY <2>1, <2>2
<1>2. Minus(Fraction(a, b), Fraction(c, d)) = Fraction(n, m)
  BY FractionPlus
<1> HIDE DEF n, m
<1>3. Over(Fraction(n, m), Fraction(a, b)) = Fraction(n * b, m * a)
  BY <1>1, FractionOver
<1>4. n * b = b * n /\ m * a = b * (d * a)
  <2>1. n * b = b * n
    BY <1>1
  <2>2. (b * d) * a = b * (d * a)
    BY SMTT(30)
  <2> QED
    BY <2>1, <2>2 DEF m
<1>5. Fraction(b * n, b * (d * a)) = Fraction(n, d * a)
  BY <1>1, FractionScales
<1> QED
  BY <1>1, <1>2, <1>3, <1>4, <1>5 DEF Fall, n

\* A fall from a higher value to the same one is not smaller.
LEMMA FallOrder ==
  ASSUME NEW v, NEW p, NEW g, IsRatio(v), IsRatio(p), IsRatio(g),
         Below(Zero, v), AtMost(v, p), AtMost(Zero, g)
  PROVE  IsRatio(Fall(v, g)) /\ IsRatio(Fall(p, g)) /\ AtMost(Fall(v, g), Fall(p, g))
<1> DEFINE a == v[1]
           b == v[2]
           c == g[1]
           d == g[2]
           e == p[1]
           f == p[2]
<1>1. /\ a \in Int /\ b \in Nat \ {0} /\ v = Fraction(a, b)
      /\ c \in Int /\ d \in Nat \ {0} /\ g = Fraction(c, d)
      /\ e \in Int /\ f \in Nat \ {0} /\ p = Fraction(e, f)
  BY RatioParts
<1>2. 0 * b < a * 1 /\ a * f <= e * b /\ 0 * d <= c * 1
  BY DEF Below, AtMost, Zero, Whole
<1> HIDE DEF a, b, c, d, e, f
<1>3. a \in Nat \ {0} /\ c \in Nat
  BY <1>1, <1>2
<1>4. e \in Nat \ {0}
  <2>1. a * f > 0
    BY <1>1, <1>3, SMTT(30)
  <2>2. e * b > 0
    BY <1>1, <1>2, <1>3, <2>1
  <2>3. e > 0
    BY <1>1, <2>2, SMTT(30)
  <2> QED
    BY <1>1, <2>3
<1> DEFINE n == a * d - c * b
           m == e * d - c * f
           x == d * a
           y == d * e
<1>5. Fall(v, g) = Fraction(n, x) /\ n \in Int /\ x \in Nat \ {0}
  BY <1>1, <1>3, FallIs
<1>6. Fall(p, g) = Fraction(m, y) /\ m \in Int /\ y \in Nat \ {0}
  BY <1>1, <1>3, <1>4, FallIs
<1>7. n * y <= m * x
  <2>1. c * (a * f) <= c * (e * b)
    <3> DEFINE s == a * f
               t == e * b
    <3>1. s \in Int /\ t \in Int /\ s <= t
      BY <1>1, <1>2
    <3> HIDE DEF s, t
    <3> QED
      BY <1>3, <3>1, SMTT(30) DEF s, t
  <2>2. n * y = (a * d) * (d * e) - d * (c * (e * b))
    BY <1>1, SMTT(60)
  <2>3. m * x = (a * d) * (d * e) - d * (c * (a * f))
    BY <1>1, SMTT(60)
  <2> DEFINE s == c * (a * f)
             t == c * (e * b)
             q == (a * d) * (d * e)
  <2>4. s \in Int /\ t \in Int /\ q \in Int /\ s <= t
    BY <1>1, <2>1
  <2>5. d * s <= d * t
    <3> HIDE DEF s, t
    <3> QED
      BY <1>1, <2>4, SMTT(30)
  <2>6. n * y = q - d * t /\ m * x = q - d * s
    BY <2>2, <2>3
  <2>7. d * s \in Int /\ d * t \in Int
    <3> HIDE DEF s, t
    <3> QED
      BY <1>1, <2>4
  <2> DEFINE k == d * s
             l == d * t
  <2> HIDE DEF q, s, t
  <2>8. k \in Int /\ l \in Int /\ k <= l /\ n * y = q - l /\ m * x = q - k
    BY <2>5, <2>6, <2>7
  <2> HIDE DEF k, l, n, m, x, y
  <2> QED
    BY <2>4, <2>8
<1> HIDE DEF n, m, x, y
<1>8. AtMost(Fraction(n, x), Fraction(m, y))
  BY <1>5, <1>6, <1>7, FractionCompares
<1> QED
  BY <1>5, <1>6, <1>8, FractionIsRatio

\* A finite sequence of fractions and zero have a largest.
LEMMA LargestIs ==
  ASSUME NEW n \in Nat, NEW f, \A i \in 1..n : IsRatio(f[i])
  PROVE  \E x \in {f[i] : i \in 1..n} \union {Zero} :
           IsRatio(x) /\ \A y \in {f[i] : i \in 1..n} \union {Zero} : AtMost(y, x)
<1> DEFINE upTo(k) == {f[i] : i \in 1..k} \union {Zero}
           known == {k \in 0..n : \E x \in upTo(k) : IsRatio(x) /\ \A y \in upTo(k) : AtMost(y, x)}
<1>0. IsRatio(Zero)
  BY WholeIs DEF Zero
<1>1. 0 \in known
  <2>1. upTo(0) = {Zero}
    OBVIOUS
  <2>2. AtMost(Zero, Zero)
    BY <1>0, RatioOrder
  <2> QED
    BY <1>0, <2>1, <2>2
<1>2. ASSUME NEW k \in 0..n, k \in known, k < n PROVE k + 1 \in known
  <2>1. PICK x \in upTo(k) : IsRatio(x) /\ \A y \in upTo(k) : AtMost(y, x)
    BY <1>2
  <2> DEFINE r == f[k + 1]
  <2>2. k + 1 \in 1..n /\ IsRatio(r)
    BY <1>2
  <2>3. upTo(k + 1) = upTo(k) \union {r}
    <3>1. 1..(k + 1) = 1..k \union {k + 1}
      BY <1>2
    <3> QED
      BY <3>1
  <2> HIDE DEF upTo, r
  <2>4. CASE AtMost(r, x)
    BY <1>2, <2>1, <2>2, <2>3, <2>4
  <2>5. CASE ~AtMost(r, x)
    <3>1. AtMost(x, r) /\ AtMost(r, r)
      BY <2>1, <2>2, <2>5, RatioOrder
    <3>2. ASSUME NEW y \in upTo(k), IsRatio(y) PROVE AtMost(y, r)
      BY <2>1, <2>2, <3>1, <3>2, RatioOrder
    <3>3. \A y \in upTo(k) : IsRatio(y)
      BY <1>0, <1>2 DEF upTo
    <3>4. \A y \in upTo(k + 1) : AtMost(y, r)
      BY <2>3, <3>1, <3>2, <3>3
    <3> QED
      BY <2>2, <2>3, <3>4
  <2> QED
    BY <2>4, <2>5
<1> HIDE DEF known
<1>3. n \in known
  <2>1. 0..n \subseteq known
    BY <1>1, <1>2, UpTo
  <2> QED
    BY <2>1
<1> QED
  BY <1>3 DEF known

\* The value from which a fall is measured: that of the opening, or of a day.
ValueAt(stretch, i) == IF i = 0 THEN One ELSE stretch[i].growth
Falls(stretch) ==
  UNION {{Over(Minus(ValueAt(stretch, i), ValueAt(stretch, j)), ValueAt(stretch, i)) : j \in i..Len(stretch)}
         : i \in {x \in 0..Len(stretch) : Below(Zero, ValueAt(stretch, x))}}

\* Every drawdown is a fall, and every fall is at most a drawdown.
LEMMA DrawdownsAreFalls ==
  ASSUME NEW stretch, Len(stretch) \in Nat,
         \A i \in 1..Len(stretch) :
           /\ stretch[i].total # None /\ LinkedAt(stretch, i)
           /\ AtMost(Zero, stretch[i].growth)
  PROVE  /\ \A i \in 1..Len(stretch) : IsRatio(stretch[i].drawdown) /\ stretch[i].drawdown \in Falls(stretch)
         /\ \A y \in Falls(stretch) :
              /\ IsRatio(y)
              /\ y = Zero \/ \E j \in 1..Len(stretch) : AtMost(y, stretch[j].drawdown)
<1> DEFINE n == Len(stretch)
           v(i) == ValueAt(stretch, i)
<1>0. IsRatio(One) /\ IsRatio(Zero) /\ Below(Zero, One) /\ AtMost(Zero, One)
  BY WholeIs DEF One, Zero, Below, AtMost, Whole
<1>1. ASSUME NEW i \in 1..n
      PROVE  /\ IsRatio(stretch[i].growth)
             /\ \E p : IsPeak(p, stretch, i) /\ stretch[i].drawdown = Fall(p, stretch[i].growth)
  BY <1>1 DEF LinkedAt, Drawdown, Fall
<1>2. \A i \in 0..n : IsRatio(v(i))
  BY <1>0, <1>1 DEF ValueAt
<1>3. \A i, k \in 1..n : k <= i => Unbroken(stretch, k, i)
  BY DEF Unbroken
<1>4. ASSUME NEW j \in 1..n, NEW p, IsPeak(p, stretch, j)
      PROVE  /\ IsRatio(p) /\ Below(Zero, p)
             /\ \A i \in 0..j : AtMost(v(i), p)
             /\ \E i \in 0..j : p = v(i)
  <2>1. IsRatio(p) /\ AtMost(One, p)
        /\ (\A k \in 1..j : Unbroken(stretch, k, j) => IsRatio(stretch[k].growth) /\ AtMost(stretch[k].growth, p))
        /\ (p = One \/ \E k \in 1..j : Unbroken(stretch, k, j) /\ p = stretch[k].growth)
    BY <1>4 DEF IsPeak
  <2>2. Below(Zero, p)
    <3>1. ~AtMost(One, Zero)
      BY <1>0, RatioOrder
    <3>2. ~AtMost(p, Zero)
      BY <1>0, <2>1, <3>1, RatioOrder
    <3> QED
      BY <1>0, <2>1, <3>2, RatioOrder
  <2>3. \A i \in 0..j : AtMost(v(i), p)
    BY <1>3, <2>1 DEF ValueAt
  <2>4. \E i \in 0..j : p = v(i)
    <3>1. CASE p = One
      BY <3>1 DEF ValueAt
    <3>2. CASE \E k \in 1..j : p = stretch[k].growth
      BY <3>2 DEF ValueAt
    <3> QED
      BY <2>1, <3>1, <3>2
  <2> QED
    BY <2>1, <2>2, <2>3, <2>4
<1>5. ASSUME NEW j \in 1..n
      PROVE  IsRatio(stretch[j].drawdown) /\ stretch[j].drawdown \in Falls(stretch)
  <2>1. PICK p : IsPeak(p, stretch, j) /\ stretch[j].drawdown = Fall(p, stretch[j].growth)
    BY <1>1
  <2>2. IsRatio(p) /\ Below(Zero, p)
    BY <1>4, <2>1
  <2>3. PICK i \in 0..j : p = v(i)
    BY <1>4, <2>1
  <2>4. v(j) = stretch[j].growth /\ i \in 0..n /\ j \in i..n
    BY DEF ValueAt
  <2>5. stretch[j].drawdown = Over(Minus(v(i), v(j)), v(i))
    BY <2>1, <2>3, <2>4 DEF Fall
  <2>6. stretch[j].drawdown \in Falls(stretch)
    BY <2>2, <2>3, <2>4, <2>5 DEF Falls
  <2>7. IsRatio(Fall(p, stretch[j].growth))
    <3>1. AtMost(p, p)
      BY <2>2, RatioOrder
    <3> QED
      BY <1>1, <2>2, <3>1, FallOrder
  <2> QED
    BY <2>1, <2>6, <2>7
<1>6. ASSUME NEW y \in Falls(stretch)
      PROVE  IsRatio(y) /\ (y = Zero \/ \E j \in 1..n : AtMost(y, stretch[j].drawdown))
  <2>1. PICK i \in 0..n, j \in 0..n : j \in i..n /\ Below(Zero, v(i)) /\ y = Over(Minus(v(i), v(j)), v(i))
    BY DEF Falls
  <2>2. y = Fall(v(i), v(j)) /\ IsRatio(v(i)) /\ IsRatio(v(j)) /\ AtMost(v(i), v(i)) /\ AtMost(Zero, v(j))
    <3>1. i \in 0..n /\ j \in 0..n
      BY <2>1
    <3>2. IsRatio(v(i)) /\ IsRatio(v(j))
      BY <1>2, <3>1
    <3>3. AtMost(Zero, v(j))
      BY <1>0, <3>1 DEF ValueAt
    <3>4. AtMost(v(i), v(i))
      BY <3>2, RatioOrder
    <3> QED
      BY <2>1, <3>2, <3>3, <3>4 DEF Fall
  <2>3. IsRatio(y)
    <3> HIDE DEF v
    <3> QED
      BY <2>1, <2>2, FallOrder
  <2>4. CASE j = 0
    <3>1. v(i) = One /\ v(j) = One
      BY <2>1, <2>4 DEF ValueAt
    <3>2. Over(Minus(One, One), One) = Zero
      <4>1. Minus(One, One) = Zero
        BY <1>0, RatioUnits
      <4>2. Over(Zero, One) = Fraction(0, 1)
        BY DEF Over, Zero, One, Whole
      <4> QED
        BY <4>1, <4>2, WholeIs DEF Zero
    <3> QED
      BY <2>1, <2>3, <3>1, <3>2
  <2>5. CASE j # 0
    <3>1. j \in 1..n /\ v(j) = stretch[j].growth /\ i \in 0..j
      BY <2>1, <2>5 DEF ValueAt
    <3>2. PICK p : IsPeak(p, stretch, j) /\ stretch[j].drawdown = Fall(p, stretch[j].growth)
      BY <1>1, <3>1
    <3>3. IsRatio(p) /\ AtMost(v(i), p)
      BY <1>4, <3>1, <3>2
    <3>4. AtMost(Fall(v(i), v(j)), Fall(p, v(j)))
      <4> HIDE DEF v
      <4> QED
        BY <2>1, <2>2, <3>3, FallOrder
    <3> QED
      BY <2>2, <2>3, <3>1, <3>2, <3>4
  <2> QED
    BY <2>4, <2>5
<1> QED
  BY <1>5, <1>6

LargestOf(S) == CHOOSE x \in S \union {Zero} : \A y \in S \union {Zero} : AtMost(y, x)

\* Two sets of ratios, each bounded by the other, have the same largest element.
LEMMA LargestAgree ==
  ASSUME NEW A, NEW B, \A y \in B : IsRatio(y), A \subseteq B,
         \A y \in B : y = Zero \/ \E x \in A : AtMost(y, x),
         NEW m \in A \union {Zero}, \A y \in A \union {Zero} : AtMost(y, m)
  PROVE  LargestOf(A) = LargestOf(B)
<1>0. IsRatio(Zero)
  BY WholeIs DEF Zero
<1>1. \A y \in B \union {Zero} : IsRatio(y)
  BY <1>0
<1>2. ASSUME NEW y \in B \union {Zero} PROVE AtMost(y, m)
  <2>1. PICK x \in A \union {Zero} : AtMost(y, x)
    <3>1. AtMost(Zero, Zero)
      BY <1>0, RatioOrder
    <3> QED
      BY <3>1
  <2>2. AtMost(x, m) /\ IsRatio(x) /\ IsRatio(m) /\ IsRatio(y)
    BY <1>1
  <2> QED
    BY <2>1, <2>2, RatioOrder
<1>3. ASSUME NEW x \in B \union {Zero}, AtMost(m, x), AtMost(x, m) PROVE x = m
  <2>1. IsRatio(x) /\ IsRatio(m)
    BY <1>1
  <2> QED
    BY <1>3, <2>1, RatioOrder
<1>4. ASSUME NEW S, m \in S \union {Zero}, \A y \in S \union {Zero} : AtMost(y, m),
             \A x \in S \union {Zero} : AtMost(m, x) /\ AtMost(x, m) => x = m
      PROVE  LargestOf(S) = m
  <2> DEFINE T == S \union {Zero}
             P(x) == \A y \in T : AtMost(y, x)
  <2>1. m \in T /\ P(m)
    BY <1>4
  <2>2. \A x \in T : P(x) => x = m
    BY <1>4
  <2>3. LargestOf(S) = CHOOSE x \in T : P(x)
    BY DEF LargestOf
  <2> HIDE DEF T, P
  <2>4. (CHOOSE x \in T : P(x)) = m
    BY <2>1, <2>2
  <2> QED
    BY <2>3, <2>4
<1>5. LargestOf(A) = m
  <2>1. \A x \in A \union {Zero} : AtMost(m, x) /\ AtMost(x, m) => x = m
    BY <1>3
  <2> QED
    BY <1>4, <2>1
<1>6. LargestOf(B) = m
  <2>1. \A x \in B \union {Zero} : AtMost(m, x) /\ AtMost(x, m) => x = m
    BY <1>3
  <2>2. m \in B \union {Zero}
    OBVIOUS
  <2> QED
    BY <1>2, <1>4, <2>1, <2>2
<1> QED
  BY <1>5, <1>6

\* DrawdownIsWorstFall in every state of the invariant.
LEMMA DrawdownsAreWorst ==
  ASSUME Inv
  PROVE  DrawdownIsWorstFall
<1> SUFFICES ASSUME Stretch # <<>>, \A i \in DOMAIN Stretch : AtMost(Zero, Stretch[i].growth)
             PROVE  DrawdownIsWorstFall
  BY DEF DrawdownIsWorstFall
<1> DEFINE h == report.history
           days == Inner(h)[To].days
           n == Len(Stretch)
           A == {Stretch[i].drawdown : i \in 1..n}
           B == Falls(Stretch)
<1>1. IsHistory(h) /\ Stretch = LastStretch(days)
  <2>1. IsLoaded
    BY DEF Stretch
  <2> QED
    BY <2>1, ReportIs
<1>2. To \in 0..To
  BY PerformanceAssumption
<1>3. /\ Stretch \in Seq(DaysOf(h)) /\ n \in Nat
      /\ \A i \in 1..n : Stretch[i].total # None /\ LinkedAt(Stretch, i)
  <2>1. days \in Seq(DaysOf(h)) /\ \A i \in 1..Len(days) : LinkedAt(days, i)
    BY <1>1, <1>2, EngineAlwaysHolds DEF EngineHolds, ChainHolds
  <2> HIDE DEF days
  <2>2. LastStretch(days) # <<>>
    BY <1>1
  <2>3. LET s == LastStretch(days) IN
        /\ s \in Seq(DaysOf(h)) /\ Len(s) \in Nat \ {0}
        /\ \A i \in 1..Len(s) : s[i] \in DaysOf(h) /\ s[i].total # None /\ LinkedAt(s, i)
    BY <2>1, <2>2, StretchLinks
  <2> HIDE DEF h
  <2> QED
    BY <1>1, <2>3
<1>4. DOMAIN Stretch = 1..n
  BY <1>3
<1>5. /\ \A i \in 1..n : IsRatio(Stretch[i].drawdown) /\ Stretch[i].drawdown \in B
      /\ \A y \in B : IsRatio(y) /\ (y = Zero \/ \E j \in 1..n : AtMost(y, Stretch[j].drawdown))
  <2> HIDE DEF Stretch
  <2> QED
    BY <1>3, <1>4, DrawdownsAreFalls
<1> DEFINE f == [i \in 1..n |-> Stretch[i].drawdown]
<1>6. \E x \in {f[i] : i \in 1..n} \union {Zero} :
           IsRatio(x) /\ \A y \in {f[i] : i \in 1..n} \union {Zero} : AtMost(y, x)
  <2>1. \A i \in 1..n : IsRatio(f[i])
    BY <1>5
  <2> HIDE DEF f, n
  <2> QED
    BY <1>3, <2>1, LargestIs
<1>7. {f[i] : i \in 1..n} = A
  OBVIOUS
<1>8. PICK m \in A \union {Zero} : \A y \in A \union {Zero} : AtMost(y, m)
  BY <1>6, <1>7
<1>9. LargestOf(A) = LargestOf(B)
  <2>1. A \subseteq B /\ \A y \in B : y = Zero \/ \E x \in A : AtMost(y, x)
    BY <1>5
  <2>2. \A y \in B : IsRatio(y)
    BY <1>5
  <2> HIDE DEF A, B
  <2> QED
    BY <1>8, <2>1, <2>2, LargestAgree
<1>10. A = {Stretch[i].drawdown : i \in DOMAIN Stretch}
  BY <1>4
<1> HIDE DEF A, h, days
<1> QED
  BY <1>9, <1>10 DEF DrawdownIsWorstFall, Falls, ValueAt, LargestOf

-----------------------------------------------------------------------------
(* The closes on the page are recent.                                         *)

HeldAt(h, x, d) == QuantityOf(h.events, Counted(h, d), x) > 0
MarkedOn(h, x, d) == h.bars[x][d] > 0 \/ BoughtFor(h, EventsOn(h, d), x) > 0
HeldSince(h, x, m, d) == {v \in ValuationDates(h) : m < v /\ v <= d /\ HeldAt(h, x, v)}

\* A close was seen or paid, and while it may still be carried the symbol was held
\* since then on no more valuation dates than the close is old.
RecentMark(h, x, k, d) ==
  /\ k.age <= CarryLimit
  /\ k.known => k.last > 0
  /\ k.last > 0 => \E m \in ValuationDates(h) :
                     /\ m <= d /\ MarkedOn(h, x, m)
                     /\ k.known \/ k.age < CarryLimit => Cardinality(HeldSince(h, x, m, d)) <= k.age

MarksHold(h, s, d) == \A x \in DOMAIN s.marks : RecentMark(h, x, s.marks[x], d)

\* How the dates since a mark on which a symbol was held grow with the date.
LEMMA HeldSinceIs ==
  ASSUME NEW h, NEW x, NEW m, NEW d \in 1..To
  PROVE  /\ IsFiniteSet(HeldSince(h, x, m, d)) /\ Cardinality(HeldSince(h, x, m, d)) \in Nat
         /\ d \in ValuationDates(h) /\ HeldAt(h, x, d) =>
              Cardinality(HeldSince(h, x, m, d)) <= Cardinality(HeldSince(h, x, m, d - 1)) + 1
         /\ d \notin ValuationDates(h) \/ ~HeldAt(h, x, d) => HeldSince(h, x, m, d) = HeldSince(h, x, m, d - 1)
         /\ HeldSince(h, x, d, d) = {}
<1>0. To \in Nat
  BY PerformanceAssumption
<1>1. \A v \in ValuationDates(h) : v \in 1..To /\ v \in Int
  BY DatesAre
<1> DEFINE H(k) == HeldSince(h, x, m, k)
<1>2. \A k : IsFiniteSet(H(k)) /\ Cardinality(H(k)) \in Nat
  <2> TAKE k
  <2>1. IsFiniteSet(1..To)
    BY <1>0, FS_Interval
  <2>2. H(k) \in SUBSET (1..To)
    BY <1>1 DEF HeldSince
  <2> QED
    BY <2>1, <2>2, FS_Subset, FS_CardinalityType
<1>3. H(d) \subseteq H(d - 1) \union {d}
  <2> SUFFICES ASSUME NEW v \in H(d) PROVE v = d \/ v \in H(d - 1)
    OBVIOUS
  <2>1. v \in ValuationDates(h) /\ m < v /\ v <= d /\ HeldAt(h, x, v)
    BY DEF HeldSince
  <2>2. v \in Int /\ d \in Int
    BY <1>1, <2>1
  <2>3. v = d \/ v <= d - 1
    BY <2>1, <2>2
  <2> QED
    BY <2>1, <2>3 DEF HeldSince
<1>4. H(d - 1) \subseteq H(d)
  <2> SUFFICES ASSUME NEW v \in H(d - 1) PROVE v \in H(d)
    OBVIOUS
  <2>1. v \in ValuationDates(h) /\ m < v /\ v <= d - 1 /\ HeldAt(h, x, v)
    BY DEF HeldSince
  <2>2. v <= d
    BY <1>1, <2>1
  <2> QED
    BY <2>1, <2>2 DEF HeldSince
<1>5. d \notin ValuationDates(h) \/ ~HeldAt(h, x, d) => d \notin H(d)
  BY DEF HeldSince
<1>6. HeldSince(h, x, d, d) = {}
  BY <1>1 DEF HeldSince
<1> HIDE DEF H
<1>7. Cardinality(H(d)) <= Cardinality(H(d - 1)) + 1
  <2>1. /\ IsFiniteSet(H(d - 1) \union {d})
        /\ Cardinality(H(d - 1) \union {d}) <= Cardinality(H(d - 1)) + 1
    BY <1>2, FS_AddElement
  <2>2. Cardinality(H(d)) <= Cardinality(H(d - 1) \union {d})
    BY <1>3, <2>1, FS_Subset
  <2>3. Cardinality(H(d - 1) \union {d}) \in Nat
    BY <2>1, FS_CardinalityType
  <2> QED
    BY <1>2, <2>1, <2>2, <2>3
<1>8. d \notin H(d) => H(d) = H(d - 1)
  BY <1>3, <1>4
<1> QED
  BY <1>2, <1>5, <1>6, <1>7, <1>8 DEF H

\* A close that is kept from the date before, on a date without the symbol or not one.
LEMMA MarkStays ==
  ASSUME NEW h, NEW x, NEW k \in Mark, NEW d \in 1..To, RecentMark(h, x, k, d - 1),
         d \notin ValuationDates(h) \/ ~HeldAt(h, x, d)
  PROVE  RecentMark(h, x, k, d)
<1> SUFFICES ASSUME k.last > 0
             PROVE  \E m \in ValuationDates(h) :
                      /\ m <= d /\ MarkedOn(h, x, m)
                      /\ k.known \/ k.age < CarryLimit => Cardinality(HeldSince(h, x, m, d)) <= k.age
  BY DEF RecentMark
<1>1. PICK m \in ValuationDates(h) :
             /\ m <= d - 1 /\ MarkedOn(h, x, m)
             /\ k.known \/ k.age < CarryLimit => Cardinality(HeldSince(h, x, m, d - 1)) <= k.age
  BY DEF RecentMark
<1>2. m <= d
  <2>1. m \in 1..To
    BY DatesAre
  <2> QED
    BY <1>1, <2>1
<1>3. HeldSince(h, x, m, d) = HeldSince(h, x, m, d - 1)
  BY HeldSinceIs
<1> QED
  BY <1>1, <1>2, <1>3

\* A turn keeps a mark recent.
LEMMA MarkTurns ==
  ASSUME NEW h, NEW x, NEW m \in Mark, NEW d \in 1..To, d \in ValuationDates(h),
         RecentMark(h, x, m, d - 1), NEW bar \in Nat, bar = h.bars[x][d],
         NEW bought \in Nat, bought = BoughtFor(h, EventsOn(h, d), x),
         NEW quantity \in Int, quantity > 0 <=> HeldAt(h, x, d)
  PROVE  LET k == MarkedAt(m, bar, quantity, bought) IN
         RecentMark(h, x, k, d) /\ k \in Mark
<1> DEFINE k == MarkedAt(m, bar, quantity, bought)
<1>0. CarryLimit \in Nat
  BY PerformanceAssumption
<1>1. k \in Mark
  BY MarkedAtIs
<1>2. m.last \in Nat /\ m.age \in Nat /\ m.age <= CarryLimit
      /\ m = [last |-> m.last, age |-> m.age, known |-> m.known, carried |-> m.carried]
  BY DEF Mark, RecentMark
<1>3. ASSUME MarkedOn(h, x, d), k.age = 0, k.last > 0 PROVE RecentMark(h, x, k, d)
  <2>1. Cardinality(HeldSince(h, x, d, d)) = 0
    BY HeldSinceIs, FS_EmptySet
  <2>2. d <= d /\ 0 <= CarryLimit
    BY <1>0
  <2> HIDE DEF k
  <2> QED
    BY <1>3, <2>1, <2>2 DEF RecentMark
<1>4. CASE bar > 0
  <2>1. k.last > 0 /\ k.age = 0
    BY <1>4 DEF MarkedAt
  <2>2. MarkedOn(h, x, d)
    BY <1>4 DEF MarkedOn
  <2> QED
    BY <1>1, <1>3, <2>1, <2>2
<1>5. CASE bar = 0 /\ quantity > 0 /\ m.last = 0 /\ bought > 0
  <2>1. k.last > 0 /\ k.age = 0
    BY <1>5 DEF MarkedAt
  <2>2. MarkedOn(h, x, d)
    BY <1>5 DEF MarkedOn
  <2> QED
    BY <1>1, <1>3, <2>1, <2>2
<1>6. CASE bar = 0 /\ quantity > 0 /\ m.last > 0 /\ m.age < CarryLimit
  <2>1. k = [m EXCEPT !.age = @ + 1, !.known = TRUE, !.carried = TRUE]
    BY <1>6 DEF MarkedAt, Mark
  <2>2. k.last = m.last /\ k.age = m.age + 1
    BY <1>2, <2>1
  <2>3. PICK v \in ValuationDates(h) :
             /\ v <= d - 1 /\ MarkedOn(h, x, v)
             /\ m.known \/ m.age < CarryLimit => Cardinality(HeldSince(h, x, v, d - 1)) <= m.age
    BY <1>6 DEF RecentMark
  <2>4. v <= d
    <3>1. v \in 1..To
      BY DatesAre
    <3> QED
      BY <2>3, <3>1
  <2> DEFINE now == Cardinality(HeldSince(h, x, v, d))
             then == Cardinality(HeldSince(h, x, v, d - 1))
  <2>5. now <= then + 1 /\ now \in Nat
    BY <1>6, HeldSinceIs
  <2>6. then \in Nat
    <3>1. IsFiniteSet(HeldSince(h, x, v, d - 1))
      <4>1. IsFiniteSet(1..To)
        BY PerformanceAssumption, FS_Interval
      <4>2. HeldSince(h, x, v, d - 1) \in SUBSET (1..To)
        BY DatesAre DEF HeldSince
      <4> QED
        BY <4>1, <4>2, FS_Subset
    <3> QED
      BY <3>1, FS_CardinalityType
  <2>7. then <= m.age
    BY <1>6, <2>3
  <2> HIDE DEF now, then, k
  <2>8. now <= k.age /\ k.age <= CarryLimit
    BY <1>0, <1>2, <1>6, <2>2, <2>5, <2>6, <2>7
  <2>9. k.last > 0
    BY <1>6, <2>2
  <2> QED
    BY <1>1, <2>3, <2>4, <2>8, <2>9 DEF RecentMark, now, k
<1>7. CASE ~(bar > 0) /\ ~(bar = 0 /\ quantity > 0 /\ m.last = 0 /\ bought > 0)
           /\ ~(bar = 0 /\ quantity > 0 /\ m.last > 0 /\ m.age < CarryLimit)
  <2>1. k = [m EXCEPT !.known = FALSE, !.carried = FALSE]
    BY <1>7 DEF MarkedAt
  <2>2. k.last = m.last /\ k.age = m.age /\ k.known = FALSE
    BY <1>2, <2>1
  <2> HIDE DEF k
  <2> SUFFICES ASSUME k.last > 0
               PROVE \E v \in ValuationDates(h) :
                      /\ v <= d /\ MarkedOn(h, x, v)
                      /\ k.known \/ k.age < CarryLimit => Cardinality(HeldSince(h, x, v, d)) <= k.age
    BY <1>1, <1>2, <2>2 DEF RecentMark, k
  <2>3. PICK v \in ValuationDates(h) :
             /\ v <= d - 1 /\ MarkedOn(h, x, v)
             /\ m.known \/ m.age < CarryLimit => Cardinality(HeldSince(h, x, v, d - 1)) <= m.age
    BY <2>2 DEF RecentMark
  <2>4. v <= d
    <3>1. v \in 1..To
      BY DatesAre
    <3> QED
      BY <2>3, <3>1
  <2>5. CASE quantity > 0
    <3>1. ~(k.age < CarryLimit)
      BY <1>7, <2>2, <2>5
    <3> QED
      BY <2>2, <2>3, <2>4, <3>1
  <2>6. CASE ~(quantity > 0)
    <3>1. HeldSince(h, x, v, d) = HeldSince(h, x, v, d - 1)
      BY <2>6, HeldSinceIs
    <3> QED
      BY <2>2, <2>3, <2>4, <3>1
  <2> QED
    BY <2>5, <2>6
<1> QED
  BY <1>1, <1>4, <1>5, <1>6, <1>7

\* A turn keeps every mark recent.
LEMMA TurnMarksHold ==
  ASSUME NEW h, IsHistory(h), NEW s, NEW d \in 1..To, LoopHolds(h, s, d - 1), MarksHold(h, s, d - 1)
  PROVE  /\ d \in ValuationDates(h) =>
              \A x \in Traded(h.events, Counted(h, d)) : RecentMark(h, x, TurnAt(h, s, d).marks[x], d)
         /\ d \in ValuationDates(h) => MarksHold(h, Value(h, s, d), d)
         /\ d \notin ValuationDates(h) => MarksHold(h, s, d)
<1> DEFINE T == Traded(h.events, Counted(h, d))
           marks == TurnAt(h, s, d).marks
<1>1. \A x : MarkBefore(s, x) \in Mark /\ RecentMark(h, x, MarkBefore(s, x), d - 1)
  <2> TAKE x
  <2>1. MarkBefore(s, x) \in Mark
    BY TurnMarks
  <2>2. CASE x \in DOMAIN s.marks
    BY <2>1, <2>2 DEF MarkBefore, MarksHold
  <2>3. CASE x \notin DOMAIN s.marks
    <3>1. MarkBefore(s, x) = Unmarked
      BY <2>3 DEF MarkBefore
    <3>2. RecentMark(h, x, Unmarked, d - 1)
      BY PerformanceAssumption DEF RecentMark, Unmarked
    <3> QED
      BY <2>1, <3>1, <3>2
  <2> QED
    BY <2>2, <2>3
<1>2. ASSUME d \in ValuationDates(h), NEW x \in T PROVE RecentMark(h, x, marks[x], d)
  <2> DEFINE q == QuantityOf(h.events, Counted(h, d), x)
             b == BoughtFor(h, EventsOn(h, d), x)
             bar == h.bars[x][d]
             m == MarkBefore(s, x)
  <2>1. bar \in Nat /\ marks[x] = MarkedAt(m, bar, q, b)
    BY TurnMarks DEF QuantityOf
  <2>2. q \in Int
    BY TurnWorth
  <2>3. b \in Nat
    <3>1. EventsOn(h, d) \in SUBSET (1..Len(h.events))
      BY DayFlow
    <3> QED
      BY <3>1, BoughtForIs
  <2>4. q > 0 <=> HeldAt(h, x, d)
    BY DEF HeldAt
  <2>5. m \in Mark /\ RecentMark(h, x, m, d - 1)
    BY <1>1
  <2>6. bar = h.bars[x][d] /\ b = BoughtFor(h, EventsOn(h, d), x)
    OBVIOUS
  <2> HIDE DEF q, b, bar, m, T, marks
  <2> QED
    BY <1>2, <2>1, <2>2, <2>3, <2>4, <2>5, <2>6, MarkTurns
<1>3. marks \in [T -> Mark] /\ Value(h, s, d).marks = marks
  BY TurnMarks, TurnGoesOn
<1>4. ASSUME d \notin ValuationDates(h) PROVE MarksHold(h, s, d)
  <2> SUFFICES ASSUME NEW x \in DOMAIN s.marks PROVE RecentMark(h, x, s.marks[x], d)
    BY DEF MarksHold
  <2>1. s.marks[x] \in Mark
    BY DEF LoopHolds
  <2>2. RecentMark(h, x, s.marks[x], d - 1)
    BY DEF MarksHold
  <2> QED
    BY <1>4, <2>1, <2>2, MarkStays
<1> HIDE DEF marks, T
<1> QED
  BY <1>2, <1>3, <1>4 DEF MarksHold, marks, T

\* Marks are recent on every date.
LEMMA MarksAlwaysHold ==
  ASSUME NEW h, IsHistory(h)
  PROVE  \A d \in 0..To : MarksHold(h, Inner(h)[d], d)
<1> DEFINE known == {d \in 0..To : MarksHold(h, Inner(h)[d], d)}
<1>0. To \in Nat
  BY PerformanceAssumption
<1>1. 0 \in known
  <2>1. Inner(h)[0] = Opening
    BY InnerIsDefined
  <2>2. MarksHold(h, Opening, 0)
    <3>1. DOMAIN Opening.marks = {}
      BY DEF Opening
    <3> QED
      BY <3>1 DEF MarksHold
  <2> QED
    BY <1>0, <2>1, <2>2
<1>2. ASSUME NEW k \in 0..To, k \in known, k < To PROVE k + 1 \in known
  <2> DEFINE d == k + 1
             s == Inner(h)[k]
  <2>1. d \in 1..To /\ d - 1 = k /\ d \in 0..To
    BY <1>0, <1>2
  <2>2. MarksHold(h, s, d - 1)
    BY <1>2, <2>1
  <2>3. LoopHolds(h, s, d - 1)
    BY <2>1, LoopAlwaysHolds
  <2>4. Inner(h)[d] = IF d \in ValuationDates(h) THEN Value(h, s, d) ELSE s
    BY <2>1, InnerIsDefined
  <2> HIDE DEF d, s
  <2>5. MarksHold(h, Inner(h)[d], d)
    BY <2>1, <2>2, <2>3, <2>4, TurnMarksHold
  <2> QED
    BY <2>1, <2>5 DEF d
<1> HIDE DEF known
<1>3. 0..To \subseteq known
  BY <1>0, <1>1, <1>2, UpTo
<1> QED
  BY <1>3 DEF known

\* On a day with a value every close of a symbol held is a recent one.
LEMMA DayIsRecent ==
  ASSUME NEW h, IsHistory(h), NEW day \in DaysOf(h), day.total # None,
         NEW x \in DOMAIN day.parts, HeldAt(h, x, day.date)
  PROVE  \E m \in ValuationDates(h) :
           /\ m <= day.date /\ MarkedOn(h, x, m)
           /\ Cardinality(HeldSince(h, x, m, day.date)) <= CarryLimit
<1>1. PICK d \in ValuationDates(h) : day = TurnDay(h, Inner(h)[d - 1], d)
  BY DEF DaysOf
<1> DEFINE s == Inner(h)[d - 1]
           T == Traded(h.events, Counted(h, d))
           k == TurnAt(h, s, d).marks[x]
<1>2. d \in 1..To /\ d - 1 \in 0..To
  BY PerformanceAssumption, DatesAre
<1>3. LoopHolds(h, s, d - 1) /\ MarksHold(h, s, d - 1)
  BY <1>2, LoopAlwaysHolds, MarksAlwaysHold
<1> HIDE DEF s
<1>4. day.date = d /\ day.total = TurnValue(h, s, d).total
  BY <1>1, <1>2, TurnDayIs DEF s
<1>5. DOMAIN day.parts = T
  <2>1. DOMAIN TurnAt(h, s, d).positions = T
    BY <1>2, <1>3, TurnWorth
  <2>2. DOMAIN day.parts = DOMAIN TurnAt(h, s, d).positions
    BY <1>1 DEF TurnDay, Day, s
  <2> QED
    BY <2>1, <2>2
<1>6. RecentMark(h, x, k, d)
  BY <1>2, <1>3, <1>5, TurnMarksHold
<1>7. k.known
  <2>1. Missing(h, s, d) = {}
    BY <1>2, <1>3, <1>4, TurnTotal
  <2> QED
    BY <1>4, <1>5, <2>1 DEF Missing, HeldAt
<1>8. k \in Mark
  BY <1>2, <1>3, <1>5, TurnMarks
<1> HIDE DEF k
<1>9. k.last > 0 /\ k.age <= CarryLimit /\ k.age \in Nat
  BY <1>6, <1>7, <1>8 DEF RecentMark, Mark
<1>10. PICK m \in ValuationDates(h) : /\ m <= d /\ MarkedOn(h, x, m)
                                      /\ Cardinality(HeldSince(h, x, m, d)) <= k.age
  BY <1>6, <1>7, <1>9 DEF RecentMark
<1>11. Cardinality(HeldSince(h, x, m, d)) <= CarryLimit
  <2>1. Cardinality(HeldSince(h, x, m, d)) \in Nat
    BY <1>2, HeldSinceIs
  <2> QED
    BY <1>9, <1>10, <2>1, PerformanceAssumption
<1> QED
  BY <1>4, <1>10, <1>11

\* ClosesAreRecent in every state of the invariant.
LEMMA ClosesRecent ==
  ASSUME Inv
  PROVE  ClosesAreRecent
<1> SUFFICES ASSUME IsLoaded PROVE ClosesAreRecent
  BY DEF ClosesAreRecent
<1> DEFINE h == report.history
           days == report.end.days
<1>1. IsHistory(h) /\ days = Inner(h)[To].days /\ Events = h.events
  BY ReportIs
<1>2. days \in Seq(DaysOf(h))
  <2>1. To \in 0..To
    BY PerformanceAssumption
  <2> QED
    BY <1>1, <2>1, EngineAlwaysHolds DEF EngineHolds, ChainHolds
<1>3. \A x, d : QuantityOf(Events, {n \in DOMAIN Events : ValuationDate(h, Events[n]) \in 1..d}, x) > 0
                <=> HeldAt(h, x, d)
  BY <1>1 DEF HeldAt, Counted
<1> SUFFICES ASSUME NEW i \in DOMAIN days, days[i].total # None,
                    NEW x \in DOMAIN days[i].parts, HeldAt(h, x, days[i].date)
             PROVE  \E d \in ValuationDates(h) :
                      /\ d <= days[i].date /\ MarkedOn(h, x, d)
                      /\ Cardinality(HeldSince(h, x, d, days[i].date)) <= CarryLimit
  BY <1>3 DEF ClosesAreRecent, MarkedOn, HeldSince
<1>4. days[i] \in DaysOf(h)
  BY <1>2
<1> HIDE DEF days, h
<1> QED
  BY <1>1, <1>4, DayIsRecent

\* For every ledger, answer and range: without flows the linked return is the growth of the
\* value, the drawdown is the worst fall of its stretch, and a value rests on closes no
\* older than the limit (calculatePortfolioPerformance).
THEOREM DaysAreAlwaysMeasuredRight == Spec => []DaysAreMeasuredRight
<1>1. Inv => DaysAreMeasuredRight
  BY ReturnsAreGrowth, DrawdownsAreWorst, ClosesRecent DEF DaysAreMeasuredRight
<1> QED
  BY <1>1, InvHolds, PTL

-----------------------------------------------------------------------------
(* Where prices are steady, positions are worth what was paid for them.       *)

\* What one share becomes by the splits at some places of a ledger.
Share == [NoPosition EXCEPT !.quantity = 1]
SplitsIn(ev, A) == {i \in A : ev[i].type = "split"}
Multiple(ev, A, x) == Replay(Share, ev, SplitsIn(ev, A), x).quantity

\* What the trades of a symbol at some places of a ledger brought in.
GainedBy(ev, A, x) == SumFunctionOnSet(GainedOf(ev), {i \in A : ev[i].symbol = x})

\* Every trade is at the price that one share of the first day would have.
SteadyTrades(ev, x, price) ==
  /\ price \in Int
  /\ \A i \in 1..Len(ev) : ev[i].symbol = x /\ ev[i].type \in {"buy", "sell"} =>
       ev[i].price * Multiple(ev, 1..i, x) = price

PaysNothing(ev) == \A i \in 1..Len(ev) : ev[i].type \notin {"dividend", "fee"}

\* One share is a position.
LEMMA ShareIs == IsPosition(Share) /\ Share.quantity = 1
<1>1. Share = [quantity |-> 1, cost |-> Zero, realized |-> Zero]
  BY DEF Share, NoPosition
<1> HIDE DEF Share
<1> QED
  BY <1>1 DEF IsPosition

\* What one share becomes with one more event.
LEMMA MultipleStep ==
  ASSUME NEW ev, IsLedger(ev), NEW x, NEW n \in 1..Len(ev)
  PROVE  Multiple(ev, 1..n, x) =
           IF ev[n].type = "split" /\ ev[n].symbol = x
           THEN Multiple(ev, 1..(n - 1), x) * ev[n].quantity ELSE Multiple(ev, 1..(n - 1), x)
<1> DEFINE A == SplitsIn(ev, 1..(n - 1))
           B == SplitsIn(ev, 1..n)
<1>0. Len(ev) \in Nat
  BY EventIs
<1>1. A \in SUBSET (1..Len(ev)) /\ \A i \in A : i < n
  BY <1>0 DEF SplitsIn
<1>2. B = IF ev[n].type = "split" THEN A \union {n} ELSE A
  <2>1. 1..n = 1..(n - 1) \union {n}
    OBVIOUS
  <2> QED
    BY <2>1 DEF SplitsIn
<1> DEFINE p == Replay(Share, ev, A, x)
<1> HIDE DEF A, B
<1>3. IsPosition(p)
  <2> HIDE DEF IsPosition
  <2> QED
    BY <1>1, ReplayIsPosition, ShareIs
<1>4. Replay(Share, ev, A \union {n}, x) = IF ev[n].symbol = x THEN PositionAfter(p, ev[n]) ELSE p
  <2>1. \A at : (\A i \in at : i < n) =>
          Replay(Share, ev, at \union {n}, x)
            = IF ev[n].symbol = x THEN PositionAfter(Replay(Share, ev, at, x), ev[n]) ELSE Replay(Share, ev, at, x)
    BY <1>0, ReplayLast
  <2> QED
    BY <1>1, <2>1
<1>5. ev[n].type = "split" => PositionAfter(p, ev[n]).quantity = p.quantity * ev[n].quantity
  <2>1. ev[n] \in LedgerEvent
    BY EventIs
  <2> HIDE DEF p, IsPosition
  <2> QED
    BY <1>3, <2>1, PositionAfterIs
<1>6. Multiple(ev, 1..n, x) = Replay(Share, ev, B, x).quantity /\ Multiple(ev, 1..(n - 1), x) = p.quantity
  BY DEF Multiple, A, B
<1> HIDE DEF p
<1> QED
  BY <1>2, <1>4, <1>5, <1>6 DEF p

\* One share stays a positive number of shares.
LEMMA MultipleIs ==
  ASSUME NEW ev, IsLedger(ev), NEW x
  PROVE  /\ Multiple(ev, 1..0, x) = 1
         /\ \A k \in 0..Len(ev) : Multiple(ev, 1..k, x) \in Nat \ {0}
<1> DEFINE known == {k \in 0..Len(ev) : Multiple(ev, 1..k, x) \in Nat \ {0}}
<1>0. Len(ev) \in Nat
  BY EventIs
<1>1. Multiple(ev, 1..0, x) = 1
  <2>1. SplitsIn(ev, 1..0) = {}
    BY DEF SplitsIn
  <2>2. Replay(Share, ev, {}, x) = Share
    BY <1>0, ReplayNone
  <2> QED
    BY <2>1, <2>2, ShareIs DEF Multiple
<1>2. ASSUME NEW k \in 0..Len(ev), k \in known, k < Len(ev) PROVE k + 1 \in known
  <2> DEFINE n == k + 1
             f == Multiple(ev, 1..k, x)
             q == ev[n].quantity
  <2>1. n \in 1..Len(ev) /\ n - 1 = k /\ n \in 0..Len(ev)
    BY <1>0, <1>2
  <2>2. f \in Nat \ {0}
    BY <1>2
  <2>3. Multiple(ev, 1..n, x) = IF ev[n].type = "split" /\ ev[n].symbol = x THEN f * q ELSE f
    <3>1. \A m \in 1..Len(ev) : Multiple(ev, 1..m, x) =
             IF ev[m].type = "split" /\ ev[m].symbol = x
             THEN Multiple(ev, 1..(m - 1), x) * ev[m].quantity ELSE Multiple(ev, 1..(m - 1), x)
      BY MultipleStep
    <3> HIDE DEF n
    <3> QED
      BY <2>1, <3>1
  <2>4. ev[n].type = "split" => q \in Nat \ {0}
    <3>1. IsValid(ev[n]) /\ q \in Nat
      BY <2>1, EventIs
    <3> QED
      BY <3>1 DEF IsValid
  <2> HIDE DEF f, q, n
  <2>5. q \in Nat \ {0} => f * q \in Nat \ {0}
    <3>1. q \in Nat \ {0} => f * q > 0
      BY <2>2, SMTT(30)
    <3> QED
      BY <2>2, <3>1
  <2> QED
    BY <2>1, <2>2, <2>3, <2>4, <2>5 DEF n
<1> HIDE DEF known
<1>3. 0..Len(ev) \subseteq known
  <2>1. 0 \in known
    BY <1>0, <1>1 DEF known
  <2> QED
    BY <1>0, <1>2, <2>1, UpTo
<1> QED
  BY <1>1, <1>3 DEF known

\* What the trades of a symbol gain with one more event.
LEMMA GainedStep ==
  ASSUME NEW ev, IsLedger(ev), NEW x, NEW n \in 1..Len(ev)
  PROVE  /\ GainedBy(ev, 1..n, x) = IF ev[n].symbol = x THEN GainedBy(ev, 1..(n - 1), x) + Gained(ev[n])
                                    ELSE GainedBy(ev, 1..(n - 1), x)
         /\ GainedBy(ev, 1..(n - 1), x) \in Int
<1> DEFINE f == GainedOf(ev)
           S == 1..Len(ev)
           A == {i \in 1..(n - 1) : ev[i].symbol = x}
           B == {i \in 1..n : ev[i].symbol = x}
<1>0. Len(ev) \in Nat
  BY EventIs
<1>1. IsFiniteSet(S) /\ (\A i \in S : f[i] \in Int) /\ f[n] = Gained(ev[n])
  BY EventSum, EffectsOf
<1>2. A \in SUBSET S /\ n \in S \ A
  BY <1>0
<1>3. B = IF ev[n].symbol = x THEN A \union {n} ELSE A
  <2>1. 1..n = 1..(n - 1) \union {n}
    OBVIOUS
  <2> QED
    BY <2>1
<1> HIDE DEF A, B, f, S
<1>4. SumFunctionOnSet(f, A \union {n}) = SumFunctionOnSet(f, A) + f[n]
  BY <1>1, <1>2, SumAdd
<1>5. SumFunctionOnSet(f, A) \in Int
  BY <1>1, <1>2, SumIsInt
<1> QED
  BY <1>1, <1>3, <1>4, <1>5 DEF GainedBy, A, B, f

\* The quantity of a symbol with one more event.
LEMMA QuantityStep ==
  ASSUME NEW ev, IsLedger(ev), NEW x, NEW n \in 1..Len(ev)
  PROVE  LET q == QuantityOf(ev, 1..(n - 1), x) IN
         /\ q \in Int
         /\ QuantityOf(ev, 1..n, x) =
              IF ev[n].symbol # x THEN q
              ELSE IF ev[n].type = "buy" THEN q + ev[n].quantity
              ELSE IF ev[n].type = "sell" THEN q - ev[n].quantity
              ELSE IF ev[n].type = "split" THEN q * ev[n].quantity ELSE q
<1> DEFINE A == 1..(n - 1)
           p == Replay(NoPosition, ev, A, x)
           e == ev[n]
<1>0. Len(ev) \in Nat
  BY EventIs
<1>1. A \in SUBSET (1..Len(ev)) /\ (\A i \in A : i < n) /\ 1..n = A \union {n}
  BY <1>0
<1> HIDE DEF A
<1>2. IsPosition(p)
  <2> HIDE DEF IsPosition
  <2> QED
    BY <1>1, ReplayIsPosition, NoPositionIs
<1>3. Replay(NoPosition, ev, 1..n, x) = IF e.symbol = x THEN PositionAfter(p, e) ELSE p
  <2>1. Replay(NoPosition, ev, A \union {n}, x) = IF e.symbol = x THEN PositionAfter(p, e) ELSE p
    BY <1>0, <1>1, ReplayLast
  <2> QED
    BY <1>1, <2>1
<1>4. /\ e.type = "buy" => PositionAfter(p, e).quantity = p.quantity + e.quantity
      /\ e.type = "sell" => PositionAfter(p, e).quantity = p.quantity - e.quantity
      /\ e.type = "split" => PositionAfter(p, e).quantity = p.quantity * e.quantity
      /\ e.type \notin {"buy", "sell", "split"} => PositionAfter(p, e) = p
  <2>1. e \in LedgerEvent
    BY EventIs
  <2> HIDE DEF p, e, IsPosition
  <2> QED
    BY <1>2, <2>1, PositionAfterIs
<1>5. p.quantity \in Int
  BY <1>2 DEF IsPosition
<1>6. QuantityOf(ev, 1..n, x) = Replay(NoPosition, ev, 1..n, x).quantity
      /\ QuantityOf(ev, 1..(n - 1), x) = p.quantity
  BY DEF QuantityOf, A
<1> HIDE DEF p
<1>7. QuantityOf(ev, 1..n, x) = IF e.symbol = x THEN PositionAfter(p, e).quantity ELSE p.quantity
  BY <1>3, <1>6
<1> QED
  BY <1>4, <1>5, <1>6, <1>7

\* One step of the balance, in numbers.
LEMMA BalanceNumbers ==
  ASSUME NEW q \in Int, NEW f \in Int, NEW g \in Int, NEW price \in Int, q * price + f * g = 0,
         NEW n \in Int, NEW p \in Int
  PROVE  /\ p * f = price => (q + n) * price + f * (g - n * p) = 0
         /\ p * f = price => (q - n) * price + f * (g + n * p) = 0
         /\ (q * n) * price + (f * n) * g = 0
<1>1. ASSUME p * f = price PROVE (q + n) * price + f * (g - n * p) = 0
  <2>1. (q + n) * price = q * price + n * price /\ f * (g - n * p) = f * g - n * (p * f)
    BY SMTT(30)
  <2> DEFINE a == q * price
             b == f * g
             c == n * price
  <2>2. a \in Int /\ b \in Int /\ c \in Int /\ a + b = 0
    OBVIOUS
  <2>3. n * (p * f) = c
    BY <1>1
  <2> HIDE DEF a, b, c
  <2>4. (a + c) + (b - c) = 0
    BY <2>2
  <2> QED
    BY <2>1, <2>3, <2>4 DEF a, b, c
<1>2. ASSUME p * f = price PROVE (q - n) * price + f * (g + n * p) = 0
  <2>1. (q - n) * price = q * price - n * price /\ f * (g + n * p) = f * g + n * (p * f)
    BY SMTT(30)
  <2> DEFINE a == q * price
             b == f * g
             c == n * price
  <2>2. a \in Int /\ b \in Int /\ c \in Int /\ a + b = 0
    OBVIOUS
  <2>3. n * (p * f) = c
    BY <1>2
  <2> HIDE DEF a, b, c
  <2>4. (a - c) + (b + c) = 0
    BY <2>2
  <2> QED
    BY <2>1, <2>3, <2>4 DEF a, b, c
<1>3. (q * n) * price + (f * n) * g = 0
  <2>1. (q * n) * price + (f * n) * g = n * (q * price + f * g)
    BY SMTT(30)
  <2> QED
    BY <2>1
<1> QED
  BY <1>1, <1>2, <1>3

\* The shares at the one price, and what their trades brought in, make nothing.
LEMMA TradesBalance ==
  ASSUME NEW ev, IsLedger(ev), PaysNothing(ev), NEW x, NEW price, SteadyTrades(ev, x, price)
  PROVE  \A k \in 0..Len(ev) :
           QuantityOf(ev, 1..k, x) * price + Multiple(ev, 1..k, x) * GainedBy(ev, 1..k, x) = 0
<1> DEFINE Balanced(k) == QuantityOf(ev, 1..k, x) * price + Multiple(ev, 1..k, x) * GainedBy(ev, 1..k, x) = 0
           known == {k \in 0..Len(ev) : Balanced(k)}
<1>0. Len(ev) \in Nat /\ price \in Int
  BY EventIs DEF SteadyTrades
<1>1. 0 \in known
  <2>1. 1..0 = {}
    OBVIOUS
  <2>2. QuantityOf(ev, 1..0, x) = 0
    BY <1>0, <2>1, ReplayNone, NoPositionIs DEF QuantityOf
  <2>3. GainedBy(ev, 1..0, x) = 0
    <3>1. {i \in 1..0 : ev[i].symbol = x} = {}
      OBVIOUS
    <3> QED
      BY <3>1, SumEmpty DEF GainedBy
  <2>4. Multiple(ev, 1..0, x) = 1
    BY MultipleIs
  <2>5. 0 * price + 1 * 0 = 0
    BY <1>0
  <2> QED
    BY <1>0, <2>2, <2>3, <2>4, <2>5
<1>2. ASSUME NEW k \in 0..Len(ev), k \in known, k < Len(ev) PROVE k + 1 \in known
  <2> DEFINE n == k + 1
             e == ev[n]
             q == QuantityOf(ev, 1..k, x)
             f == Multiple(ev, 1..k, x)
             g == GainedBy(ev, 1..k, x)
  <2>1. n \in 1..Len(ev) /\ n - 1 = k /\ n \in 0..Len(ev)
    BY <1>0, <1>2
  <2>2. q * price + f * g = 0
    BY <1>2
  <2> HIDE DEF known, n
  <2>3. /\ q \in Int
        /\ QuantityOf(ev, 1..n, x) =
              IF e.symbol # x THEN q
              ELSE IF e.type = "buy" THEN q + e.quantity
              ELSE IF e.type = "sell" THEN q - e.quantity
              ELSE IF e.type = "split" THEN q * e.quantity ELSE q
    <3>1. LET q0 == QuantityOf(ev, 1..(n - 1), x) IN
          /\ q0 \in Int
          /\ QuantityOf(ev, 1..n, x) =
              IF ev[n].symbol # x THEN q0
              ELSE IF ev[n].type = "buy" THEN q0 + ev[n].quantity
              ELSE IF ev[n].type = "sell" THEN q0 - ev[n].quantity
              ELSE IF ev[n].type = "split" THEN q0 * ev[n].quantity ELSE q0
      BY <2>1, QuantityStep
    <3> QED
      BY <2>1, <3>1
  <2>4. Multiple(ev, 1..n, x) = IF e.type = "split" /\ e.symbol = x THEN f * e.quantity ELSE f
    BY <2>1, MultipleStep
  <2>5. /\ GainedBy(ev, 1..n, x) = IF e.symbol = x THEN g + Gained(e) ELSE g
        /\ g \in Int
    BY <2>1, GainedStep
  <2>6. f \in Int
    <3>1. f \in Nat \ {0}
      BY <1>2, MultipleIs
    <3> QED
      BY <3>1
  <2>7. /\ e.quantity \in Int /\ e.price \in Int /\ e.type \in EventType
        /\ e.type \notin {"dividend", "fee"}
    <3>1. e.quantity \in Nat /\ e.price \in Nat /\ e.type \in EventType
      BY <2>1, EventIs
    <3> QED
      BY <2>1, <3>1 DEF PaysNothing
  <2>8. e.symbol = x /\ e.type \in {"buy", "sell"} => e.price * f = price
    <3>1. e.symbol = x /\ e.type \in {"buy", "sell"} => e.price * Multiple(ev, 1..n, x) = price
      BY <2>1 DEF SteadyTrades
    <3>2. e.type \in {"buy", "sell"} => Multiple(ev, 1..n, x) = f
      BY <2>4
    <3> QED
      BY <3>1, <3>2
  <2> HIDE DEF q, f, g, e
  <2>9. /\ e.price * f = price => (q + e.quantity) * price + f * (g - e.quantity * e.price) = 0
        /\ e.price * f = price => (q - e.quantity) * price + f * (g + e.quantity * e.price) = 0
        /\ (q * e.quantity) * price + (f * e.quantity) * g = 0
    <3> DEFINE m == e.quantity
               p == e.price
               Rule(a, b, c, i, j) ==
                 a * price + b * c = 0 =>
                   /\ j * b = price => (a + i) * price + b * (c - i * j) = 0
                   /\ j * b = price => (a - i) * price + b * (c + i * j) = 0
                   /\ (a * i) * price + (b * i) * c = 0
    <3>1. \A a, b, c, i, j \in Int : Rule(a, b, c, i, j)
      BY <1>0, BalanceNumbers
    <3>2. m \in Int /\ p \in Int /\ q \in Int /\ f \in Int /\ g \in Int
      BY <2>3, <2>5, <2>6, <2>7
    <3> HIDE DEF m, p, Rule
    <3>3. Rule(q, f, g, m, p)
      BY <3>1, <3>2
    <3> QED
      BY <2>2, <3>3 DEF m, p, Rule
  <2>10. Balanced(n)
    <3>1. CASE e.symbol # x
      BY <2>2, <2>3, <2>4, <2>5, <3>1
    <3>2. CASE e.symbol = x /\ e.type = "buy"
      <4>1. Gained(e) = -(e.quantity * e.price)
        BY <3>2 DEF Gained
      <4>2. g + -(e.quantity * e.price) = g - e.quantity * e.price
        <5> DEFINE c == e.quantity * e.price
        <5>1. c \in Int
          BY <2>7
        <5> HIDE DEF c
        <5>2. g + -c = g - c
          BY <2>5, <5>1
        <5> QED
          BY <5>2 DEF c
      <4>3. GainedBy(ev, 1..n, x) = g - e.quantity * e.price
        BY <2>5, <3>2, <4>1, <4>2
      <4>4. QuantityOf(ev, 1..n, x) = q + e.quantity /\ Multiple(ev, 1..n, x) = f
        BY <2>3, <2>4, <3>2
      <4>5. e.price * f = price
        BY <2>8, <3>2
      <4> QED
        BY <2>9, <4>3, <4>4, <4>5
    <3>3. CASE e.symbol = x /\ e.type = "sell"
      <4>1. Gained(e) = e.quantity * e.price
        BY <3>3 DEF Gained
      <4>2. QuantityOf(ev, 1..n, x) = q - e.quantity /\ Multiple(ev, 1..n, x) = f
        BY <2>3, <2>4, <3>3
      <4>3. e.price * f = price
        BY <2>8, <3>3
      <4> QED
        BY <2>5, <2>9, <3>3, <4>1, <4>2, <4>3
    <3>4. CASE e.symbol = x /\ e.type \notin {"buy", "sell"}
      <4>1. Gained(e) = 0
        BY <2>7, <3>4 DEF Gained
      <4>2. GainedBy(ev, 1..n, x) = g
        BY <2>5, <3>4, <4>1
      <4>3. CASE e.type = "split"
        BY <2>3, <2>4, <2>9, <3>4, <4>2, <4>3
      <4>4. CASE e.type # "split"
        BY <2>2, <2>3, <2>4, <3>4, <4>2, <4>4
      <4> QED
        BY <4>3, <4>4
    <3> QED
      BY <3>1, <3>2, <3>3, <3>4
  <2> QED
    BY <2>1, <2>10 DEF known, n
<1> HIDE DEF known
<1>3. 0..Len(ev) \subseteq known
  BY <1>0, <1>1, <1>2, UpTo
<1> QED
  BY <1>3 DEF known

SplitsTo(ev, d) == {i \in DOMAIN ev : ev[i].type = "split" /\ ev[i].date <= d}
FactorOn(ev, x, d) == Replay(Share, ev, SplitsTo(ev, d), x).quantity

\* Every split of the ledger comes with a close of its symbol on its date.
SplitsHaveCloses(h) ==
  \A i \in 1..Len(h.events) : h.events[i].type = "split" =>
    h.events[i].date \in 1..To /\ h.bars[h.events[i].symbol][h.events[i].date] > 0

\* All trades and closes of a symbol are at the price of one share of the first day.
Steady(h, x, price) ==
  /\ price \in Int
  /\ \A i \in 1..Len(h.events) : h.events[i].symbol = x /\ h.events[i].type \in {"buy", "sell"} =>
       h.events[i].price * FactorOn(h.events, x, h.events[i].date) = price
  /\ \A d \in 1..To : h.bars[x][d] > 0 => h.bars[x][d] * FactorOn(h.events, x, d) = price

\* A split counts on its own date when that date has a close.
LEMMA SplitDates ==
  ASSUME NEW h, IsHistory(h), SplitsHaveCloses(h), NEW i \in 1..Len(h.events), h.events[i].type = "split"
  PROVE  h.events[i].date \in ValuationDates(h) /\ ValuationDate(h, h.events[i]) = h.events[i].date
<1> DEFINE e == h.events[i]
<1>0. IsLedger(h.events) /\ DOMAIN h.events = 1..Len(h.events)
  BY EventIs DEF IsHistory
<1>1. e.date \in 1..To /\ h.bars[e.symbol][e.date] > 0 /\ e.date \in Nat
  BY <1>0, EventIs DEF SplitsHaveCloses
<1>2. e.symbol \in DOMAIN h.bars
  BY <1>0 DEF IsHistory
<1>3. e.date \in ValuationDates(h)
  BY <1>1, <1>2 DEF ValuationDates
<1>4. LET v == ValuationDate(h, e) IN
      /\ v = 0 \/ (v \in ValuationDates(h) /\ v \in 1..To /\ v >= e.date)
      /\ \A d \in ValuationDates(h) : d >= e.date => v # 0 /\ v <= d
  <2> HIDE DEF e
  <2> QED
    BY <1>1, ValuationDateIs
<1>5. ValuationDate(h, e) = e.date
  <2> HIDE DEF e
  <2> DEFINE v == ValuationDate(h, e)
  <2>1. v # 0 /\ v <= e.date
    BY <1>1, <1>3, <1>4
  <2>2. v \in 1..To /\ v >= e.date
    BY <1>4, <2>1
  <2> HIDE DEF v
  <2>3. v = e.date
    BY <1>1, <2>1, <2>2
  <2> QED
    BY <2>3 DEF v
<1> QED
  BY <1>3, <1>5

\* So the splits up to a date are those that were counted.
LEMMA SplitsCounted ==
  ASSUME NEW h, IsHistory(h), SplitsHaveCloses(h), NEW d \in 0..To
  PROVE  /\ SplitsTo(h.events, d) = SplitsIn(h.events, Counted(h, d))
         /\ \A x : FactorOn(h.events, x, d) = Multiple(h.events, Counted(h, d), x)
<1>0. DOMAIN h.events = 1..Len(h.events)
  BY EventIs DEF IsHistory
<1>1. ASSUME NEW i \in 1..Len(h.events), h.events[i].type = "split"
      PROVE  h.events[i].date <= d <=> ValuationDate(h, h.events[i]) \in 1..d
  <2>1. ValuationDate(h, h.events[i]) = h.events[i].date
    BY <1>1, SplitDates
  <2>2. h.events[i].date \in 1..To
    BY <1>1 DEF SplitsHaveCloses
  <2> QED
    BY <2>1, <2>2
<1>2. SplitsTo(h.events, d) = SplitsIn(h.events, Counted(h, d))
  BY <1>0, <1>1 DEF SplitsTo, SplitsIn, Counted
<1> QED
  BY <1>2 DEF FactorOn, Multiple

\* The splits up to the date of a trade come before it in the sorted ledger.
LEMMA SplitsBefore ==
  ASSUME NEW ev, IsLedger(ev), InOrder(ev), NEW i \in 1..Len(ev), ev[i].type # "split"
  PROVE  SplitsTo(ev, ev[i].date) = SplitsIn(ev, 1..i)
<1>0. Len(ev) \in Nat /\ DOMAIN ev = 1..Len(ev) /\ \A k \in 1..Len(ev) : ev[k].date \in Int
  <2>1. \A k \in 1..Len(ev) : ev[k].date \in Nat
    BY EventIs
  <2>2. \A n \in Nat : n \in Int
    OBVIOUS
  <2>3. Len(ev) \in Nat /\ DOMAIN ev = 1..Len(ev)
    BY EventIs
  <2> QED
    BY <2>1, <2>2, <2>3
<1>1. ASSUME NEW j \in 1..Len(ev), ev[j].type = "split"
      PROVE  ev[j].date <= ev[i].date <=> j \in 1..i
  <2>1. CASE j < i
    <3>1. ev[j].date <= ev[i].date
      BY <2>1 DEF InOrder
    <3> QED
      BY <2>1, <3>1
  <2>2. CASE i < j
    <3>1. ev[i].date <= ev[j].date /\ ~(ev[i].date = ev[j].date)
      BY <1>1, <2>2 DEF InOrder
    <3> QED
      BY <1>0, <2>2, <3>1
  <2>3. i # j
    BY <1>1
  <2> QED
    BY <1>0, <2>1, <2>2, <2>3
<1>2. 1..i \subseteq 1..Len(ev)
  BY <1>0
<1> QED
  BY <1>0, <1>1, <1>2 DEF SplitsTo, SplitsIn

\* The factor does not change between dates without a split.
LEMMA FactorStays ==
  ASSUME NEW ev, IsLedger(ev), InOrder(ev), NEW x, NEW a \in Int, NEW b \in Int, a <= b,
         \A i \in 1..Len(ev) : ev[i].type = "split" /\ ev[i].symbol = x => ~(a < ev[i].date /\ ev[i].date <= b)
  PROVE  FactorOn(ev, x, a) = FactorOn(ev, x, b)
<1> DEFINE A == SplitsTo(ev, a)
           B == SplitsTo(ev, b) \ A
           p == Replay(Share, ev, A, x)
<1>0. Len(ev) \in Nat /\ DOMAIN ev = 1..Len(ev) /\ \A k \in 1..Len(ev) : ev[k].date \in Int
  <2>1. \A k \in 1..Len(ev) : ev[k].date \in Nat
    BY EventIs
  <2>2. \A n \in Nat : n \in Int
    OBVIOUS
  <2>3. Len(ev) \in Nat /\ DOMAIN ev = 1..Len(ev)
    BY EventIs
  <2> QED
    BY <2>1, <2>2, <2>3
<1>1. A \in SUBSET (1..Len(ev)) /\ B \in SUBSET (1..Len(ev))
  BY <1>0 DEF SplitsTo
<1>2. SplitsTo(ev, b) = A \union B
  <2>1. \A i \in A : i \in SplitsTo(ev, b)
    BY <1>0 DEF SplitsTo
  <2> QED
    BY <2>1
<1>3. \A i \in A : \A j \in B : i < j
  <2> SUFFICES ASSUME NEW i \in A, NEW j \in B PROVE i < j
    OBVIOUS
  <2>1. i \in 1..Len(ev) /\ j \in 1..Len(ev) /\ ev[i].date <= a /\ ~(ev[j].date <= a)
    BY <1>0 DEF SplitsTo
  <2>2. i # j
    BY <2>1
  <2>3. ~(j < i)
    <3>1. ASSUME j < i PROVE FALSE
      <4>1. ev[j].date <= ev[i].date
        BY <2>1, <3>1 DEF InOrder
      <4> QED
        BY <1>0, <2>1, <4>1
    <3> QED
      BY <3>1
  <2> QED
    BY <2>1, <2>2, <2>3
<1>4. \A n \in 1..Len(ev) : ~TakesPart(ev, B, x, n)
  BY <1>0 DEF TakesPart, SplitsTo
<1> HIDE DEF A, B
<1>5. Replay(p, ev, B, x) = Replay(Share, ev, A \union B, x)
  <2>1. \A S, T \in SUBSET (1..Len(ev)) : (\A i \in S : \A j \in T : i < j) =>
           Replay(Replay(Share, ev, S, x), ev, T, x) = Replay(Share, ev, S \union T, x)
    BY <1>0, ReplayGoesOn
  <2> QED
    BY <1>1, <1>3, <2>1
<1>6. Replay(p, ev, B, x) = p
  <2> HIDE DEF p
  <2>1. \A n \in (0 + 1)..Len(ev) : ~TakesPart(ev, B, x, n)
    BY <1>4
  <2>2. 0 \in 0..Len(ev)
    BY <1>0
  <2>3. Replay(p, ev, B, x) = Positions(p, ev, B, x)[0]
    BY <1>0, <2>1, <2>2, PositionsStay
  <2>4. Positions(p, ev, B, x)[0] = p
    BY <1>0, PositionsStep
  <2> QED
    BY <2>3, <2>4
<1> QED
  BY <1>2, <1>5, <1>6 DEF FactorOn, A

\* A date without a close of a symbol has no split of it.
LEMMA FactorSame ==
  ASSUME NEW h, IsHistory(h), SplitsHaveCloses(h), NEW x, NEW d \in 1..To, ~(h.bars[x][d] > 0)
  PROVE  FactorOn(h.events, x, d - 1) = FactorOn(h.events, x, d)
<1>1. \A i \in 1..Len(h.events) : h.events[i].type = "split" /\ h.events[i].symbol = x =>
        ~(d - 1 < h.events[i].date /\ h.events[i].date <= d)
  <2> SUFFICES ASSUME NEW i \in 1..Len(h.events), h.events[i].type = "split", h.events[i].symbol = x,
                      d - 1 < h.events[i].date, h.events[i].date <= d
               PROVE FALSE
    OBVIOUS
  <2>1. h.events[i].date \in 1..To /\ h.bars[x][h.events[i].date] > 0
    BY DEF SplitsHaveCloses
  <2>2. h.events[i].date = d
    BY <2>1
  <2> QED
    BY <2>1, <2>2
<1>2. IsLedger(h.events) /\ InOrder(h.events)
  BY DEF IsHistory
<1>3. d - 1 \in Int /\ d \in Int /\ d - 1 <= d
  OBVIOUS
<1> QED
  BY <1>1, <1>2, <1>3, FactorStays

\* With steady prices every trade is at the price of its shares of the first day.
LEMMA SteadyIsTraded ==
  ASSUME NEW h, IsHistory(h), NEW x, NEW price, Steady(h, x, price)
  PROVE  SteadyTrades(h.events, x, price)
<1>1. ASSUME NEW i \in 1..Len(h.events), h.events[i].symbol = x, h.events[i].type \in {"buy", "sell"}
      PROVE  h.events[i].price * Multiple(h.events, 1..i, x) = price
  <2>1. h.events[i].price * FactorOn(h.events, x, h.events[i].date) = price
    BY <1>1 DEF Steady
  <2>2. SplitsTo(h.events, h.events[i].date) = SplitsIn(h.events, 1..i)
    BY <1>1, SplitsBefore DEF IsHistory
  <2>3. FactorOn(h.events, x, h.events[i].date) = Multiple(h.events, 1..i, x)
    BY <2>2 DEF FactorOn, Multiple
  <2> QED
    BY <2>1, <2>3
<1> QED
  BY <1>1 DEF Steady, SteadyTrades

\* What a close was bought for is the price of a purchase that counts on the date.
LEMMA BoughtForWhom ==
  ASSUME NEW h, IsHistory(h), NEW B \in SUBSET (1..Len(h.events)), NEW x, BoughtFor(h, B, x) > 0
  PROVE  \E i \in B : /\ h.events[i].type = "buy" /\ h.events[i].symbol = x
                      /\ BoughtFor(h, B, x) = h.events[i].price
<1> DEFINE buys == {i \in OfSymbol(h, B, x) : h.events[i].type = "buy"}
<1>1. Len(h.events) \in Nat
  BY EventIs DEF IsHistory
<1>2. BoughtFor(h, B, x) = IF buys = {} THEN 0 ELSE h.events[Max(buys)].price
  BY DEF BoughtFor
<1>3. \A i \in buys : i \in B /\ h.events[i].type = "buy" /\ h.events[i].symbol = x
  BY DEF OfSymbol
<1>4. buys \in SUBSET (0..Len(h.events))
  <2>1. \A i \in B : i \in 0..Len(h.events)
    BY <1>1
  <2> HIDE DEF buys
  <2> QED
    BY <1>3, <2>1
<1> HIDE DEF buys
<1>5. buys # {}
  BY <1>2
<1>6. Max(buys) \in buys
  BY <1>1, <1>4, <1>5, GreatestIs
<1> QED
  BY <1>2, <1>3, <1>5, <1>6

\* A purchase that serves as a close is at the steady price.
LEMMA BoughtIsSteady ==
  ASSUME NEW h, IsHistory(h), SplitsHaveCloses(h), NEW x, NEW price, Steady(h, x, price),
         NEW d \in 1..To, ~(h.bars[x][d] > 0), BoughtFor(h, EventsOn(h, d), x) > 0
  PROVE  BoughtFor(h, EventsOn(h, d), x) * FactorOn(h.events, x, d) = price
<1> DEFINE ev == h.events
<1>0. IsLedger(ev) /\ InOrder(ev) /\ DOMAIN ev = 1..Len(ev)
  BY EventIs DEF IsHistory
<1>1. PICK i \in EventsOn(h, d) : /\ ev[i].type = "buy" /\ ev[i].symbol = x
                                  /\ BoughtFor(h, EventsOn(h, d), x) = ev[i].price
  <2>1. EventsOn(h, d) \in SUBSET (1..Len(ev))
    BY DayFlow
  <2> QED
    BY <2>1, BoughtForWhom
<1>2. i \in 1..Len(ev) /\ ValuationDate(h, ev[i]) = d
  BY <1>0 DEF EventsOn
<1>3. ev[i].date \in Nat
  BY <1>0, <1>2, EventIs
<1>4. /\ d \in ValuationDates(h) /\ d >= ev[i].date
      /\ \A v \in ValuationDates(h) : v >= ev[i].date => d <= v
  <2>1. LET v == ValuationDate(h, ev[i]) IN
        /\ v = 0 \/ (v \in ValuationDates(h) /\ v \in 1..To /\ v >= ev[i].date)
        /\ \A u \in ValuationDates(h) : u >= ev[i].date => v # 0 /\ v <= u
    <3> HIDE DEF ev
    <3> QED
      BY <1>3, ValuationDateIs
  <2> QED
    BY <1>2, <2>1
<1>5. ASSUME NEW j \in 1..Len(ev), ev[j].type = "split", ev[j].symbol = x, ev[i].date < ev[j].date, ev[j].date <= d
      PROVE  FALSE
  <2>1. ev[j].date \in ValuationDates(h) /\ ev[j].date \in 1..To /\ h.bars[x][ev[j].date] > 0
    BY <1>5, SplitDates DEF SplitsHaveCloses
  <2>2. d <= ev[j].date
    BY <1>3, <1>4, <1>5, <2>1
  <2>3. d = ev[j].date
    BY <1>5, <2>1, <2>2
  <2> QED
    BY <2>1, <2>3
<1>6. FactorOn(ev, x, ev[i].date) = FactorOn(ev, x, d)
  <2> DEFINE a == ev[i].date
  <2>1. a \in Int /\ d \in Int /\ a <= d
    BY <1>3, <1>4
  <2>2. \A j \in 1..Len(ev) : ev[j].type = "split" /\ ev[j].symbol = x => ~(a < ev[j].date /\ ev[j].date <= d)
    BY <1>5
  <2> HIDE DEF a, ev
  <2>3. FactorOn(ev, x, a) = FactorOn(ev, x, d)
    BY <1>0, <2>1, <2>2, FactorStays
  <2> QED
    BY <2>3 DEF a
<1>7. ev[i].price * FactorOn(ev, x, ev[i].date) = price
  BY <1>1, <1>2 DEF Steady
<1> QED
  BY <1>1, <1>6, <1>7

\* A close is at the one price, and a symbol held has one.
SteadyAt(h, s, d, x, price) ==
  /\ MarkBefore(s, x).last > 0 => MarkBefore(s, x).last * FactorOn(h.events, x, d) = price
  /\ QuantityOf(h.events, Counted(h, d), x) > 0 => MarkBefore(s, x).last > 0

\* A steady close stays one through a turn of the marks.
LEMMA MarkIsSteady ==
  ASSUME NEW h, IsHistory(h), SplitsHaveCloses(h), NEW x, NEW price, Steady(h, x, price),
         NEW d \in 1..To, NEW m \in Mark,
         m.last > 0 => m.last * FactorOn(h.events, x, d - 1) = price,
         NEW quantity \in Int, NEW bar \in Nat, bar = h.bars[x][d],
         NEW bought \in Nat, bought = BoughtFor(h, EventsOn(h, d), x),
         quantity > 0 => m.last > 0 \/ bought > 0
  PROVE  LET k == MarkedAt(m, bar, quantity, bought) IN
         /\ k.last > 0 => k.last * FactorOn(h.events, x, d) = price
         /\ quantity > 0 => k.last > 0
<1> DEFINE k == MarkedAt(m, bar, quantity, bought)
<1>1. m.last \in Nat /\ m = [last |-> m.last, age |-> m.age, known |-> m.known, carried |-> m.carried]
  BY DEF Mark
<1>2. CASE bar > 0
  <2>1. k.last = bar
    BY <1>2 DEF MarkedAt
  <2>2. bar * FactorOn(h.events, x, d) = price
    BY <1>2 DEF Steady
  <2> QED
    BY <1>2, <2>1, <2>2
<1>3. CASE bar = 0 /\ quantity > 0 /\ m.last = 0 /\ bought > 0
  <2>1. k.last = bought
    BY <1>3 DEF MarkedAt
  <2>2. bought * FactorOn(h.events, x, d) = price
    <3>1. ~(h.bars[x][d] > 0) /\ BoughtFor(h, EventsOn(h, d), x) > 0
      BY <1>3
    <3>2. BoughtFor(h, EventsOn(h, d), x) * FactorOn(h.events, x, d) = price
      BY <3>1, BoughtIsSteady
    <3> QED
      BY <3>2
  <2> QED
    BY <1>3, <2>1, <2>2
<1>4. CASE bar = 0 /\ ~(quantity > 0 /\ m.last = 0 /\ bought > 0)
  <2>1. k.last = m.last
    <3>1. CASE quantity > 0 /\ m.last > 0 /\ m.age < CarryLimit
      <4>1. k = [m EXCEPT !.age = @ + 1, !.known = TRUE, !.carried = TRUE]
        BY <1>4, <3>1 DEF MarkedAt, Mark
      <4> QED
        BY <1>1, <4>1
    <3>2. CASE ~(quantity > 0 /\ m.last > 0 /\ m.age < CarryLimit)
      <4>1. k = [m EXCEPT !.known = FALSE, !.carried = FALSE]
        BY <1>4, <3>2 DEF MarkedAt
      <4> QED
        BY <1>1, <4>1
    <3> QED
      BY <3>1, <3>2
  <2>2. FactorOn(h.events, x, d - 1) = FactorOn(h.events, x, d)
    <3>1. ~(h.bars[x][d] > 0)
      BY <1>4
    <3> QED
      BY <3>1, FactorSame
  <2>3. quantity > 0 => m.last > 0
    BY <1>1, <1>4
  <2> HIDE DEF k
  <2>4. k.last > 0 => k.last * FactorOn(h.events, x, d) = price
    BY <2>1, <2>2
  <2> QED
    BY <2>1, <2>3, <2>4 DEF k
<1> QED
  BY <1>2, <1>3, <1>4

\* A turn keeps SteadyAt.
LEMMA TurnIsSteady ==
  ASSUME NEW h, IsHistory(h), SplitsHaveCloses(h), NEW x \in DOMAIN h.bars, NEW price, Steady(h, x, price),
         NEW s, NEW d \in 1..To, LoopHolds(h, s, d - 1), SteadyAt(h, s, d - 1, x, price)
  PROVE  /\ d \in ValuationDates(h) => SteadyAt(h, Value(h, s, d), d, x, price)
         /\ d \notin ValuationDates(h) => SteadyAt(h, s, d, x, price)
<1> DEFINE ev == h.events
           A == Counted(h, d - 1)
           B == EventsOn(h, d)
           C == Counted(h, d)
           T == Traded(ev, C)
           m == MarkBefore(s, x)
           q == QuantityOf(ev, C, x)
           bar == h.bars[x][d]
           bought == BoughtFor(h, B, x)
<1>0. IsLedger(ev) /\ Len(ev) \in Nat /\ d - 1 \in 0..To /\ d \in 0..To
  <2>1. IsLedger(ev)
    BY DEF IsHistory
  <2>2. Len(ev) \in Nat
    BY <2>1, EventIs
  <2> QED
    BY <2>1, <2>2, PerformanceAssumption
<1>1. /\ A \in SUBSET (1..Len(ev)) /\ C \in SUBSET (1..Len(ev)) /\ B \in SUBSET (1..Len(ev))
      /\ C = A \union B /\ \A i \in A : \A j \in B : i < j
  BY <1>0, CountedIs, DayFlow
<1>2. bar \in Nat
  BY DEF IsHistory
<1>3. m \in Mark
  BY TurnMarks
<1>4. bought \in Nat /\ ((\E i \in B : ev[i].type = "buy" /\ ev[i].symbol = x) => bought > 0)
  BY <1>1, BoughtForIs
<1>5. m.last > 0 => m.last * FactorOn(ev, x, d - 1) = price
  BY DEF SteadyAt
<1>6. q \in Int /\ (q > 0 => m.last > 0 \/ bought > 0)
  <2> DEFINE p == Replay(NoPosition, ev, A, x)
  <2> HIDE DEF A, B, C, ev, m, bought
  <2>1. Replay(p, ev, B, x) = Replay(NoPosition, ev, C, x)
    <3>1. \A S, R \in SUBSET (1..Len(ev)) : (\A i \in S : \A j \in R : i < j) =>
             Replay(Replay(NoPosition, ev, S, x), ev, R, x) = Replay(NoPosition, ev, S \union R, x)
      BY <1>0, ReplayGoesOn
    <3> QED
      BY <1>1, <3>1
  <2>2. IsPosition(p) /\ IsPosition(Replay(NoPosition, ev, C, x))
    <3> HIDE DEF IsPosition
    <3> QED
      BY <1>0, <1>1, ReplayIsPosition, NoPositionIs
  <2>3. q \in Int /\ p.quantity \in Int
    BY <2>2 DEF IsPosition, QuantityOf
  <2>4. ASSUME q > 0, ~(bought > 0) PROVE m.last > 0
    <3>1. \A i \in B : ~(ev[i].type = "buy" /\ ev[i].symbol = x)
      BY <1>4, <2>4
    <3>2. p.quantity <= 0 => Replay(p, ev, B, x).quantity <= 0
      <4> HIDE DEF p, IsPosition
      <4>1. \A S \in SUBSET (1..Len(ev)) :
              (\A i \in S : ~(ev[i].type = "buy" /\ ev[i].symbol = x)) /\ p.quantity <= 0
              => Replay(p, ev, S, x).quantity <= 0
        BY <1>0, <2>2, HeldWasBought
      <4> QED
        BY <1>1, <3>1, <4>1
    <3>3. ~(p.quantity <= 0)
      BY <2>1, <2>3, <2>4, <3>2 DEF QuantityOf
    <3>4. QuantityOf(ev, A, x) > 0
      BY <2>3, <3>3 DEF QuantityOf
    <3> QED
      BY <3>4 DEF SteadyAt, A, ev, m
  <2> QED
    BY <2>3, <2>4
<1>7. ASSUME d \in ValuationDates(h) PROVE SteadyAt(h, Value(h, s, d), d, x, price)
  <2> DEFINE k == MarkedAt(m, bar, q, bought)
             new == MarkBefore(Value(h, s, d), x)
  <2>1. /\ k.last > 0 => k.last * FactorOn(ev, x, d) = price
        /\ q > 0 => k.last > 0
    <3>1. bar = h.bars[x][d] /\ bought = BoughtFor(h, EventsOn(h, d), x)
      OBVIOUS
    <3> HIDE DEF m, q, bar, bought, C
    <3> QED
      BY <1>2, <1>3, <1>4, <1>5, <1>6, <3>1, MarkIsSteady
  <2>2. Value(h, s, d).marks = TurnAt(h, s, d).marks
    BY TurnGoesOn
  <2>3. TurnAt(h, s, d).marks \in [T -> Mark] /\ (x \in T => TurnAt(h, s, d).marks[x] = k)
    BY TurnMarks DEF QuantityOf
  <2>4. CASE x \in T
    <3>1. new = k
      BY <2>2, <2>3, <2>4 DEF MarkBefore
    <3> QED
      BY <2>1, <3>1 DEF SteadyAt
  <2>5. CASE x \notin T
    <3>1. new = Unmarked
      BY <2>2, <2>3, <2>5 DEF MarkBefore
    <3>2. new.last = 0
      BY <3>1 DEF Unmarked
    <3>3. q = 0
      <4>1. Replay(NoPosition, ev, C, x) = NoPosition
        <5> HIDE DEF C
        <5> QED
          BY <1>0, <1>1, <2>5, UntradedIsNone
      <4> QED
        BY <4>1, NoPositionIs DEF QuantityOf
    <3> HIDE DEF new, q
    <3>4. ~(new.last > 0) /\ ~(q > 0)
      BY <3>2, <3>3
    <3> QED
      BY <3>4 DEF SteadyAt, new, q
  <2> QED
    BY <2>4, <2>5
<1>8. ASSUME d \notin ValuationDates(h) PROVE SteadyAt(h, s, d, x, price)
  <2>1. ~(bar > 0)
    BY <1>8 DEF ValuationDates
  <2>2. FactorOn(ev, x, d - 1) = FactorOn(ev, x, d)
    BY <2>1, FactorSame
  <2>3. C = A
    <3>1. B = {}
      BY <1>8, CountedIs
    <3> QED
      BY <1>1, <3>1
  <2> QED
    BY <2>2, <2>3 DEF SteadyAt
<1> QED
  BY <1>7, <1>8

\* SteadyAt on every date.
LEMMA AlwaysSteady ==
  ASSUME NEW h, IsHistory(h), SplitsHaveCloses(h), NEW x \in DOMAIN h.bars, NEW price, Steady(h, x, price)
  PROVE  \A d \in 0..To : SteadyAt(h, Inner(h)[d], d, x, price)
<1> DEFINE known == {d \in 0..To : SteadyAt(h, Inner(h)[d], d, x, price)}
<1>0. To \in Nat
  BY PerformanceAssumption
<1>1. 0 \in known
  <2>1. Inner(h)[0] = Opening
    BY InnerIsDefined
  <2>2. MarkBefore(Opening, x) = Unmarked /\ ~(Unmarked.last > 0)
    BY DEF Opening, MarkBefore, Unmarked
  <2>3. QuantityOf(h.events, Counted(h, 0), x) = 0
    <3>1. Counted(h, 0) = {} /\ Len(h.events) \in Nat
      BY CountedIs, EventIs DEF IsHistory
    <3> QED
      BY <3>1, ReplayNone, NoPositionIs DEF QuantityOf
  <2>4. SteadyAt(h, Opening, 0, x, price)
    BY <2>2, <2>3 DEF SteadyAt
  <2> QED
    BY <1>0, <2>1, <2>4
<1>2. ASSUME NEW k \in 0..To, k \in known, k < To PROVE k + 1 \in known
  <2> DEFINE d == k + 1
             s == Inner(h)[k]
  <2>1. d \in 1..To /\ d - 1 = k /\ d \in 0..To
    BY <1>0, <1>2
  <2>2. SteadyAt(h, s, d - 1, x, price) /\ LoopHolds(h, s, d - 1)
    BY <1>2, <2>1, LoopAlwaysHolds
  <2>3. Inner(h)[d] = IF d \in ValuationDates(h) THEN Value(h, s, d) ELSE s
    BY <2>1, InnerIsDefined
  <2> HIDE DEF d, s
  <2>4. SteadyAt(h, Inner(h)[d], d, x, price)
    BY <2>1, <2>2, <2>3, TurnIsSteady
  <2> QED
    BY <2>1, <2>4 DEF d
<1> HIDE DEF known
<1>3. 0..To \subseteq known
  BY <1>0, <1>1, <1>2, UpTo
<1> QED
  BY <1>3 DEF known

\* Worth at the steady price and what was gained cancel, in the numbers.
LEMMA WorthNumbers ==
  ASSUME NEW q \in Nat, NEW last \in Nat, NEW f \in Nat \ {0}, NEW g \in Int, NEW price \in Int,
         q * price + f * g = 0, last > 0 => last * f = price, q > 0 => last > 0
  PROVE  q * last + g = 0
<1>1. CASE q = 0
  <2>1. f * g = 0
    <3>1. 0 * price = 0 /\ f * g \in Int
      OBVIOUS
    <3> QED
      BY <1>1, <3>1
  <2>2. g = 0
    BY <2>1, SMTT(30)
  <2>3. q * last = 0
    BY <1>1
  <2> QED
    BY <2>2, <2>3
<1>2. CASE q # 0
  <2>1. last * f = price
    BY <1>2
  <2> DEFINE w == q * last + g
  <2>2. w \in Int
    BY SMTT(30)
  <2>3. f * w = q * (last * f) + f * g
    BY SMTT(30)
  <2>4. f * w = 0
    BY <2>1, <2>3
  <2> HIDE DEF w
  <2>5. w = 0
    BY <2>2, <2>4, SMTT(30)
  <2> QED
    BY <2>5 DEF w
<1> QED
  BY <1>1, <1>2

\* At steady prices a position is worth what its trades have cost.
LEMMA PositionIsWorth ==
  ASSUME NEW h, IsHistory(h), Covered(h.events), PaysNothing(h.events), SplitsHaveCloses(h),
         NEW x, NEW price, Steady(h, x, price),
         NEW s, NEW d \in 0..To, MarkBefore(s, x) \in Mark, SteadyAt(h, s, d, x, price)
  PROVE  /\ QuantityOf(h.events, Counted(h, d), x) * MarkBefore(s, x).last
              + GainedBy(h.events, Counted(h, d), x) = 0
         /\ QuantityOf(h.events, Counted(h, d), x) \in Nat
         /\ MarkBefore(s, x).last \in Nat
         /\ GainedBy(h.events, Counted(h, d), x) \in Int
<1> DEFINE ev == h.events
           q == QuantityOf(ev, Counted(h, d), x)
           f == Multiple(ev, Counted(h, d), x)
           g == GainedBy(ev, Counted(h, d), x)
           last == MarkBefore(s, x).last
<1>0. IsLedger(ev) /\ Len(ev) \in Nat
  BY EventIs DEF IsHistory
<1>1. PICK k \in 0..Len(ev) : Counted(h, d) = 1..k
  BY CountedIs
<1>2. q * price + f * g = 0
  <2> HIDE DEF ev
  <2>1. SteadyTrades(ev, x, price)
    BY SteadyIsTraded DEF ev
  <2>2. PaysNothing(ev)
    BY DEF ev
  <2>3. QuantityOf(ev, 1..k, x) * price + Multiple(ev, 1..k, x) * GainedBy(ev, 1..k, x) = 0
    BY <1>0, <2>1, <2>2, TradesBalance
  <2> QED
    BY <1>1, <2>3
<1>3. f \in Nat \ {0}
  BY <1>0, <1>1, MultipleIs
<1>4. g \in Int
  <2>1. CASE k = Len(ev)
    <3>1. IsFiniteSet(1..Len(ev)) /\ \A i \in 1..Len(ev) : GainedOf(ev)[i] \in Int
      BY <1>0, EventSum, EffectsOf
    <3>2. {i \in 1..k : ev[i].symbol = x} \in SUBSET (1..Len(ev))
      BY <2>1
    <3> HIDE DEF ev
    <3>3. \A A \in SUBSET (1..Len(ev)) : SumFunctionOnSet(GainedOf(ev), A) \in Int
      BY <3>1, SumIsInt
    <3> QED
      BY <1>1, <3>2, <3>3 DEF GainedBy
  <2>2. CASE k # Len(ev)
    <3>1. k + 1 \in 1..Len(ev) /\ (k + 1) - 1 = k
      BY <1>0, <2>2
    <3>2. GainedBy(ev, 1..((k + 1) - 1), x) \in Int
      BY <1>0, <3>1, GainedStep
    <3> QED
      BY <1>1, <3>1, <3>2
  <2> QED
    BY <2>1, <2>2
<1>5. q \in Nat
  BY CoveredIncome
<1>6. last \in Nat
  BY DEF Mark
<1>7. f = FactorOn(ev, x, d)
  BY SplitsCounted
<1>8. (last > 0 => last * f = price) /\ (q > 0 => last > 0) /\ price \in Int
  BY <1>7 DEF SteadyAt, Steady
<1> HIDE DEF q, f, g, last, ev
<1>9. q * last + g = 0
  BY <1>2, <1>3, <1>4, <1>5, <1>6, <1>8, WorthNumbers
<1> QED
  BY <1>4, <1>5, <1>6, <1>9 DEF q, f, g, last, ev

\* What a symbol contributes to a valued date without income and at steady prices.
LEMMA PartMakesNothing ==
  ASSUME NEW h, IsHistory(h), Covered(h.events), PaysNothing(h.events), SplitsHaveCloses(h),
         NEW d \in 1..To, d \in ValuationDates(h), NEW s, s = Inner(h)[d - 1],
         TurnValue(h, s, d).total # None,
         NEW x \in Traded(h.events, Counted(h, d)), NEW price, Steady(h, x, price)
  PROVE  Contribution(Part(h, s, TurnAt(h, s, d), x)) = 0
<1> DEFINE ev == h.events
           A == Counted(h, d - 1)
           B == EventsOn(h, d)
           C == Counted(h, d)
           T == Traded(ev, C)
           new == Value(h, s, d)
           q == QuantityOf(ev, C, x)
           q0 == QuantityOf(ev, A, x)
           l == MarkBefore(new, x).last
           l0 == MarkBefore(s, x).last
<1>0. IsLedger(ev) /\ d - 1 \in 0..To /\ d \in 0..To
  BY PerformanceAssumption DEF IsHistory
<1>1. LoopHolds(h, s, d - 1)
  BY <1>0, LoopAlwaysHolds
<1>2. x \in DOMAIN h.bars
  <2>1. Traded(h.events, Counted(h, d)) \subseteq DOMAIN h.bars
    BY <1>1, TurnPositions
  <2> QED
    BY <2>1
<1>3. SteadyAt(h, s, d - 1, x, price)
  BY <1>0, <1>2, AlwaysSteady
<1>4. SteadyAt(h, new, d, x, price)
  BY <1>1, <1>2, <1>3, TurnIsSteady
<1>5. MarkBefore(s, x) \in Mark
  BY <1>1, TurnMarks
<1>6. /\ new.marks = TurnAt(h, s, d).marks
      /\ x \in DOMAIN new.marks /\ MarkBefore(new, x) = TurnAt(h, s, d).marks[x]
      /\ MarkBefore(new, x) \in Mark
  <2>1. Value(h, s, d).marks = TurnAt(h, s, d).marks
    BY TurnGoesOn
  <2>2. TurnAt(h, s, d).marks \in [Traded(h.events, Counted(h, d)) -> Mark]
    BY <1>1, TurnMarks
  <2> QED
    BY <2>1, <2>2 DEF MarkBefore
<1>7. q0 * l0 + GainedBy(ev, A, x) = 0 /\ q0 \in Nat /\ l0 \in Nat /\ GainedBy(ev, A, x) \in Int
  BY <1>0, <1>3, <1>5, PositionIsWorth
<1>8. q * l + GainedBy(ev, C, x) = 0 /\ q \in Nat /\ l \in Nat /\ GainedBy(ev, C, x) \in Int
  <2> HIDE DEF new
  <2>1. QuantityOf(h.events, Counted(h, d), x) * MarkBefore(new, x).last
              + GainedBy(h.events, Counted(h, d), x) = 0
         /\ QuantityOf(h.events, Counted(h, d), x) \in Nat
         /\ MarkBefore(new, x).last \in Nat
         /\ GainedBy(h.events, Counted(h, d), x) \in Int
    BY <1>0, <1>4, <1>6, PositionIsWorth
  <2> QED
    BY <2>1
<1>9. Endings(h, s, d)[x] = q * l
  <2> DEFINE at == TurnAt(h, s, d)
             p == at.positions[x]
             k == at.marks[x]
  <2>1. p.quantity = q /\ Endings(h, s, d)[x] = Ending(at, x)
    BY <1>1, TurnWorth
  <2>2. Ending(at, x) = IF q > 0 /\ k.known THEN q * k.last ELSE 0
    BY <2>1 DEF Ending, EndingValue
  <2>3. q > 0 => k.known
    <3>1. Missing(h, s, d) = {}
      BY <1>1, TurnTotal
    <3> QED
      BY <3>1 DEF Missing
  <2>4. k.last = l
    BY <1>6
  <2>5. q = 0 => q * l = 0
    <3> HIDE DEF q, l
    <3> QED
      BY <1>8
  <2> HIDE DEF q, l, k, p, at
  <2>6. ~(q > 0) => q = 0
    BY <1>8
  <2> QED
    BY <2>1, <2>2, <2>3, <2>4, <2>5, <2>6
<1>10. Beginnings(h, s, d)[x] = q0 * l0
  <2>1. Beginnings(h, s, d)[x] = PositionBefore(s, x).quantity * MarkBefore(s, x).last
    BY <1>1, TurnWorth
  <2>2. PositionBefore(s, x).quantity = q0
    <3>1. PositionBefore(s, x) = Replay(NoPosition, h.events, Counted(h, d - 1), x)
      BY <1>1, TurnPositions
    <3> QED
      BY <3>1 DEF QuantityOf
  <2> QED
    BY <2>1, <2>2
<1>11. /\ SumFunctionOnSet(GainedOf(ev), OfSymbol(h, B, x)) \in Int
       /\ GainedBy(ev, C, x) = GainedBy(ev, A, x) + SumFunctionOnSet(GainedOf(ev), OfSymbol(h, B, x))
  <2> DEFINE S == 1..Len(ev)
             a == {i \in A : ev[i].symbol = x}
             b == OfSymbol(h, B, x)
             c == {i \in C : ev[i].symbol = x}
  <2>1. A \in SUBSET S /\ B \in SUBSET S /\ C = A \union B /\ \A i \in A : \A j \in B : i < j
    BY <1>0, CountedIs, DayFlow
  <2>2. a \in SUBSET S /\ b \in SUBSET S /\ c = a \union b
    BY <2>1 DEF OfSymbol
  <2>3. a \intersect b = {}
    <3>1. \A i \in S : ~(i < i)
      OBVIOUS
    <3>2. \A i \in a : i \in A /\ i \in S
      BY <2>1
    <3>3. \A i \in b : i \in B
      BY DEF OfSymbol
    <3> HIDE DEF a, b
    <3> QED
      BY <2>1, <3>1, <3>2, <3>3
  <2>4. IsFiniteSet(S) /\ \A i \in S : GainedOf(ev)[i] \in Int
    BY <1>0, EventSum, EffectsOf
  <2> HIDE DEF a, b, c, S, ev
  <2>5. SumFunctionOnSet(GainedOf(ev), a \union b)
          = SumFunctionOnSet(GainedOf(ev), a) + SumFunctionOnSet(GainedOf(ev), b)
    <3>1. \A f : (\A i \in S : f[i] \in Int) => \A U, V \in SUBSET S : U \intersect V = {} =>
            SumFunctionOnSet(f, U \union V) = SumFunctionOnSet(f, U) + SumFunctionOnSet(f, V)
      BY <2>4, SumUnion
    <3> QED
      BY <2>2, <2>3, <2>4, <3>1
  <2>6. SumFunctionOnSet(GainedOf(ev), b) \in Int
    BY <2>2, <2>4, SumIsInt
  <2> QED
    BY <2>2, <2>5, <2>6 DEF GainedBy, a, b, c
<1>12. Contribution(Part(h, s, TurnAt(h, s, d), x))
         = Endings(h, s, d)[x] - Beginnings(h, s, d)[x] + SumFunctionOnSet(GainedOf(ev), OfSymbol(h, B, x))
  BY <1>1, PartMoney
<1> DEFINE e == q * l
           b == q0 * l0
           g == GainedBy(ev, C, x)
           g0 == GainedBy(ev, A, x)
           on == SumFunctionOnSet(GainedOf(ev), OfSymbol(h, B, x))
<1>13. e \in Int /\ b \in Int
  <2> HIDE DEF q, l, q0, l0
  <2> QED
    BY <1>7, <1>8
<1>14. e + g = 0 /\ b + g0 = 0 /\ g = g0 + on /\ g \in Int /\ g0 \in Int /\ on \in Int
  BY <1>7, <1>8, <1>11
<1>15. Contribution(Part(h, s, TurnAt(h, s, d), x)) = e - b + on
  BY <1>9, <1>10, <1>12
<1> HIDE DEF e, b, g, g0, on
<1>16. e - b + on = 0
  BY <1>13, <1>14
<1> QED
  BY <1>15, <1>16

\* What no symbol makes, the day does not make.
LEMMA DayMakesNothing ==
  ASSUME NEW h, IsHistory(h), Covered(h.events), PaysNothing(h.events), SplitsHaveCloses(h),
         \A x \in DOMAIN h.bars : \E price : Steady(h, x, price),
         NEW day \in DaysOf(h), day.total # None
  PROVE  DayMoney(day) = 0
<1>1. PICK d \in ValuationDates(h) : day = TurnDay(h, Inner(h)[d - 1], d)
  BY DEF DaysOf
<1> DEFINE s == Inner(h)[d - 1]
           T == Traded(h.events, Counted(h, d))
           f == [x \in DOMAIN day.parts |-> Contribution(day.parts[x])]
<1>2. d \in 1..To /\ d - 1 \in 0..To
  BY PerformanceAssumption, DatesAre
<1>3. LoopHolds(h, s, d - 1)
  BY <1>2, LoopAlwaysHolds
<1>4. TurnValue(h, s, d).total # None /\ day.fees = SumFunctionOnSet(ChargedOf(h.events), EventsOn(h, d))
  BY <1>1, <1>2, TurnDayIs
<1>5. DOMAIN TurnAt(h, s, d).positions = T /\ IsFiniteSet(T)
  BY <1>2, <1>3, TurnWorth
<1>6. T \subseteq DOMAIN h.bars
  BY <1>2, <1>3, TurnPositions
<1>7. day.parts = [x \in T |-> Part(h, s, TurnAt(h, s, d), x)]
  BY <1>1, <1>5, TurnPartsAre
<1>8. \A x \in T : Contribution(day.parts[x]) = 0
  <2> SUFFICES ASSUME NEW x \in T PROVE Contribution(Part(h, s, TurnAt(h, s, d), x)) = 0
    BY <1>7
  <2>1. PICK price : Steady(h, x, price)
    BY <1>6
  <2> QED
    BY <1>2, <1>4, <2>1, PartMakesNothing
<1>9. SumFunction(f) = 0
  <2>1. DOMAIN f = T /\ \A x \in T : f[x] = 0
    BY <1>7, <1>8
  <2> HIDE DEF f, T
  <2>2. SumFunctionOnSet(f, T) = 0
    BY <1>5, <2>1, SumOfZeros
  <2> QED
    BY <2>1, <2>2 DEF SumFunction
<1>10. SumFunctionOnSet(ChargedOf(h.events), EventsOn(h, d)) = 0
  <2>1. EventsOn(h, d) \in SUBSET (1..Len(h.events)) /\ IsFiniteSet(EventsOn(h, d))
    BY <1>2, DayFlow
  <2>2. \A i \in EventsOn(h, d) : ChargedOf(h.events)[i] = 0
    <3> SUFFICES ASSUME NEW i \in EventsOn(h, d) PROVE ChargedOf(h.events)[i] = 0
      OBVIOUS
    <3>1. i \in 1..Len(h.events) /\ i \in DOMAIN h.events
      BY <2>1 DEF EventsOn
    <3>2. h.events[i].type # "fee"
      BY <3>1 DEF PaysNothing
    <3> QED
      BY <3>1, <3>2 DEF ChargedOf, Charged
  <2> QED
    BY <2>1, <2>2, SumOfZeros
<1>11. DayMoney(day) = SumFunction(f) - day.fees
  BY DEF DayMoney
<1> HIDE DEF f
<1> QED
  BY <1>4, <1>9, <1>10, <1>11

\* A day that makes nothing has no return, or a return of zero.
LEMMA ReturnsNothing ==
  ASSUME NEW h, IsHistory(h), Covered(h.events), PaysNothing(h.events), SplitsHaveCloses(h),
         \A x \in DOMAIN h.bars : \E price : Steady(h, x, price),
         NEW day \in DaysOf(h)
  PROVE  day.return \in {None, Zero}
<1> SUFFICES ASSUME day.return # None PROVE day.return = Zero
  OBVIOUS
<1>1. DayHolds(h, day)
  BY DaysHold
<1> DEFINE n == Ends(day) - Starts(day) - Flows(day)
           c == day.denominator
<1>2. /\ day.total = Whole(Ends(day))
      /\ DayMoney(day) = n
      /\ day.return = Over(Whole(n), c)
      /\ IsRatio(c) /\ Below(Zero, c)
  BY <1>1, DayNumbers
<1>3. day.total # None
  BY <1>2, RatioIsSome
<1>4. n = 0
  BY <1>2, <1>3, DayMakesNothing
<1> HIDE DEF n, c
<1>5. PICK x \in Int, y \in Nat \ {0} : c = Fraction(x, y)
  BY <1>2 DEF IsRatio
<1>6. 0 \in Int /\ 1 \in Nat \ {0} /\ Zero = Fraction(0, 1) /\ Whole(0) = Fraction(0, 1)
  BY WholeIs DEF Zero
<1>7. x \in Nat \ {0}
  <2>1. 0 * y < x * 1
    BY <1>2, <1>5, <1>6, FractionCompares
  <2> QED
    BY <1>5, <2>1
<1>8. Over(Fraction(0, 1), Fraction(x, y)) = Fraction(0 * y, 1 * x)
  BY <1>5, <1>6, <1>7, FractionOver
<1>9. 0 * y = 0 /\ 1 * x = x /\ 0 * 1 = 0 * x
  BY <1>5, <1>7
<1>10. Fraction(0, x) = Fraction(0, 1)
  BY <1>6, <1>7, <1>9, FractionsAreSame
<1> QED
  BY <1>2, <1>4, <1>5, <1>6, <1>8, <1>9, <1>10

\* Prices that do not move are one price, or there is none.
LEMMA SteadyIsSteady ==
  ASSUME Inv, IsLoaded, SteadyPrices
  PROVE  LET h == report.history IN
         /\ SplitsHaveCloses(h)
         /\ \A x \in DOMAIN h.bars : \E price : Steady(h, x, price)
<1> DEFINE h == report.history
<1>1. IsHistory(h) /\ Events = h.events
  BY ReportIs
<1>2. IsLedger(h.events) /\ h.bars \in [DOMAIN h.bars -> [1..To -> Nat]]
  BY <1>1 DEF IsHistory
<1>3. Len(h.events) \in Nat /\ DOMAIN h.events = 1..Len(h.events)
      /\ \A i \in 1..Len(h.events) : h.events[i].price \in Int
  <2>1. Len(h.events) \in Nat /\ DOMAIN h.events = 1..Len(h.events)
    BY <1>2, EventIs
  <2>2. \A i \in 1..Len(h.events) : h.events[i] \in LedgerEvent
    BY <1>2, EventIs
  <2> QED
    BY <2>1, <2>2 DEF LedgerEvent
<1>4. SplitsHaveCloses(h)
  BY <1>1, <1>3 DEF SteadyPrices, SplitsHaveCloses
<1>5. \A x, d : Factor(x, d) = FactorOn(h.events, x, d) /\ FactorOn(h.events, x, d) \in Int
  <2> TAKE x, d
  <2>1. Factor(x, d) = FactorOn(h.events, x, d)
    BY <1>1 DEF Factor, FactorOn, SplitsTo, Share
  <2>2. SplitsTo(h.events, d) \in SUBSET (1..Len(h.events))
    BY <1>3 DEF SplitsTo
  <2>3. IsPosition(Replay(Share, h.events, SplitsTo(h.events, d), x))
    BY <1>2, <2>2, ShareIs, ReplayIsPosition
  <2>4. FactorOn(h.events, x, d) \in Int
    BY <2>3 DEF FactorOn, IsPosition
  <2> QED
    BY <2>1, <2>4
<1>6. ASSUME NEW x \in DOMAIN h.bars PROVE \E price : Steady(h, x, price)
  <2> DEFINE seen == PricesSeen(x)
             price == IF seen = {} THEN 0 ELSE CHOOSE y \in seen : TRUE
  <2>1. \A i \in 1..Len(h.events) : h.events[i].symbol = x /\ h.events[i].type \in {"buy", "sell"} =>
          h.events[i].price * FactorOn(h.events, x, h.events[i].date) \in seen
    BY <1>1, <1>3, <1>5 DEF PricesSeen
  <2>2. \A d \in 1..To : h.bars[x][d] > 0 => h.bars[x][d] * FactorOn(h.events, x, d) \in seen
    BY <1>1, <1>5 DEF PricesSeen
  <2>3. seen \subseteq Int
    <3> SUFFICES ASSUME NEW y \in seen PROVE y \in Int
      OBVIOUS
    <3> DEFINE c(d) == h.bars[x][d]
               k(d) == FactorOn(h.events, x, d)
               p(i) == h.events[i].price
               w(i) == h.events[i].date
    <3>1. \/ \E d \in 1..To : y = c(d) * k(d)
          \/ \E i \in 1..Len(h.events) : y = p(i) * k(w(i))
      BY <1>1, <1>3, <1>5 DEF PricesSeen
    <3>2. \A d \in 1..To : c(d) \in Int
      <4>1. h.bars[x] \in [1..To -> Nat]
        BY <1>2
      <4>2. \A d \in 1..To : h.bars[x][d] \in Nat
        BY <4>1
      <4> QED
        BY <4>2
    <3>3. \A d : k(d) \in Int
      BY <1>5
    <3>4. \A i \in 1..Len(h.events) : p(i) \in Int
      BY <1>3
    <3> HIDE DEF c, k, p, w
    <3>5. CASE \E d \in 1..To : y = c(d) * k(d)
      <4>1. PICK d \in 1..To : y = c(d) * k(d)
        BY <3>5
      <4>2. c(d) \in Int /\ k(d) \in Int
        BY <3>2, <3>3
      <4> QED
        BY <4>1, <4>2
    <3>6. CASE \E i \in 1..Len(h.events) : y = p(i) * k(w(i))
      <4>1. PICK i \in 1..Len(h.events) : y = p(i) * k(w(i))
        BY <3>6
      <4>2. p(i) \in Int /\ k(w(i)) \in Int
        BY <3>3, <3>4
      <4> QED
        BY <4>1, <4>2
    <3> QED
      BY <3>1, <3>5, <3>6
  <2>4. \A y \in seen : \A z \in seen : y = z
    BY DEF SteadyPrices
  <2> HIDE DEF seen
  <2>5. price \in Int /\ \A y \in seen : y = price
    <3>1. CASE seen = {}
      BY <3>1
    <3>2. CASE seen # {}
      <4>1. price \in seen
        BY <3>2
      <4> QED
        BY <2>3, <2>4, <4>1
    <3> QED
      BY <3>1, <3>2
  <2> HIDE DEF price
  <2>6. Steady(h, x, price)
    BY <2>1, <2>2, <2>5 DEF Steady
  <2> QED
    BY <2>6
<1> QED
  BY <1>4, <1>6

\* FlowsAreNotReturns in every state of the invariant.
LEMMA FlowsReturnNothing ==
  ASSUME Inv
  PROVE  FlowsAreNotReturns
<1> SUFFICES ASSUME IsLoaded, Covered(Events), SteadyPrices,
                    \A i \in DOMAIN Events : Events[i].type \notin {"dividend", "fee"}
             PROVE  \A i \in DOMAIN report.end.days : report.end.days[i].return \in {None, Zero}
  BY DEF FlowsAreNotReturns
<1> DEFINE h == report.history
           days == report.end.days
<1>1. IsHistory(h) /\ days = Inner(h)[To].days /\ Events = h.events
  BY ReportIs
<1>2. days \in Seq(DaysOf(h))
  <2>1. To \in 0..To
    BY PerformanceAssumption
  <2> QED
    BY <1>1, <2>1, EngineAlwaysHolds DEF EngineHolds, ChainHolds
<1>3. PaysNothing(h.events)
  <2>1. IsLedger(h.events)
    BY <1>1 DEF IsHistory
  <2>2. DOMAIN h.events = 1..Len(h.events)
    BY <2>1, EventIs
  <2> QED
    BY <1>1, <2>2 DEF PaysNothing
<1>4. SplitsHaveCloses(h) /\ \A x \in DOMAIN h.bars : \E price : Steady(h, x, price)
  BY SteadyIsSteady
<1>5. \A i \in DOMAIN days : days[i] \in DaysOf(h)
  BY <1>2
<1> HIDE DEF days, h
<1>6. \A day \in DaysOf(h) : day.return \in {None, Zero}
  BY <1>1, <1>3, <1>4, ReturnsNothing
<1> QED
  BY <1>5, <1>6 DEF days

\* Where no price moves and nothing is paid, no capital that comes or goes, no trade and no
\* confirmed split ever shows as a return (calculatePortfolioPerformance).
THEOREM FlowsAreNeverReturns == Spec => []FlowsAreNotReturns
<1>1. Inv => FlowsAreNotReturns
  BY FlowsReturnNothing
<1> QED
  BY <1>1, InvHolds, PTL
=============================================================================
