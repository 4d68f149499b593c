--------------------------- MODULE RationalProofs ----------------------------
(* What the provers do not know of sums over finite sets and of fractions:      *)
(* induction over a range and over a finite set, the sum as the library defines *)
(* it, Euclid's algorithm, and the arithmetic of Rational.                      *)
EXTENDS Rational, SequencesExt, FiniteSetTheorems, TLAPS

(* Induction, and sums over finite sets.                                       *)

\* Induction up to a bound, for a set of numbers.
LEMMA UpTo ==
  ASSUME NEW bound \in Nat, NEW T, 0 \in T,
         \A m \in 0..bound : m \in T /\ m < bound => m + 1 \in T
  PROVE  0..bound \subseteq T
<1> DEFINE rest == (0..bound) \ T
           under(n) == {m \in rest : m < n}
           family == {under(n) : n \in rest}
           smaller == StrictSubsetOrdering(rest)
<1> HIDE DEF rest, family, smaller
<1>1. SUFFICES ASSUME rest # {} PROVE FALSE
  BY DEF rest
<1>2. IsFiniteSet(rest)
  <2>1. IsFiniteSet(0..bound)
    BY FS_Interval
  <2> QED
    BY <2>1, FS_Subset DEF rest
<1>3. IsWellFoundedOn(smaller, FiniteSubsetsOf(rest)) /\ FiniteSubsetsOf(rest) = SUBSET rest
  BY <1>2, FS_StrictSubsetOrderingWellFounded, FS_FiniteSubsetsOfFinite DEF smaller
<1>4. family \subseteq SUBSET rest /\ family # {}
  <2>1. \A n \in rest : under(n) \in SUBSET rest /\ under(n) \in family
    BY DEF family
  <2> QED
    BY <1>1, <2>1 DEF family
<1>5. PICK least \in family : \A a \in family : ~(<<a, least>> \in smaller)
  BY <1>3, <1>4, WFMin
<1>6. PICK n \in rest : least = under(n)
  BY <1>5 DEF family
<1>7. n \in 1..bound /\ n - 1 \in rest
  <2>1. n \in 0..bound /\ n \notin T /\ n # 0
    BY DEF rest
  <2>2. n - 1 \in 0..bound /\ n - 1 < bound /\ (n - 1) + 1 = n
    BY <2>1
  <2>3. n - 1 \notin T
    BY <2>1, <2>2
  <2> QED
    BY <2>1, <2>2, <2>3 DEF rest
<1>8. under(n - 1) \subseteq under(n) /\ n - 1 \in under(n) /\ n - 1 \notin under(n - 1)
  <2>1. rest \subseteq Nat
    BY DEF rest
  <2>2. \A m \in rest : m < n - 1 => m < n
    BY <1>7, <2>1
  <2>3. n - 1 < n /\ ~(n - 1 < n - 1)
    BY <1>7
  <2> QED
    BY <1>7, <2>2, <2>3, Zenon
<1>9. <<under(n - 1), least>> \in smaller /\ under(n - 1) \in family
  <2>1. under(n - 1) \in SUBSET rest /\ under(n) \in SUBSET rest
    OBVIOUS
  <2>2. under(n - 1) \in family
    BY <1>7 DEF family
  <2> HIDE DEF under
  <2> QED
    BY <1>6, <1>8, <2>1, <2>2 DEF smaller, StrictSubsetOrdering
<1> QED
  BY <1>5, <1>9

\* Induction over the subsets of a finite set, one element at a time.
LEMMA FiniteGrow ==
  ASSUME NEW S, IsFiniteSet(S), NEW F, {} \in F,
         \A T \in SUBSET S : \A x \in S \ T : T \in F => T \union {x} \in F
  PROVE  \A T \in SUBSET S : T \in F
<1> DEFINE bound == Cardinality(S)
           known == {n \in 0..bound : \A T \in SUBSET S : Cardinality(T) = n => T \in F}
<1>1. bound \in Nat
  BY FS_CardinalityType
<1>2. \A T \in SUBSET S : IsFiniteSet(T) /\ Cardinality(T) \in 0..bound
  BY <1>1, FS_Subset, FS_CardinalityType
<1>3. 0 \in known
  BY <1>1, <1>2, FS_EmptySet
<1>4. ASSUME NEW m \in 0..bound, m \in known, m < bound PROVE m + 1 \in known
  <2>1. SUFFICES ASSUME NEW T \in SUBSET S, Cardinality(T) = m + 1 PROVE T \in F
    BY <1>1, <1>4
  <2>2. T # {}
    <3>1. m + 1 # 0
      BY <1>1
    <3>2. Cardinality({}) = 0
      BY FS_EmptySet
    <3> QED
      BY <2>1, <3>1, <3>2
  <2>3. PICK x \in T : TRUE
    BY <2>2
  <2>4. Cardinality(T \ {x}) = m
    <3>1. IsFiniteSet(T)
      BY <1>2
    <3>2. Cardinality(T \ {x}) = Cardinality(T) - 1
      BY <2>3, <3>1, FS_RemoveElement
    <3>3. (m + 1) - 1 = m
      BY <1>1
    <3> QED
      BY <2>1, <3>2, <3>3
  <2>5. T \ {x} \in F /\ T \ {x} \in SUBSET S /\ x \in S \ (T \ {x}) /\ (T \ {x}) \union {x} = T
    BY <1>4, <2>3, <2>4
  <2> QED
    BY <2>5
<1> HIDE DEF known
<1>5. 0..bound \subseteq known
  <2> HIDE DEF bound
  <2> QED
    BY <1>1, <1>3, <1>4, UpTo
<1> QED
  BY <1>2, <1>5 DEF known

\* How a sum over a set proceeds: the element it takes first, and its partial sums.
FirstOf(T) == CHOOSE x \in T : TRUE
SumsOf(g, f, S) == g = [s \in SUBSET S |-> IF s = {} THEN 0 ELSE f[FirstOf(s)] + g[s \ {FirstOf(s)}]]

\* The recursive function behind a sum over a set exists.
LEMMA SumIsDefined ==
  ASSUME NEW f, NEW S, IsFiniteSet(S)
  PROVE  \E g : SumsOf(g, f, S)
<1> DEFINE bound == Cardinality(S)
           level(n) == {s \in SUBSET S : Cardinality(s) <= n}
           step(g, s) == IF s = {} THEN 0 ELSE f[FirstOf(s)] + g[s \ {FirstOf(s)}]
           Rule(g, n) == g = [s \in level(n) |-> step(g, s)]
           known == {n \in 0..bound : \E g : Rule(g, n)}
<1>1. bound \in Nat
  BY FS_CardinalityType
<1>2. \A s \in SUBSET S : IsFiniteSet(s) /\ Cardinality(s) \in 0..bound
  BY <1>1, FS_Subset, FS_CardinalityType
<1>a. \A s \in SUBSET S : s # {} =>
        /\ FirstOf(s) \in s /\ s \ {FirstOf(s)} \in SUBSET S
        /\ Cardinality(s \ {FirstOf(s)}) = Cardinality(s) - 1
  BY <1>2, FS_RemoveElement DEF FirstOf
<1>3. 0 \in known
  <2> DEFINE g == [s \in level(0) |-> 0]
  <2>1. \A s \in level(0) : s = {}
    BY <1>2, FS_EmptySet
  <2>2. Rule(g, 0)
    BY <2>1, Zenon
  <2> HIDE DEF Rule, g
  <2> QED
    BY <1>1, <2>2
<1>4. ASSUME NEW m \in 0..bound, m \in known, m < bound PROVE m + 1 \in known
  <2>1. PICK g : Rule(g, m)
    BY <1>4
  <2> DEFINE k == [s \in level(m + 1) |-> step(g, s)]
  <2>2. \A s \in level(m) : s \in level(m + 1) /\ k[s] = g[s]
    <3>1. ASSUME NEW s \in level(m) PROVE s \in level(m + 1)
      <4>1. Cardinality(s) \in 0..bound /\ Cardinality(s) <= m
        BY <1>2
      <4> QED
        BY <1>1, <4>1
    <3>2. \A s \in level(m) : g[s] = step(g, s)
      <4> HIDE DEF level, step
      <4> QED
        BY <2>1
    <3>3. \A s \in level(m + 1) : k[s] = step(g, s)
      <4> HIDE DEF level, step
      <4> QED
        OBVIOUS
    <3> HIDE DEF level, step, k
    <3> QED
      BY <3>1, <3>2, <3>3
  <2>3. \A s \in level(m + 1) : s # {} => s \ {FirstOf(s)} \in level(m)
    <3> SUFFICES ASSUME NEW s \in SUBSET S, Cardinality(s) <= m + 1, s # {}
                 PROVE  Cardinality(s \ {FirstOf(s)}) <= m
      BY <1>a
    <3>1. Cardinality(s \ {FirstOf(s)}) = Cardinality(s) - 1
      BY <1>a
    <3>2. Cardinality(s) \in Int /\ m \in Int
      BY <1>1, <1>2
    <3> QED
      BY <3>1, <3>2
  <2>4. \A s \in level(m + 1) : step(g, s) = step(k, s)
    <3> HIDE DEF level, k
    <3> QED
      BY <2>2, <2>3
  <2>5. Rule(k, m + 1)
    <3>1. k = [s \in level(m + 1) |-> step(g, s)]
      OBVIOUS
    <3> HIDE DEF k, level, step
    <3> QED
      BY <2>4, <3>1
  <2>6. m + 1 \in 0..bound
    BY <1>1, <1>4
  <2> HIDE DEF Rule, k
  <2> QED
    BY <2>5, <2>6
<1>5. bound \in known
  <2> HIDE DEF known, bound
  <2> QED
    BY <1>1, <1>3, <1>4, UpTo
<1>6. level(bound) = SUBSET S
  BY <1>1, <1>2
<1> QED
  BY <1>5, <1>6 DEF SumsOf

\* A sum takes out the element it chooses.
LEMMA SumUnfolds ==
  ASSUME NEW f, NEW S, IsFiniteSet(S)
  PROVE  SumFunctionOnSet(f, S)
           = IF S = {} THEN 0 ELSE f[FirstOf(S)] + SumFunctionOnSet(f, S \ {FirstOf(S)})
<1> DEFINE iter(T) == CHOOSE g : SumsOf(g, f, T)
<1>1. \A T : SumFunctionOnSet(f, T) = iter(T)[T]
  BY DEF SumFunctionOnSet, FoldFunctionOnSet, MapThenFoldSet, FirstOf, SumsOf
<1>2. ASSUME NEW T \in SUBSET S PROVE SumsOf(iter(T), f, T)
  <2>1. IsFiniteSet(T)
    BY FS_Subset
  <2>2. \E g : SumsOf(g, f, T)
    BY <2>1, SumIsDefined
  <2> QED
    BY <2>2
<1> HIDE DEF iter
<1>3. ASSUME NEW T \in SUBSET S, NEW s \in SUBSET T
      PROVE  iter(T)[s] = IF s = {} THEN 0 ELSE f[FirstOf(s)] + iter(T)[s \ {FirstOf(s)}]
  <2>1. SumsOf(iter(T), f, T)
    BY <1>2
  <2> QED
    BY <2>1 DEF SumsOf
<1>4. CASE S = {}
  BY <1>1, <1>3, <1>4
<1>5. CASE S # {}
  <2> DEFINE T == S \ {FirstOf(S)}
             alike == {s \in SUBSET T : iter(S)[s] = iter(T)[s]}
  <2>1. FirstOf(S) \in S /\ T \in SUBSET S /\ IsFiniteSet(T)
    BY <1>5, FS_Subset DEF FirstOf
  <2>2. T \in alike
    <3> DEFINE bound == Cardinality(T)
               known == {n \in 0..bound : \A s \in SUBSET T : Cardinality(s) <= n => s \in alike}
    <3>1. bound \in Nat
      BY <2>1, FS_CardinalityType
    <3>2. \A s \in SUBSET T : IsFiniteSet(s) /\ Cardinality(s) \in 0..bound
      BY <2>1, <3>1, FS_Subset, FS_CardinalityType
    <3>3. \A s \in SUBSET T : s # {} =>
            /\ FirstOf(s) \in s /\ s \ {FirstOf(s)} \in SUBSET T
            /\ Cardinality(s \ {FirstOf(s)}) = Cardinality(s) - 1
      BY <3>2, FS_RemoveElement DEF FirstOf
    <3> HIDE DEF T, bound
    <3>4. {} \in alike
      BY <1>3, <2>1
    <3>5. ASSUME NEW s \in SUBSET T, s # {}, s \ {FirstOf(s)} \in alike PROVE s \in alike
      BY <1>3, <2>1, <3>5
    <3> HIDE DEF alike
    <3>6. 0 \in known
      BY <3>1, <3>2, <3>4, FS_EmptySet
    <3>7. ASSUME NEW m \in 0..bound, m \in known, m < bound PROVE m + 1 \in known
      <4>1. m + 1 \in 0..bound
        BY <3>1, <3>7
      <4>2. ASSUME NEW s \in SUBSET T, Cardinality(s) <= m + 1 PROVE s \in alike
        <5>1. CASE s = {}
          BY <5>1, <3>4
        <5>2. CASE s # {}
          <6>1. Cardinality(s \ {FirstOf(s)}) <= m
            BY <3>1, <3>2, <3>3, <4>2, <5>2
          <6> QED
            BY <3>3, <3>5, <3>7, <5>2, <6>1
        <5> QED
          BY <5>1, <5>2
      <4> QED
        BY <4>1, <4>2
    <3> HIDE DEF known
    <3>8. bound \in known
      BY <3>1, <3>6, <3>7, UpTo
    <3> QED
      BY <3>8, <3>1, <3>2 DEF known, bound
  <2>3. iter(S)[S] = f[FirstOf(S)] + iter(S)[T]
    BY <1>3, <1>5
  <2> QED
    BY <1>1, <1>5, <2>2, <2>3
<1> QED
  BY <1>4, <1>5

\* A sum of integers is one, and any element may be taken out first.
LEMMA SumTakesAny ==
  ASSUME NEW f, NEW S, IsFiniteSet(S), \A x \in S : f[x] \in Int
  PROVE  /\ SumFunctionOnSet(f, S) \in Int
         /\ \A x \in S : SumFunctionOnSet(f, S) = f[x] + SumFunctionOnSet(f, S \ {x})
<1> DEFINE sum(T) == SumFunctionOnSet(f, T)
           good(T) == sum(T) \in Int /\ \A x \in T : sum(T) = f[x] + sum(T \ {x})
           bound == Cardinality(S)
           known == {n \in 0..bound : \A T \in SUBSET S : Cardinality(T) <= n => good(T)}
<1>1. bound \in Nat
  BY FS_CardinalityType
<1>2. \A T \in SUBSET S : IsFiniteSet(T) /\ Cardinality(T) \in 0..bound
  BY <1>1, FS_Subset, FS_CardinalityType
<1>3. \A T \in SUBSET S : \A x \in T : T \ {x} \in SUBSET S /\ Cardinality(T \ {x}) = Cardinality(T) - 1
  BY <1>2, FS_RemoveElement
<1>4. \A T \in SUBSET S : sum(T) = IF T = {} THEN 0 ELSE f[FirstOf(T)] + sum(T \ {FirstOf(T)})
  BY <1>2, SumUnfolds
<1> HIDE DEF sum, bound
<1>5. good({})
  <2>1. sum({}) = 0
    BY <1>4
  <2> QED
    BY <2>1
<1>6. 0 \in known
  BY <1>1, <1>2, <1>5, FS_EmptySet
<1>7. ASSUME NEW m \in 0..bound, m \in known, m < bound PROVE m + 1 \in known
  <2>1. SUFFICES ASSUME NEW T \in SUBSET S, Cardinality(T) <= m + 1 PROVE good(T)
    BY <1>1, <1>7
  <2>2. CASE T = {}
    BY <2>2, <1>5
  <2>3. CASE T # {}
    <3> DEFINE c == FirstOf(T)
    <3>1. c \in T
      BY <2>3 DEF FirstOf
    <3>2. \A x \in T : good(T \ {x})
      <4> TAKE x \in T
      <4>1. T \ {x} \in SUBSET S /\ Cardinality(T \ {x}) <= m
        BY <1>1, <1>2, <1>3, <2>1
      <4> HIDE DEF good
      <4> QED
        BY <1>7, <4>1
    <3>3. sum(T) = f[c] + sum(T \ {c})
      BY <1>4, <2>3
    <3>4. f[c] \in Int /\ sum(T \ {c}) \in Int
      BY <3>1, <3>2
    <3>5. ASSUME NEW x \in T, x # c PROVE sum(T) = f[x] + sum(T \ {x})
      <4>1. x \in T \ {c} /\ c \in T \ {x} /\ (T \ {c}) \ {x} = (T \ {x}) \ {c}
        BY <3>1, <3>5
      <4>2. sum(T \ {c}) = f[x] + sum((T \ {c}) \ {x})
        BY <3>1, <3>2, <4>1
      <4>3. sum(T \ {x}) = f[c] + sum((T \ {x}) \ {c})
        BY <3>2, <3>5, <4>1
      <4>4. sum((T \ {c}) \ {x}) \in Int
        <5>1. (T \ {c}) \ {x} \in SUBSET S /\ Cardinality((T \ {c}) \ {x}) = Cardinality(T) - 2
          <6>1. Cardinality(T \ {c}) = Cardinality(T) - 1 /\ T \ {c} \in SUBSET S
            BY <1>3, <3>1
          <6>2. Cardinality((T \ {c}) \ {x}) = Cardinality(T \ {c}) - 1
            BY <1>3, <4>1, <6>1
          <6>3. Cardinality(T) \in Nat
            BY <1>1, <1>2
          <6> HIDE DEF c
          <6> QED
            BY <6>1, <6>2, <6>3
        <5>2. Cardinality((T \ {c}) \ {x}) <= m
          BY <1>1, <1>2, <2>1, <5>1
        <5>3. good((T \ {c}) \ {x})
          <6> HIDE DEF good, c
          <6> QED
            BY <1>7, <5>1, <5>2
        <5> QED
          BY <5>3
      <4>5. f[x] \in Int
        OBVIOUS
      <4>6. sum((T \ {x}) \ {c}) = sum((T \ {c}) \ {x})
        BY <4>1
      <4>7. f[c] \in Int
        BY <3>4
      <4> HIDE DEF c, good
      <4> DEFINE rest == sum((T \ {c}) \ {x})
      <4>8. rest \in Int /\ sum(T) = f[c] + (f[x] + rest) /\ sum(T \ {x}) = f[c] + rest
        BY <3>3, <4>2, <4>3, <4>4, <4>6
      <4> HIDE DEF rest
      <4> QED
        BY <4>5, <4>7, <4>8
    <3>6. sum(T) \in Int
      BY <3>3, <3>4
    <3> QED
      <4> HIDE DEF c
      <4> QED
        BY <3>3, <3>5, <3>6
  <2> QED
    BY <2>2, <2>3
<1> HIDE DEF known
<1>8. bound \in known
  BY <1>1, <1>6, <1>7, UpTo
<1>9. good(S)
  <2>1. Cardinality(S) <= bound
    BY <1>1 DEF bound
  <2> HIDE DEF good
  <2> QED
    BY <1>8, <2>1 DEF known
<1> QED
  BY <1>9 DEF sum

\* The sum over nothing is zero.
LEMMA SumEmpty == \A f : SumFunctionOnSet(f, {}) = 0
BY SumUnfolds, FS_EmptySet

\* A sum of integers is an integer.
LEMMA SumIsInt ==
  ASSUME NEW f, NEW S, IsFiniteSet(S), \A x \in S : f[x] \in Int
  PROVE  \A T \in SUBSET S : SumFunctionOnSet(f, T) \in Int
<1> TAKE T \in SUBSET S
<1>1. IsFiniteSet(T) /\ \A x \in T : f[x] \in Int
  BY FS_Subset
<1> QED
  BY <1>1, SumTakesAny

\* One more element.
LEMMA SumAdd ==
  ASSUME NEW f, NEW S, IsFiniteSet(S), \A x \in S : f[x] \in Int,
         NEW T \in SUBSET S, NEW x \in S \ T
  PROVE  SumFunctionOnSet(f, T \union {x}) = SumFunctionOnSet(f, T) + f[x]
<1> DEFINE U == T \union {x}
<1>1. IsFiniteSet(U) /\ (\A y \in U : f[y] \in Int) /\ x \in U /\ U \ {x} = T
  BY FS_Subset
<1> HIDE DEF U
<1>2. SumFunctionOnSet(f, U) = f[x] + SumFunctionOnSet(f, T)
  BY <1>1, SumTakesAny
<1>3. SumFunctionOnSet(f, T) \in Int /\ f[x] \in Int
  BY SumIsInt
<1> QED
  BY <1>2, <1>3 DEF U

\* A sum is of the values at its set.
LEMMA SumSame ==
  ASSUME NEW f, NEW g, NEW S, IsFiniteSet(S), \A x \in S : f[x] \in Int /\ g[x] = f[x]
  PROVE  SumFunctionOnSet(f, S) = SumFunctionOnSet(g, S)
<1> DEFINE F == {T \in SUBSET S : SumFunctionOnSet(f, T) = SumFunctionOnSet(g, T)}
<1>1. {} \in F
  BY SumEmpty
<1>2. ASSUME NEW T \in SUBSET S, NEW x \in S \ T, T \in F PROVE T \union {x} \in F
  <2>1. SumFunctionOnSet(f, T \union {x}) = SumFunctionOnSet(f, T) + f[x]
    BY SumAdd
  <2>2. SumFunctionOnSet(g, T \union {x}) = SumFunctionOnSet(g, T) + g[x]
    BY SumAdd
  <2> QED
    BY <1>2, <2>1, <2>2
<1> HIDE DEF F
<1>3. S \in F
  BY <1>1, <1>2, FiniteGrow
<1> QED
  BY <1>3 DEF F

\* Sums add up pointwise.
LEMMA SumPlus ==
  ASSUME NEW f, NEW g, NEW h, NEW S, IsFiniteSet(S),
         \A x \in S : f[x] \in Int /\ g[x] \in Int /\ h[x] = f[x] + g[x]
  PROVE  SumFunctionOnSet(h, S) = SumFunctionOnSet(f, S) + SumFunctionOnSet(g, S)
<1> DEFINE F == {T \in SUBSET S : SumFunctionOnSet(h, T) = SumFunctionOnSet(f, T) + SumFunctionOnSet(g, T)}
<1>1. {} \in F
  BY SumEmpty
<1>2. ASSUME NEW T \in SUBSET S, NEW x \in S \ T, T \in F PROVE T \union {x} \in F
  <2>1. SumFunctionOnSet(f, T \union {x}) = SumFunctionOnSet(f, T) + f[x]
    BY SumAdd
  <2>2. SumFunctionOnSet(g, T \union {x}) = SumFunctionOnSet(g, T) + g[x]
    BY SumAdd
  <2>3. SumFunctionOnSet(h, T \union {x}) = SumFunctionOnSet(h, T) + h[x]
    BY SumAdd
  <2>4. SumFunctionOnSet(f, T) \in Int /\ SumFunctionOnSet(g, T) \in Int
    BY SumIsInt
  <2>5. f[x] \in Int /\ g[x] \in Int /\ h[x] = f[x] + g[x]
    OBVIOUS
  <2>6. SumFunctionOnSet(h, T) = SumFunctionOnSet(f, T) + SumFunctionOnSet(g, T)
    BY <1>2
  <2>7. SumFunctionOnSet(h, T \union {x})
          = SumFunctionOnSet(f, T \union {x}) + SumFunctionOnSet(g, T \union {x})
    BY <2>1, <2>2, <2>3, <2>4, <2>5, <2>6
  <2> QED
    BY <2>7
<1> HIDE DEF F
<1>3. S \in F
  BY <1>1, <1>2, FiniteGrow
<1> QED
  BY <1>3 DEF F

\* A sum over two disjoint sets.
LEMMA SumUnion ==
  ASSUME NEW f, NEW S, IsFiniteSet(S), \A x \in S : f[x] \in Int,
         NEW A \in SUBSET S, NEW B \in SUBSET S, A \intersect B = {}
  PROVE  SumFunctionOnSet(f, A \union B) = SumFunctionOnSet(f, A) + SumFunctionOnSet(f, B)
<1> DEFINE F == {T \in SUBSET B : SumFunctionOnSet(f, A \union T)
                                    = SumFunctionOnSet(f, A) + SumFunctionOnSet(f, T)}
<1>0. IsFiniteSet(B) /\ SumFunctionOnSet(f, A) \in Int
  BY FS_Subset, SumIsInt
<1>1. {} \in F
  <2>1. A \union {} = A
    OBVIOUS
  <2> QED
    BY <2>1, <1>0, SumEmpty
<1>2. ASSUME NEW T \in SUBSET B, NEW x \in B \ T, T \in F PROVE T \union {x} \in F
  <2>1. SumFunctionOnSet(f, T \union {x}) = SumFunctionOnSet(f, T) + f[x]
    BY SumAdd
  <2>2. /\ A \union T \in SUBSET S /\ x \in S \ (A \union T)
        /\ A \union (T \union {x}) = (A \union T) \union {x}
    OBVIOUS
  <2>3. SumFunctionOnSet(f, (A \union T) \union {x}) = SumFunctionOnSet(f, A \union T) + f[x]
    BY <2>2, SumAdd
  <2>4. SumFunctionOnSet(f, T) \in Int /\ f[x] \in Int
    BY SumIsInt
  <2>5. SumFunctionOnSet(f, A \union T) = SumFunctionOnSet(f, A) + SumFunctionOnSet(f, T)
    BY <1>2
  <2> DEFINE a == SumFunctionOnSet(f, A)
             t == SumFunctionOnSet(f, T)
  <2>6. a \in Int /\ t \in Int /\ f[x] \in Int
        /\ SumFunctionOnSet(f, (A \union T) \union {x}) = (a + t) + f[x]
        /\ SumFunctionOnSet(f, T \union {x}) = t + f[x]
    BY <1>0, <2>1, <2>3, <2>4, <2>5
  <2> HIDE DEF a, t
  <2>7. SumFunctionOnSet(f, (A \union T) \union {x}) = a + SumFunctionOnSet(f, T \union {x})
    BY <2>6
  <2>8. SumFunctionOnSet(f, A \union (T \union {x})) = SumFunctionOnSet(f, A) + SumFunctionOnSet(f, T \union {x})
    BY <2>2, <2>7 DEF a
  <2> QED
    BY <2>8
<1> HIDE DEF F
<1>3. B \in F
  <2>1. B \in SUBSET B
    OBVIOUS
  <2>2. IsFiniteSet(B) /\ {} \in F /\ \A T \in SUBSET B : \A x \in B \ T : T \in F => T \union {x} \in F
    BY <1>0, <1>1, <1>2
  <2>3. \A T \in SUBSET B : T \in F
    BY <2>2, FiniteGrow, Zenon
  <2> QED
    BY <2>1, <2>3
<1> QED
  BY <1>3 DEF F

\* Elements that count nothing may be left out.
LEMMA SumOfPart ==
  ASSUME NEW f, NEW S, IsFiniteSet(S), NEW A \in SUBSET S,
         \A x \in A : f[x] \in Int, \A x \in S \ A : f[x] = 0
  PROVE  SumFunctionOnSet(f, S) = SumFunctionOnSet(f, A)
<1> DEFINE B == S \ A
           F == {T \in SUBSET B : SumFunctionOnSet(f, A \union T) = SumFunctionOnSet(f, A)}
<1>0. IsFiniteSet(B) /\ SumFunctionOnSet(f, A) \in Int /\ \A x \in S : f[x] \in Int
  <2>1. \A x \in S : f[x] \in Int
    OBVIOUS
  <2> QED
    BY <2>1, FS_Subset, SumIsInt
<1>1. {} \in F
  <2>1. A \union {} = A
    OBVIOUS
  <2> QED
    BY <2>1
<1>2. ASSUME NEW T \in SUBSET B, NEW x \in B \ T, T \in F PROVE T \union {x} \in F
  <2>2. /\ A \union T \in SUBSET S /\ x \in S \ (A \union T)
        /\ A \union (T \union {x}) = (A \union T) \union {x}
    OBVIOUS
  <2>3. SumFunctionOnSet(f, (A \union T) \union {x}) = SumFunctionOnSet(f, A \union T) + f[x]
    BY <1>0, <2>2, SumAdd
  <2>4. f[x] = 0 /\ SumFunctionOnSet(f, A \union T) = SumFunctionOnSet(f, A)
    BY <1>2
  <2>5. SumFunctionOnSet(f, A \union (T \union {x})) = SumFunctionOnSet(f, A)
    <3> DEFINE a == SumFunctionOnSet(f, A)
    <3>1. a \in Int /\ SumFunctionOnSet(f, A \union (T \union {x})) = a + 0
      BY <1>0, <2>2, <2>3, <2>4
    <3> HIDE DEF a
    <3>2. SumFunctionOnSet(f, A \union (T \union {x})) = a
      BY <3>1
    <3> QED
      BY <3>2 DEF a
  <2> QED
    BY <2>5
<1>3. B \in F
  <2> HIDE DEF F, B
  <2> QED
    BY <1>0, <1>1, <1>2, FiniteGrow
<1>4. A \union B = S
  OBVIOUS
<1> HIDE DEF B
<1> QED
  BY <1>3, <1>4 DEF F

\* A sum of zeros is zero.
LEMMA SumOfZeros ==
  ASSUME NEW f, NEW S, IsFiniteSet(S), \A x \in S : f[x] = 0
  PROVE  SumFunctionOnSet(f, S) = 0
<1>1. {} \in SUBSET S /\ (\A x \in {} : f[x] \in Int) /\ \A x \in S \ {} : f[x] = 0
  OBVIOUS
<1>2. SumFunctionOnSet(f, S) = SumFunctionOnSet(f, {})
  BY <1>1, SumOfPart
<1> QED
  BY <1>2, SumEmpty

\* Naturals add up to nothing only if each of them is zero.
LEMMA SumOfNaturals ==
  ASSUME NEW f, NEW S, IsFiniteSet(S), \A x \in S : f[x] \in Nat
  PROVE  /\ SumFunctionOnSet(f, S) \in Nat
         /\ SumFunctionOnSet(f, S) = 0 => \A x \in S : f[x] = 0
<1> DEFINE F == {T \in SUBSET S : /\ SumFunctionOnSet(f, T) \in Nat
                                  /\ SumFunctionOnSet(f, T) = 0 => \A x \in T : f[x] = 0}
<1>1. {} \in F
  BY SumEmpty
<1>2. ASSUME NEW T \in SUBSET S, NEW x \in S \ T, T \in F PROVE T \union {x} \in F
  <2>1. SumFunctionOnSet(f, T \union {x}) = SumFunctionOnSet(f, T) + f[x]
    BY SumAdd
  <2>2. SumFunctionOnSet(f, T) \in Nat /\ f[x] \in Nat
    BY <1>2
  <2>3. SumFunctionOnSet(f, T \union {x}) \in Nat
    BY <2>1, <2>2
  <2>4. SumFunctionOnSet(f, T \union {x}) = 0 => f[x] = 0 /\ SumFunctionOnSet(f, T) = 0
    BY <2>1, <2>2
  <2> QED
    BY <1>2, <2>3, <2>4
<1> HIDE DEF F
<1>3. S \in F
  BY <1>1, <1>2, FiniteGrow
<1> QED
  BY <1>3 DEF F

\* The sum of what two functions take from the same places, one place further in one.
LEMMA SumShifted ==
  ASSUME NEW n \in Nat, NEW f, NEW g, \A i \in 1..n : f[i] \in Int /\ g[i + 1] = f[i]
  PROVE  SumFunctionOnSet(f, 1..n) = SumFunctionOnSet(g, 2..(n + 1))
<1> DEFINE known == {m \in 0..n : SumFunctionOnSet(f, 1..m) = SumFunctionOnSet(g, 2..(m + 1))}
<1>1. 0 \in known
  <2>1. 1..0 = {} /\ 2..(0 + 1) = {} /\ 0 \in 0..n
    OBVIOUS
  <2> QED
    BY <2>1, SumEmpty
<1>2. ASSUME NEW m \in 0..n, m \in known, m < n PROVE m + 1 \in known
  <2>1. /\ 1..(m + 1) = (1..m) \union {m + 1} /\ m + 1 \in 1..n /\ m + 1 \notin 1..m
        /\ 1..m \in SUBSET (1..n) /\ m + 1 \in (1..n) \ (1..m)
    BY <1>2
  <2>2. /\ 2..(m + 1 + 1) = (2..(m + 1)) \union {m + 1 + 1} /\ 2..(m + 1) \in SUBSET (2..(n + 1))
        /\ m + 1 + 1 \in (2..(n + 1)) \ (2..(m + 1))
    BY <1>2
  <2>3. SumFunctionOnSet(f, 1..(m + 1)) = SumFunctionOnSet(f, 1..m) + f[m + 1]
    <3>1. IsFiniteSet(1..n) /\ \A i \in 1..n : f[i] \in Int
      BY FS_Interval
    <3>2. SumFunctionOnSet(f, (1..m) \union {m + 1}) = SumFunctionOnSet(f, 1..m) + f[m + 1]
      <4>1. \A T \in SUBSET (1..n) : \A x \in (1..n) \ T :
              SumFunctionOnSet(f, T \union {x}) = SumFunctionOnSet(f, T) + f[x]
        BY <3>1, SumAdd
      <4> QED
        BY <2>1, <4>1
    <3> QED
      BY <2>1, <3>2
  <2>4. SumFunctionOnSet(g, 2..(m + 1 + 1)) = SumFunctionOnSet(g, 2..(m + 1)) + g[m + 1 + 1]
    <3>1. IsFiniteSet(2..(n + 1))
      BY FS_Interval
    <3>2. \A i \in 2..(n + 1) : g[i] \in Int
      <4> TAKE i \in 2..(n + 1)
      <4>1. i - 1 \in 1..n /\ (i - 1) + 1 = i
        OBVIOUS
      <4> QED
        BY <4>1
    <3>3. \A T \in SUBSET (2..(n + 1)) : \A x \in (2..(n + 1)) \ T :
            SumFunctionOnSet(g, T \union {x}) = SumFunctionOnSet(g, T) + g[x]
      BY <3>1, <3>2, SumAdd
    <3>4. SumFunctionOnSet(g, (2..(m + 1)) \union {m + 1 + 1}) = SumFunctionOnSet(g, 2..(m + 1)) + g[m + 1 + 1]
      BY <2>2, <3>3
    <3> QED
      BY <2>2, <3>4
  <2>5. g[m + 1 + 1] = f[m + 1]
    BY <2>1
  <2>6. m + 1 \in 0..n
    BY <2>1
  <2> QED
    BY <1>2, <2>3, <2>4, <2>5, <2>6
<1> HIDE DEF known
<1>3. n \in known
  BY <1>1, <1>2, UpTo
<1> QED
  BY <1>3 DEF known

-----------------------------------------------------------------------------
(* Exact fractions.                                                            *)

\* The function that Euclid's algorithm defines.
GcdRule(g) == g = [p \in Nat \X Nat |-> IF p[2] = 0 THEN p[1] ELSE g[<<p[2], p[1] % p[2]>>]]

Divisors(a, b) == {d \in Nat \ {0} : (\E k \in Int : a = d * k) /\ \E k \in Int : b = d * k}

\* Division with remainder.
LEMMA RemainderIs ==
  ASSUME NEW a \in Nat, NEW b \in Nat \ {0}
  PROVE  a \div b \in Nat /\ a % b \in 0..(b - 1) /\ a = b * (a \div b) + (a % b)
<1>1. a \div b \in Int /\ a % b \in 0..(b - 1)
  OBVIOUS
<1>2. a = b * (a \div b) + (a % b)
  BY SMTT(30)
<1>3. a \div b >= 0
  <2> DEFINE q == a \div b
             r == a % b
  <2>1. q \in Int /\ r \in 0..(b - 1) /\ a = b * q + r
    BY <1>1, <1>2
  <2> HIDE DEF q, r
  <2>2. q <= -1 => b * q <= -b
    BY <2>1, SMTT(30)
  <2>3. b * q \in Int
    BY <2>1
  <2>4. ~(q <= -1)
    BY <2>1, <2>2, <2>3
  <2> QED
    BY <2>1, <2>4 DEF q
<1> QED
  BY <1>1, <1>2, <1>3

\* Multiples of a divisor are closed under what Euclid's algorithm does to them.
LEMMA MultipleMinus ==
  ASSUME NEW d \in Int, NEW k \in Int, NEW l \in Int, NEW q \in Int
  PROVE  /\ d * k - (d * l) * q = d * (k - l * q)
         /\ (d * l) * q + d * k = d * (l * q + k)
BY SMTT(30)

\* A step of Euclid's algorithm keeps the common divisors.
LEMMA EuclidKeeps ==
  ASSUME NEW a \in Nat, NEW b \in Nat \ {0}
  PROVE  Divisors(a, b) = Divisors(b, a % b)
<1> DEFINE q == a \div b
           r == a % b
<1>1. q \in Int /\ r \in Int /\ a = b * q + r
  BY RemainderIs
<1> HIDE DEF q, r
<1>2. ASSUME NEW d \in Divisors(a, b) PROVE d \in Divisors(b, r)
  <2>1. PICK k \in Int : a = d * k
    BY DEF Divisors
  <2>2. PICK l \in Int : b = d * l
    BY DEF Divisors
  <2>3. d \in Nat \ {0}
    BY DEF Divisors
  <2>4. b * q \in Int
    BY <1>1
  <2>5. r = a - b * q
    BY <1>1, <2>4
  <2>6. r = d * (k - l * q)
    BY <1>1, <2>1, <2>2, <2>3, <2>5, MultipleMinus
  <2>7. k - l * q \in Int
    BY <1>1
  <2> QED
    BY <2>2, <2>3, <2>6, <2>7 DEF Divisors
<1>3. ASSUME NEW d \in Divisors(b, r) PROVE d \in Divisors(a, b)
  <2>1. PICK k \in Int : r = d * k
    BY DEF Divisors
  <2>2. PICK l \in Int : b = d * l
    BY DEF Divisors
  <2>3. d \in Nat \ {0}
    BY DEF Divisors
  <2>4. a = d * (l * q + k)
    BY <1>1, <2>1, <2>2, <2>3, MultipleMinus
  <2>5. l * q + k \in Int
    BY <1>1
  <2> QED
    BY <2>2, <2>3, <2>4, <2>5 DEF Divisors
<1> QED
  BY <1>2, <1>3 DEF r

\* It exists: the largest of the common divisors follows the rule.
LEMMA GcdIsDefined == GcdRule(GreatestDivisor)
<1> DEFINE largest(D) == CHOOSE d \in D : \A e \in D : e <= d
           w == [p \in Nat \X Nat |-> IF p[1] = 0 /\ p[2] = 0 THEN 0 ELSE largest(Divisors(p[1], p[2]))]
<1>1. ASSUME NEW p \in Nat \X Nat
      PROVE  w[p] = IF p[2] = 0 THEN p[1] ELSE w[<<p[2], p[1] % p[2]>>]
  <2>1. CASE p[2] = 0 /\ p[1] # 0
    <3> DEFINE a == p[1]
    <3>1. a \in Nat \ {0}
      BY <2>1
    <3>2. a \in Divisors(a, 0)
      <4>1. a = a * 1 /\ 0 = a * 0
        BY <3>1
      <4> HIDE DEF a
      <4> QED
        BY <3>1, <4>1 DEF Divisors
    <3>3. \A e \in Divisors(a, 0) : e <= a
      <4> TAKE e \in Divisors(a, 0)
      <4>1. e \in Nat \ {0} /\ \E k \in Int : a = e * k
        BY DEF Divisors
      <4>2. PICK k \in Int : a = e * k
        BY <4>1
      <4>3. k > 0
        <5>1. k <= 0 => e * k <= 0
          BY <4>1, <4>2, SMTT(30)
        <5> QED
          BY <3>1, <4>2, <5>1
      <4>4. e * k >= e
        BY <4>1, <4>3, SMTT(30)
      <4> QED
        BY <4>2, <4>4
    <3>4. \A d \in Divisors(a, 0) : (\A e \in Divisors(a, 0) : e <= d) => d = a
      <4>1. Divisors(a, 0) \subseteq Nat
        BY DEF Divisors
      <4> QED
        BY <3>1, <3>2, <3>3, <4>1
    <3>5. largest(Divisors(a, 0)) = a
      <4> HIDE DEF a
      <4> QED
        BY <3>2, <3>3, <3>4
    <3> QED
      BY <2>1, <3>5
  <2>2. CASE p[2] = 0 /\ p[1] = 0
    BY <2>2
  <2>3. CASE p[2] # 0
    <3> DEFINE r == p[1] % p[2]
    <3>1. r \in Nat /\ <<p[2], r>> \in Nat \X Nat
      BY <2>3
    <3>2. Divisors(p[1], p[2]) = Divisors(p[2], r)
      BY <2>3, EuclidKeeps
    <3> HIDE DEF r
    <3>3. w[<<p[2], r>>] = largest(Divisors(p[2], r)) /\ w[p] = largest(Divisors(p[1], p[2]))
      <4> HIDE DEF largest
      <4> QED
        BY <2>3, <3>1
    <3> QED
      BY <2>3, <3>2, <3>3 DEF r
  <2> QED
    BY <2>1, <2>2, <2>3
<1>2. GcdRule(w)
  <2>1. w = [p \in Nat \X Nat |-> w[p]]
    OBVIOUS
  <2> HIDE DEF w
  <2> QED
    BY <1>1, <2>1 DEF GcdRule
<1>3. GreatestDivisor = CHOOSE g : GcdRule(g)
  BY DEF GreatestDivisor, GcdRule
<1> HIDE DEF w
<1> QED
  BY <1>2, <1>3

\* Euclid's algorithm, one step at a time.
LEMMA GcdStep ==
  ASSUME NEW a \in Nat, NEW b \in Nat
  PROVE  GreatestDivisor[<<a, b>>] = IF b = 0 THEN a ELSE GreatestDivisor[<<b, a % b>>]
<1>1. <<a, b>> \in Nat \X Nat /\ <<a, b>>[1] = a /\ <<a, b>>[2] = b
  OBVIOUS
<1> QED
  BY <1>1, GcdIsDefined DEF GcdRule

\* It is a divisor of both numbers, and none only of two zeros.
Divides(g, a, b) ==
  /\ g \in Nat /\ (g = 0 => a = 0 /\ b = 0)
  /\ \E x, y \in Nat : a = g * x /\ b = g * y

\* Its result divides both numbers.
LEMMA GcdDivides ==
  ASSUME NEW n \in Nat, NEW m \in Nat
  PROVE  Divides(GreatestDivisor[<<m, n>>], m, n)
<1> DEFINE G(a, b) == GreatestDivisor[<<a, b>>]
           good == {b \in Nat : \A a \in Nat : Divides(G(a, b), a, b)}
           known == {k \in 0..n : 0..k \subseteq good}
<1>1. \A a \in Nat : Divides(G(a, 0), a, 0)
  <2> TAKE a \in Nat
  <2>1. G(a, 0) = a
    BY GcdStep
  <2>2. a = a * 1 /\ 0 = a * 0
    OBVIOUS
  <2> HIDE DEF G
  <2> QED
    BY <2>1, <2>2 DEF Divides
<1>2. 0 \in known
  <2>1. 0..0 = {0}
    OBVIOUS
  <2> HIDE DEF G
  <2> QED
    BY <1>1, <2>1
<1>3. ASSUME NEW k \in 0..n, k \in known, k < n PROVE k + 1 \in known
  <2>1. 0..(k + 1) = (0..k) \union {k + 1} /\ k + 1 \in 0..n /\ k + 1 \in Nat \ {0}
    BY <1>3
  <2>2. ASSUME NEW a \in Nat PROVE Divides(G(a, k + 1), a, k + 1)
    <3> DEFINE b == k + 1
               r == a % b
               q == a \div b
               g == G(b, r)
    <3>0. b \in Nat \ {0} /\ b - 1 = k
      BY <2>1
    <3>1. q \in Nat /\ r \in 0..k /\ a = b * q + r /\ b \in Nat \ {0}
      <4> HIDE DEF b
      <4>1. q \in Nat /\ r \in 0..(b - 1) /\ a = b * q + r
        BY <3>0, RemainderIs
      <4> QED
        BY <3>0, <4>1
    <3>2. G(a, b) = g
      BY <2>1, GcdStep
    <3>3. Divides(g, b, r)
      <4> HIDE DEF G
      <4> QED
        BY <1>3, <3>1
    <3> HIDE DEF g, r, q
    <3>4. PICK x \in Nat, y \in Nat : b = g * x /\ r = g * y
      BY <3>3 DEF Divides
    <3>5. g \in Nat /\ g # 0
      BY <3>1, <3>3 DEF Divides
    <3> HIDE DEF b
    <3>6. a = g * (x * q + y) /\ x * q + y \in Nat
      <4>1. (g * x) * q + g * y = g * (x * q + y)
        BY <3>1, <3>4, <3>5, MultipleMinus
      <4>2. x * q + y \in Nat
        BY <3>1, <3>4
      <4> QED
        BY <3>1, <3>4, <4>1, <4>2
    <3>7. Divides(g, a, b)
      BY <3>4, <3>5, <3>6 DEF Divides
    <3> QED
      BY <3>2, <3>7 DEF b
  <2> HIDE DEF G
  <2> QED
    BY <1>3, <2>1, <2>2
<1> HIDE DEF known
<1>4. n \in known
  BY <1>2, <1>3, UpTo
<1> QED
  BY <1>4 DEF known

\* It grows with its two numbers.
LEMMA RemainderScales ==
  ASSUME NEW k \in Nat \ {0}, NEW a \in Nat, NEW b \in Nat \ {0}
  PROVE  (k * a) % (k * b) = k * (a % b)
<1> DEFINE q == a \div b
           r == a % b
<1>1. q \in Nat /\ r \in 0..(b - 1) /\ a = b * q + r
  BY RemainderIs
<1> HIDE DEF q, r
<1>2. k * a \in Nat /\ k * b \in Nat \ {0} /\ k * r \in Nat /\ k * r < k * b
  BY <1>1, SMTT(30)
<1>3. k * a = (k * b) * q + k * r
  BY <1>1, SMTT(30)
<1>4. ASSUME NEW u \in Nat, NEW v \in Nat \ {0}, NEW w \in Nat, w < v, u = v * q + w
      PROVE  u % v = w
  <2> DEFINE Q == u \div v
             R == u % v
  <2>1. Q \in Nat /\ R \in 0..(v - 1) /\ u = v * Q + R
    BY RemainderIs
  <2> HIDE DEF Q, R
  <2>2. v * q + w = v * Q + R
    BY <1>4, <2>1
  <2>3. ~(Q >= q + 1)
    <3>1. SUFFICES ASSUME Q >= q + 1 PROVE FALSE
      OBVIOUS
    <3>2. v * Q >= v * (q + 1)
      BY <1>1, <2>1, <3>1, SMTT(30)
    <3>3. v * (q + 1) = v * q + v
      BY <1>1, SMTT(30)
    <3>4. v * Q \in Int /\ v * q \in Int
      BY <1>1, <2>1
    <3> QED
      BY <1>4, <2>1, <2>2, <3>2, <3>3, <3>4
  <2>4. ~(q >= Q + 1)
    <3>1. SUFFICES ASSUME q >= Q + 1 PROVE FALSE
      OBVIOUS
    <3>2. v * q >= v * (Q + 1)
      BY <1>1, <2>1, <3>1, SMTT(30)
    <3>3. v * (Q + 1) = v * Q + v
      BY <2>1, SMTT(30)
    <3>4. v * Q \in Int /\ v * q \in Int
      BY <1>1, <2>1
    <3> QED
      BY <1>4, <2>1, <2>2, <3>2, <3>3, <3>4
  <2>5. Q = q
    BY <1>1, <2>1, <2>3, <2>4
  <2>6. v * q \in Int
    BY <1>1
  <2> QED
    BY <2>1, <2>2, <2>5, <2>6 DEF R
<1>5. (k * a) % (k * b) = k * r
  BY <1>2, <1>3, <1>4
<1> QED
  BY <1>5 DEF r

\* The greatest divisor of two multiples is the multiple of the greatest divisor.
LEMMA GcdScales ==
  ASSUME NEW n \in Nat, NEW m \in Nat, NEW c \in Nat \ {0}
  PROVE  GreatestDivisor[<<c * m, c * n>>] = c * GreatestDivisor[<<m, n>>]
<1> DEFINE G(a, b) == GreatestDivisor[<<a, b>>]
           good == {b \in Nat : \A a \in Nat : G(c * a, c * b) = c * G(a, b)}
           known == {k \in 0..n : 0..k \subseteq good}
<1>0. \A a, b \in Nat : c * a \in Nat /\ (c * b = 0 <=> b = 0)
  <2> TAKE a, b \in Nat
  <2>1. b > 0 => c * b > 0
    BY SMTT(30)
  <2> QED
    BY <2>1
<1>1. \A a \in Nat : G(c * a, c * 0) = c * G(a, 0)
  <2> TAKE a \in Nat
  <2>1. G(a, 0) = a /\ G(c * a, 0) = c * a /\ c * 0 = 0
    BY <1>0, GcdStep
  <2> HIDE DEF G
  <2> QED
    BY <2>1
<1>2. 0 \in known
  <2>1. 0..0 = {0}
    OBVIOUS
  <2> HIDE DEF G
  <2> QED
    BY <1>1, <2>1
<1>3. ASSUME NEW k \in 0..n, k \in known, k < n PROVE k + 1 \in known
  <2>1. 0..(k + 1) = (0..k) \union {k + 1} /\ k + 1 \in 0..n /\ k + 1 \in Nat \ {0}
    BY <1>3
  <2>2. ASSUME NEW a \in Nat PROVE G(c * a, c * (k + 1)) = c * G(a, k + 1)
    <3> DEFINE b == k + 1
               r == a % b
    <3>1. r \in 0..k /\ r \in Nat /\ b \in Nat \ {0} /\ b \in Nat
      BY <2>1, RemainderIs
    <3>2. G(a, b) = G(b, r)
      BY <2>1, GcdStep
    <3>3. G(c * a, c * b) = G(c * b, (c * a) % (c * b))
      <4> HIDE DEF b
      <4>1. c * a \in Nat /\ c * b \in Nat /\ c * b # 0
        BY <1>0, <3>1
      <4> QED
        BY <4>1, GcdStep
    <3>4. (c * a) % (c * b) = c * r
      <4> HIDE DEF b
      <4> QED
        BY <3>1, RemainderScales DEF r
    <3>5. G(c * b, c * r) = c * G(b, r)
      <4> HIDE DEF G, b, r
      <4> QED
        BY <1>3, <3>1
    <3> HIDE DEF G, b, r
    <3>6. G(c * a, c * b) = c * G(a, b)
      BY <3>2, <3>3, <3>4, <3>5
    <3> QED
      BY <3>6 DEF b
  <2> HIDE DEF G
  <2> QED
    BY <1>3, <2>1, <2>2
<1> HIDE DEF known
<1>4. n \in known
  BY <1>2, <1>3, UpTo
<1> QED
  BY <1>4 DEF known

\* <<x, y>> is the fraction of n and d, g what they have in common.
Reduced(n, d, g, x, y) == n = g * x /\ d = g * y /\ Fraction(n, d) = <<x, y>>

\* A fraction in lowest terms is its numbers over their greatest divisor.
LEMMA FractionReduces ==
  ASSUME NEW n \in Int, NEW d \in Nat \ {0}
  PROVE  \E g \in Nat \ {0} : \E x \in Int : \E y \in Nat \ {0} : Reduced(n, d, g, x, y)
<1> DEFINE g == GreatestDivisor[<<Abs(n), Abs(d)>>]
<1>1. Abs(n) \in Nat /\ Abs(d) = d /\ d \in Nat /\ (n = Abs(n) \/ n = -Abs(n))
  BY DEF Abs
<1>2. Divides(g, Abs(n), d)
  <2> HIDE DEF Divides
  <2> QED
    BY <1>1, GcdDivides
<1>3. Fraction(n, d) = <<n \div g, d \div g>>
  <2>1. 1 * n = n /\ 1 * d = d /\ ~(d < 0)
    BY <1>1
  <2> QED
    BY <2>1 DEF Fraction
<1> HIDE DEF g
<1>4. g \in Nat \ {0}
  BY <1>1, <1>2 DEF Divides
<1>5. PICK u \in Nat, y \in Nat : Abs(n) = g * u /\ d = g * y
  BY <1>2 DEF Divides
<1> DEFINE x == IF n = Abs(n) THEN u ELSE -u
<1>6. x \in Int /\ n = g * x
  <2>1. g * (-u) = -(g * u)
    BY <1>4, SMTT(30)
  <2> QED
    BY <1>1, <1>5, <2>1
<1>7. y # 0
  <2>1. g * 0 = 0
    BY <1>4
  <2> QED
    BY <1>1, <1>5, <2>1
<1> HIDE DEF x
<1>8. \A z \in Int : (g * z) \div g = z
  <2> TAKE z \in Int
  <2> DEFINE q == (g * z) \div g
             r == (g * z) % g
  <2>1. q \in Int /\ r \in 0..(g - 1)
    BY <1>4
  <2>2. g * z = g * q + r
    BY <1>4, SMTT(30)
  <2> HIDE DEF q, r
  <2>3. q >= z + 1 => g * q >= g * z + g
    <3>1. g * (z + 1) = g * z + g
      BY <1>4, SMTT(30)
    <3>2. q >= z + 1 => g * q >= g * (z + 1)
      BY <1>4, <2>1, SMTT(30)
    <3> QED
      BY <3>1, <3>2
  <2>4. z >= q + 1 => g * z >= g * q + g
    <3>1. g * (q + 1) = g * q + g
      BY <1>4, <2>1, SMTT(30)
    <3>2. z >= q + 1 => g * z >= g * (q + 1)
      BY <1>4, <2>1, SMTT(30)
    <3> QED
      BY <3>1, <3>2
  <2>5. g * q \in Int /\ g * z \in Int
    BY <1>4, <2>1
  <2>6. ~(q >= z + 1) /\ ~(z >= q + 1)
    BY <1>4, <2>1, <2>2, <2>3, <2>4, <2>5
  <2> QED
    BY <2>1, <2>6 DEF q
<1>9. n \div g = x /\ d \div g = y
  BY <1>5, <1>6, <1>8
<1>10. Reduced(n, d, g, x, y)
  BY <1>3, <1>5, <1>6, <1>9 DEF Reduced
<1> QED
  BY <1>4, <1>5, <1>6, <1>7, <1>10

\* Scaling both parts of a fraction changes nothing.
LEMMA FractionScales ==
  ASSUME NEW n \in Int, NEW d \in Nat \ {0}, NEW k \in Nat \ {0}
  PROVE  Fraction(k * n, k * d) = Fraction(n, d)
<1> DEFINE a == Abs(n)
           g == GreatestDivisor[<<a, d>>]
           G == GreatestDivisor[<<k * a, k * d>>]
<1>1. a \in Nat /\ d \in Nat /\ Abs(d) = d /\ ~(d < 0)
  BY DEF Abs
<1>2. k * n \in Int /\ k * d \in Nat /\ k * d > 0 /\ Abs(k * n) = k * a
  <2>1. k * d > 0 /\ k * d \in Int /\ k * n \in Int
    BY SMTT(30)
  <2>2. n >= 0 => k * n >= 0
    BY SMTT(30)
  <2>3. n < 0 => k * n < 0 /\ -(k * n) = k * (-n)
    BY SMTT(30)
  <2> QED
    BY <2>1, <2>2, <2>3 DEF Abs
<1>3. G = k * g
  <2> HIDE DEF a
  <2> QED
    BY <1>1, GcdScales
<1>4. Fraction(k * n, k * d) = <<(k * n) \div G, (k * d) \div G>>
  <2>1. Abs(k * d) = k * d /\ ~(k * d < 0) /\ 1 * (k * n) = k * n /\ 1 * (k * d) = k * d
    BY <1>2 DEF Abs
  <2> QED
    BY <1>2, <2>1 DEF Fraction
<1>5. Fraction(n, d) = <<n \div g, d \div g>>
  <2>1. 1 * n = n /\ 1 * d = d
    OBVIOUS
  <2> QED
    BY <1>1, <2>1 DEF Fraction
<1>6. Divides(g, a, d)
  BY <1>1, GcdDivides
<1> HIDE DEF g, G
<1>7. g \in Nat \ {0}
  BY <1>1, <1>6 DEF Divides
<1>8. \A z \in Int : (k * z) \div (k * g) = z \div g
  <2> TAKE z \in Int
  <2> DEFINE q == z \div g
             r == z % g
             Q == (k * z) \div (k * g)
             R == (k * z) % (k * g)
  <2>0. k * g \in Nat \ {0} /\ k * z \in Int
    BY <1>7, SMTT(30)
  <2>1. q \in Int /\ r \in 0..(g - 1)
    BY <1>7
  <2>2. z = g * q + r
    BY <1>7, SMTT(30)
  <2>3. Q \in Int /\ R \in 0..(k * g - 1)
    BY <2>0
  <2>4. k * z = (k * g) * Q + R
    <3> DEFINE u == k * z
               v == k * g
    <3> HIDE DEF u, v
    <3>1. u \in Int /\ v \in Nat \ {0}
      BY <2>0 DEF u, v
    <3>2. u = v * (u \div v) + (u % v)
      BY <3>1, SMTT(30)
    <3> QED
      BY <3>2 DEF u, v
  <2> HIDE DEF q, r, Q, R
  <2>5. k * z = (k * g) * q + k * r
    BY <1>7, <2>1, <2>2, SMTT(30)
  <2>6. k * r \in Nat /\ k * r < k * g
    BY <1>7, <2>1, SMTT(30)
  <2> DEFINE v == k * g
             w == k * r
  <2> HIDE DEF v, w
  <2>7. v \in Nat \ {0} /\ w \in Nat /\ w < v /\ R \in 0..(v - 1) /\ v * Q + R = v * q + w
    BY <2>0, <2>3, <2>4, <2>5, <2>6 DEF v, w
  <2>8. Q >= q + 1 => v * Q >= v * q + v
    <3>1. v * (q + 1) = v * q + v
      BY <2>1, <2>7, SMTT(30)
    <3>2. Q >= q + 1 => v * Q >= v * (q + 1)
      BY <2>1, <2>3, <2>7, SMTT(30)
    <3> QED
      BY <3>1, <3>2
  <2>9. q >= Q + 1 => v * q >= v * Q + v
    <3>1. v * (Q + 1) = v * Q + v
      BY <2>3, <2>7, SMTT(30)
    <3>2. q >= Q + 1 => v * q >= v * (Q + 1)
      BY <2>1, <2>3, <2>7, SMTT(30)
    <3> QED
      BY <3>1, <3>2
  <2>10. v * q \in Int /\ v * Q \in Int
    BY <2>1, <2>3, <2>7
  <2>11. ~(Q >= q + 1) /\ ~(q >= Q + 1)
    BY <2>1, <2>3, <2>7, <2>8, <2>9, <2>10
  <2>12. Q = q
    BY <2>1, <2>3, <2>11
  <2> QED
    BY <2>12 DEF q, Q
<1> QED
  <2>1. (k * n) \div G = n \div g /\ (k * d) \div G = d \div g
    BY <1>1, <1>3, <1>8
  <2> QED
    BY <1>4, <1>5, <2>1

\* Two fractions are the same if their cross products are.
THEOREM FractionsAreSame ==
  ASSUME NEW n \in Int, NEW d \in Nat \ {0}, NEW m \in Int, NEW e \in Nat \ {0}
  PROVE  Fraction(n, d) = Fraction(m, e) <=> n * e = m * d
<1>1. ASSUME n * e = m * d PROVE Fraction(n, d) = Fraction(m, e)
  <2>1. Fraction(e * n, e * d) = Fraction(n, d)
    BY FractionScales
  <2>2. Fraction(d * m, d * e) = Fraction(m, e)
    BY FractionScales
  <2>3. e * n = d * m /\ e * d = d * e
    <3>1. e * n = n * e /\ d * m = m * d /\ e * d = d * e
      OBVIOUS
    <3> QED
      BY <1>1, <3>1
  <2> QED
    BY <2>1, <2>2, <2>3
<1>2. ASSUME Fraction(n, d) = Fraction(m, e) PROVE n * e = m * d
  <2>1. PICK g \in Nat \ {0}, x \in Int, y \in Nat \ {0} :
          n = g * x /\ d = g * y /\ Fraction(n, d) = <<x, y>>
    <3>1. \E g \in Nat \ {0} : \E x \in Int : \E y \in Nat \ {0} : Reduced(n, d, g, x, y)
      BY FractionReduces
    <3> QED
      BY <3>1 DEF Reduced
  <2>2. PICK h \in Nat \ {0}, u \in Int, v \in Nat \ {0} :
          m = h * u /\ e = h * v /\ Fraction(m, e) = <<u, v>>
    <3>1. \E h \in Nat \ {0} : \E u \in Int : \E v \in Nat \ {0} : Reduced(m, e, h, u, v)
      BY FractionReduces
    <3> QED
      BY <3>1 DEF Reduced
  <2>3. x = u /\ y = v
    BY <1>2, <2>1, <2>2
  <2>4. (g * x) * (h * y) = (h * x) * (g * y)
    BY SMTT(30)
  <2> QED
    BY <2>1, <2>2, <2>3, <2>4
<1> QED
  BY <1>1, <1>2

\* A fraction in lowest terms is made of its own parts.
IsRatio(r) == \E n \in Int : \E d \in Nat \ {0} : r = Fraction(n, d)

\* A ratio is the fraction of its own parts.
LEMMA RatioParts ==
  ASSUME NEW r, IsRatio(r)
  PROVE  r[1] \in Int /\ r[2] \in Nat \ {0} /\ r = Fraction(r[1], r[2]) /\ r = <<r[1], r[2]>>
<1>1. PICK n \in Int, d \in Nat \ {0} : r = Fraction(n, d)
  BY DEF IsRatio
<1>2. PICK g \in Nat \ {0}, x \in Int, y \in Nat \ {0} :
        n = g * x /\ d = g * y /\ Fraction(n, d) = <<x, y>>
  <2>1. \E g \in Nat \ {0} : \E x \in Int : \E y \in Nat \ {0} : Reduced(n, d, g, x, y)
    BY FractionReduces
  <2> QED
    BY <2>1 DEF Reduced
<1>3. Fraction(g * x, g * y) = Fraction(x, y)
  BY FractionScales
<1> QED
  BY <1>1, <1>2, <1>3

\* Every fraction with a positive denominator is a ratio.
LEMMA FractionIsRatio ==
  \A n \in Int : \A d \in Nat \ {0} : IsRatio(Fraction(n, d))
BY DEF IsRatio

\* A whole number is the fraction over one.
LEMMA WholeIs ==
  ASSUME NEW n \in Int
  PROVE  Whole(n) = Fraction(n, 1) /\ IsRatio(Whole(n)) /\ Whole(n)[1] = n /\ Whole(n)[2] = 1
<1>0. 1 \in Nat \ {0}
  OBVIOUS
<1>1. PICK g \in Nat \ {0}, x \in Int, y \in Nat \ {0} : n = g * x /\ 1 = g * y /\ Fraction(n, 1) = <<x, y>>
  <2>1. \E g \in Nat \ {0} : \E x \in Int : \E y \in Nat \ {0} : Reduced(n, 1, g, x, y)
    BY <1>0, FractionReduces
  <2> QED
    BY <2>1 DEF Reduced
<1>2. g = 1 /\ y = 1
  <2>1. g > 1 => g * y > y
    BY SMTT(30)
  <2>2. ~(g > 1)
    BY <1>1, <2>1
  <2>3. g = 1
    BY <2>2
  <2> QED
    BY <1>1, <2>3
<1>3. n = x
  BY <1>1, <1>2
<1>4. Whole(n) = Fraction(n, 1)
  BY <1>1, <1>2, <1>3 DEF Whole
<1>5. 1 \in Nat \ {0}
  OBVIOUS
<1> QED
  BY <1>4, <1>5 DEF Whole, IsRatio

\* Arithmetic on fractions of any terms.
LEMMA FractionPlus ==
  ASSUME NEW a \in Int, NEW b \in Nat \ {0}, NEW c \in Int, NEW d \in Nat \ {0}
  PROVE  /\ Plus(Fraction(a, b), Fraction(c, d)) = Fraction(a * d + c * b, b * d)
         /\ Minus(Fraction(a, b), Fraction(c, d)) = Fraction(a * d - c * b, b * d)
         /\ Times(Fraction(a, b), Fraction(c, d)) = Fraction(a * c, b * d)
<1>1. PICK g \in Nat \ {0}, x \in Int, y \in Nat \ {0} : a = g * x /\ b = g * y /\ Fraction(a, b) = <<x, y>>
  <2>1. \E g \in Nat \ {0} : \E x \in Int : \E y \in Nat \ {0} : Reduced(a, b, g, x, y)
    BY FractionReduces
  <2> QED
    BY <2>1 DEF Reduced
<1>2. PICK h \in Nat \ {0}, u \in Int, v \in Nat \ {0} : c = h * u /\ d = h * v /\ Fraction(c, d) = <<u, v>>
  <2>1. \E h \in Nat \ {0} : \E u \in Int : \E v \in Nat \ {0} : Reduced(c, d, h, u, v)
    BY FractionReduces
  <2> QED
    BY <2>1 DEF Reduced
<1> DEFINE k == g * h
           e == y * v
<1>3. k \in Nat \ {0} /\ e \in Nat \ {0}
  <2>1. g * h > 0 /\ y * v > 0
    BY SMTT(30)
  <2> QED
    BY <2>1
<1>4. b * d = k * e
  <2>1. (g * y) * (h * v) = (g * h) * (y * v)
    BY SMTT(30)
  <2> QED
    BY <1>1, <1>2, <2>1
<1>5. a * d + c * b = k * (x * v + u * y) /\ a * d - c * b = k * (x * v - u * y) /\ a * c = k * (x * u)
  <2>1. /\ (g * x) * (h * v) + (h * u) * (g * y) = (g * h) * (x * v + u * y)
        /\ (g * x) * (h * v) - (h * u) * (g * y) = (g * h) * (x * v - u * y)
        /\ (g * x) * (h * u) = (g * h) * (x * u)
    BY SMTT(30)
  <2> QED
    BY <1>1, <1>2, <2>1
<1>6. x * v + u * y \in Int /\ x * v - u * y \in Int /\ x * u \in Int
  OBVIOUS
<1> HIDE DEF k
<1>7. /\ Plus(Fraction(a, b), Fraction(c, d)) = Fraction(x * v + u * y, e)
      /\ Minus(Fraction(a, b), Fraction(c, d)) = Fraction(x * v - u * y, e)
      /\ Times(Fraction(a, b), Fraction(c, d)) = Fraction(x * u, e)
  BY <1>1, <1>2 DEF Plus, Minus, Times
<1> HIDE DEF e
<1>8. \A z \in Int : Fraction(k * z, k * e) = Fraction(z, e)
  BY <1>3, FractionScales
<1> DEFINE p == x * v + u * y
           q == x * v - u * y
           r == x * u
<1>9. /\ Fraction(k * p, k * e) = Fraction(p, e)
      /\ Fraction(k * q, k * e) = Fraction(q, e)
      /\ Fraction(k * r, k * e) = Fraction(r, e)
  BY <1>6, <1>8
<1>10. a * d + c * b = k * p /\ a * d - c * b = k * q /\ a * c = k * r
  BY <1>5
<1>11. /\ Plus(Fraction(a, b), Fraction(c, d)) = Fraction(p, e)
       /\ Minus(Fraction(a, b), Fraction(c, d)) = Fraction(q, e)
       /\ Times(Fraction(a, b), Fraction(c, d)) = Fraction(r, e)
  BY <1>7
<1> HIDE DEF p, q, r
<1> QED
  BY <1>4, <1>9, <1>10, <1>11

\* Division of fractions, by one that is positive.
LEMMA FractionOver ==
  ASSUME NEW a \in Int, NEW b \in Nat \ {0}, NEW c \in Nat \ {0}, NEW d \in Nat \ {0}
  PROVE  Over(Fraction(a, b), Fraction(c, d)) = Fraction(a * d, b * c)
<1>0. c \in Int
  OBVIOUS
<1>1. PICK g \in Nat \ {0}, x \in Int, y \in Nat \ {0} : a = g * x /\ b = g * y /\ Fraction(a, b) = <<x, y>>
  <2>1. \E g \in Nat \ {0} : \E x \in Int : \E y \in Nat \ {0} : Reduced(a, b, g, x, y)
    BY FractionReduces
  <2> QED
    BY <2>1 DEF Reduced
<1>2. PICK h \in Nat \ {0}, u \in Int, v \in Nat \ {0} : c = h * u /\ d = h * v /\ Fraction(c, d) = <<u, v>>
  <2>1. \E h \in Nat \ {0} : \E u \in Int : \E v \in Nat \ {0} : Reduced(c, d, h, u, v)
    BY <1>0, FractionReduces
  <2> QED
    BY <2>1 DEF Reduced
<1>3. u \in Nat \ {0}
  <2>1. u <= 0 => h * u <= 0
    BY SMTT(30)
  <2> QED
    BY <1>2, <2>1
<1> DEFINE k == g * h
           e == y * u
<1>4. k \in Nat \ {0} /\ e \in Nat \ {0}
  <2>1. g * h > 0 /\ y * u > 0
    BY <1>3, SMTT(30)
  <2> QED
    BY <1>3, <2>1
<1>5. b * c = k * e /\ a * d = k * (x * v)
  <2>1. (g * y) * (h * u) = (g * h) * (y * u) /\ (g * x) * (h * v) = (g * h) * (x * v)
    BY <1>3, SMTT(30)
  <2> QED
    BY <1>1, <1>2, <2>1
<1>6. x * v \in Int
  OBVIOUS
<1> HIDE DEF k
<1>7. Over(Fraction(a, b), Fraction(c, d)) = Fraction(x * v, e)
  BY <1>1, <1>2 DEF Over
<1> HIDE DEF e
<1> DEFINE p == x * v
<1>8. p \in Int /\ a * d = k * p /\ Over(Fraction(a, b), Fraction(c, d)) = Fraction(p, e)
  BY <1>5, <1>6, <1>7
<1> HIDE DEF p
<1>9. Fraction(k * p, k * e) = Fraction(p, e)
  BY <1>4, <1>8, FractionScales
<1> QED
  BY <1>5, <1>8, <1>9

\* Fractions compare as their cross products do.
LEMMA FractionCompares ==
  ASSUME NEW a \in Int, NEW b \in Nat \ {0}, NEW c \in Int, NEW d \in Nat \ {0}
  PROVE  /\ AtMost(Fraction(a, b), Fraction(c, d)) <=> a * d <= c * b
         /\ Below(Fraction(a, b), Fraction(c, d)) <=> a * d < c * b
<1>1. PICK g \in Nat \ {0}, x \in Int, y \in Nat \ {0} : a = g * x /\ b = g * y /\ Fraction(a, b) = <<x, y>>
  <2>1. \E g \in Nat \ {0} : \E x \in Int : \E y \in Nat \ {0} : Reduced(a, b, g, x, y)
    BY FractionReduces
  <2> QED
    BY <2>1 DEF Reduced
<1>2. PICK h \in Nat \ {0}, u \in Int, v \in Nat \ {0} : c = h * u /\ d = h * v /\ Fraction(c, d) = <<u, v>>
  <2>1. \E h \in Nat \ {0} : \E u \in Int : \E v \in Nat \ {0} : Reduced(c, d, h, u, v)
    BY FractionReduces
  <2> QED
    BY <2>1 DEF Reduced
<1> DEFINE k == g * h
           p == x * v
           q == u * y
<1>3. k \in Nat \ {0} /\ p \in Int /\ q \in Int
  <2>1. g * h > 0
    BY SMTT(30)
  <2> QED
    BY <2>1
<1>4. a * d = k * p /\ c * b = k * q
  <2>1. (g * x) * (h * v) = (g * h) * (x * v) /\ (h * u) * (g * y) = (g * h) * (u * y)
    BY SMTT(30)
  <2> QED
    BY <1>1, <1>2, <2>1
<1>5. /\ AtMost(Fraction(a, b), Fraction(c, d)) <=> p <= q
      /\ Below(Fraction(a, b), Fraction(c, d)) <=> p < q
  BY <1>1, <1>2 DEF AtMost, Below
<1> HIDE DEF k, p, q
<1>6. (p <= q <=> k * p <= k * q) /\ (p < q <=> k * p < k * q)
  <2>1. p <= q => k * p <= k * q
    BY <1>3, SMTT(30)
  <2>2. p < q => k * p < k * q
    BY <1>3, SMTT(30)
  <2>3. q <= p => k * q <= k * p
    BY <1>3, SMTT(30)
  <2>4. q < p => k * q < k * p
    BY <1>3, SMTT(30)
  <2>5. k * p \in Int /\ k * q \in Int
    BY <1>3
  <2> QED
    BY <1>3, <2>1, <2>2, <2>3, <2>4, <2>5
<1> QED
  BY <1>4, <1>5, <1>6
=============================================================================
