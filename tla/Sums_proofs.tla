---------------------------- MODULE Sums_proofs ----------------------------
(***************************************************************************)
(* Sums over functions, as the folds of the models compute them (positions *)
(* of outputs, lengths of records): the sum over nothing is zero, and an   *)
(* element adds its value, whatever order the fold takes the elements in.  *)
(* The proofs pick a least counterexample instead of an induction.         *)
(***************************************************************************)
EXTENDS Functions, Integers, FiniteSetTheorems, WellFoundedInduction, TLAPS

Total(f, S) == FoldFunctionOnSet(+, 0, f, S)

\* A non-empty set of numbers has a least one.
LEMMA LeastNumber ==
  ASSUME NEW C \in SUBSET Nat, C # {}
  PROVE  \E m \in C : \A n \in C : m <= n
<1>1. PICK m \in C : \A n \in C : ~(<<n, m>> \in OpToRel(<, Nat))
  BY NatLessThanWellFounded, WFMin, Zenon
<1>2. ASSUME NEW n \in C
      PROVE  m <= n
  <2>1. n \in Nat /\ m \in Nat
    OBVIOUS
  <2>2. ~(n < m)
    BY <1>1, <2>1 DEF OpToRel
  <2>. QED
    BY <2>1, <2>2
<1>. QED
  BY <1>2

-----------------------------------------------------------------------------
(* The equation of the fold has exactly one solution.                      *)

Taken(s) == CHOOSE x \in s : TRUE
SumTurn(f, g, s) == IF s = {} THEN 0 ELSE f[Taken(s)] + g[s \ {Taken(s)}]
Solves(f, S, g) == g = [s \in SUBSET S |-> SumTurn(f, g, s)]

LEMMA TotalIsSolution ==
  ASSUME NEW f, NEW S
  PROVE  Total(f, S) = (CHOOSE g : Solves(f, S, g))[S]
BY DEF Total, FoldFunctionOnSet, MapThenFoldSet, Solves, SumTurn, Taken

LEMMA TakenIn ==
  ASSUME NEW s, s # {}
  PROVE  Taken(s) \in s
BY DEF Taken

\* Solved up to the sets of n elements.
SolvesUpTo(f, S, n, g) ==
  g = [s \in {t \in SUBSET S : Cardinality(t) <= n} |-> SumTurn(f, g, s)]

LEMMA Solvable ==
  ASSUME NEW f, NEW S, IsFiniteSet(S)
  PROVE  \E g : Solves(f, S, g)
<1> DEFINE C == {n \in Nat : ~ \E g : SolvesUpTo(f, S, n, g)}
<1>0. \A t \in SUBSET S : IsFiniteSet(t) /\ Cardinality(t) \in Nat
                          /\ Cardinality(t) <= Cardinality(S)
  BY FS_Subset, FS_CardinalityType
<1>1. C = {}
  <2>. SUFFICES ASSUME C # {}
                PROVE  FALSE
    OBVIOUS
  <2>1. PICK m \in C : \A n \in C : m <= n
    <3>. HIDE DEF C
    <3>1. C \subseteq Nat
      BY DEF C
    <3>. QED
      BY <3>1, LeastNumber
  <2>2. m # 0
    <3>. SUFFICES ASSUME m = 0
                  PROVE  FALSE
      OBVIOUS
    <3>. DEFINE g == [s \in {t \in SUBSET S : Cardinality(t) <= 0} |-> 0]
    <3>1. \A s \in SUBSET S : Cardinality(s) <= 0 => s = {}
      BY <1>0, FS_EmptySet
    <3>2. SolvesUpTo(f, S, 0, g)
      BY <3>1 DEF SolvesUpTo, SumTurn
    <3>. QED
      BY <3>2
  <2>3. PICK h : SolvesUpTo(f, S, m - 1, h)
    BY <2>1, <2>2
  <2>. DEFINE D == {t \in SUBSET S : Cardinality(t) <= m}
              g == [s \in D |-> SumTurn(f, h, s)]
  <2>4. ASSUME NEW s \in D
        PROVE  SumTurn(f, h, s) = SumTurn(f, g, s)
    <3>1. CASE s = {}
      BY <3>1 DEF SumTurn
    <3>2. CASE s # {}
      <4>. DEFINE u == s \ {Taken(s)}
      <4>1. u \in SUBSET S /\ Cardinality(u) = Cardinality(s) - 1
        BY <3>2, <1>0, TakenIn, FS_RemoveElement
      <4>2. Cardinality(u) <= m - 1 /\ u \in D
        BY <4>1, <1>0
      <4>3. h[u] = SumTurn(f, h, u)
        BY <4>1, <4>2, <2>3 DEF SolvesUpTo
      <4>4. g[u] = SumTurn(f, h, u)
        BY <4>2
      <4>. QED
        BY <3>2, <4>3, <4>4 DEF SumTurn
    <3>. QED
      BY <3>1, <3>2
  <2>5. g = [s \in D |-> SumTurn(f, g, s)]
    BY <2>4
  <2>6. SolvesUpTo(f, S, m, g)
    BY <2>5 DEF SolvesUpTo
  <2>. QED
    BY <2>6
<1>2. PICK g : SolvesUpTo(f, S, Cardinality(S), g)
  BY <1>1, FS_CardinalityType
<1>3. {t \in SUBSET S : Cardinality(t) <= Cardinality(S)} = SUBSET S
  BY <1>0
<1>4. Solves(f, S, g)
  BY <1>2, <1>3 DEF SolvesUpTo, Solves
<1>. QED
  BY <1>4

\* Two solutions, over different sets and for functions that agree on the
\* smaller one, agree there.
LEMMA SolutionsAgree ==
  ASSUME NEW f, NEW e, NEW S, NEW R, IsFiniteSet(S), R \subseteq S,
         \A x \in R : f[x] = e[x],
         NEW g, Solves(f, S, g), NEW h, Solves(e, R, h)
  PROVE  g[R] = h[R]
<1> DEFINE C == {n \in Nat : \E s \in SUBSET R : Cardinality(s) = n /\ g[s] # h[s]}
<1>0. \A t \in SUBSET R : IsFiniteSet(t) /\ Cardinality(t) \in Nat
  BY FS_Subset, FS_CardinalityType
<1>1. C = {}
  <2>. SUFFICES ASSUME C # {}
                PROVE  FALSE
    OBVIOUS
  <2>1. PICK m \in C : \A n \in C : m <= n
    <3>. HIDE DEF C
    <3>1. C \subseteq Nat
      BY DEF C
    <3>. QED
      BY <3>1, LeastNumber
  <2>2. PICK s \in SUBSET R : Cardinality(s) = m /\ g[s] # h[s]
    OBVIOUS
  <2>3. g[s] = SumTurn(f, g, s) /\ h[s] = SumTurn(e, h, s)
    BY DEF Solves
  <2>4. s # {}
    BY <2>2, <2>3 DEF SumTurn
  <2>. DEFINE u == s \ {Taken(s)}
  <2>5. u \in SUBSET R /\ Cardinality(u) = m - 1 /\ Taken(s) \in R
    BY <2>2, <2>4, <1>0, TakenIn, FS_RemoveElement
  <2>6. g[u] = h[u]
    <3>1. Cardinality(u) \in Nat /\ ~(m <= Cardinality(u))
      BY <2>5, <1>0
    <3>. QED
      BY <3>1, <2>1, <2>5
  <2>. QED
    BY <2>2, <2>3, <2>4, <2>5, <2>6 DEF SumTurn
<1>. QED
  BY <1>0, <1>1

LEMMA TotalSolved ==
  ASSUME NEW f, NEW S, IsFiniteSet(S)
  PROVE  \E g : Solves(f, S, g) /\ Total(f, S) = g[S]
<1> DEFINE g == CHOOSE w : Solves(f, S, w)
<1>1. Solves(f, S, g)
  BY Solvable
<1>. QED
  BY <1>1, TotalIsSolution

-----------------------------------------------------------------------------
(* The value of a sum.                                                     *)

LEMMA TotalOfNothing ==
  ASSUME NEW f
  PROVE  Total(f, {}) = 0
<1>1. PICK g : Solves(f, {}, g) /\ Total(f, {}) = g[{}]
  BY TotalSolved, FS_EmptySet
<1>2. g[{}] = SumTurn(f, g, {})
  BY <1>1 DEF Solves
<1>. QED
  BY <1>1, <1>2 DEF SumTurn

\* The functions need to agree on the set only.
LEMMA TotalOfEqual ==
  ASSUME NEW f, NEW e, NEW S, IsFiniteSet(S), \A x \in S : f[x] = e[x]
  PROVE  Total(f, S) = Total(e, S)
<1>1. PICK g : Solves(f, S, g) /\ Total(f, S) = g[S]
  BY TotalSolved
<1>2. PICK h : Solves(e, S, h) /\ Total(e, S) = h[S]
  BY TotalSolved
<1>. QED
  BY <1>1, <1>2, SolutionsAgree

LEMMA TotalOfTaken ==
  ASSUME NEW f, NEW S, IsFiniteSet(S), S # {}
  PROVE  Total(f, S) = f[Taken(S)] + Total(f, S \ {Taken(S)})
<1> DEFINE R == S \ {Taken(S)}
<1>0. R \subseteq S /\ IsFiniteSet(R)
  BY FS_Subset
<1>1. PICK g : Solves(f, S, g) /\ Total(f, S) = g[S]
  BY TotalSolved
<1>2. PICK h : Solves(f, R, h) /\ Total(f, R) = h[R]
  BY <1>0, TotalSolved
<1>3. g[R] = h[R]
  BY <1>0, <1>1, <1>2, SolutionsAgree
<1>4. g[S] = SumTurn(f, g, S)
  BY <1>1 DEF Solves
<1>. QED
  BY <1>1, <1>2, <1>3, <1>4 DEF SumTurn

-----------------------------------------------------------------------------
(* Sums of numbers.                                                        *)

LEMMA TotalType ==
  ASSUME NEW S, IsFiniteSet(S), NEW f, \A x \in S : f[x] \in Int
  PROVE  Total(f, S) \in Int
<1> DEFINE C == {n \in Nat : \E s \in SUBSET S : Cardinality(s) = n /\ Total(f, s) \notin Int}
<1>0. \A t \in SUBSET S : IsFiniteSet(t) /\ Cardinality(t) \in Nat
  BY FS_Subset, FS_CardinalityType
<1>1. C = {}
  <2>. SUFFICES ASSUME C # {}
                PROVE  FALSE
    OBVIOUS
  <2>1. PICK m \in C : \A n \in C : m <= n
    <3>. HIDE DEF C
    <3>1. C \subseteq Nat
      BY DEF C
    <3>. QED
      BY <3>1, LeastNumber
  <2>2. PICK s \in SUBSET S : Cardinality(s) = m /\ Total(f, s) \notin Int
    OBVIOUS
  <2>3. s # {}
    BY <2>2, TotalOfNothing
  <2>. DEFINE u == s \ {Taken(s)}
  <2>4. u \in SUBSET S /\ Cardinality(u) = m - 1 /\ Taken(s) \in S
    BY <2>2, <2>3, <1>0, TakenIn, FS_RemoveElement
  <2>5. Total(f, u) \in Int
    <3>1. Cardinality(u) \in Nat /\ ~(m <= Cardinality(u))
      BY <2>4, <1>0
    <3>. QED
      BY <3>1, <2>1, <2>4
  <2>6. Total(f, s) = f[Taken(s)] + Total(f, u)
    BY <2>3, <1>0, TotalOfTaken
  <2>. QED
    BY <2>2, <2>4, <2>5, <2>6
<1>. QED
  BY <1>0, <1>1

\* The order of the elements does not matter.
LEMMA TotalOfAny ==
  ASSUME NEW S, IsFiniteSet(S), NEW f, \A x \in S : f[x] \in Int, NEW y \in S
  PROVE  Total(f, S) = f[y] + Total(f, S \ {y})
<1> DEFINE Off(s) == \E z \in s : Total(f, s) # f[z] + Total(f, s \ {z})
           C == {n \in Nat : \E s \in SUBSET S : Cardinality(s) = n /\ Off(s)}
<1>0. \A t \in SUBSET S : IsFiniteSet(t) /\ Cardinality(t) \in Nat
  BY FS_Subset, FS_CardinalityType
<1>1. C = {}
  <2>. SUFFICES ASSUME C # {}
                PROVE  FALSE
    OBVIOUS
  <2>1. PICK m \in C : \A n \in C : m <= n
    <3>. HIDE DEF C
    <3>1. C \subseteq Nat
      BY DEF C
    <3>. QED
      BY <3>1, LeastNumber
  <2>2. PICK s \in SUBSET S : Cardinality(s) = m /\ Off(s)
    OBVIOUS
  <2>3. PICK z \in s : Total(f, s) # f[z] + Total(f, s \ {z})
    BY <2>2
  <2>. DEFINE x == Taken(s)
              u == s \ {x}
              v == s \ {z}
              w == u \ {z}
  <2>4. x \in s /\ Total(f, s) = f[x] + Total(f, u)
    BY <1>0, TakenIn, TotalOfTaken
  <2>5. x # z
    BY <2>3, <2>4
  <2>6. /\ u \in SUBSET S /\ Cardinality(u) = m - 1 /\ z \in u
        /\ v \in SUBSET S /\ Cardinality(v) = m - 1 /\ x \in v
        /\ w = v \ {x} /\ w \in SUBSET S
    BY <2>2, <2>4, <2>5, <1>0, FS_RemoveElement
  <2>7. ~ Off(u) /\ ~ Off(v)
    <3>. HIDE DEF Off, u, v
    <3>1. /\ Cardinality(u) \in Nat /\ ~(m <= Cardinality(u))
          /\ Cardinality(v) \in Nat /\ ~(m <= Cardinality(v))
      BY <2>6, <1>0
    <3>. QED
      BY <3>1, <2>1, <2>6
  <2>8. Total(f, u) = f[z] + Total(f, w) /\ Total(f, v) = f[x] + Total(f, w)
    BY <2>6, <2>7
  <2>9. Total(f, w) \in Int /\ f[x] \in Int /\ f[z] \in Int
    BY <2>4, <2>6, <1>0, TotalType
  <2>. QED
    <3>. HIDE DEF u, v, w, x
    <3>. QED
      BY <2>3, <2>4, <2>8, <2>9 DEF v
<1>2. ~ Off(S)
  <2>. HIDE DEF Off
  <2>. QED
    BY <1>0, <1>1
<1>. QED
  BY <1>2

-----------------------------------------------------------------------------
(* The folds of the models: sums over the numbers up to n.                 *)

Sum(f) == FoldFunction(+, 0, f)

LEMMA SumIsTotal ==
  ASSUME NEW f
  PROVE  Sum(f) = Total(f, DOMAIN f)
BY DEF Sum, FoldFunction, Total

LEMMA SumOfNothing ==
  ASSUME NEW f, DOMAIN f = {}
  PROVE  Sum(f) = 0
BY SumIsTotal, TotalOfNothing

LEMMA SumGrows ==
  ASSUME NEW n \in Nat, NEW f, DOMAIN f = 1 .. n, NEW g, DOMAIN g = 1 .. n + 1,
         \A x \in 1 .. n + 1 : g[x] \in Int, \A x \in 1 .. n : f[x] = g[x]
  PROVE  Sum(g) = Sum(f) + g[n + 1]
<1>1. Sum(g) = Total(g, 1 .. n + 1) /\ Sum(f) = Total(f, 1 .. n)
  BY SumIsTotal
<1>2. IsFiniteSet(1 .. n + 1) /\ IsFiniteSet(1 .. n)
  BY FS_Interval
<1>3. (1 .. n + 1) \ {n + 1} = 1 .. n /\ n + 1 \in 1 .. n + 1
  OBVIOUS
<1>4. Total(g, 1 .. n + 1) = g[n + 1] + Total(g, 1 .. n)
  BY <1>2, <1>3, TotalOfAny
<1>5. Total(f, 1 .. n) = Total(g, 1 .. n)
  BY <1>2, TotalOfEqual
<1>6. Total(g, 1 .. n) \in Int /\ g[n + 1] \in Int
  BY <1>2, TotalType
<1>. QED
  BY <1>1, <1>4, <1>5, <1>6

LEMMA SumType ==
  ASSUME NEW n \in Nat, NEW f, DOMAIN f = 1 .. n, \A x \in 1 .. n : f[x] \in Int
  PROVE  Sum(f) \in Int
BY SumIsTotal, FS_Interval, TotalType
=============================================================================
