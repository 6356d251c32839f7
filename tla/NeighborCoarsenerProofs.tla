---------------------- MODULE NeighborCoarsenerProofs ----------------------
(***************************************************************************)
(* Theorems about coarsening runs, for any layer, any weights, either      *)
(* selector and any number of runs.                                        *)
(***************************************************************************)
EXTENDS NeighborCoarsener, FiniteSetTheorems, WellFoundedInduction, TLAPS

---------------------------------------------------------------------------
(* Finite sets *)

\* Induction over the subsets of a finite set, for a family G of sets that
\* stands for the predicate
LEMMA SubsetInduction ==
  ASSUME NEW U, IsFiniteSet(U), NEW G,
         \A S \in SUBSET U : (\A T \in SUBSET S : T # S => T \in G) => S \in G
  PROVE  \A S \in SUBSET U : S \in G
<1> DEFINE B == (SUBSET U) \ G
           R == StrictSubsetOrdering(U)
<1>1. SUFFICES ASSUME B # {} PROVE FALSE
  OBVIOUS
<1>2. B \subseteq FiniteSubsetsOf(U)
  BY FS_Subset DEF FiniteSubsetsOf
<1>3. IsWellFoundedOn(R, FiniteSubsetsOf(U))
  BY FS_StrictSubsetOrderingWellFounded
<1>4. PICK S \in B : \A T \in B : ~ (<<T, S>> \in R)
  <2> HIDE DEF B, R
  <2> QED BY <1>1, <1>2, <1>3, WFMin
<1>5. ASSUME NEW T \in SUBSET S, T # S PROVE T \in G
  <2>1. T \in SUBSET U /\ S \in SUBSET U
    OBVIOUS
  <2>2. <<T, S>> \in R
    BY <1>5, <2>1 DEF StrictSubsetOrdering
  <2> QED BY <1>4, <2>1, <2>2
<1> QED BY <1>5

\* A relation that orders a finite set has a first element in it
LEMMA FirstExists ==
  ASSUME NEW D, IsFiniteSet(D), D # {}, NEW R,
         \A a, b \in D : a # b => <<a, b>> \in R \/ <<b, a>> \in R,
         \A a, b, c \in D : <<a, b>> \in R /\ <<b, c>> \in R => <<a, c>> \in R
  PROVE  \E m \in D : \A n \in D \ {m} : <<m, n>> \in R
<1> DEFINE G == {S \in SUBSET D : S # {} => \E m \in S : \A n \in S \ {m} : <<m, n>> \in R}
<1>1. ASSUME NEW S \in SUBSET D, \A T \in SUBSET S : T # S => T \in G PROVE S \in G
  <2>1. SUFFICES ASSUME S # {} PROVE \E m \in S : \A n \in S \ {m} : <<m, n>> \in R
    OBVIOUS
  <2>2. PICK x \in S : TRUE
    BY <2>1
  <2>3. CASE S = {x}
    BY <2>3
  <2>4. CASE S # {x}
    <3>1. S \ {x} \in G /\ S \ {x} # {}
      <4>1. S \ {x} \in SUBSET S /\ S \ {x} # S
        BY <2>2
      <4>2. S \ {x} \in G
        <5> HIDE DEF G
        <5> QED BY <1>1, <4>1
      <4>3. S \ {x} # {}
        BY <2>2, <2>4
      <4> QED BY <4>2, <4>3
    <3>2. PICK m \in S \ {x} : \A n \in (S \ {x}) \ {m} : <<m, n>> \in R
      BY <3>1
    <3>3. CASE <<m, x>> \in R
      BY <3>2, <3>3
    <3>4. CASE <<x, m>> \in R
      <4>1. ASSUME NEW n \in S \ {x} PROVE <<x, n>> \in R
        <5>1. m \in D /\ x \in D /\ n \in D
          BY <1>1, <2>2, <3>2
        <5>2. n = m \/ <<m, n>> \in R
          BY <3>2
        <5> QED BY <3>4, <5>1, <5>2
      <4> QED BY <4>1, <2>2
    <3> QED BY <3>2, <3>3, <3>4, <2>2
  <2> QED BY <2>3, <2>4
<1>2. D \in G
  <2> HIDE DEF G
  <2> QED BY <1>1, SubsetInduction
<1> QED BY <1>2

\* Smallest is the smallest
LEMMA SmallestType ==
  ASSUME NEW S \in SUBSET Node, S # {}
  PROVE  Smallest(S) \in S
<1> DEFINE R == {p \in S \X S : p[1] <= p[2]}
<1>1. IsFiniteSet(S) /\ S \subseteq Nat
  BY NodeAssumption, FS_Subset
<1>2. \A a, b \in S : <<a, b>> \in R <=> a <= b
  OBVIOUS
<1>3. \A a, b \in S : a # b => <<a, b>> \in R \/ <<b, a>> \in R
  BY <1>1, <1>2
<1>4. \A a, b, c \in S : <<a, b>> \in R /\ <<b, c>> \in R => <<a, c>> \in R
  BY <1>1, <1>2
<1>5. \E m \in S : \A n \in S \ {m} : <<m, n>> \in R
  <2> HIDE DEF R
  <2> QED BY <1>1, <1>3, <1>4, FirstExists
<1>6. PICK m \in S : \A n \in S \ {m} : <<m, n>> \in R
  BY <1>5
<1>7. ASSUME NEW n \in S PROVE m <= n
  <2>1. CASE n = m
    BY <2>1, <1>1
  <2>2. CASE n # m
    BY <2>2, <1>6, <1>2
  <2> QED BY <2>1, <2>2
<1> QED BY <1>7 DEF Smallest

---------------------------------------------------------------------------
(* Sums over finite sets: SumFunctionOnSet is a recursive function on the  *)
(* subsets of the set, which takes one element away at a time              *)

AnyOf(S) == CHOOSE x \in S : TRUE
IsSum(f, w, S) ==
  f = [s \in SUBSET S |-> IF s = {} THEN 0 ELSE w[AnyOf(s)] + f[s \ {AnyOf(s)}]]

LEMMA SumDefinition ==
  ASSUME NEW w, NEW S
  PROVE  SumFunctionOnSet(w, S) = (CHOOSE f : IsSum(f, w, S))[S]
BY DEF SumFunctionOnSet, FoldFunctionOnSet, MapThenFoldSet, IsSum, AnyOf

LEMMA SumUnique ==
  ASSUME NEW w, NEW S, IsFiniteSet(S), NEW f, IsSum(f, w, S), NEW g, IsSum(g, w, S)
  PROVE  \A T \in SUBSET S : f[T] = g[T]
<1> DEFINE G == {T \in SUBSET S : f[T] = g[T]}
<1>1. ASSUME NEW T \in SUBSET S, \A V \in SUBSET T : V # T => V \in G PROVE T \in G
  <2>1. CASE T = {}
    BY <2>1 DEF IsSum
  <2>2. CASE T # {}
    <3>1. AnyOf(T) \in T
      BY <2>2 DEF AnyOf
    <3>2. T \ {AnyOf(T)} \in G
      BY <1>1, <3>1
    <3>3. f[T] = w[AnyOf(T)] + f[T \ {AnyOf(T)}] /\ g[T] = w[AnyOf(T)] + g[T \ {AnyOf(T)}]
      BY <2>2 DEF IsSum
    <3> QED BY <3>2, <3>3
  <2> QED BY <2>1, <2>2
<1>2. \A T \in SUBSET S : T \in G
  <2> HIDE DEF G
  <2> QED BY <1>1, SubsetInduction
<1> QED BY <1>2

LEMMA SumStep ==
  ASSUME NEW w, NEW U, IsFiniteSet(U)
  PROVE  \A S \in SUBSET U :
           SumFunctionOnSet(w, S) =
             IF S = {} THEN 0
             ELSE w[AnyOf(S)] + SumFunctionOnSet(w, S \ {AnyOf(S)})
<1> DEFINE Sum(S) == SumFunctionOnSet(w, S)
           Next1(S) == IF S = {} THEN 0 ELSE w[AnyOf(S)] + Sum(S \ {AnyOf(S)})
           G == {S \in SUBSET U : Sum(S) = Next1(S)}
<1>1. ASSUME NEW S \in SUBSET U, \A T \in SUBSET S : T # S => T \in G PROVE S \in G
  <2> DEFINE F == [s \in SUBSET S |-> Next1(s)]
  <2>1. ASSUME NEW s \in SUBSET S, s # {}
        PROVE  F[s \ {AnyOf(s)}] = Sum(s \ {AnyOf(s)})
    <3>1. AnyOf(s) \in s
      BY <2>1 DEF AnyOf
    <3>2. s \ {AnyOf(s)} \in SUBSET S /\ s \ {AnyOf(s)} # S
      BY <3>1
    <3>3. s \ {AnyOf(s)} \in G
      BY <3>2, <1>1
    <3> HIDE DEF Next1, Sum
    <3> QED BY <3>2, <3>3
  <2>2. IsSum(F, w, S)
    <3>1. \A s \in SUBSET S :
            Next1(s) = IF s = {} THEN 0 ELSE w[AnyOf(s)] + F[s \ {AnyOf(s)}]
      <4> HIDE DEF F, Sum
      <4> QED BY <2>1
    <3>2. F = [s \in SUBSET S |-> IF s = {} THEN 0 ELSE w[AnyOf(s)] + F[s \ {AnyOf(s)}]]
      <4> HIDE DEF Next1
      <4> QED BY <3>1
    <3> HIDE DEF F
    <3> QED BY <3>2 DEF IsSum
  <2> DEFINE f == CHOOSE g : IsSum(g, w, S)
  <2>3. IsSum(f, w, S)
    <3> HIDE DEF F
    <3> QED BY <2>2
  <2>4. Sum(S) = f[S]
    BY SumDefinition
  <2>5. IsFiniteSet(S)
    BY FS_Subset
  <2>6. f[S] = F[S]
    <3> HIDE DEF f, F
    <3> QED BY <2>2, <2>3, <2>5, SumUnique
  <2> HIDE DEF f, Next1, Sum
  <2> QED BY <2>4, <2>6
<1>2. \A S \in SUBSET U : S \in G
  <2> HIDE DEF G
  <2> QED BY <1>1, SubsetInduction
<1> QED BY <1>2

LEMMA SumEmpty == \A w : SumFunctionOnSet(w, {}) = 0
<1>1. IsFiniteSet({})
  BY FS_EmptySet
<1> QED BY <1>1, SumStep

\* The sum of naturals is one, and positive when they are and there is one
LEMMA SumType ==
  ASSUME NEW w, NEW S, IsFiniteSet(S), \A x \in S : w[x] \in Nat
  PROVE  /\ SumFunctionOnSet(w, S) \in Nat
         /\ S # {} /\ (\A x \in S : w[x] > 0) => SumFunctionOnSet(w, S) > 0
<1> DEFINE Sum(T) == SumFunctionOnSet(w, T)
           G == {T \in SUBSET S : Sum(T) \in Nat}
<1>1. \A T \in SUBSET S : T # {} => AnyOf(T) \in T /\ Sum(T) = w[AnyOf(T)] + Sum(T \ {AnyOf(T)})
  <2>1. \A T \in SUBSET S : T # {} => AnyOf(T) \in T
    BY DEF AnyOf
  <2> QED BY <2>1, SumStep
<1>2. Sum({}) = 0
  BY SumEmpty
<1> HIDE DEF Sum
<1>3. ASSUME NEW T \in SUBSET S, \A V \in SUBSET T : V # T => V \in G PROVE T \in G
  <2>1. CASE T = {}
    BY <2>1, <1>2
  <2>2. CASE T # {}
    <3>1. T \ {AnyOf(T)} \in G
      BY <1>1, <1>3, <2>2
    <3>2. w[AnyOf(T)] \in Nat /\ Sum(T) = w[AnyOf(T)] + Sum(T \ {AnyOf(T)})
      BY <1>1, <2>2
    <3> QED BY <3>1, <3>2
  <2> QED BY <2>1, <2>2
<1>4. \A T \in SUBSET S : T \in G
  <2> HIDE DEF G
  <2> QED BY <1>3, SubsetInduction
<1>5. Sum(S) \in Nat
  BY <1>4
<1>6. ASSUME S # {}, \A x \in S : w[x] > 0 PROVE Sum(S) > 0
  <2>1. AnyOf(S) \in S /\ Sum(S) = w[AnyOf(S)] + Sum(S \ {AnyOf(S)})
    BY <1>1, <1>6
  <2>2. w[AnyOf(S)] \in Nat /\ w[AnyOf(S)] > 0 /\ Sum(S \ {AnyOf(S)}) \in Nat
    BY <2>1, <1>4, <1>6
  <2> QED BY <2>1, <2>2
<1> QED BY <1>5, <1>6 DEF Sum

\* Any element may be taken out of the sum
LEMMA SumRemove ==
  ASSUME NEW w, NEW U, IsFiniteSet(U), \A x \in U : w[x] \in Nat
  PROVE  \A S \in SUBSET U : \A x \in S :
           SumFunctionOnSet(w, S) = w[x] + SumFunctionOnSet(w, S \ {x})
<1> DEFINE Sum(T) == SumFunctionOnSet(w, T)
           G == {S \in SUBSET U : \A x \in S : Sum(S) = w[x] + Sum(S \ {x})}
<1>1. \A T \in SUBSET U : T # {} => AnyOf(T) \in T /\ Sum(T) = w[AnyOf(T)] + Sum(T \ {AnyOf(T)})
  <2>1. \A T \in SUBSET U : T # {} => AnyOf(T) \in T
    BY DEF AnyOf
  <2> QED BY <2>1, SumStep
<1>2. \A T \in SUBSET U : Sum(T) \in Nat
  <2> SUFFICES ASSUME NEW T \in SUBSET U PROVE Sum(T) \in Nat
    OBVIOUS
  <2>1. IsFiniteSet(T)
    BY FS_Subset
  <2> QED BY <2>1, SumType
<1> HIDE DEF Sum
<1>3. ASSUME NEW S \in SUBSET U, \A T \in SUBSET S : T # S => T \in G PROVE S \in G
  <2> SUFFICES ASSUME NEW x \in S PROVE Sum(S) = w[x] + Sum(S \ {x})
    OBVIOUS
  <2> DEFINE c == AnyOf(S)
  <2>1. c \in S /\ Sum(S) = w[c] + Sum(S \ {c})
    BY <1>1
  <2> HIDE DEF c
  <2>2. CASE c = x
    BY <2>1, <2>2
  <2>3. CASE c # x
    <3>1. S \ {c} \in G /\ S \ {x} \in G /\ x \in S \ {c} /\ c \in S \ {x}
      BY <2>1, <2>3, <1>3
    <3>2. Sum(S \ {c}) = w[x] + Sum((S \ {c}) \ {x}) /\ Sum(S \ {x}) = w[c] + Sum((S \ {x}) \ {c})
      BY <3>1
    <3>3. (S \ {c}) \ {x} = (S \ {x}) \ {c}
      OBVIOUS
    <3>4. w[x] \in Nat /\ w[c] \in Nat /\ Sum((S \ {x}) \ {c}) \in Nat
      BY <2>1, <1>2
    <3>5. \A i, j, k \in Nat : i + (j + k) = j + (i + k)
      OBVIOUS
    <3>6. Sum(S) = w[c] + (w[x] + Sum((S \ {x}) \ {c}))
      BY <2>1, <3>2, <3>3
    <3>7. Sum(S) = w[x] + (w[c] + Sum((S \ {x}) \ {c}))
      BY <3>4, <3>5, <3>6
    <3> QED BY <3>2, <3>7
  <2> QED BY <2>2, <2>3
<1>4. \A S \in SUBSET U : S \in G
  <2> HIDE DEF G
  <2> QED BY <1>3, SubsetInduction
<1> QED BY <1>4 DEF Sum

LEMMA SumSingleton ==
  ASSUME NEW w, NEW x, w[x] \in Nat
  PROVE  SumFunctionOnSet(w, {x}) = w[x]
<1>1. IsFiniteSet({x}) /\ \A y \in {x} : w[y] \in Nat
  BY FS_Singleton
<1>2. \A S \in SUBSET {x} : \A y \in S :
        SumFunctionOnSet(w, S) = w[y] + SumFunctionOnSet(w, S \ {y})
  BY <1>1, SumRemove
<1>3. SumFunctionOnSet(w, {x}) = w[x] + SumFunctionOnSet(w, {x} \ {x})
  BY <1>2
<1>4. {x} \ {x} = {}
  OBVIOUS
<1> QED BY <1>3, <1>4, SumEmpty

\* Only the values on the set count
LEMMA SumSame ==
  ASSUME NEW w, NEW v, NEW S, IsFiniteSet(S), \A x \in S : w[x] = v[x]
  PROVE  SumFunctionOnSet(w, S) = SumFunctionOnSet(v, S)
<1> DEFINE SumW(T) == SumFunctionOnSet(w, T)
           SumV(T) == SumFunctionOnSet(v, T)
           G == {T \in SUBSET S : SumW(T) = SumV(T)}
<1>1. \A T \in SUBSET S : T # {} => AnyOf(T) \in T
  BY DEF AnyOf
<1>2. \A T \in SUBSET S : T # {} =>
        /\ SumW(T) = w[AnyOf(T)] + SumW(T \ {AnyOf(T)})
        /\ SumV(T) = v[AnyOf(T)] + SumV(T \ {AnyOf(T)})
  BY SumStep
<1>3. SumW({}) = SumV({})
  BY SumEmpty
<1> HIDE DEF SumW, SumV
<1>4. ASSUME NEW T \in SUBSET S, \A V \in SUBSET T : V # T => V \in G PROVE T \in G
  <2>1. CASE T = {}
    BY <2>1, <1>3
  <2>2. CASE T # {}
    <3>1. T \ {AnyOf(T)} \in G /\ AnyOf(T) \in S
      BY <1>1, <1>4, <2>2
    <3> QED BY <3>1, <1>2, <2>2
  <2> QED BY <2>1, <2>2
<1>5. \A T \in SUBSET S : T \in G
  <2> HIDE DEF G
  <2> QED BY <1>4, SubsetInduction
<1> QED BY <1>5 DEF SumW, SumV

\* The sum over two sets without common elements
LEMMA SumUnion ==
  ASSUME NEW w, NEW A, NEW B, IsFiniteSet(A), IsFiniteSet(B), A \intersect B = {},
         \A x \in A \union B : w[x] \in Nat
  PROVE  SumFunctionOnSet(w, A \union B) = SumFunctionOnSet(w, A) + SumFunctionOnSet(w, B)
<1> DEFINE Sum(T) == SumFunctionOnSet(w, T)
           G == {S \in SUBSET A : Sum(S \union B) = Sum(S) + Sum(B)}
<1>1. IsFiniteSet(A \union B)
  BY FS_Union
<1>2. \A S \in SUBSET (A \union B) : \A x \in S : Sum(S) = w[x] + Sum(S \ {x})
  BY <1>1, SumRemove
<1>3. \A S \in SUBSET (A \union B) : Sum(S) \in Nat
  <2> SUFFICES ASSUME NEW S \in SUBSET (A \union B) PROVE Sum(S) \in Nat
    OBVIOUS
  <2>1. IsFiniteSet(S) /\ \A x \in S : w[x] \in Nat
    BY <1>1, FS_Subset
  <2> QED BY <2>1, SumType
<1>4. Sum({}) = 0
  BY SumEmpty
<1> HIDE DEF Sum
<1>5. ASSUME NEW S \in SUBSET A, \A T \in SUBSET S : T # S => T \in G PROVE S \in G
  <2>1. CASE S = {}
    <3>1. S \union B = B /\ Sum(B) \in Nat
      BY <2>1, <1>3
    <3> QED BY <3>1, <2>1, <1>4
  <2>2. CASE S # {}
    <3>1. PICK x \in S : TRUE
      BY <2>2
    <3>2. S \ {x} \in G
      BY <1>5, <3>1
    <3>3. (S \union B) \ {x} = (S \ {x}) \union B /\ x \in A
      BY <3>1
    <3>4. Sum(S \union B) = w[x] + Sum((S \ {x}) \union B)
      BY <3>1, <3>3, <1>2
    <3>5. Sum(S) = w[x] + Sum(S \ {x})
      BY <3>1, <1>2
    <3>6. w[x] \in Nat /\ Sum(S \ {x}) \in Nat /\ Sum(B) \in Nat
      BY <3>1, <3>3, <1>3
    <3> QED BY <3>2, <3>4, <3>5, <3>6
  <2> QED BY <2>1, <2>2
<1>6. \A S \in SUBSET A : S \in G
  <2> HIDE DEF G
  <2> QED BY <1>5, SubsetInduction
<1> QED BY <1>6 DEF Sum

---------------------------------------------------------------------------
(* The queue *)

Fraction == Nat \X (Nat \ {0})

LEMMA LessMultiplied ==
  ASSUME NEW a \in Nat, NEW b \in Nat, NEW c \in Nat \ {0}
  PROVE  a < b <=> a * c < b * c
OBVIOUS

LEMMA ProductType == \A a, b \in Nat : a * b \in Nat
OBVIOUS

\* p < q <= r, p <= q < r and p <= q <= r
LEMMA LessTransitive ==
  ASSUME NEW p \in Fraction, NEW q \in Fraction, NEW r \in Fraction
  PROVE  /\ Less(p, q) => ~ Less(q, p)
         /\ Less(p, q) /\ ~ Less(r, q) => Less(p, r)
         /\ ~ Less(q, p) /\ Less(q, r) => Less(p, r)
         /\ ~ Less(q, p) /\ ~ Less(r, q) => ~ Less(r, p)
<1>1. PICK a \in Nat, b \in Nat \ {0} : p[1] = a /\ p[2] = b
  BY DEF Fraction
<1>2. PICK c \in Nat, d \in Nat \ {0} : q[1] = c /\ q[2] = d
  BY DEF Fraction
<1>3. PICK e \in Nat, f \in Nat \ {0} : r[1] = e /\ r[2] = f
  BY DEF Fraction
<1>4. /\ Less(p, q) <=> a * d < c * b
      /\ Less(q, p) <=> c * b < a * d
      /\ Less(q, r) <=> c * f < e * d
      /\ Less(r, q) <=> e * d < c * f
      /\ Less(p, r) <=> a * f < e * b
      /\ Less(r, p) <=> e * b < a * f
  BY <1>1, <1>2, <1>3 DEF Less
<1>5. /\ a * d \in Nat /\ c * b \in Nat /\ c * f \in Nat
      /\ e * d \in Nat /\ a * f \in Nat /\ e * b \in Nat
  BY ProductType
<1>6. /\ a * d < c * b <=> (a * d) * f < (c * b) * f
      /\ c * b < a * d <=> (c * b) * f < (a * d) * f
  BY <1>5, LessMultiplied
<1>7. /\ c * f < e * d <=> (c * f) * b < (e * d) * b
      /\ e * d < c * f <=> (e * d) * b < (c * f) * b
  BY <1>5, LessMultiplied
<1>8. /\ a * f < e * b <=> (a * f) * d < (e * b) * d
      /\ e * b < a * f <=> (e * b) * d < (a * f) * d
  BY <1>5, LessMultiplied
<1>9. /\ (a * d) * f = (a * f) * d
      /\ (c * b) * f = (c * f) * b
      /\ (e * d) * b = (e * b) * d
  OBVIOUS
<1>10. /\ (a * f) * d \in Nat /\ (c * f) * b \in Nat /\ (e * b) * d \in Nat
  BY <1>5, ProductType
<1>11. /\ Less(p, q) <=> (a * f) * d < (c * f) * b
       /\ Less(q, p) <=> (c * f) * b < (a * f) * d
       /\ Less(q, r) <=> (c * f) * b < (e * b) * d
       /\ Less(r, q) <=> (e * b) * d < (c * f) * b
       /\ Less(p, r) <=> (a * f) * d < (e * b) * d
       /\ Less(r, p) <=> (e * b) * d < (a * f) * d
  BY <1>4, <1>6, <1>7, <1>8, <1>9
<1>12. ASSUME NEW i \in Nat, NEW j \in Nat, NEW k \in Nat
       PROVE  /\ i < j => ~ (j < i)
              /\ i < j /\ ~ (k < j) => i < k
              /\ ~ (j < i) /\ j < k => i < k
              /\ ~ (j < i) /\ ~ (k < j) => ~ (k < i)
  OBVIOUS
<1>13. QED
  BY <1>10, <1>11, <1>12

\* The order in which nodes entered the queue, any two of them in one way
Ordered(order, D) ==
  /\ order \subseteq D \X D
  /\ \A a, b \in D : a # b => <<a, b>> \in order \/ <<b, a>> \in order
  /\ \A a, b, c \in D : <<a, b>> \in order /\ <<b, c>> \in order => <<a, c>> \in order

\* A queue that is not empty has a front
LEMMA FrontType ==
  ASSUME NEW D \in SUBSET Node, D # {}, NEW q \in [D -> Fraction],
         NEW order, Ordered(order, D)
  PROVE  /\ Front(q, order) \in D
         /\ \A n \in D \ {Front(q, order)} : ~ Less(q[Front(q, order)], q[n])
<1> DEFINE R == {p \in D \X D : \/ Less(q[p[2]], q[p[1]])
                                \/ ~ Less(q[p[1]], q[p[2]]) /\ p \in order}
<1>1. IsFiniteSet(D)
  BY NodeAssumption, FS_Subset
<1>2. \A a, b \in D : <<a, b>> \in R <=> \/ Less(q[b], q[a])
                                         \/ ~ Less(q[a], q[b]) /\ <<a, b>> \in order
  OBVIOUS
<1>3. \A a \in D : q[a] \in Fraction
  OBVIOUS
<1>4. \A a, b \in D : a # b => <<a, b>> \in R \/ <<b, a>> \in R
  BY <1>2 DEF Ordered
<1>5. \A a, b \in D : Less(q[a], q[b]) => ~ Less(q[b], q[a])
  BY <1>3, LessTransitive
<1> HIDE DEF R
<1>6. ASSUME NEW a \in D, NEW b \in D, NEW c \in D, <<a, b>> \in R, <<b, c>> \in R
      PROVE  <<a, c>> \in R
  <2>1. q[a] \in Fraction /\ q[b] \in Fraction /\ q[c] \in Fraction
    BY <1>3
  <2>2. ~ Less(q[a], q[b]) /\ ~ Less(q[b], q[c])
    BY <1>2, <1>5, <1>6
  <2>3. CASE Less(q[b], q[a])
    <3>1. Less(q[c], q[a])
      BY <2>1, <2>2, <2>3, LessTransitive
    <3> QED BY <3>1, <1>2
  <2>4. CASE Less(q[c], q[b])
    <3>1. Less(q[c], q[a])
      BY <2>1, <2>2, <2>4, LessTransitive
    <3> QED BY <3>1, <1>2
  <2>5. CASE <<a, b>> \in order /\ <<b, c>> \in order
    <3>1. ~ Less(q[a], q[c])
      BY <2>1, <2>2, LessTransitive
    <3>2. <<a, c>> \in order
      BY <2>5 DEF Ordered
    <3> QED BY <3>1, <3>2, <1>2
  <2> QED BY <2>3, <2>4, <2>5, <1>2, <1>6
<1>7. PICK m \in D : \A n \in D \ {m} : <<m, n>> \in R
  <2>1. \A a, b, c \in D : <<a, b>> \in R /\ <<b, c>> \in R => <<a, c>> \in R
    BY <1>6
  <2>2. \E m \in D : \A n \in D \ {m} : <<m, n>> \in R
    BY <1>1, <1>4, <2>1, FirstExists
  <2> QED BY <2>2
<1>8. DOMAIN q = D
  OBVIOUS
<1>9. \E v \in D : \A n \in D \ {v} : Less(q[n], q[v]) \/ (~Less(q[v], q[n]) /\ <<v, n>> \in order)
  BY <1>2, <1>7
<1> DEFINE v == Front(q, order)
<1>10. v \in D /\ \A n \in D \ {v} : Less(q[n], q[v]) \/ (~Less(q[v], q[n]) /\ <<v, n>> \in order)
  BY <1>8, <1>9 DEF Front
<1> HIDE DEF v
<1>11. \A n \in D \ {v} : ~ Less(q[v], q[n])
  BY <1>5, <1>10
<1> QED BY <1>10, <1>11 DEF v

\* Pushing nodes keeps the queue in order
LEMMA PushedOrdered ==
  ASSUME NEW Q, NEW order, Ordered(order, Q), NEW S \in SUBSET Nat
  PROVE  Ordered(PushedAfter(order, Q, S), Q \union S)
<1> DEFINE P == PushedAfter(order, Q, S)
<1>1. \A a, b : <<a, b>> \in P <=> \/ <<a, b>> \in order /\ a \notin S /\ b \notin S
                                   \/ a \in Q \ S /\ b \in S
                                   \/ a \in S /\ b \in S /\ a < b
  BY DEF PushedAfter
<1>2. P \subseteq (Q \union S) \X (Q \union S)
  BY DEF PushedAfter, Ordered
<1> HIDE DEF P
<1>3. ASSUME NEW a \in Q \union S, NEW b \in Q \union S, a # b
      PROVE  <<a, b>> \in P \/ <<b, a>> \in P
  <2>1. CASE a \in S /\ b \in S
    <3>1. a \in Nat /\ b \in Nat
      BY <2>1
    <3>2. a < b \/ b < a
      BY <3>1, <1>3
    <3> QED BY <3>2, <2>1, <1>1
  <2>2. CASE a \notin S /\ b \notin S
    BY <2>2, <1>1, <1>3 DEF Ordered
  <2> QED BY <2>1, <2>2, <1>1
<1>4. ASSUME NEW a \in Q \union S, NEW b \in Q \union S, NEW c \in Q \union S,
             <<a, b>> \in P, <<b, c>> \in P
      PROVE  <<a, c>> \in P
  <2>1. CASE a \in S
    <3>1. b \in S /\ c \in S /\ a < b /\ b < c
      BY <2>1, <1>1, <1>4
    <3>2. a \in Nat /\ b \in Nat /\ c \in Nat
      BY <2>1, <3>1
    <3>3. a < c
      BY <3>1, <3>2
    <3> QED BY <2>1, <3>1, <3>3, <1>1
  <2>2. CASE a \notin S /\ c \in S
    BY <2>2, <1>1
  <2>3. CASE a \notin S /\ c \notin S
    <3>1. b \notin S /\ <<a, b>> \in order /\ <<b, c>> \in order
      BY <2>3, <1>1, <1>4
    <3>2. <<a, c>> \in order
      BY <3>1, <2>3 DEF Ordered
    <3> QED BY <3>2, <2>3, <1>1
  <2> QED BY <2>1, <2>2, <2>3
<1> QED BY <1>2, <1>3, <1>4 DEF Ordered, P

---------------------------------------------------------------------------
(* The layer *)

\* Sets of two nodes
LEMMA PairElements ==
  ASSUME NEW S \in SUBSET Node
  PROVE  /\ \A e \in Pairs(S) : \E a, b \in S : a # b /\ e = {a, b}
         /\ \A a, b \in S : a # b => {a, b} \in Pairs(S)
         /\ \A a : {a, a} \notin Pairs(S)
<1>1. ASSUME NEW a, NEW b, a # b PROVE Cardinality({a, b}) = 2
  <2>1. IsFiniteSet({a}) /\ Cardinality({a}) = 1
    BY FS_Singleton
  <2>2. Cardinality({a} \union {b}) = Cardinality({a}) + 1
    BY <2>1, <1>1, FS_AddElement
  <2>3. {a} \union {b} = {a, b}
    OBVIOUS
  <2> QED BY <2>1, <2>2, <2>3
<1>2. ASSUME NEW a PROVE Cardinality({a, a}) = 1
  <2>1. {a, a} = {a}
    OBVIOUS
  <2> QED BY <2>1, FS_Singleton
<1>3. ASSUME NEW e \in Pairs(S) PROVE \E a, b \in S : a # b /\ e = {a, b}
  <2>1. e \in SUBSET S /\ Cardinality(e) = 2
    BY DEF Pairs
  <2>2. IsFiniteSet(e)
    BY <2>1, NodeAssumption, FS_Subset
  <2>3. e # {}
    BY <2>1, <2>2, FS_EmptySet
  <2>4. PICK a \in e : TRUE
    BY <2>3
  <2>5. e # {a}
    <3>1. Cardinality({a}) = 1
      BY FS_Singleton
    <3> QED BY <2>1, <3>1
  <2>6. PICK b \in e : b # a
    BY <2>4, <2>5
  <2>7. {a, b} \in SUBSET e /\ Cardinality({a, b}) = Cardinality(e)
    BY <2>1, <2>6, <1>1
  <2>8. {a, b} = e
    BY <2>2, <2>7, FS_Subset
  <2> QED BY <2>1, <2>6, <2>8
<1>4. \A a, b \in S : a # b => {a, b} \in Pairs(S)
  BY <1>1 DEF Pairs
<1>5. \A a : {a, a} \notin Pairs(S)
  BY <1>2 DEF Pairs
<1> QED BY <1>3, <1>4, <1>5

\* No node is linked to itself, and links join nodes of the layer
LEMMA LinkEnds ==
  ASSUME LayerTypeOK
  PROVE  /\ \A e \in HLinks : \E a, b \in nodes : a # b /\ e = {a, b}
         /\ \A a, b : {a, b} \in HLinks => a \in nodes /\ b \in nodes /\ a # b
<1>1. nodes \in SUBSET Node /\ HLinks \subseteq Pairs(nodes)
  BY DEF LayerTypeOK, HLinks
<1>2. \A e \in HLinks : \E a, b \in nodes : a # b /\ e = {a, b}
  BY <1>1, PairElements
<1>3. ASSUME NEW a, NEW b, {a, b} \in HLinks PROVE a \in nodes /\ b \in nodes /\ a # b
  <2>1. {a, b} \in SUBSET nodes
    BY <1>1, <1>3 DEF Pairs
  <2>2. a # b
    BY <1>1, <1>3, PairElements
  <2> QED BY <2>1, <2>2
<1> QED BY <1>2, <1>3

\* What merging src into t does to the links of the layer
LEMMA MergeLinks ==
  ASSUME LayerTypeOK, NEW src \in nodes, NEW t \in nodes, src # t, MergeNode(src, t)
  PROVE  /\ nodes' = nodes \ {src}
         /\ HLinks' \subseteq Pairs(nodes')
         /\ link' \in [HLinks' -> Nat \ {0}]
         /\ \A a, b \in nodes' : t # a /\ t # b =>
              /\ {a, b} \in HLinks' <=> {a, b} \in HLinks
              /\ {a, b} \in HLinks => link'[{a, b}] = link[{a, b}]
         /\ \A n \in nodes' : t # n =>
              /\ {t, n} \in HLinks' <=> {t, n} \in HLinks \/ {src, n} \in HLinks
              /\ {t, n} \in HLinks' => link'[{t, n}] = WeightOf({t, n}) + WeightOf({src, n})
<1> DEFINE C == HLinks \union {{t, n} : n \in HNeighbors(src) \ {t}}
           copied == HorizontalCopyHLinks(src, t)
<1>1. nodes' = nodes \ {src}
  BY DEF MergeNode
<1>2. copied = [e \in C |-> IF t \in e /\ src \notin e
                            THEN WeightOf(e) + WeightOf((e \ {t}) \union {src})
                            ELSE link[e]]
  BY DEF HorizontalCopyHLinks
<1>3. HLinks' = {e \in C : src \notin e} /\ \A e \in HLinks' : link'[e] = copied[e]
  <2>1. link' = Restrict(copied, {e \in DOMAIN copied : src \notin e})
    BY DEF MergeNode
  <2>2. DOMAIN copied = C
    BY <1>2
  <2> HIDE DEF copied, C
  <2> QED BY <2>1, <2>2 DEF Restrict, HLinks
<1>4. \A e \in HLinks' : link'[e] = IF t \in e THEN WeightOf(e) + WeightOf((e \ {t}) \union {src})
                                               ELSE link[e]
  BY <1>2, <1>3
<1>5. DOMAIN link' = HLinks' /\ link' = [e \in HLinks' |-> link'[e]]
  BY DEF MergeNode, Restrict, HLinks
<1>6. nodes \in SUBSET Node /\ nodes' \in SUBSET Node
  BY <1>1 DEF LayerTypeOK
<1>7. \A e : e \in HLinks' <=> src \notin e /\ (e \in HLinks \/ \E n \in nodes \ {t} : {src, n} \in HLinks /\ e = {t, n})
  BY <1>3 DEF HNeighbors
<1> HIDE DEF C, copied
<1>8. \A e \in HLinks : WeightOf(e) = link[e] /\ link[e] \in Nat \ {0}
  BY DEF LayerTypeOK, HLinks, WeightOf
<1>9. \A e : e \notin HLinks => WeightOf(e) = 0
  BY DEF WeightOf
<1>10. ASSUME NEW e \in HLinks' PROVE e \in Pairs(nodes')
  <2>1. CASE e \in HLinks
    <3>1. PICK a \in nodes, b \in nodes : a # b /\ e = {a, b}
      BY <2>1, LinkEnds
    <3>2. a \in nodes' /\ b \in nodes'
      BY <3>1, <1>1, <1>7
    <3> QED BY <3>1, <3>2, <1>6, PairElements
  <2>2. CASE e \notin HLinks
    <3>1. PICK n \in nodes \ {t} : {src, n} \in HLinks /\ e = {t, n}
      BY <2>2, <1>7
    <3>2. n \in nodes' /\ t \in nodes'
      BY <3>1, <1>1, LinkEnds
    <3> QED BY <3>1, <3>2, <1>6, PairElements
  <2> QED BY <2>1, <2>2
<1>11. ASSUME NEW a \in nodes', NEW b \in nodes', t # a, t # b
       PROVE  /\ {a, b} \in HLinks' <=> {a, b} \in HLinks
              /\ {a, b} \in HLinks => link'[{a, b}] = link[{a, b}]
  <2>1. src \notin {a, b} /\ t \notin {a, b}
    BY <1>1, <1>11
  <2>2. {a, b} \in HLinks' <=> {a, b} \in HLinks
    BY <2>1, <1>7
  <2> QED BY <2>1, <2>2, <1>4
<1>12. ASSUME NEW n \in nodes', t # n
       PROVE  /\ {t, n} \in HLinks' <=> {t, n} \in HLinks \/ {src, n} \in HLinks
              /\ {t, n} \in HLinks' => link'[{t, n}] = WeightOf({t, n}) + WeightOf({src, n})
  <2>1. src \notin {t, n} /\ n \in nodes \ {t}
    BY <1>1, <1>12
  <2>2. ({t, n} \ {t}) \union {src} = {src, n}
    BY <1>12
  <2>3. \A m : {t, n} = {t, m} /\ m # t => n = m
    BY <1>12
  <2>4. {t, n} \in HLinks' <=> {t, n} \in HLinks \/ {src, n} \in HLinks
    BY <2>1, <2>3, <1>7
  <2> QED BY <2>2, <2>4, <1>4
<1>13. ASSUME NEW e \in HLinks' PROVE link'[e] \in Nat \ {0}
  <2>1. CASE t \notin e
    <3>1. \A n : e # {t, n}
      BY <2>1
    <3>2. e \in HLinks \/ \E n \in nodes \ {t} : {src, n} \in HLinks /\ e = {t, n}
      BY <1>7
    <3>3. e \in HLinks
      BY <3>1, <3>2, Zenon
    <3> QED BY <3>3, <2>1, <1>4, <1>8
  <2>2. CASE t \in e
    <3>1. PICK n \in nodes' : n # t /\ e = {t, n}
      BY <2>2, <1>10, <1>6, PairElements
    <3>2. {t, n} \in HLinks \/ {src, n} \in HLinks
      BY <3>1, <1>12
    <3>3. link'[e] = WeightOf({t, n}) + WeightOf({src, n})
      BY <3>1, <1>12
    <3>4. /\ WeightOf({t, n}) \in Nat /\ WeightOf({src, n}) \in Nat
          /\ WeightOf({t, n}) # 0 \/ WeightOf({src, n}) # 0
      BY <3>2, <1>8, <1>9
    <3> QED BY <3>3, <3>4
  <2> QED BY <2>1, <2>2
<1>14. link' \in [HLinks' -> Nat \ {0}]
  BY <1>5, <1>13
<1> QED BY <1>1, <1>10, <1>11, <1>12, <1>14

LEMMA MergeTypeOK ==
  ASSUME LayerTypeOK, NEW src \in nodes, NEW t \in nodes, src # t, MergeNode(src, t)
  PROVE  LayerTypeOK'
<1>1. /\ nodes' = nodes \ {src}
      /\ DOMAIN link' \subseteq Pairs(nodes')
      /\ link' \in [DOMAIN link' -> Nat \ {0}]
  BY MergeLinks DEF HLinks
<1>2. weight' \in [nodes' -> Nat \ {0}]
  BY <1>1 DEF MergeNode, Restrict, LayerTypeOK
<1>3. vlink' \subseteq below \X nodes'
  <2>1. Children(src) \subseteq below
    BY DEF Children
  <2> QED BY <1>1, <2>1 DEF MergeNode, HorizontalCopyVLinks, LayerTypeOK
<1> QED BY <1>1, <1>2, <1>3 DEF MergeNode, LayerTypeOK

LEMMA MirrorTypeOK ==
  ASSUME LayerTypeOK, MirrorTopLayer
  PROVE  LayerTypeOK' /\ nodes' = UNION HLinks /\ nodes' \subseteq nodes
<1>1. nodes' = UNION HLinks /\ nodes' \subseteq nodes
  <2>1. \A e \in HLinks : e \subseteq nodes
    BY LinkEnds
  <2> QED BY <2>1 DEF MirrorTopLayer
<1>2. DOMAIN link' \subseteq Pairs(nodes')
  <2>1. \A e \in HLinks : e \subseteq nodes' /\ Cardinality(e) = 2
    BY <1>1 DEF LayerTypeOK, HLinks, Pairs
  <2> QED BY <2>1 DEF MirrorTopLayer, HLinks, Pairs
<1>3. weight' \in [nodes' -> Nat \ {0}]
  BY <1>1 DEF MirrorTopLayer, Restrict, LayerTypeOK
<1>4. vlink' \subseteq below' \X nodes'
  BY <1>1 DEF MirrorTopLayer
<1> QED BY <1>1, <1>2, <1>3, <1>4 DEF MirrorTopLayer, LayerTypeOK

LEMMA UpdateTypeOK ==
  ASSUME LayerTypeOK, NEW t \in nodes, NEW w \in Nat \ {0}, UpdateNode(t, w)
  PROVE  LayerTypeOK'
BY DEF UpdateNode, LayerTypeOK

LEMMA InitLayerTypeOK == InitLayer => LayerTypeOK
<1> SUFFICES ASSUME InitLayer PROVE LayerTypeOK
  OBVIOUS
<1>1. PICK E \in SUBSET Pairs(Node) : link \in [E -> LinkWeight]
  BY DEF InitLayer
<1>2. link \in [DOMAIN link -> Nat \ {0}] /\ DOMAIN link \subseteq Pairs(nodes)
  BY <1>1, WeightAssumption DEF InitLayer
<1>3. weight \in [nodes -> Nat \ {0}]
  BY WeightAssumption DEF InitLayer
<1>4. /\ belowLink \in [DOMAIN belowLink -> Nat \ {0}]
      /\ DOMAIN belowLink \subseteq Pairs(below)
      /\ belowWeight \in [below -> Nat \ {0}]
  BY DEF InitLayer
<1> QED BY <1>2, <1>3, <1>4 DEF InitLayer, LayerTypeOK

---------------------------------------------------------------------------
(* Scores *)

\* BestEndpoint is a neighbour, at the end of a heaviest link
LEMMA BestEndpointType ==
  ASSUME LayerTypeOK, NEW v, NEW flags, GetNeighbors(v, flags) # {}
  PROVE  /\ BestEndpoint(v, flags) \in GetNeighbors(v, flags)
         /\ \A m \in GetNeighbors(v, flags) : link[{v, m}] <= link[{v, BestEndpoint(v, flags)}]
<1> DEFINE N == GetNeighbors(v, flags)
           R == {p \in N \X N : \/ link[{v, p[2]}] < link[{v, p[1]}]
                                \/ link[{v, p[2]}] = link[{v, p[1]}] /\ p[2] < p[1]}
           best == BestEndpoint(v, flags)
<1>1. IsFiniteSet(N) /\ N \subseteq Nat
  <2>1. N \in SUBSET Node
    BY DEF GetNeighbors, HNeighbors, LayerTypeOK
  <2> QED BY <2>1, NodeAssumption, FS_Subset
<1>2. \A m \in N : link[{v, m}] \in Nat
  BY DEF GetNeighbors, HNeighbors, HLinks, LayerTypeOK
<1>3. \A a, b \in N : <<a, b>> \in R <=> \/ link[{v, b}] < link[{v, a}]
                                         \/ link[{v, b}] = link[{v, a}] /\ b < a
  OBVIOUS
<1>4. N # {}
  OBVIOUS
<1> HIDE DEF N, R, best
<1>5. ASSUME NEW a \in N, NEW b \in N, a # b PROVE <<a, b>> \in R \/ <<b, a>> \in R
  <2>1. link[{v, a}] \in Nat /\ link[{v, b}] \in Nat /\ a \in Nat /\ b \in Nat
    BY <1>1, <1>2
  <2>2. \/ link[{v, b}] < link[{v, a}]
        \/ link[{v, a}] < link[{v, b}]
        \/ link[{v, b}] = link[{v, a}] /\ b < a
        \/ link[{v, a}] = link[{v, b}] /\ a < b
    <3>1. \A i, j \in Nat : i < j \/ i = j \/ j < i
      OBVIOUS
    <3> QED BY <2>1, <3>1, <1>5
  <2> QED BY <2>2, <1>3
<1>6. ASSUME NEW a \in N, NEW b \in N, NEW c \in N, <<a, b>> \in R, <<b, c>> \in R
      PROVE  <<a, c>> \in R
  <2>1. /\ link[{v, a}] \in Nat /\ link[{v, b}] \in Nat /\ link[{v, c}] \in Nat
        /\ a \in Nat /\ b \in Nat /\ c \in Nat
    BY <1>1, <1>2
  <2>2. \/ link[{v, b}] < link[{v, a}]
        \/ link[{v, b}] = link[{v, a}] /\ b < a
    BY <1>3, <1>6
  <2>3. \/ link[{v, c}] < link[{v, b}]
        \/ link[{v, c}] = link[{v, b}] /\ c < b
    BY <1>3, <1>6
  <2>4. \/ link[{v, c}] < link[{v, a}]
        \/ link[{v, c}] = link[{v, a}] /\ c < a
    BY <2>1, <2>2, <2>3
  <2> QED BY <2>4, <1>3
<1>7. \E m \in N : \A n \in N \ {m} : <<m, n>> \in R
  <2>1. \A a, b \in N : a # b => <<a, b>> \in R \/ <<b, a>> \in R
    BY <1>5
  <2>2. \A a, b, c \in N : <<a, b>> \in R /\ <<b, c>> \in R => <<a, c>> \in R
    BY <1>6
  <2>3. IsFiniteSet(N)
    BY <1>1
  <2> QED BY ONLY <2>3, <1>4, <2>1, <2>2, FirstExists
<1>8. \E n \in N : \A m \in N \ {n} : \/ link[{v, m}] < link[{v, n}]
                                      \/ link[{v, m}] = link[{v, n}] /\ m < n
  BY <1>7, <1>3
<1>9. best \in N /\ \A m \in N \ {best} : \/ link[{v, m}] < link[{v, best}]
                                          \/ link[{v, m}] = link[{v, best}] /\ m < best
  BY <1>8 DEF BestEndpoint, N, best
<1>10. ASSUME NEW m \in N PROVE link[{v, m}] <= link[{v, best}]
  <2>1. link[{v, m}] \in Nat /\ link[{v, best}] \in Nat
    BY <1>2, <1>9
  <2>2. CASE m = best
    BY <2>1, <2>2
  <2>3. CASE m # best
    <3>1. link[{v, m}] < link[{v, best}] \/ link[{v, m}] = link[{v, best}]
      BY <2>3, <1>9
    <3> QED BY <2>1, <3>1
  <2> QED BY <2>2, <2>3
<1> QED BY <1>9, <1>10 DEF N, best

\* Sums of link weights
LEMMA LinkWeightsType ==
  ASSUME LayerTypeOK, NEW E \in SUBSET HLinks
  PROVE  LinkWeights(E) \in Nat /\ (E # {} => LinkWeights(E) > 0)
<1>1. IsFiniteSet(E)
  <2>1. E \in SUBSET (SUBSET Node)
    BY DEF LayerTypeOK, HLinks, Pairs
  <2>2. IsFiniteSet(SUBSET Node)
    BY NodeAssumption, FS_SUBSET
  <2> QED BY <2>1, <2>2, FS_Subset
<1>2. \A e \in E : link[e] \in Nat /\ link[e] > 0
  BY DEF LayerTypeOK, HLinks
<1> QED BY <1>1, <1>2, SumType DEF LinkWeights

\* Scores are fractions; a score is zero when the node has no neighbours that
\* count, and positive otherwise
LEMMA HeavyScoreType ==
  ASSUME LayerTypeOK, NEW v, NEW flags
  PROVE  /\ HeavyScore(v, flags) \in Fraction
         /\ HeavyScore(v, flags)[1] > 0 <=> GetNeighbors(v, flags) # {}
<1>1. CASE GetNeighbors(v, flags) = {}
  BY <1>1 DEF HeavyScore, Fraction
<1>2. CASE GetNeighbors(v, flags) # {}
  <2>1. {v, BestEndpoint(v, flags)} \in HLinks
    BY <1>2, BestEndpointType DEF GetNeighbors, HNeighbors
  <2>2. link[{v, BestEndpoint(v, flags)}] \in Nat \ {0}
    BY <2>1 DEF LayerTypeOK, HLinks
  <2> QED BY <1>2, <2>2 DEF HeavyScore, Fraction
<1> QED BY <1>1, <1>2

LEMMA XScoreType ==
  ASSUME LayerTypeOK, NEW v \in nodes, NEW flags
  PROVE  /\ XScore(v, flags) \in Fraction
         /\ XScore(v, flags)[1] > 0 <=> GetNeighbors(v, flags) # {}
<1> DEFINE near == GetNeighbors(v, flags)
           traversed == LinkWeights({{v, n} : n \in near})
           inner == IF InEdges(v, flags) = {} THEN 1 ELSE LinkWeights(InEdges(v, flags))
           hops == Cardinality(OutEdges(v, flags))
           gravity == SumFunctionOnSet(weight, near \union {v})
           far == IF hops = 0 THEN 1 ELSE hops
<1>1. XScore(v, flags) = <<traversed, inner * gravity * far>>
  BY DEF XScore
<1>2. near \subseteq nodes /\ near \subseteq HNeighbors(v)
  BY DEF GetNeighbors, HNeighbors
<1>3. traversed \in Nat /\ (traversed > 0 <=> near # {})
  <2> DEFINE E == {{v, n} : n \in near}
  <2>1. E \in SUBSET HLinks /\ (E # {} <=> near # {})
    BY <1>2 DEF HNeighbors
  <2>2. E = {} => LinkWeights(E) = 0
    BY SumEmpty DEF LinkWeights
  <2>3. traversed = LinkWeights(E)
    OBVIOUS
  <2> HIDE DEF E, traversed
  <2>4. LinkWeights(E) \in Nat /\ (E # {} => LinkWeights(E) > 0)
    BY <2>1, LinkWeightsType
  <2> QED BY <2>1, <2>2, <2>3, <2>4
<1>4. inner \in Nat \ {0}
  <2>1. InEdges(v, flags) \in SUBSET HLinks
    BY DEF InEdges
  <2>2. /\ LinkWeights(InEdges(v, flags)) \in Nat
        /\ InEdges(v, flags) # {} => LinkWeights(InEdges(v, flags)) > 0
    BY <2>1, LinkWeightsType
  <2> QED BY <2>2
<1>5. gravity \in Nat \ {0}
  <2>1. near \union {v} \in SUBSET nodes /\ near \union {v} # {}
    BY <1>2
  <2>2. IsFiniteSet(near \union {v})
    BY <2>1, NodeAssumption, FS_Subset DEF LayerTypeOK
  <2>3. \A n \in near \union {v} : weight[n] \in Nat /\ weight[n] > 0
    BY <2>1 DEF LayerTypeOK
  <2> HIDE DEF near
  <2> QED BY <2>1, <2>2, <2>3, SumType
<1>6. far \in Nat \ {0}
  <2>1. OutEdges(v, flags) \in SUBSET (SUBSET Node)
    BY DEF OutEdges, LayerTypeOK, HLinks, Pairs
  <2>2. IsFiniteSet(OutEdges(v, flags))
    BY <2>1, NodeAssumption, FS_SUBSET, FS_Subset
  <2>3. hops \in Nat
    BY <2>2, FS_CardinalityType
  <2> QED BY <2>3
<1> HIDE DEF traversed, inner, gravity, far, near
<1>7. \A i, j \in Nat \ {0} : i * j \in Nat \ {0}
  OBVIOUS
<1>8. inner * gravity * far \in Nat \ {0}
  <2>1. inner * gravity \in Nat \ {0}
    BY <1>4, <1>5, <1>7
  <2> QED BY <2>1, <1>6, <1>7
<1>9. XScore(v, flags) \in Fraction /\ XScore(v, flags)[1] = traversed
  BY <1>1, <1>3, <1>8 DEF Fraction
<1> QED BY <1>3, <1>9 DEF near

LEMMA CalcScoreType ==
  ASSUME LayerTypeOK, NEW v \in nodes, NEW flags
  PROVE  /\ CalcScore(v, flags) \in Fraction
         /\ CalcScore(v, flags)[1] > 0 <=> GetNeighbors(v, flags) # {}
BY HeavyScoreType, XScoreType DEF CalcScore

---------------------------------------------------------------------------
(* Types, and what the selector remembers *)

\* The strengthening of TypeOK and SelectorIsLive: the queue is in order, and
\* only while nodes are merged are there nodes to merge, neighbours of the
\* target that nothing else refers to
Selection ==
  /\ Ordered(older, DOMAIN scores)
  /\ phase # "merging" => pending = {}
  /\ pending \subseteq HNeighbors(target)
  /\ phase \in {"looping", "exhausted", "merging"} =>
       /\ DOMAIN scores \subseteq nodes \ pending
       /\ nodesToUpdate \subseteq nodes \ pending
       /\ nodes # {} => root \in nodes \ pending
  /\ phase \in {"exhausted", "merging"} => target \in nodes /\ total > 0

\* Ranking fills the queue with all nodes of the layer
LEMMA Ranked ==
  ASSUME LayerTypeOK, RankNodes
  PROVE  /\ scores' = [v \in nodes |-> CalcScore(v, {})]
         /\ scores' \in [nodes -> Fraction]
         /\ Ordered(older', nodes)
         /\ root' \in Node \union {NoNode}
         /\ nodes # {} => root' \in nodes /\ root' = Front(scores', older')
         /\ flagged' = {} /\ curNeighbors' = {} /\ nodesToUpdate' = {} /\ hasMemory' = hasMemory
<1>1. scores' = [v \in nodes |-> CalcScore(v, {})]
  BY DEF RankNodes
<1>2. scores' \in [nodes -> Fraction]
  BY <1>1, CalcScoreType
<1>3. nodes \in SUBSET Nat /\ nodes \in SUBSET Node
  BY NodeAssumption DEF LayerTypeOK
<1>4. Ordered(older', nodes)
  <2>1. Ordered({}, {})
    BY DEF Ordered
  <2>2. Ordered(PushedAfter({}, {}, nodes), {} \union nodes)
    BY <1>3, <2>1, PushedOrdered
  <2>3. {} \union nodes = nodes
    OBVIOUS
  <2> QED BY <2>2, <2>3 DEF RankNodes
<1>5. ASSUME nodes # {} PROVE root' \in nodes /\ root' = Front(scores', older')
  <2>1. root' = Front(scores', older')
    BY <1>5 DEF RankNodes
  <2> QED BY <1>2, <1>3, <1>4, <1>5, <2>1, FrontType
<1>6. root' \in Node \union {NoNode}
  BY <1>3, <1>5 DEF RankNodes
<1> QED BY <1>1, <1>2, <1>4, <1>5, <1>6 DEF RankNodes

\* The queue after updateScores
LEMMA Updated ==
  ASSUME TypeOK, Selection, phase = "looping", ~ NextIsInvalid
  PROVE  /\ root \in nodes
         /\ DOMAIN ScoresWithRoot = DOMAIN scores \union (IF hasMemory THEN {} ELSE {root})
         /\ ScoresWithRoot \in [DOMAIN ScoresWithRoot -> Fraction]
         /\ DOMAIN UpdatedScores = DOMAIN ScoresWithRoot \union Rescored
         /\ DOMAIN UpdatedScores \subseteq nodes
         /\ DOMAIN UpdatedScores # {}
         /\ UpdatedScores \in [DOMAIN UpdatedScores -> Fraction]
         /\ Ordered(UpdatedOrder, DOMAIN UpdatedScores)
<1>1. /\ DOMAIN scores \subseteq nodes /\ DOMAIN scores # {}
      /\ nodesToUpdate \subseteq nodes
      /\ root \in nodes
  BY DEF Selection, NextIsInvalid
<1>2. LayerTypeOK /\ scores \in [DOMAIN scores -> Fraction]
  BY DEF TypeOK, SelectorTypeOK, Fraction
<1>3. nodes \subseteq Nat /\ nodes \subseteq Node
  BY <1>2, NodeAssumption DEF LayerTypeOK
<1> DEFINE D == DOMAIN scores \union (IF hasMemory THEN {} ELSE {root})
<1>4. ScoresWithRoot \in [D -> Fraction]
  <2>1. CASE hasMemory
    BY <2>1, <1>2 DEF ScoresWithRoot
  <2>2. CASE ~ hasMemory
    <3>1. CalcScore(root, flagged) \in Fraction
      BY <1>1, <1>2, CalcScoreType
    <3> QED BY <2>2, <3>1, <1>2 DEF ScoresWithRoot, Put
  <2> QED BY <2>1, <2>2
<1>5. DOMAIN ScoresWithRoot = D
  BY <1>4
<1>6. Ordered(OrderWithRoot, D)
  <2>1. CASE hasMemory
    BY <2>1 DEF OrderWithRoot, Selection
  <2>2. CASE ~ hasMemory
    <3>1. Ordered(older, DOMAIN scores) /\ {root} \in SUBSET Nat
      BY <1>1, <1>3 DEF Selection
    <3>2. Ordered(PushedAfter(older, DOMAIN scores, {root}), DOMAIN scores \union {root})
      BY <3>1, PushedOrdered
    <3> QED BY <2>2, <3>2 DEF OrderWithRoot
  <2> QED BY <2>1, <2>2
<1>7. Rescored \subseteq nodesToUpdate /\ Rescored \subseteq nodes
  BY <1>1 DEF Rescored
<1>8. ASSUME NEW v \in Rescored PROVE NewScore(v) \in Fraction
  <2>1. CASE Selector = "x"
    BY <2>1, <1>2, <1>7, CalcScoreType DEF NewScore
  <2>2. CASE Selector = "heavy"
    <3>1. {root, v} \in HLinks
      BY <2>2 DEF Rescored, NextIsInvalid, UpdateScoresFails
    <3>2. link[{root, v}] \in Nat
      BY <3>1, <1>2 DEF LayerTypeOK, HLinks
    <3> QED BY <2>2, <3>2 DEF NewScore, Fraction
  <2> QED BY <2>1, <2>2, SelectorAssumption
<1>9. UpdatedScores \in [D \union Rescored -> Fraction]
  BY <1>4, <1>5, <1>8 DEF UpdatedScores
<1>10. DOMAIN UpdatedScores = D \union Rescored
  BY <1>9
<1>11. D \union Rescored \subseteq nodes /\ D \union Rescored # {}
  BY <1>1, <1>7
<1>12. Ordered(UpdatedOrder, D \union Rescored)
  <2>1. Rescored \in SUBSET Nat
    BY <1>3, <1>7
  <2>2. Ordered(PushedAfter(OrderWithRoot, D, Rescored), D \union Rescored)
    BY <1>6, <2>1, PushedOrdered
  <2> QED BY <2>2, <1>5 DEF UpdatedOrder
<1> HIDE DEF D
<1>13. QED
  BY <1>1, <1>4, <1>5, <1>9, <1>10, <1>11, <1>12 DEF D

\* The nodes chosen to be merged are neighbours
LEMMA NodesToMergeType ==
  ASSUME LayerTypeOK, NEW v, NEW flags
  PROVE  /\ NodesToMerge(v, flags) \subseteq GetNeighbors(v, flags)
         /\ GetNeighbors(v, flags) # {} => NodesToMerge(v, flags) # {}
<1>1. CASE Selector = "x" \/ GetNeighbors(v, flags) = {}
  BY <1>1 DEF NodesToMerge
<1>2. CASE ~ (Selector = "x" \/ GetNeighbors(v, flags) = {})
  BY <1>2, BestEndpointType DEF NodesToMerge
<1> QED BY <1>1, <1>2

\* What next leaves in the selector is disjoint from what it selects for
\* merging
LEMMA Selected ==
  ASSUME TypeOK, Selection, phase = "looping", SelectNext
  PROVE  /\ root' = Front(UpdatedScores, UpdatedOrder)
         /\ root' \in DOMAIN UpdatedScores /\ root' \in nodes
         /\ \A n \in DOMAIN UpdatedScores \ {root'} : ~ Less(UpdatedScores[root'], UpdatedScores[n])
         /\ curNeighbors' \subseteq HNeighbors(root') /\ root' \notin curNeighbors'
         /\ DOMAIN scores' = DOMAIN UpdatedScores
                               \ (curNeighbors' \union (IF hasMemory THEN {root'} ELSE {}))
         /\ \A v \in DOMAIN scores' : scores'[v] = UpdatedScores[v]
         /\ scores' \in [DOMAIN scores' -> Fraction]
         /\ Ordered(older', DOMAIN scores')
         /\ nodesToUpdate' \subseteq nodes \ curNeighbors'
         /\ flagged' \subseteq Node
<1>1. LayerTypeOK /\ ~ NextIsInvalid
  BY DEF TypeOK, SelectNext
<1> DEFINE D == DOMAIN UpdatedScores
<1>2. /\ D \subseteq nodes /\ D # {} /\ D \in SUBSET Node
      /\ UpdatedScores \in [D -> Fraction]
      /\ Ordered(UpdatedOrder, D)
      /\ root \in nodes
  BY <1>1, Updated DEF LayerTypeOK
<1>3. root' = Front(UpdatedScores, UpdatedOrder)
  BY DEF SelectNext
<1> HIDE DEF D
<1>4. root' \in D /\ \A n \in D \ {root'} : ~ Less(UpdatedScores[root'], UpdatedScores[n])
  BY <1>2, <1>3, FrontType
<1>5. curNeighbors' = NodesToMerge(root', flagged')
  BY DEF SelectNext
<1>6. curNeighbors' \subseteq GetNeighbors(root', flagged')
  BY <1>1, <1>5, NodesToMergeType
<1>7. curNeighbors' \subseteq HNeighbors(root') /\ root' \notin curNeighbors'
  <2>1. \A a : {a, a} \notin HLinks
    BY <1>1, LinkEnds
  <2> QED BY <1>6, <2>1 DEF GetNeighbors, HNeighbors
<1> DEFINE Gone == curNeighbors' \union (IF hasMemory THEN {root'} ELSE {})
<1>8. scores' = Restrict(UpdatedScores, D \ Gone)
  BY DEF SelectNext, DelNodesToMergeFromQueue, Without, D
<1> HIDE DEF Gone
<1>9. /\ DOMAIN scores' = D \ Gone
      /\ \A v \in DOMAIN scores' : scores'[v] = UpdatedScores[v]
      /\ scores' \in [DOMAIN scores' -> Fraction]
  BY <1>2, <1>8 DEF Restrict
<1>10. Ordered(older', DOMAIN scores')
  <2>1. older' = UpdatedOrder \intersect ((DOMAIN scores') \X (DOMAIN scores'))
    BY DEF SelectNext
  <2>2. DOMAIN scores' \subseteq D
    BY <1>9
  <2> QED BY <1>2, <2>1, <2>2 DEF Ordered
<1>11. nodesToUpdate' \subseteq nodes \ curNeighbors'
  <2>1. nodesToUpdate' = NodesToUpdate(root', curNeighbors', flagged')
    BY DEF SelectNext
  <2>2. nodesToUpdate \subseteq nodes
    BY DEF Selection
  <2>3. CASE Selector = "x"
    <3>1. nodesToUpdate' = GetNeighborsOfSet(curNeighbors', flagged') \ curNeighbors'
      BY <2>1, <2>3 DEF NodesToUpdate, XNodesToUpdate
    <3> QED BY <3>1 DEF GetNeighborsOfSet, HNeighbors
  <2>4. CASE Selector = "heavy" /\ curNeighbors' = {}
    BY <2>1, <2>2, <2>4 DEF NodesToUpdate
  <2>5. CASE Selector = "heavy" /\ curNeighbors' # {}
    <3>1. PICK b : curNeighbors' = {b}
      BY <1>5, <2>5 DEF NodesToMerge
    <3>2. nodesToUpdate' \subseteq GetNeighbors(root', flagged') \intersect HNeighbors(b)
      BY <2>1, <2>5, <3>1 DEF NodesToUpdate, GetNeighborsOfSet
    <3>3. b \notin HNeighbors(b)
      BY <1>1, LinkEnds DEF HNeighbors
    <3> QED BY <3>1, <3>2, <3>3 DEF GetNeighbors, HNeighbors
  <2> QED BY <2>3, <2>4, <2>5, SelectorAssumption
<1>12. flagged' \subseteq Node
  <2>1. flagged \subseteq Node /\ root \in Node
    BY <1>2 DEF TypeOK, SelectorTypeOK, LayerTypeOK
  <2> QED BY <2>1 DEF SelectNext
<1> QED BY <1>2, <1>3, <1>4, <1>7, <1>9, <1>10, <1>11, <1>12 DEF D, Gone

Safe == TypeOK /\ Selection

LEMMA MergeCountType ==
  ASSUME NEW n \in Nat, NEW percent \in Percent
  PROVE  ComputeMergeCount(n, percent) \in Nat
<1>1. percent \in Nat
  BY RunsAssumption
<1>2. percent * n \in Nat
  BY <1>1
<1>3. \A k \in Nat : k \div 100 + 1 \in Nat
  OBVIOUS
<1>4. n >= 2 => n - 1 \in Nat
  OBVIOUS
<1> QED BY <1>2, <1>3, <1>4 DEF ComputeMergeCount

LEMMA InitSafe == Init => Safe
<1> SUFFICES ASSUME Init PROVE Safe
  OBVIOUS
<1>1. LayerTypeOK
  BY InitLayerTypeOK DEF Init
<1>2. SelectorTypeOK /\ DOMAIN scores = {}
  <2>1. DOMAIN scores = {} /\ scores \in [{} -> Fraction]
    BY DEF Init
  <2>2. Ordered(older, {})
    BY DEF Init, Ordered
  <2> QED BY <2>1, <2>2 DEF Init, SelectorTypeOK, Fraction
<1>3. TypeOK
  BY <1>1, <1>2, RunsAssumption DEF Init, TypeOK, Phases
<1>4. Selection
  BY <1>2 DEF Init, Selection, Ordered
<1> QED BY <1>3, <1>4 DEF Safe

LEMMA PreExecSafe ==
  ASSUME Safe, NEW percent \in Percent, PreExec(percent)
  PROVE  Safe'
<1>1. LayerTypeOK'
  BY MirrorTypeOK DEF Safe, TypeOK, PreExec
<1>2. ComputeMergeCount(baseCount, percent) \in Nat
  BY MergeCountType DEF Safe, TypeOK
<1>3. SelectorTypeOK'
  BY SelectorAssumption DEF Safe, TypeOK, SelectorTypeOK, PreExec
<1>4. runs' \in 0..MaxRuns
  BY RunsAssumption DEF Safe, TypeOK, PreExec, Idle
<1>5. TypeOK'
  BY <1>1, <1>2, <1>3, <1>4 DEF Safe, TypeOK, PreExec, Phases
<1>6. Selection'
  BY DEF Safe, Selection, PreExec, Idle
<1> QED BY <1>5, <1>6 DEF Safe

LEMMA PreExecFailsSafe ==
  ASSUME Safe, PreExecFails
  PROVE  Safe'
<1>1. runs' \in 0..MaxRuns
  BY RunsAssumption DEF Safe, TypeOK, PreExecFails, Idle
<1>2. TypeOK'
  BY <1>1 DEF Safe, TypeOK, LayerTypeOK, SelectorTypeOK, PreExecFails, Phases, layerVars, selectorVars
<1>3. Selection'
  BY DEF Safe, Selection, PreExecFails, Idle, layerVars, selectorVars, HNeighbors, HLinks
<1> QED BY <1>2, <1>3 DEF Safe

LEMMA RankSafe ==
  ASSUME Safe, Rank \/ Rerank
  PROVE  Safe'
<1>1. RankNodes /\ UNCHANGED layerVars /\ LayerTypeOK
  BY DEF Safe, TypeOK, Rank, Rerank
<1>2. LayerTypeOK' /\ nodes' = nodes
  BY <1>1 DEF LayerTypeOK, layerVars
<1>3. nodes \in SUBSET Node
  BY <1>1 DEF LayerTypeOK
<1>4. SelectorTypeOK' /\ DOMAIN scores' = nodes
  <2>1. /\ scores' \in [nodes -> Fraction] /\ older' \subseteq nodes \X nodes
        /\ root' \in Node \union {NoNode}
        /\ flagged' = {} /\ curNeighbors' = {} /\ nodesToUpdate' = {}
        /\ hasMemory' = hasMemory
    BY <1>1, Ranked DEF Ordered
  <2>2. DOMAIN scores' = nodes /\ hasMemory \in BOOLEAN
    BY <2>1 DEF Safe, TypeOK, SelectorTypeOK
  <2> QED BY <1>3, <2>1, <2>2 DEF SelectorTypeOK, Fraction
<1>5. pending = {} /\ pending' = {}
  BY <1>1, Ranked DEF Safe, Selection, Rank, Rerank
<1>6. merged' \in Nat
  <2>1. Cardinality({}) = 0
    BY FS_EmptySet
  <2> QED BY <1>1, <2>1, Ranked DEF Safe, TypeOK, Rank, Rerank
<1>7. TypeOK'
  <2>1. /\ phase' \in Phases /\ baseCount' = baseCount /\ requested' = requested
        /\ mergeCount' = mergeCount /\ target' = target /\ total' = total /\ runs' = runs
    BY DEF Rank, Rerank, Phases
  <2> QED BY <1>2, <1>4, <1>5, <1>6, <2>1 DEF Safe, TypeOK
<1>8. Selection'
  <2>1. \/ phase' = "looping"
        \/ phase' = "merging" /\ phase = "exhausted" /\ target' = target /\ total' = total
    BY DEF Rank, Rerank
  <2>2. phase' = "merging" => target' \in nodes' /\ total' > 0
    BY <1>2, <2>1 DEF Safe, Selection
  <2>3. /\ Ordered(older', DOMAIN scores') /\ nodesToUpdate' = {}
        /\ nodes # {} => root' \in nodes
    BY <1>1, <1>4, Ranked
  <2> QED BY <1>2, <1>4, <1>5, <2>1, <2>2, <2>3 DEF Selection
<1> QED BY <1>7, <1>8 DEF Safe

LEMMA SelectSafe ==
  ASSUME Safe, Select
  PROVE  Safe'
<1>1. TypeOK /\ Selection /\ phase = "looping" /\ SelectNext /\ UNCHANGED layerVars
  BY DEF Safe, Select
<1>2. LayerTypeOK' /\ nodes' = nodes /\ nodes \in SUBSET Node
  BY <1>1 DEF TypeOK, LayerTypeOK, layerVars
<1> DEFINE D == DOMAIN scores'
<1>3. /\ root' \in nodes
      /\ curNeighbors' \subseteq HNeighbors(root') /\ root' \notin curNeighbors'
      /\ scores' \in [D -> Fraction] /\ Ordered(older', D)
      /\ D \subseteq nodes \ curNeighbors'
      /\ nodesToUpdate' \subseteq nodes \ curNeighbors'
      /\ flagged' \subseteq Node
  <2>1. DOMAIN UpdatedScores \subseteq nodes
    BY <1>1, Updated DEF SelectNext
  <2> QED BY <1>1, <2>1, Selected
<1>4. curNeighbors' \subseteq Node
  BY <1>2, <1>3 DEF HNeighbors
<1>5. SelectorTypeOK'
  <2>1. hasMemory' \in BOOLEAN
    BY <1>1 DEF SelectNext, TypeOK, SelectorTypeOK
  <2>2. D \in SUBSET Node /\ root' \in Node \union {NoNode} /\ nodesToUpdate' \subseteq Node
    BY <1>2, <1>3
  <2>3. older' \subseteq D \X D
    BY <1>3 DEF Ordered
  <2> QED BY <1>3, <1>4, <2>1, <2>2, <2>3 DEF SelectorTypeOK, Fraction
<1>6. target' = root' /\ total' \in Nat \ {0}
  <2>1. weight' = weight
    BY <1>1 DEF layerVars
  <2> QED BY <1>1, <1>3 DEF Select, TypeOK, LayerTypeOK
<1>7. \/ phase' = "merging" /\ pending' = curNeighbors' /\ merged' \in Nat
      \/ phase' = "exhausted" /\ pending' = {} /\ merged' \in Nat
  <2>1. Cardinality(curNeighbors') \in Nat
    BY <1>4, NodeAssumption, FS_Subset, FS_CardinalityType
  <2>2. merged \in Nat /\ pending = {}
    BY <1>1 DEF TypeOK, Selection
  <2> QED BY <2>1, <2>2 DEF Select
<1>8. TypeOK'
  <2>1. phase' \in Phases /\ target' \in Node \union {NoNode} /\ pending' \subseteq Node
    BY <1>2, <1>3, <1>4, <1>6, <1>7 DEF Phases
  <2> QED BY <1>1, <1>2, <1>5, <1>6, <1>7, <2>1 DEF TypeOK, Select
<1>9. pending' \subseteq HNeighbors(target)'
  BY <1>1, <1>3, <1>6, <1>7 DEF HNeighbors, HLinks, layerVars
<1>10. Selection'
  BY <1>2, <1>3, <1>6, <1>7, <1>9 DEF Selection
<1> QED BY <1>8, <1>10 DEF Safe

LEMMA SelectFailsSafe ==
  ASSUME Safe, SelectFails
  PROVE  Safe'
<1>1. DOMAIN scores' = {} /\ scores' \in [{} -> Fraction]
  BY DEF SelectFails, ResetSelection
<1>2. LayerTypeOK'
  BY DEF Safe, TypeOK, LayerTypeOK, SelectFails, layerVars
<1>3. SelectorTypeOK'
  BY <1>1 DEF Safe, TypeOK, SelectorTypeOK, Fraction, SelectFails, ResetSelection
<1>4. TypeOK'
  BY <1>2, <1>3 DEF Safe, TypeOK, SelectFails, Phases
<1>5. Selection'
  BY <1>1 DEF Safe, Selection, Ordered, SelectFails, ResetSelection
<1> QED BY <1>4, <1>5 DEF Safe

\* The node merged next, and the node it is merged into
LEMMA MergedNext ==
  ASSUME Safe, MergeNeighbor
  PROVE  /\ Smallest(pending) \in pending /\ Smallest(pending) \in nodes
         /\ target \in nodes /\ Smallest(pending) # target
         /\ {target, Smallest(pending)} \in HLinks
         /\ MergeNode(Smallest(pending), target)
         /\ pending' = pending \ {Smallest(pending)}
         /\ LayerTypeOK
<1>1. LayerTypeOK /\ pending \in SUBSET Node /\ pending # {} /\ phase = "merging"
  BY DEF Safe, TypeOK, MergeNeighbor
<1>2. Smallest(pending) \in pending
  BY <1>1, SmallestType
<1>3. {target, Smallest(pending)} \in HLinks /\ target \in nodes /\ Smallest(pending) \in nodes
  BY <1>1, <1>2 DEF Safe, Selection, HNeighbors
<1>4. Smallest(pending) # target
  BY <1>1, <1>3, LinkEnds
<1> QED BY <1>1, <1>2, <1>3, <1>4 DEF MergeNeighbor

LEMMA MergeNeighborSafe ==
  ASSUME Safe, MergeNeighbor
  PROVE  Safe'
<1> DEFINE src == Smallest(pending)
<1>1. /\ src \in pending /\ src \in nodes /\ target \in nodes /\ src # target
      /\ {target, src} \in HLinks /\ MergeNode(src, target) /\ pending' = pending \ {src}
      /\ LayerTypeOK
  BY MergedNext
<1>2. total' = total + weight[src]
  BY DEF MergeNeighbor
<1> HIDE DEF src
<1>3. LayerTypeOK' /\ nodes' = nodes \ {src}
  BY <1>1, MergeTypeOK DEF MergeNode
<1>4. total' \in Nat /\ (total > 0 => total' > 0)
  <2>1. total \in Nat /\ weight[src] \in Nat
    BY <1>1 DEF Safe, TypeOK, LayerTypeOK
  <2> QED BY <2>1, <1>2
<1>5. TypeOK'
  BY <1>1, <1>3, <1>4 DEF Safe, TypeOK, SelectorTypeOK, MergeNeighbor, selectorVars
<1>6. ASSUME NEW n \in pending' PROVE n \in HNeighbors(target)'
  <2>1. n \in nodes' /\ n # target /\ {target, n} \in HLinks
    BY <1>1, <1>3, <1>6, LinkEnds DEF Safe, Selection, HNeighbors
  <2>2. {target, n} \in HLinks'
    BY <1>1, <2>1, MergeLinks
  <2> QED BY <2>1, <2>2 DEF HNeighbors, MergeNeighbor
<1>7. Selection'
  BY <1>1, <1>3, <1>4, <1>6 DEF Safe, Selection, MergeNeighbor, selectorVars
<1> QED BY <1>5, <1>7 DEF Safe

LEMMA FinishMergeSafe ==
  ASSUME Safe, FinishMerge
  PROVE  Safe'
<1>1. LayerTypeOK' /\ nodes' = nodes
  <2>1. LayerTypeOK /\ target \in nodes /\ total \in Nat \ {0} /\ UpdateNode(target, total)
    BY DEF Safe, TypeOK, Selection, FinishMerge
  <2>2. nodes' = nodes
    BY <2>1 DEF UpdateNode
  <2> QED BY <2>1, <2>2, UpdateTypeOK
<1>2. mergeCount' \in Int
  BY DEF Safe, TypeOK, FinishMerge, Largest
<1>3. TypeOK'
  BY <1>1, <1>2 DEF Safe, TypeOK, SelectorTypeOK, FinishMerge, selectorVars, Phases
<1>4. Selection'
  BY <1>1 DEF Safe, Selection, FinishMerge, selectorVars
<1> QED BY <1>3, <1>4 DEF Safe

LEMMA FinishSafe ==
  ASSUME Safe, Finish \/ UNCHANGED vars
  PROVE  Safe'
<1>1. UNCHANGED <<layerVars, selectorVars, baseCount, requested, mergeCount, target, total,
                  pending, merged, runs>>
  BY DEF Finish, vars, runVars
<1>2. /\ phase' \in Phases
      /\ \/ phase' = phase
         \/ phase' = "done" /\ phase = "looping"
  BY DEF Safe, TypeOK, Finish, vars, runVars, Phases
<1>3. LayerTypeOK' /\ SelectorTypeOK'
  BY <1>1 DEF Safe, TypeOK, LayerTypeOK, SelectorTypeOK, layerVars, selectorVars
<1>4. TypeOK'
  BY <1>1, <1>2, <1>3 DEF Safe, TypeOK
<1>5. Selection'
  BY <1>1, <1>2 DEF Safe, Selection, layerVars, selectorVars, HNeighbors, HLinks
<1> QED BY <1>4, <1>5 DEF Safe

LEMMA StepSafe == Safe /\ [Next]_vars => Safe'
<1> SUFFICES ASSUME Safe, [Next]_vars PROVE Safe'
  OBVIOUS
<1>1. CASE \E percent \in Percent : PreExec(percent)
  BY <1>1, PreExecSafe
<1>2. CASE PreExecFails
  BY <1>2, PreExecFailsSafe
<1>3. CASE Rank \/ Rerank
  BY <1>3, RankSafe
<1>4. CASE Select
  BY <1>4, SelectSafe
<1>5. CASE SelectFails
  BY <1>5, SelectFailsSafe
<1>6. CASE MergeNeighbor
  BY <1>6, MergeNeighborSafe
<1>7. CASE FinishMerge
  BY <1>7, FinishMergeSafe
<1>8. CASE Finish \/ UNCHANGED vars
  BY <1>8, FinishSafe
<1> QED BY <1>1, <1>2, <1>3, <1>4, <1>5, <1>6, <1>7, <1>8 DEF Next, Run

LEMMA AlwaysSafe == Spec => []Safe
BY InitSafe, StepSafe, PTL DEF Spec

\* Every variable keeps its type through any runs: scores stay fractions with
\* a positive denominator, so no score divides by zero, and node weights stay
\* positive through every merge.
THEOREM TypeCorrect == Spec => []TypeOK
<1>1. Safe => TypeOK
  BY DEF Safe
<1> QED BY <1>1, AlwaysSafe, PTL

\* Everything the selectors keep across a merge, queue, updates, selection and
\* target, are nodes that are still in the layer, whatever its size, for both
\* selectors, with memory and without.
THEOREM SelectorAlwaysLive == Spec => []SelectorIsLive
<1>1. Safe => SelectorIsLive
  <2>1. Safe => pending \subseteq nodes /\ target \notin pending
    BY LinkEnds DEF Safe, TypeOK, Selection, HNeighbors
  <2> QED BY <2>1 DEF Safe, Selection, SelectorIsLive
<1> QED BY <1>1, AlwaysSafe, PTL

---------------------------------------------------------------------------
(* A node is selected once                                                 *)

\* Until the first selection the node that ranking found waits at the front
\* of the queue; later neither it nor any node selected before waits there
Consumed ==
  hasMemory /\ phase \in {"looping", "merging"} =>
    IF flagged = {}
    THEN nodesToUpdate = {} /\ (nodes # {} => root = Front(scores, older))
    ELSE DOMAIN scores \intersect (flagged \union {root}) = {}

\* HeavyHLinkSelector::updateScores adds no node to the queue, and leaves it
\* as it is when no node is to be updated
LEMMA HeavyUpdate ==
  ASSUME Selector = "heavy", hasMemory, Safe, phase = "looping", ~ NextIsInvalid
  PROVE  /\ DOMAIN UpdatedScores = DOMAIN scores
         /\ nodesToUpdate = {} => UpdatedScores = scores /\ UpdatedOrder = older
<1>1. ScoresWithRoot = scores /\ OrderWithRoot = older
  BY DEF ScoresWithRoot, OrderWithRoot
<1>2. Rescored \subseteq DOMAIN scores /\ Rescored \subseteq nodesToUpdate
  BY <1>1 DEF Rescored, NextIsInvalid, UpdateScoresFails
<1>3. DOMAIN UpdatedScores = DOMAIN scores
  BY <1>1, <1>2 DEF UpdatedScores
<1>4. ASSUME nodesToUpdate = {} PROVE UpdatedScores = scores /\ UpdatedOrder = older
  <2>1. Rescored = {}
    BY <1>2, <1>4
  <2>2. scores \in [DOMAIN scores -> Fraction] /\ older \subseteq (DOMAIN scores) \X (DOMAIN scores)
    BY DEF Safe, TypeOK, SelectorTypeOK, Fraction
  <2>3. UpdatedScores = [v \in DOMAIN scores |-> scores[v]]
    BY <1>1, <2>1 DEF UpdatedScores
  <2>4. UpdatedOrder = PushedAfter(older, DOMAIN scores, {})
    BY <1>1, <2>1 DEF UpdatedOrder
  <2>5. UpdatedOrder = older
    BY <2>2, <2>4 DEF PushedAfter
  <2> QED BY <2>2, <2>3, <2>5
<1> QED BY <1>3, <1>4

LEMMA SelectConsumes ==
  ASSUME Selector = "heavy", Safe, Consumed, Select, hasMemory
  PROVE  /\ flagged' = flagged \union {root}
         /\ DOMAIN scores' \intersect (flagged' \union {root'}) = {}
         /\ flagged # {} => root' \notin flagged \union {root}
<1>1. /\ TypeOK /\ Selection /\ phase = "looping" /\ SelectNext /\ ~ NextIsInvalid
  BY DEF Safe, Select, SelectNext
<1>2. /\ DOMAIN UpdatedScores = DOMAIN scores
      /\ nodesToUpdate = {} => UpdatedScores = scores /\ UpdatedOrder = older
  BY <1>1, HeavyUpdate
<1>3. /\ root' = Front(UpdatedScores, UpdatedOrder) /\ root' \in DOMAIN UpdatedScores
      /\ root' \in nodes
      /\ DOMAIN scores' \subseteq DOMAIN UpdatedScores \ {root'}
  BY <1>1, Selected
<1>4. flagged' = flagged \union {root}
  BY <1>1 DEF SelectNext
<1>5. CASE flagged = {}
  <2>1. root' = root
    BY <1>1, <1>2, <1>3, <1>5 DEF Consumed
  <2> QED BY <1>2, <1>3, <1>4, <1>5, <2>1
<1>6. CASE flagged # {}
  <2>1. DOMAIN scores \intersect (flagged \union {root}) = {}
    BY <1>1, <1>6 DEF Consumed
  <2> QED BY <1>2, <1>3, <1>4, <2>1
<1> QED BY <1>5, <1>6

LEMMA ConsumedStep ==
  ASSUME Selector = "heavy", Safe, Consumed, [Next]_vars
  PROVE  Consumed'
<1> SUFFICES ASSUME hasMemory', phase' \in {"looping", "merging"}
             PROVE  IF flagged' = {}
                    THEN nodesToUpdate' = {} /\ (nodes' # {} => root' = Front(scores', older'))
                    ELSE DOMAIN scores' \intersect (flagged' \union {root'}) = {}
  BY DEF Consumed
<1>1. CASE Rank \/ Rerank
  <2>1. RankNodes /\ nodes' = nodes /\ LayerTypeOK
    BY <1>1 DEF Rank, Rerank, Safe, TypeOK, layerVars
  <2> QED BY <2>1, Ranked
<1>2. CASE Select
  <2>1. hasMemory
    BY <1>2 DEF Select, SelectNext
  <2> QED BY <1>2, <2>1, SelectConsumes
<1>3. CASE MergeNeighbor \/ FinishMerge \/ UNCHANGED vars
  <2>1. UNCHANGED selectorVars /\ phase \in {"looping", "merging"} /\ (nodes = {} => nodes' = {})
    BY <1>3 DEF MergeNeighbor, FinishMerge, UpdateNode, MergeNode, vars, runVars, layerVars
  <2> QED BY <2>1 DEF Consumed, selectorVars
<1>4. CASE PreExecFails \/ SelectFails \/ Finish \/ \E percent \in Percent : PreExec(percent)
  BY <1>4 DEF PreExecFails, SelectFails, Finish, PreExec
<1> QED BY <1>1, <1>2, <1>3, <1>4 DEF Next, Run

\* With memory, HeavyHLinkSelector returns every node of the layer at most
\* once per ranking: once the first selection is made, next never returns a
\* node that it returned before, however the merges between change the scores.
THEOREM SelectedOnce ==
  ASSUME Selector = "heavy"
  PROVE  Spec => NeverSelectedTwice
<1>1. Init => Consumed
  BY DEF Init, Consumed
<1>2. Safe /\ Consumed /\ [Next]_vars => Consumed'
  BY ConsumedStep
<1>3. ASSUME Safe, Consumed, [Next]_vars
      PROVE  [hasMemory /\ phase = "looping" /\ phase' \in {"merging", "exhausted"} /\ flagged # {}
                => root' \notin flagged \union {root}]_vars
  <2> SUFFICES ASSUME hasMemory, phase = "looping", phase' \in {"merging", "exhausted"},
                      flagged # {}, Next
               PROVE  root' \notin flagged \union {root}
    BY <1>3
  <2>1. Select
    BY DEF Next, Run, PreExecFails, PreExec, Idle, Rank, SelectFails, Rerank, MergeNeighbor,
           FinishMerge, Finish
  <2> QED BY <1>3, <2>1, SelectConsumes
<1>4. Spec => []Consumed
  BY <1>1, <1>2, AlwaysSafe, PTL DEF Spec
<1> QED BY <1>3, <1>4, AlwaysSafe, PTL DEF Spec, NeverSelectedTwice

---------------------------------------------------------------------------
(* The layer against the layer below it                                    *)

\* Linked nodes of the layer below have a parent, no node has two, and no
\* node of the layer is without children
Genealogy ==
  below # {} =>
    /\ \A c \in UNION DOMAIN belowLink : \E t \in nodes : <<c, t>> \in vlink
    /\ \A c, s, t : <<c, s>> \in vlink /\ <<c, t>> \in vlink => s = t
    /\ \A t \in nodes : Children(t) # {}

LEMMA LinksBetweenSymmetric ==
  \A s, t : LinksBetween(s, t) = LinksBetween(t, s)
<1>1. \A a, b : {a, b} = {b, a}
  OBVIOUS
<1>2. \A s, t, e : e \in LinksBetween(s, t) => e \in LinksBetween(t, s)
  BY <1>1 DEF LinksBetween
<1>3. ASSUME NEW s, NEW t PROVE LinksBetween(s, t) = LinksBetween(t, s)
  <2>1. LinksBetween(s, t) \subseteq LinksBetween(t, s) /\ LinksBetween(t, s) \subseteq LinksBetween(s, t)
    BY <1>2
  <2> QED BY <2>1
<1> QED BY <1>3

LEMMA LinksBetweenSymmetricNext ==
  (\A s, t : LinksBetween(s, t) = LinksBetween(t, s))'
BY LinksBetweenSymmetric, PTL

LEMMA LinksBetweenType ==
  ASSUME LayerTypeOK, NEW s, NEW t
  PROVE  /\ IsFiniteSet(LinksBetween(s, t))
         /\ \A e \in LinksBetween(s, t) : belowLink[e] \in Nat
<1>1. LinksBetween(s, t) \in SUBSET (SUBSET Node)
  BY DEF LinksBetween, LayerTypeOK, Pairs
<1>2. IsFiniteSet(LinksBetween(s, t))
  BY <1>1, NodeAssumption, FS_SUBSET, FS_Subset
<1>3. \A e \in LinksBetween(s, t) : belowLink[e] \in Nat
  BY DEF LinksBetween, LayerTypeOK
<1> QED BY <1>2, <1>3

\* In the mirrored layer every node stands for itself
LEMMA MirrorChildren ==
  ASSUME LayerTypeOK, MirrorTopLayer
  PROVE  /\ \A t \in nodes' : Children(t)' = {t}
         /\ \A s, t \in nodes' : LinksBetween(s, t)' = {e \in HLinks : e = {s, t}}
         /\ HLinks' = HLinks /\ link' = link /\ belowLink' = link
<1>1. nodes' \subseteq nodes /\ below' = nodes /\ belowLink' = link /\ link' = link
  BY MirrorTypeOK DEF MirrorTopLayer
<1>2. \A c, t : <<c, t>> \in vlink' <=> c = t /\ c \in nodes'
  BY DEF MirrorTopLayer
<1>3. ASSUME NEW t \in nodes' PROVE Children(t)' = {t}
  BY <1>1, <1>2 DEF Children
<1>4. ASSUME NEW s \in nodes', NEW t \in nodes'
      PROVE  LinksBetween(s, t)' = {e \in HLinks : e = {s, t}}
  BY <1>1, <1>3 DEF LinksBetween, HLinks
<1> QED BY <1>1, <1>3, <1>4 DEF HLinks

\* Merging src into t hands its children to t
LEMMA MergeChildren ==
  ASSUME LayerTypeOK, NEW src \in nodes, NEW t \in nodes, src # t, MergeNode(src, t)
  PROVE  /\ \A c, s : <<c, s>> \in vlink' <=>
              s # src /\ (<<c, s>> \in vlink \/ (s = t /\ <<c, src>> \in vlink))
         /\ Children(t)' = Children(t) \union Children(src)
         /\ \A s \in nodes' \ {t} : Children(s)' = Children(s)
         /\ \A s, u \in nodes' \ {t} : LinksBetween(s, u)' = LinksBetween(s, u)
         /\ \A u \in nodes' \ {t} :
              LinksBetween(t, u)' = LinksBetween(t, u) \union LinksBetween(src, u)
<1>1. nodes' = nodes \ {src} /\ below' = below /\ belowLink' = belowLink
  BY DEF MergeNode
<1>2. vlink \subseteq below \X nodes
  BY DEF LayerTypeOK
<1>3. \A c, s : <<c, s>> \in vlink' <=>
        s # src /\ (<<c, s>> \in vlink \/ (s = t /\ <<c, src>> \in vlink))
  <2>1. vlink' = {e \in vlink \union {<<c, t>> : c \in Children(src)} : e[2] # src}
    BY DEF MergeNode, HorizontalCopyVLinks
  <2>2. \A c : c \in Children(src) <=> <<c, src>> \in vlink
    BY <1>2 DEF Children
  <2>3. \A c, s : <<c, s>> \in {<<d, t>> : d \in Children(src)} <=> s = t /\ c \in Children(src)
    OBVIOUS
  <2> QED BY <2>1, <2>2, <2>3
<1>4. Children(t)' = Children(t) \union Children(src)
  BY <1>1, <1>3 DEF Children
<1>5. ASSUME NEW s \in nodes' \ {t} PROVE Children(s)' = Children(s)
  BY <1>1, <1>3 DEF Children
<1>6. ASSUME NEW s \in nodes' \ {t}, NEW u \in nodes' \ {t}
      PROVE  LinksBetween(s, u)' = LinksBetween(s, u)
  BY <1>1, <1>5 DEF LinksBetween
<1>7. ASSUME NEW u \in nodes' \ {t}
      PROVE  LinksBetween(t, u)' = LinksBetween(t, u) \union LinksBetween(src, u)
  <2>1. LinksBetween(t, u)' =
          {e \in DOMAIN belowLink : \E a \in Children(t) \union Children(src), b \in Children(u) : e = {a, b}}
    BY <1>1, <1>4, <1>5 DEF LinksBetween
  <2> QED BY <2>1 DEF LinksBetween
<1> QED BY <1>3, <1>4, <1>5, <1>6, <1>7

LEMMA MirrorGenealogy ==
  ASSUME LayerTypeOK, MirrorTopLayer
  PROVE  Genealogy' /\ HLinksAreSums'
<1>1. /\ \A t \in nodes' : Children(t)' = {t}
      /\ \A s, t \in nodes' : LinksBetween(s, t)' = {e \in HLinks : e = {s, t}}
      /\ HLinks' = HLinks /\ link' = link /\ belowLink' = link
  BY MirrorChildren
<1>2. UNION DOMAIN belowLink' = nodes' /\ \A c, t : <<c, t>> \in vlink' <=> c = t /\ c \in nodes'
  BY <1>1 DEF MirrorTopLayer, HLinks
<1>3. Genealogy'
  BY <1>1, <1>2 DEF Genealogy
<1>4. ASSUME NEW s \in nodes', NEW t \in nodes', s # t
      PROVE  IF LinksBetween(s, t)' = {} THEN {s, t} \notin HLinks'
             ELSE {s, t} \in HLinks' /\ link'[{s, t}] = SumFunctionOnSet(belowLink', LinksBetween(s, t)')
  <2> DEFINE d == {s, t}
  <2>1. LinksBetween(s, t)' = {e \in HLinks : e = d}
    BY <1>1
  <2> HIDE DEF d
  <2>2. CASE d \in HLinks
    <3>1. LinksBetween(s, t)' = {d}
      BY <2>1, <2>2
    <3>2. link[d] \in Nat
      BY <2>2 DEF LayerTypeOK, HLinks
    <3>3. SumFunctionOnSet(link, {d}) = link[d]
      BY <3>2, SumSingleton
    <3> QED BY <1>1, <2>2, <3>1, <3>3 DEF d
  <2>3. CASE d \notin HLinks
    <3>1. LinksBetween(s, t)' = {}
      BY <2>1, <2>3
    <3> QED BY <1>1, <2>3, <3>1 DEF d
  <2> QED BY <2>2, <2>3
<1>5. HLinksAreSums'
  BY <1>4 DEF HLinksAreSums
<1> QED BY <1>3, <1>5

\* The children of different nodes differ, and so do the links between them
LEMMA ChildrenDisjoint ==
  ASSUME LayerTypeOK, Genealogy, below # {}, NEW s \in nodes, NEW t \in nodes, s # t
  PROVE  /\ Children(s) \intersect Children(t) = {}
         /\ \A u \in nodes \ {s, t} : LinksBetween(s, u) \intersect LinksBetween(t, u) = {}
<1>1. \A a, b \in nodes : a # b => Children(a) \intersect Children(b) = {}
  BY DEF Genealogy, Children
<1>2. ASSUME NEW u \in nodes \ {s, t}, NEW e \in LinksBetween(s, u), e \in LinksBetween(t, u)
      PROVE  FALSE
  <2>1. PICK a \in Children(s), b \in Children(u) : e = {a, b}
    BY DEF LinksBetween
  <2>2. PICK c \in Children(t), d \in Children(u) : e = {c, d}
    BY <1>2 DEF LinksBetween
  <2>3. a \in {c, d}
    BY <2>1, <2>2
  <2> QED BY <2>1, <2>2, <2>3, <1>1
<1> QED BY <1>1, <1>2

LEMMA MergeGenealogy ==
  ASSUME LayerTypeOK, Genealogy, HLinksAreSums,
         NEW src \in nodes, NEW t \in nodes, src # t, MergeNode(src, t)
  PROVE  Genealogy' /\ HLinksAreSums'
<1>1. nodes' = nodes \ {src} /\ below' = below /\ belowLink' = belowLink
  BY DEF MergeNode
<1>2. /\ \A c, s : <<c, s>> \in vlink' <=>
           s # src /\ (<<c, s>> \in vlink \/ (s = t /\ <<c, src>> \in vlink))
      /\ Children(t)' = Children(t) \union Children(src)
      /\ \A s \in nodes' \ {t} : Children(s)' = Children(s)
      /\ \A s, u \in nodes' \ {t} : LinksBetween(s, u)' = LinksBetween(s, u)
      /\ \A u \in nodes' \ {t} :
           LinksBetween(t, u)' = LinksBetween(t, u) \union LinksBetween(src, u)
  BY MergeChildren
<1>3. /\ \A a, b \in nodes' : t # a /\ t # b =>
           /\ {a, b} \in HLinks' <=> {a, b} \in HLinks
           /\ {a, b} \in HLinks => link'[{a, b}] = link[{a, b}]
      /\ \A n \in nodes' : t # n =>
           /\ {t, n} \in HLinks' <=> {t, n} \in HLinks \/ {src, n} \in HLinks
           /\ {t, n} \in HLinks' => link'[{t, n}] = WeightOf({t, n}) + WeightOf({src, n})
  BY MergeLinks
<1>4. Genealogy'
  <2> SUFFICES ASSUME below # {} PROVE Genealogy'
    BY <1>1 DEF Genealogy
  <2>1. ASSUME NEW c \in UNION DOMAIN belowLink PROVE \E s \in nodes' : <<c, s>> \in vlink'
    <3>1. PICK s \in nodes : <<c, s>> \in vlink
      BY DEF Genealogy
    <3>2. CASE s = src
      BY <3>1, <3>2, <1>1, <1>2
    <3>3. CASE s # src
      BY <3>1, <3>3, <1>1, <1>2
    <3> QED BY <3>2, <3>3
  <2>2. ASSUME NEW c, NEW s, NEW u, <<c, s>> \in vlink', <<c, u>> \in vlink' PROVE s = u
    <3>1. /\ s # src /\ (<<c, s>> \in vlink \/ (s = t /\ <<c, src>> \in vlink))
          /\ u # src /\ (<<c, u>> \in vlink \/ (u = t /\ <<c, src>> \in vlink))
      BY <1>2, <2>2
    <3>2. \A p, q : <<c, p>> \in vlink /\ <<c, q>> \in vlink => p = q
      BY DEF Genealogy
    <3> QED BY <3>1, <3>2
  <2>3. \A s \in nodes' : Children(s)' # {}
    BY <1>1, <1>2 DEF Genealogy
  <2> QED BY <1>1, <2>1, <2>2, <2>3 DEF Genealogy
<1>5. ASSUME below # {}, NEW s \in nodes, NEW u \in nodes, s # u
      PROVE  /\ {s, u} \in HLinks <=> LinksBetween(s, u) # {}
             /\ WeightOf({s, u}) = SumFunctionOnSet(belowLink, LinksBetween(s, u))
  <2>1. IF LinksBetween(s, u) = {} THEN {s, u} \notin HLinks
        ELSE {s, u} \in HLinks /\ link[{s, u}] = SumFunctionOnSet(belowLink, LinksBetween(s, u))
    BY <1>5 DEF HLinksAreSums
  <2> QED BY <2>1, SumEmpty DEF WeightOf
<1> DEFINE Holds(s, u) ==
      IF LinksBetween(s, u)' = {} THEN {s, u} \notin HLinks'
      ELSE {s, u} \in HLinks' /\ link'[{s, u}] = SumFunctionOnSet(belowLink', LinksBetween(s, u)')
<1>6. ASSUME below # {}, NEW u \in nodes', u # t PROVE Holds(t, u)
  <2>1. u \in nodes /\ u # src
    BY <1>1
  <2>2. LinksBetween(t, u)' = LinksBetween(t, u) \union LinksBetween(src, u)
    BY <1>2, <1>6
  <2>3. /\ {t, u} \in HLinks <=> LinksBetween(t, u) # {}
        /\ WeightOf({t, u}) = SumFunctionOnSet(belowLink, LinksBetween(t, u))
    BY <1>5, <1>6, <2>1
  <2>4. /\ {src, u} \in HLinks <=> LinksBetween(src, u) # {}
        /\ WeightOf({src, u}) = SumFunctionOnSet(belowLink, LinksBetween(src, u))
    BY <1>5, <1>6, <2>1
  <2>5. {t, u} \in HLinks' <=> LinksBetween(t, u)' # {}
    BY <1>3, <1>6, <2>2, <2>3, <2>4
  <2>6. SumFunctionOnSet(belowLink, LinksBetween(t, u) \union LinksBetween(src, u)) =
          SumFunctionOnSet(belowLink, LinksBetween(t, u)) + SumFunctionOnSet(belowLink, LinksBetween(src, u))
    <3>1. LinksBetween(t, u) \intersect LinksBetween(src, u) = {}
      BY <1>6, <2>1, ChildrenDisjoint
    <3>2. /\ IsFiniteSet(LinksBetween(t, u)) /\ IsFiniteSet(LinksBetween(src, u))
          /\ \A e \in LinksBetween(t, u) \union LinksBetween(src, u) : belowLink[e] \in Nat
      BY LinksBetweenType
    <3> QED BY <3>1, <3>2, SumUnion
  <2>7. {t, u} \in HLinks' => link'[{t, u}] = WeightOf({t, u}) + WeightOf({src, u})
    BY <1>3, <1>6
  <2>8. {t, u} \in HLinks' => link'[{t, u}] = SumFunctionOnSet(belowLink', LinksBetween(t, u)')
    BY <1>1, <2>2, <2>3, <2>4, <2>6, <2>7
  <2> QED BY <2>5, <2>8
<1>7. ASSUME below # {}, NEW s \in nodes', NEW u \in nodes', s # u PROVE Holds(s, u)
  <2>1. CASE s = t
    BY <1>6, <1>7, <2>1
  <2>2. CASE u = t
    <3>1. Holds(t, s)
      BY <1>6, <1>7, <2>2
    <3>2. {s, u} = {t, s}
      BY <2>2
    <3>3. LinksBetween(s, u)' = LinksBetween(t, s)'
      BY <2>2, LinksBetweenSymmetricNext
    <3> QED BY <3>1, <3>2, <3>3
  <2>3. CASE s # t /\ u # t
    <3>1. LinksBetween(s, u)' = LinksBetween(s, u)
      BY <1>2, <2>3
    <3>2. IF LinksBetween(s, u) = {} THEN {s, u} \notin HLinks
          ELSE {s, u} \in HLinks /\ link[{s, u}] = SumFunctionOnSet(belowLink, LinksBetween(s, u))
      BY <1>1, <1>7 DEF HLinksAreSums
    <3>3. /\ {s, u} \in HLinks' <=> {s, u} \in HLinks
          /\ {s, u} \in HLinks => link'[{s, u}] = link[{s, u}]
      BY <1>3, <2>3
    <3> QED BY <1>1, <3>1, <3>2, <3>3
  <2> QED BY <2>1, <2>2, <2>3
<1>8. HLinksAreSums'
  BY <1>1, <1>7 DEF HLinksAreSums
<1> QED BY <1>4, <1>8

Related == Genealogy /\ HLinksAreSums

LEMMA InitRelated == Init => Related
BY DEF Init, InitLayer, Related, Genealogy, HLinksAreSums

\* Only the start of a run and the merging of a neighbour change the nodes and
\* links of the two layers
LEMMA LayersChange ==
  ASSUME Safe, [Next]_vars
  PROVE  \/ \E percent \in Percent : PreExec(percent)
         \/ MergeNeighbor
         \/ UNCHANGED <<below, belowLink, belowWeight, nodes, link, vlink>>
BY DEF Next, Run, PreExecFails, Rank, Rerank, Select, SelectFails, FinishMerge, UpdateNode,
       Finish, vars, layerVars

LEMMA RelatedStep ==
  ASSUME Safe, Related, [Next]_vars
  PROVE  Related'
<1>1. CASE \E percent \in Percent : PreExec(percent)
  BY <1>1, MirrorGenealogy DEF PreExec, Related, Safe, TypeOK
<1>2. CASE MergeNeighbor
  <2>1. /\ Smallest(pending) \in nodes /\ target \in nodes /\ Smallest(pending) # target
        /\ MergeNode(Smallest(pending), target) /\ LayerTypeOK
    BY <1>2, MergedNext
  <2> QED BY <2>1, MergeGenealogy DEF Related
<1>3. CASE UNCHANGED <<below, belowLink, belowWeight, nodes, link, vlink>>
  <2>1. /\ below' = below /\ belowLink' = belowLink /\ nodes' = nodes /\ vlink' = vlink
        /\ HLinks' = HLinks /\ link' = link
    BY <1>3 DEF HLinks
  <2>2. \A s : Children(s)' = Children(s)
    BY <2>1 DEF Children
  <2>3. \A s, t : LinksBetween(s, t)' = LinksBetween(s, t)
    BY <2>1, <2>2 DEF LinksBetween
  <2>4. Genealogy'
    BY <2>1, <2>2 DEF Related, Genealogy
  <2>5. HLinksAreSums'
    BY <2>1, <2>3 DEF Related, HLinksAreSums
  <2> QED BY <2>4, <2>5 DEF Related
<1> QED BY <1>1, <1>2, <1>3, LayersChange

LEMMA AlwaysRelated == Spec => []Related
<1>1. Safe /\ Related /\ [Next]_vars => Related'
  BY RelatedStep
<1> QED BY <1>1, InitRelated, AlwaysSafe, PTL DEF Spec

\* Two nodes of the coarse layer are linked exactly when nodes they stand for
\* are, by the sum of the weights of those links, also in the middle of a
\* merge: for any layer, any weights, both selectors and any number of runs.
THEOREM LinksStaySums == Spec => []HLinksAreSums
<1>1. Related => HLinksAreSums
  BY DEF Related
<1> QED BY <1>1, AlwaysRelated, PTL

---------------------------------------------------------------------------
(* Coarsening contracts the layer below                                    *)

LEMMA BeginsContraction ==
  ASSUME Safe, NEW percent \in Percent, PreExec(percent)
  PROVE  Contracted!Begin
<1>1. LayerTypeOK /\ MirrorTopLayer
  BY DEF Safe, TypeOK, PreExec
<1>2. below' = nodes /\ belowLink' = link /\ nodes' = UNION DOMAIN belowLink'
  BY <1>1 DEF MirrorTopLayer, HLinks
<1>3. below' # {}
  <2>1. Cardinality(nodes) >= 2
    BY DEF PreExec
  <2> QED BY <2>1, <1>2, FS_EmptySet
<1>4. \A t \in nodes' : Children(t)' = {t}
  BY <1>1, MirrorChildren
<1>5. {Children(t)' : t \in nodes'} = {{v} : v \in UNION DOMAIN belowLink'}
  BY <1>2, <1>4
<1>6. below' \subseteq Node /\ DOMAIN belowLink' \subseteq Contracted!Pairs(below')
  <2>1. \A S : Contracted!Pairs(S) = Pairs(S)
    BY DEF Pairs, Contracted!Pairs, Contracted!Cardinality, Cardinality
  <2> QED BY <1>1, <1>2, <2>1 DEF LayerTypeOK
<1> QED BY <1>3, <1>5, <1>6 DEF Contracted!Begin

LEMMA MergeContracts ==
  ASSUME Safe, Related, below # {}, MergeNeighbor
  PROVE  \E A, B \in {Children(t) : t \in nodes} :
           /\ A # B
           /\ \E a \in A, b \in B : {a, b} \in DOMAIN belowLink
           /\ {Children(t)' : t \in nodes'} =
                ({Children(t) : t \in nodes} \ {A, B}) \union {A \union B}
<1>1. PICK src \in nodes, t0 \in nodes :
        /\ src # t0 /\ {t0, src} \in HLinks
        /\ MergeNode(src, t0) /\ LayerTypeOK
  BY MergedNext
<1> DEFINE A == Children(src)
           B == Children(t0)
<1>2. /\ nodes' = nodes \ {src}
      /\ Children(t0)' = B \union A
      /\ \A s \in nodes' \ {t0} : Children(s)' = Children(s)
  <2>1. nodes' = nodes \ {src}
    BY <1>1 DEF MergeNode
  <2>2. /\ Children(t0)' = Children(t0) \union Children(src)
        /\ \A s \in nodes' \ {t0} : Children(s)' = Children(s)
    BY <1>1, MergeChildren
  <2> QED BY <2>1, <2>2
<1>3. \A s, t \in nodes : s # t => Children(s) \intersect Children(t) = {}
  BY <1>1, ChildrenDisjoint DEF Related
<1>4. \A t \in nodes : Children(t) # {}
  BY DEF Related, Genealogy
<1>5. \A s, t \in nodes : s # t => Children(s) # Children(t)
  BY <1>3, <1>4
<1>6. \E a \in A, b \in B : {a, b} \in DOMAIN belowLink
  <2>1. {src, t0} = {t0, src}
    OBVIOUS
  <2>2. LinksBetween(src, t0) # {}
    BY <1>1, <2>1 DEF Related, HLinksAreSums
  <2> QED BY <2>2 DEF LinksBetween
<1>7. {Children(t)' : t \in nodes'} = ({Children(t) : t \in nodes} \ {A, B}) \union {A \union B}
  <2>1. ASSUME NEW t \in nodes'
        PROVE  Children(t)' \in ({Children(s) : s \in nodes} \ {A, B}) \union {A \union B}
    <3>1. CASE t = t0
      <4>1. Children(t)' = B \union A /\ B \union A = A \union B
        BY <3>1, <1>2
      <4> QED BY <4>1
    <3>2. CASE t # t0
      <4>1. t \in nodes /\ t # src /\ Children(t)' = Children(t)
        BY <3>2, <1>2
      <4>2. Children(t) # A /\ Children(t) # B
        BY <4>1, <3>2, <1>1, <1>5
      <4> QED BY <4>1, <4>2
    <3> QED BY <3>1, <3>2
  <2>2. ASSUME NEW C \in ({Children(s) : s \in nodes} \ {A, B}) \union {A \union B}
        PROVE  \E t \in nodes' : C = Children(t)'
    <3>1. CASE C = A \union B
      <4>1. C = Children(t0)' /\ t0 \in nodes'
        BY <3>1, <1>1, <1>2
      <4> QED BY <4>1
    <3>2. CASE C # A \union B
      <4>1. PICK t \in nodes : C = Children(t) /\ C # A /\ C # B
        BY <3>2
      <4>2. t \in nodes' \ {t0}
        BY <4>1, <1>2
      <4> QED BY <4>1, <4>2, <1>2
    <3> QED BY <3>1, <3>2
  <2> QED BY <2>1, <2>2
<1> QED BY <1>1, <1>5, <1>6, <1>7

\* A run of the coarsener does to the layer below what module Contraction
\* says: starting from single linked nodes it joins two groups at a time, and
\* only along a link between them.  Every step of the runs is a step of it or
\* changes neither the layer below nor the groups.
THEOREM CoarseningContracts == Spec => ImplementsContraction
<1>1. Init => Contracted!Init
  BY DEF Init, InitLayer, Contracted!Init
<1>2. ASSUME Safe, Related, [Next]_vars PROVE [Contracted!Next]_(Contracted!vars)
  <2>1. CASE \E percent \in Percent : PreExec(percent)
    BY <1>2, <2>1, BeginsContraction DEF Contracted!Next
  <2>2. CASE MergeNeighbor /\ below # {}
    <3>1. below' = below /\ belowLink' = belowLink
      BY <2>2 DEF MergeNeighbor, MergeNode
    <3> QED BY <1>2, <2>2, <3>1, MergeContracts DEF Contracted!Next, Contracted!Contract
  <2>3. CASE MergeNeighbor /\ below = {}
    BY <2>3 DEF MergeNeighbor, MergeNode, Contracted!vars
  <2>4. CASE UNCHANGED <<below, belowLink, belowWeight, nodes, link, vlink>>
    BY <2>4 DEF Contracted!vars, Children
  <2> QED BY <1>2, <2>1, <2>2, <2>3, <2>4, LayersChange
<1> QED BY <1>1, <1>2, AlwaysSafe, AlwaysRelated, PTL
        DEF Spec, ImplementsContraction, Contracted!Spec

---------------------------------------------------------------------------
(* The weight of the layer                                                 *)

\* When the queue runs empty the sum starts with the weight of the target
Balanced ==
  /\ WeightConserved
  /\ phase = "exhausted" => total = weight[target]

LEMMA TotalRemove ==
  ASSUME NEW S \in SUBSET Node, NEW w, \A n \in S : w[n] \in Nat, NEW v \in S
  PROVE  /\ Total(S, w) = w[v] + Total(S \ {v}, w)
         /\ Total(S \ {v}, w) \in Nat /\ w[v] \in Nat
<1>1. IsFiniteSet(S) /\ IsFiniteSet(S \ {v})
  BY NodeAssumption, FS_Subset
<1>2. SumFunctionOnSet(w, S) = w[v] + SumFunctionOnSet(w, S \ {v})
  BY <1>1, SumRemove
<1>3. SumFunctionOnSet(w, S \ {v}) \in Nat
  BY <1>1, SumType
<1> QED BY <1>2, <1>3 DEF Total

LEMMA TotalSame ==
  ASSUME NEW S \in SUBSET Node, NEW w, NEW u, \A n \in S : w[n] = u[n]
  PROVE  Total(S, w) = Total(S, u)
<1>1. IsFiniteSet(S)
  BY NodeAssumption, FS_Subset
<1> QED BY <1>1, SumSame DEF Total

\* A merge begins: the weight of the target is in the sum
LEMMA SelectBalances ==
  ASSUME Safe, Balanced, Select \/ Rerank
  PROVE  Balanced'
<1>1. /\ below' = below /\ belowLink' = belowLink /\ belowWeight' = belowWeight
      /\ nodes' = nodes /\ weight' = weight
  BY DEF Select, Rerank, layerVars
<1>2. /\ phase # "merging" /\ total' = weight[target']
      /\ \/ phase' = "merging" /\ target' \in nodes
         \/ phase' = "exhausted"
  <2>1. CASE Select
    <3>1. root' \in nodes
      BY <2>1, Selected DEF Safe, Select
    <3> QED BY <1>1, <2>1, <3>1 DEF Select
  <2>2. CASE Rerank
    BY <2>2 DEF Rerank, Balanced, Safe, Selection
  <2> QED BY <2>1, <2>2
<1>3. nodes \in SUBSET Node /\ \A n \in nodes : weight[n] \in Nat
  BY DEF Safe, TypeOK, LayerTypeOK
<1>4. CASE phase' = "exhausted"
  BY <1>1, <1>2, <1>4 DEF Balanced, WeightConserved, Midway, Total
<1>5. CASE phase' = "merging"
  <2> DEFINE t == target'
  <2>1. Total(nodes, weight) = weight[t] + Total(nodes \ {t}, weight)
    BY <1>2, <1>3, <1>5, TotalRemove
  <2> QED BY <1>1, <1>2, <1>5, <2>1 DEF Balanced, WeightConserved, Midway, Total
<1> QED BY <1>2, <1>4, <1>5

\* The weight of a merged node moves into the sum
LEMMA MergeBalances ==
  ASSUME Safe, Balanced, MergeNeighbor
  PROVE  Balanced'
<1> DEFINE src == Smallest(pending)
<1>1. /\ src \in nodes /\ target \in nodes /\ src # target
      /\ MergeNode(src, target) /\ LayerTypeOK
  BY MergedNext
<1>2. /\ total' = total + weight[src] /\ target' = target
      /\ phase = "merging" /\ phase' = "merging"
  BY DEF MergeNeighbor
<1> HIDE DEF src
<1>3. /\ below' = below /\ belowLink' = belowLink /\ belowWeight' = belowWeight
      /\ nodes' = nodes \ {src} /\ weight' = Restrict(weight, nodes')
  BY <1>1 DEF MergeNode
<1> DEFINE T == nodes \ {target}
           S == nodes' \ {target}
<1>4. /\ T \in SUBSET Node /\ S \in SUBSET Node /\ src \in T /\ S = T \ {src}
      /\ \A n \in T : weight[n] \in Nat
      /\ \A n \in S : weight'[n] = weight[n]
      /\ total \in Nat
  BY <1>1, <1>3 DEF Safe, TypeOK, LayerTypeOK, Restrict
<1>5. Total(T, weight) = weight[src] + Total(S, weight) /\ Total(S, weight) \in Nat /\ weight[src] \in Nat
  <2> HIDE DEF T, S
  <2> QED BY <1>4, TotalRemove
<1>6. Total(S, weight) = Total(S, weight')
  <2> HIDE DEF S
  <2> QED BY <1>4, TotalSame
<1>7. total + Total(T, weight) = total' + Total(S, weight')
  <2> HIDE DEF T, S
  <2> QED BY <1>2, <1>4, <1>5, <1>6
<1>8. below # {} => Total(UNION DOMAIN belowLink, belowWeight) = total + Total(T, weight)
  BY <1>2 DEF Balanced, WeightConserved, Midway
<1>9. below' # {} => Total(UNION DOMAIN belowLink', belowWeight') = total' + Total(nodes' \ {target'}, weight')
  BY <1>2, <1>3, <1>7, <1>8
<1> QED BY <1>2, <1>9 DEF Balanced, WeightConserved, Midway, Total

\* The sum becomes the weight of the target
LEMMA FinishMergeBalances ==
  ASSUME Safe, Balanced, FinishMerge
  PROVE  Balanced'
<1>1. /\ below' = below /\ belowLink' = belowLink /\ belowWeight' = belowWeight
      /\ nodes' = nodes /\ weight' = [weight EXCEPT ![target] = total]
      /\ phase = "merging" /\ phase' = "looping" /\ total \in Nat /\ target \in nodes
      /\ weight \in [nodes -> Nat \ {0}] /\ nodes \in SUBSET Node
  BY DEF Safe, TypeOK, LayerTypeOK, Selection, FinishMerge, UpdateNode
<1>2. weight'[target] = total /\ (\A n \in nodes \ {target} : weight'[n] = weight[n])
  BY <1>1
<1>3. \A n \in nodes : weight'[n] \in Nat
  BY <1>1
<1> DEFINE w == weight'
<1>4. Total(nodes, w) = w[target] + Total(nodes \ {target}, w)
  <2> HIDE DEF w
  <2> QED BY <1>1, <1>3, TotalRemove DEF w
<1>5. Total(nodes \ {target}, w) = Total(nodes \ {target}, weight)
  <2>1. nodes \ {target} \in SUBSET Node
    BY <1>1
  <2> HIDE DEF w
  <2> QED BY <1>2, <2>1, TotalSame DEF w
<1> QED BY <1>1, <1>2, <1>4, <1>5 DEF Balanced, WeightConserved, Midway, Total

LEMMA MirrorBalances ==
  ASSUME Safe, NEW percent \in Percent, PreExec(percent)
  PROVE  Balanced'
<1>1. /\ LayerTypeOK /\ MirrorTopLayer /\ phase' = "mirrored"
  BY DEF Safe, TypeOK, PreExec
<1>2. nodes' \in SUBSET Node /\ nodes' = UNION DOMAIN belowLink'
  BY <1>1, MirrorTypeOK DEF MirrorTopLayer, HLinks, LayerTypeOK
<1>3. \A n \in nodes' : belowWeight'[n] = weight'[n]
  BY <1>1 DEF MirrorTopLayer, Restrict
<1>4. Total(nodes', belowWeight') = Total(nodes', weight')
  BY <1>2, <1>3, TotalSame
<1> QED BY <1>1, <1>2, <1>4 DEF Balanced, WeightConserved, Midway, Total

LEMMA BalancedStep ==
  ASSUME Safe, Balanced, [Next]_vars
  PROVE  Balanced'
<1>1. CASE \E percent \in Percent : PreExec(percent)
  BY <1>1, MirrorBalances
<1>2. CASE Select \/ Rerank
  BY <1>2, SelectBalances
<1>3. CASE MergeNeighbor
  BY <1>3, MergeBalances
<1>4. CASE FinishMerge
  BY <1>4, FinishMergeBalances
<1>5. CASE PreExecFails \/ Rank \/ SelectFails \/ Finish \/ UNCHANGED vars
  <2>1. /\ UNCHANGED <<layerVars, total, target>>
        /\ \/ phase' = phase
           \/ phase # "merging" /\ phase' \notin {"merging", "exhausted"}
    BY <1>5 DEF PreExecFails, Idle, Rank, SelectFails, Finish, vars, runVars
  <2> QED BY <2>1 DEF Balanced, WeightConserved, Midway, Total, layerVars
<1> QED BY <1>1, <1>2, <1>3, <1>4, <1>5 DEF Next, Run

\* The nodes of the coarse layer together weigh what the linked nodes of the
\* layer below weigh, for any layer and any weights; while a merge is under
\* way the weight of the target is the sum that AdditiveNeighborMerger holds.
THEOREM WeightAlwaysConserved == Spec => []WeightConserved
<1>1. Init => Balanced
  BY DEF Init, InitLayer, Balanced, WeightConserved
<1>2. Safe /\ Balanced /\ [Next]_vars => Balanced'
  BY BalancedStep
<1>3. Balanced => WeightConserved
  BY DEF Balanced
<1> QED BY <1>1, <1>2, <1>3, AlwaysSafe, PTL DEF Spec

---------------------------------------------------------------------------
(* Runs without memory                                                     *)

\* Without memory the queue never runs empty and holds every node but those
\* about to be merged; a score is zero only for a node without neighbours,
\* except that of the root, which next computes anew
Queued ==
  ~hasMemory /\ phase \in {"looping", "merging", "exhausted"} =>
    /\ phase # "exhausted" /\ flagged = {}
    /\ DOMAIN scores = nodes \ pending
    /\ \A v \in DOMAIN scores \ {root} : scores[v][1] > 0 <=> HNeighbors(v) # {}
    /\ pending # {} => target = root
    /\ Selector = "heavy" => nodesToUpdate \subseteq HNeighbors(root)

LEMMA AllNeighbors == \A v : GetNeighbors(v, {}) = HNeighbors(v)
BY DEF GetNeighbors

\* The code's updateScores never fails on such a queue
LEMMA UpdateSucceeds ==
  ASSUME Safe, Queued, ~hasMemory, phase = "looping"
  PROVE  ~ UpdateScoresFails
<1>1. /\ nodesToUpdate \subseteq DOMAIN scores
      /\ Selector = "heavy" => nodesToUpdate \subseteq HNeighbors(root)
  BY DEF Safe, Selection, Queued
<1>2. DOMAIN scores \subseteq DOMAIN ScoresWithRoot
  BY DEF ScoresWithRoot, Put
<1> QED BY <1>1, <1>2 DEF UpdateScoresFails, HNeighbors

LEMMA UpdatedPositive ==
  ASSUME Safe, Queued, ~hasMemory, phase = "looping", ~ NextIsInvalid
  PROVE  /\ DOMAIN UpdatedScores = nodes
         /\ \A v \in nodes : UpdatedScores[v][1] > 0 <=> HNeighbors(v) # {}
<1>1. /\ TypeOK /\ Selection /\ LayerTypeOK /\ pending = {} /\ flagged = {}
      /\ DOMAIN scores = nodes
      /\ \A v \in nodes \ {root} : scores[v][1] > 0 <=> HNeighbors(v) # {}
      /\ Selector = "heavy" => nodesToUpdate \subseteq HNeighbors(root)
  BY DEF Safe, TypeOK, Selection, Queued
<1>2. /\ root \in nodes
      /\ DOMAIN UpdatedScores = DOMAIN ScoresWithRoot \union Rescored
      /\ DOMAIN UpdatedScores \subseteq nodes
      /\ DOMAIN ScoresWithRoot = DOMAIN scores \union {root}
  BY <1>1, Updated
<1>3. DOMAIN UpdatedScores = nodes
  BY <1>1, <1>2
<1>4. ASSUME NEW v \in nodes PROVE UpdatedScores[v][1] > 0 <=> HNeighbors(v) # {}
  <2>1. CalcScore(v, {})[1] > 0 <=> HNeighbors(v) # {}
    BY <1>1, CalcScoreType, AllNeighbors
  <2>2. UpdatedScores[v] = IF v \in Rescored THEN NewScore(v) ELSE ScoresWithRoot[v]
    BY <1>2, <1>3 DEF UpdatedScores
  <2>3. CASE v \in Rescored /\ Selector = "x"
    BY <1>1, <2>1, <2>2, <2>3 DEF NewScore
  <2>4. CASE v \in Rescored /\ Selector = "heavy"
    <3>1. v \in HNeighbors(root)
      BY <1>1, <2>4 DEF Rescored
    <3>2. {root, v} \in HLinks /\ {root, v} = {v, root}
      BY <3>1 DEF HNeighbors
    <3>3. root \in HNeighbors(v)
      BY <1>2, <3>2 DEF HNeighbors
    <3>4. link[{root, v}] \in Nat \ {0}
      BY <1>1, <3>2 DEF LayerTypeOK, HLinks
    <3>5. UpdatedScores[v] = <<link[{root, v}], 1>>
      BY <2>2, <2>4 DEF NewScore
    <3> QED BY <3>3, <3>4, <3>5
  <2>5. CASE v \notin Rescored /\ v = root
    <3>1. ScoresWithRoot[v] = CalcScore(v, {})
      BY <1>1, <2>5 DEF ScoresWithRoot, Put
    <3> QED BY <2>1, <2>2, <2>5, <3>1
  <2>6. CASE v \notin Rescored /\ v # root
    <3>1. ScoresWithRoot[v] = scores[v]
      BY <1>1, <2>6 DEF ScoresWithRoot, Put
    <3> QED BY <1>1, <2>2, <2>6, <3>1
  <2> QED BY <2>3, <2>4, <2>5, <2>6, SelectorAssumption
<1> QED BY <1>3, <1>4

\* Only a front without neighbours scores zero, and only when no node has any
LEMMA FrontHasNeighbors ==
  ASSUME Safe, Queued, ~hasMemory, phase = "looping", SelectNext
  PROVE  /\ HNeighbors(root') = {} => HLinks = {}
         /\ curNeighbors' = {} => HLinks = {}
<1>1. TypeOK /\ Selection /\ ~ NextIsInvalid /\ flagged = {} /\ LayerTypeOK
  BY DEF Safe, TypeOK, Queued, SelectNext
<1>2. /\ DOMAIN UpdatedScores = nodes
      /\ \A v \in nodes : UpdatedScores[v][1] > 0 <=> HNeighbors(v) # {}
  BY <1>1, UpdatedPositive
<1>3. UpdatedScores \in [nodes -> Fraction]
  BY <1>1, <1>2, Updated
<1>4. /\ root' \in nodes
      /\ \A n \in nodes \ {root'} : ~ Less(UpdatedScores[root'], UpdatedScores[n])
  BY <1>1, <1>2, Selected
<1>5. ASSUME HNeighbors(root') = {} PROVE HLinks = {}
  <2>1. ASSUME NEW n \in nodes PROVE HNeighbors(n) = {}
    <3>1. CASE n = root'
      BY <1>5, <3>1
    <3>2. CASE n # root'
      <4>1. PICK a \in Nat, b \in Nat \ {0} : UpdatedScores[root'] = <<a, b>>
        BY <1>3, <1>4 DEF Fraction
      <4>2. PICK c \in Nat, d \in Nat \ {0} : UpdatedScores[n] = <<c, d>>
        BY <1>3 DEF Fraction
      <4>3. a = 0
        BY <1>2, <1>4, <1>5, <4>1
      <4>4. ~ (a * d < c * b)
        BY <1>4, <3>2, <4>1, <4>2 DEF Less
      <4>5. c = 0
        BY <4>3, <4>4
      <4> QED BY <1>2, <4>2, <4>5
    <3> QED BY <3>1, <3>2
  <2>2. ASSUME NEW e \in HLinks PROVE FALSE
    <3>1. PICK a \in nodes, b \in nodes : e = {a, b}
      BY <1>1, LinkEnds
    <3> QED BY <2>1, <2>2, <3>1 DEF HNeighbors
  <2> QED BY <2>2
<1>6. ASSUME curNeighbors' = {} PROVE HNeighbors(root') = {}
  <2>1. flagged' = {}
    BY <1>1 DEF SelectNext
  <2>2. curNeighbors' = NodesToMerge(root', {})
    BY <2>1 DEF SelectNext
  <2> QED BY <1>1, <1>6, <2>2, NodesToMergeType, AllNeighbors
<1> QED BY <1>5, <1>6

\* Merging hands the neighbours of src to t, and nodes without any get none
LEMMA MergeNeighbors ==
  ASSUME LayerTypeOK, NEW src \in nodes, NEW t \in nodes, src # t, MergeNode(src, t)
  PROVE  /\ HNeighbors(t) \ {src} \subseteq HNeighbors(t)'
         /\ {t, src} \in HLinks =>
              \A v \in nodes' \ {t} : HNeighbors(v)' # {} <=> HNeighbors(v) # {}
<1>1. nodes' = nodes \ {src}
  BY DEF MergeNode
<1>2. /\ \A a, b \in nodes' : t # a /\ t # b => ({a, b} \in HLinks' <=> {a, b} \in HLinks)
      /\ \A n \in nodes' : t # n =>
           ({t, n} \in HLinks' <=> {t, n} \in HLinks \/ {src, n} \in HLinks)
  BY MergeLinks
<1>3. \A n : n \in HNeighbors(t) => n # t
  BY LinkEnds DEF HNeighbors
<1>4. HNeighbors(t) \ {src} \subseteq HNeighbors(t)'
  BY <1>1, <1>2, <1>3 DEF HNeighbors
<1>5. ASSUME {t, src} \in HLinks, NEW v \in nodes' \ {t}
      PROVE  HNeighbors(v)' # {} <=> HNeighbors(v) # {}
  <2>1. /\ {v, t} = {t, v} /\ {v, src} = {src, v}
        /\ v \in nodes /\ v # src /\ t \in nodes'
    BY <1>1, <1>5
  <2>2. ASSUME NEW n \in HNeighbors(v) PROVE HNeighbors(v)' # {}
    <3>1. n \in nodes /\ {v, n} \in HLinks
      BY DEF HNeighbors
    <3>2. CASE n \in {src, t}
      <4>1. {t, v} \in HLinks'
        BY <1>2, <1>5, <2>1, <3>1, <3>2
      <4> QED BY <2>1, <4>1 DEF HNeighbors
    <3>3. CASE n \notin {src, t}
      <4>1. n \in nodes' /\ {v, n} \in HLinks'
        BY <1>1, <1>2, <1>5, <3>1, <3>3
      <4> QED BY <4>1 DEF HNeighbors
    <3> QED BY <3>2, <3>3
  <2>3. ASSUME NEW n \in HNeighbors(v)' PROVE HNeighbors(v) # {}
    <3>1. n \in nodes' /\ {v, n} \in HLinks'
      BY <2>3 DEF HNeighbors
    <3>2. CASE n = t
      <4>1. {t, v} \in HLinks \/ {src, v} \in HLinks
        BY <1>2, <1>5, <2>1, <3>1, <3>2
      <4> QED BY <2>1, <4>1 DEF HNeighbors
    <3>3. CASE n # t
      <4>1. n \in nodes /\ {v, n} \in HLinks
        BY <1>1, <1>2, <1>5, <3>1, <3>3
      <4> QED BY <4>1 DEF HNeighbors
    <3> QED BY <3>2, <3>3
  <2> QED BY <2>2, <2>3
<1> QED BY <1>4, <1>5

LEMMA SelectQueued ==
  ASSUME Safe, Queued, ~hasMemory, Select
  PROVE  /\ phase' = "merging" /\ flagged' = {}
         /\ DOMAIN scores' = nodes' \ pending' /\ target' = root'
         /\ pending' = curNeighbors' /\ merged' = Cardinality(pending')
         /\ \A v \in DOMAIN scores' : scores'[v][1] > 0 <=> HNeighbors(v)' # {}
         /\ Selector = "heavy" => nodesToUpdate' \subseteq HNeighbors(root)'
<1>1. /\ TypeOK /\ Selection /\ phase = "looping" /\ SelectNext /\ ~ NextIsInvalid /\ flagged = {}
      /\ UNCHANGED layerVars
  BY DEF Safe, Queued, Select, SelectNext
<1>2. nodes' = nodes /\ HLinks' = HLinks /\ \A v : HNeighbors(v)' = {n \in nodes : {v, n} \in HLinks}
  BY <1>1 DEF layerVars, HLinks, HNeighbors
<1>3. /\ DOMAIN UpdatedScores = nodes
      /\ \A v \in nodes : UpdatedScores[v][1] > 0 <=> HNeighbors(v) # {}
  BY <1>1, UpdatedPositive
<1>4. /\ root' \in nodes /\ root' \notin curNeighbors'
      /\ DOMAIN scores' = nodes \ curNeighbors'
      /\ \A v \in DOMAIN scores' : scores'[v] = UpdatedScores[v]
  <2>1. DOMAIN scores' = nodes \ (curNeighbors' \union (IF hasMemory THEN {root'} ELSE {}))
    BY <1>1, <1>3, Selected
  <2> QED BY <1>1, <2>1, Selected
<1>5. DOMAIN scores' # {}
  BY <1>4
<1>6. /\ phase' = "merging" /\ pending' = curNeighbors' /\ target' = root'
      /\ merged' = Cardinality(curNeighbors')
  BY <1>5 DEF Select
<1>7. flagged' = {}
  BY <1>1 DEF SelectNext
<1>8. \A v \in DOMAIN scores' : scores'[v][1] > 0 <=> HNeighbors(v)' # {}
  BY <1>2, <1>3, <1>4 DEF HNeighbors
<1>9. ASSUME Selector = "heavy" PROVE nodesToUpdate' \subseteq HNeighbors(root)'
  <2>1. nodesToUpdate' = NodesToUpdate(root', curNeighbors', {})
    BY <1>1, <1>7 DEF SelectNext
  <2>2. HNeighbors(root)' = HNeighbors(root')
    BY <1>2 DEF HNeighbors
  <2>3. CASE curNeighbors' = {}
    <3>1. HLinks = {}
      BY <1>1, <2>3, FrontHasNeighbors
    <3>2. nodesToUpdate' = nodesToUpdate /\ nodesToUpdate \subseteq HNeighbors(root)
      BY <1>1, <1>9, <2>1, <2>3 DEF NodesToUpdate, Queued
    <3> QED BY <3>1, <3>2 DEF HNeighbors
  <2>4. CASE curNeighbors' # {}
    BY <1>9, <2>1, <2>2, <2>4 DEF NodesToUpdate, GetNeighbors
  <2> QED BY <2>3, <2>4
<1> QED BY <1>2, <1>4, <1>6, <1>7, <1>8, <1>9

LEMMA QueuedStep ==
  ASSUME Safe, Queued, [Next]_vars
  PROVE  Queued'
<1> SUFFICES ASSUME ~hasMemory', phase' \in {"looping", "merging", "exhausted"}
             PROVE  Queued'
  BY DEF Queued
<1>1. CASE Rank \/ Rerank
  <2>1. /\ RankNodes /\ UNCHANGED layerVars /\ LayerTypeOK /\ hasMemory' = hasMemory
    BY <1>1 DEF Rank, Rerank, Safe, TypeOK, RankNodes
  <2>2. Rank /\ phase' = "looping" /\ pending' = {}
    BY <1>1, <2>1 DEF Rank, Rerank, Queued, Safe, Selection
  <2>3. nodes' = nodes /\ HLinks' = HLinks /\ \A v : HNeighbors(v)' = {n \in nodes : {v, n} \in HLinks}
    BY <2>1 DEF layerVars, HLinks, HNeighbors
  <2>4. /\ scores' = [v \in nodes |-> CalcScore(v, {})]
        /\ flagged' = {} /\ nodesToUpdate' = {}
    BY <2>1, Ranked
  <2>5. \A v \in nodes : scores'[v][1] > 0 <=> HNeighbors(v)' # {}
    BY <2>1, <2>3, <2>4, CalcScoreType, AllNeighbors DEF HNeighbors
  <2> QED BY <2>2, <2>3, <2>4, <2>5 DEF Queued
<1>2. CASE Select
  <2>1. ~hasMemory
    BY <1>2 DEF Select, SelectNext
  <2> QED BY <1>2, <2>1, SelectQueued DEF Queued
<1>3. CASE MergeNeighbor
  <2>1. PICK src \in pending : /\ src \in nodes /\ target \in nodes /\ src # target
                               /\ {target, src} \in HLinks /\ MergeNode(src, target) /\ LayerTypeOK
                               /\ pending' = pending \ {src}
    BY <1>3, MergedNext
  <2>2. /\ UNCHANGED <<selectorVars, phase, target>> /\ pending # {}
        /\ nodes' = nodes \ {src}
    BY <1>3, <2>1 DEF MergeNeighbor, MergeNode
  <2>3. PICK t \in nodes : t = target /\ t = root /\ t = root'
    BY <2>1, <2>2 DEF Queued, selectorVars
  <2>4. /\ HNeighbors(t) \ {src} \subseteq HNeighbors(t)'
        /\ \A v \in nodes' \ {t} : HNeighbors(v)' # {} <=> HNeighbors(v) # {}
    BY <2>1, <2>3, MergeNeighbors
  <2>5. /\ phase \in {"looping", "merging", "exhausted"} /\ ~hasMemory
        /\ DOMAIN scores \subseteq nodes \ pending /\ nodesToUpdate \subseteq nodes \ pending
    BY <2>2 DEF Safe, Selection, selectorVars
  <2>6. /\ phase # "exhausted" /\ flagged = {}
        /\ DOMAIN scores = nodes \ pending
        /\ \A v \in DOMAIN scores \ {t} : scores[v][1] > 0 <=> HNeighbors(v) # {}
        /\ Selector = "heavy" => nodesToUpdate \subseteq HNeighbors(t)
    BY <2>3, <2>5 DEF Queued
  <2>7. HNeighbors(t)' = HNeighbors(root)'
    BY <2>3 DEF HNeighbors
  <2>8. DOMAIN scores' = nodes' \ pending' /\ scores' = scores /\ nodesToUpdate' = nodesToUpdate
        /\ flagged' = {} /\ phase' # "exhausted" /\ target' = root'
    BY <2>1, <2>2, <2>3, <2>6 DEF selectorVars
  <2>9. \A v \in DOMAIN scores' \ {root'} : scores'[v][1] > 0 <=> HNeighbors(v)' # {}
    <3>1. ASSUME NEW v \in DOMAIN scores' \ {root'} PROVE scores'[v][1] > 0 <=> HNeighbors(v)' # {}
      <4>1. v \in DOMAIN scores \ {t} /\ v \in nodes' \ {t} /\ scores'[v] = scores[v]
        BY <2>3, <2>8
      <4> QED BY <4>1, <2>4, <2>6
    <3> QED BY <3>1
  <2>10. Selector = "heavy" => nodesToUpdate' \subseteq HNeighbors(root)'
    BY <2>1, <2>4, <2>5, <2>6, <2>7, <2>8
  <2> QED BY <2>8, <2>9, <2>10 DEF Queued
<1>4. CASE FinishMerge \/ UNCHANGED vars
  <2>1. /\ UNCHANGED selectorVars /\ nodes' = nodes /\ HLinks' = HLinks /\ pending' = pending
        /\ target' = target
        /\ phase \in {"looping", "merging", "exhausted"}
        /\ phase' = phase \/ phase' = "looping"
    BY <1>4 DEF FinishMerge, UpdateNode, HLinks, vars, runVars, layerVars
  <2>2. /\ scores' = scores /\ root' = root /\ flagged' = flagged /\ nodesToUpdate' = nodesToUpdate
        /\ ~hasMemory
    BY <2>1 DEF selectorVars
  <2>3. \A v : HNeighbors(v)' = {n \in nodes : {v, n} \in HLinks}
    BY <2>1 DEF HNeighbors
  <2>4. HNeighbors(root)' = {n \in nodes : {root, n} \in HLinks}
    BY <2>1, <2>2 DEF HNeighbors
  <2> QED BY <2>1, <2>2, <2>3, <2>4 DEF Queued, HNeighbors
<1>5. CASE PreExecFails \/ SelectFails \/ Finish \/ \E percent \in Percent : PreExec(percent)
  BY <1>5 DEF PreExecFails, SelectFails, Finish, PreExec
<1> QED BY <1>1, <1>2, <1>3, <1>4, <1>5 DEF Next, Run

LEMMA AlwaysQueued == Spec => []Queued
<1>1. Init => Queued
  BY DEF Init, Queued
<1>2. Safe /\ Queued /\ [Next]_vars => Queued'
  BY QueuedStep
<1> QED BY <1>1, <1>2, AlwaysSafe, PTL DEF Spec

\* Without memory next forgets no node: the queue holds the whole layer but
\* the nodes about to be merged, between any two steps, for both selectors.
THEOREM NoNodeForgotten == Spec => []EveryNodeQueued
<1>1. Queued => EveryNodeQueued
  BY DEF Queued, EveryNodeQueued
<1> QED BY <1>1, AlwaysQueued, PTL

\* Without memory next returns an invalid node only for a layer without nodes,
\* so a run fails only when it has less than two linked nodes to coarsen.
THEOREM FailsOnlyWhenTooSmall == Spec => []NoFailureWithoutMemory
<1>1. Init => NoFailureWithoutMemory
  BY DEF Init, NoFailureWithoutMemory
<1>2. ASSUME Safe, Queued, NoFailureWithoutMemory, [Next]_vars PROVE NoFailureWithoutMemory'
  <2> SUFFICES ASSUME ~hasMemory', phase' = "failed" PROVE (nodes = {} \/ Cardinality(nodes) < 2)'
    BY DEF NoFailureWithoutMemory
  <2>1. CASE PreExecFails
    BY <2>1 DEF PreExecFails, layerVars
  <2>2. CASE SelectFails
    <3>1. /\ ~hasMemory /\ phase = "looping" /\ NextIsInvalid /\ nodes' = nodes
      BY <2>2 DEF SelectFails, ResetSelection, layerVars
    <3>2. DOMAIN scores = {}
      BY <1>2, <3>1, UpdateSucceeds DEF NextIsInvalid
    <3>3. nodes = {}
      BY <1>2, <3>1, <3>2 DEF Queued, Safe, Selection
    <3> QED BY <3>1, <3>3
  <2>3. CASE UNCHANGED vars
    BY <1>2, <2>3 DEF NoFailureWithoutMemory, vars, layerVars, selectorVars, runVars
  <2>4. CASE Rank \/ Select \/ Rerank \/ MergeNeighbor \/ FinishMerge \/ Finish
    BY <2>4 DEF Rank, Select, Rerank, MergeNeighbor, FinishMerge, Finish
  <2>5. CASE \E percent \in Percent : PreExec(percent)
    BY <2>5 DEF PreExec
  <2> QED BY <1>2, <2>1, <2>2, <2>3, <2>4, <2>5 DEF Next, Run
<1> QED BY <1>1, <1>2, AlwaysSafe, AlwaysQueued, PTL DEF Spec

\* Nodes that have gone since the run began
Gone == Cardinality(UNION DOMAIN belowLink) - Cardinality(nodes)

\* As long as links are left, the nodes counted as merged are those that have
\* gone; a selection counts when all of its nodes have
Counted ==
  /\ phase = "mirrored" => mergeCount = requested /\ nodes = UNION DOMAIN belowLink
  /\ ~hasMemory /\ phase \in {"looping", "merging"} /\ HLinks # {} =>
       /\ Gone = requested - mergeCount + (IF Midway THEN merged - Cardinality(pending) ELSE 0)
       /\ Midway => merged > 0
  /\ MergesAsRequested

LEMMA CountsType ==
  ASSUME Safe
  PROVE  /\ IsFiniteSet(nodes) /\ IsFiniteSet(pending)
         /\ Cardinality(nodes) \in Nat /\ Cardinality(pending) \in Nat
         /\ Cardinality(UNION DOMAIN belowLink) \in Nat
         /\ requested \in Nat /\ mergeCount \in Int /\ merged \in Nat
<1>1. nodes \in SUBSET Node /\ pending \in SUBSET Node /\ UNION DOMAIN belowLink \in SUBSET Node
  BY DEF Safe, TypeOK, LayerTypeOK, Pairs
<1>2. /\ IsFiniteSet(nodes) /\ IsFiniteSet(pending) /\ IsFiniteSet(UNION DOMAIN belowLink)
  BY <1>1, NodeAssumption, FS_Subset
<1>3. requested \in Nat /\ mergeCount \in Int /\ merged \in Nat
  BY DEF Safe, TypeOK
<1> QED BY <1>2, <1>3, FS_CardinalityType

LEMMA SelectCounted ==
  ASSUME Safe, Queued, Counted, Select, ~hasMemory
  PROVE  Counted'
<1>1. /\ phase' = "merging" /\ pending' = curNeighbors' /\ merged' = Cardinality(pending')
  BY SelectQueued
<1>2. /\ nodes' = nodes /\ HLinks' = HLinks /\ belowLink' = belowLink
      /\ requested' = requested /\ mergeCount' = mergeCount /\ phase = "looping"
  BY DEF Select, layerVars, HLinks
<1>3. ASSUME HLinks # {} PROVE Gone' = requested' - mergeCount' /\ merged' > 0
  <2>1. Gone' = requested' - mergeCount'
    <3>1. Gone = requested - mergeCount + 0
      BY <1>2, <1>3 DEF Counted, Midway, Select, SelectNext
    <3>2. Gone' = Gone
      BY <1>2 DEF Gone
    <3> QED BY <1>2, <3>1, <3>2, CountsType
  <2>2. curNeighbors' # {}
    BY <1>2, <1>3, FrontHasNeighbors DEF Select
  <2>3. IsFiniteSet(pending')
    <3>1. Safe'
      BY SelectSafe
    <3> QED BY <3>1, NodeAssumption, FS_Subset DEF Safe, TypeOK
  <2>4. Cardinality(pending') # 0 /\ Cardinality(pending') \in Nat
    BY <1>1, <2>2, <2>3, FS_EmptySet, FS_CardinalityType
  <2> QED BY <1>1, <2>1, <2>4
<1>4. merged' \in Nat /\ requested' - mergeCount' \in Int
  <2>1. Safe'
    BY SelectSafe
  <2> QED BY <2>1 DEF Safe, TypeOK
<1>5. \A i \in Int : \A j \in Nat : i = i + (j - j)
  OBVIOUS
<1>6. requested' - mergeCount' = requested' - mergeCount' + (merged' - Cardinality(pending'))
  BY <1>1, <1>4, <1>5
<1> QED BY <1>1, <1>2, <1>3, <1>6 DEF Counted, Midway, MergesAsRequested

\* A merged node is gone, and no longer to be merged
LEMMA MergeCounted ==
  ASSUME Safe, Counted, MergeNeighbor
  PROVE  Counted'
<1>1. PICK src \in pending : src \in nodes /\ target \in nodes /\ {target, src} \in HLinks
                             /\ MergeNode(src, target) /\ pending' = pending \ {src}
  BY MergedNext
<1>2. /\ nodes' = nodes \ {src} /\ belowLink' = belowLink
      /\ UNCHANGED <<selectorVars, phase, requested, mergeCount, merged>> /\ phase = "merging"
  BY <1>1 DEF MergeNeighbor, MergeNode
<1>3. /\ Cardinality(nodes') = Cardinality(nodes) - 1
      /\ Cardinality(pending') = Cardinality(pending) - 1
  BY <1>1, <1>2, CountsType, FS_RemoveElement
<1>4. ASSUME ~hasMemory
      PROVE  /\ Gone = requested - mergeCount + (merged - Cardinality(pending))
             /\ merged > 0
  BY <1>1, <1>2, <1>4 DEF Counted, Midway
<1>5. ASSUME ~hasMemory
      PROVE  /\ Gone' = requested' - mergeCount' + (merged' - Cardinality(pending'))
             /\ merged' > 0
  <2>1. /\ Gone' = Cardinality(UNION DOMAIN belowLink) - (Cardinality(nodes) - 1)
        /\ Gone = Cardinality(UNION DOMAIN belowLink) - Cardinality(nodes)
    BY <1>2, <1>3 DEF Gone
  <2>2. \A u, n, r, g, p \in Nat : \A m \in Int :
          u - n = r - m + (g - p) => u - (n - 1) = r - m + (g - (p - 1))
    OBVIOUS
  <2>3. Cardinality(UNION DOMAIN belowLink) - (Cardinality(nodes) - 1) =
          requested - mergeCount + (merged - (Cardinality(pending) - 1))
    <3> DEFINE u == Cardinality(UNION DOMAIN belowLink)
               n == Cardinality(nodes)
               p == Cardinality(pending)
    <3>1. u \in Nat /\ n \in Nat /\ p \in Nat /\ requested \in Nat /\ merged \in Nat /\ mergeCount \in Int
      BY CountsType
    <3>2. u - n = requested - mergeCount + (merged - p)
      BY <1>4, <1>5, <2>1
    <3> HIDE DEF u, n, p
    <3>3. u - (n - 1) = requested - mergeCount + (merged - (p - 1))
      BY <2>2, <3>1, <3>2
    <3> QED BY <3>3 DEF u, n, p
  <2> QED BY <1>2, <1>3, <1>4, <1>5, <2>1, <2>3
<1> QED BY <1>2, <1>5 DEF Counted, Midway, MergesAsRequested, selectorVars

LEMMA FinishMergeCounted ==
  ASSUME Safe, Counted, FinishMerge
  PROVE  Counted'
<1>1. /\ nodes' = nodes /\ HLinks' = HLinks /\ belowLink' = belowLink /\ hasMemory' = hasMemory
      /\ requested' = requested /\ mergeCount' = mergeCount - Largest(1, merged)
      /\ phase = "merging" /\ phase' = "looping" /\ pending = {}
  BY DEF FinishMerge, UpdateNode, HLinks, selectorVars
<1>2. ASSUME ~hasMemory, HLinks # {} PROVE Gone' = requested' - mergeCount'
  <2>1. Gone = requested - mergeCount + (merged - 0) /\ merged > 0
    BY <1>1, <1>2, FS_EmptySet DEF Counted, Midway
  <2>2. Largest(1, merged) = merged
    BY <2>1, CountsType DEF Largest
  <2>3. Gone' = Gone
    BY <1>1 DEF Gone
  <2>4. \A r, g \in Nat : \A m \in Int : r - m + (g - 0) = r - (m - g)
    OBVIOUS
  <2> QED BY <1>1, <2>1, <2>2, <2>3, <2>4, CountsType
<1>3. requested' - mergeCount' + 0 = requested' - mergeCount'
  BY <1>1, CountsType DEF Largest
<1> QED BY <1>1, <1>2, <1>3 DEF Counted, Midway, MergesAsRequested

LEMMA CountedStep ==
  ASSUME Safe, Queued, Counted, [Next]_vars
  PROVE  Counted'
<1>1. CASE \E percent \in Percent : PreExec(percent)
  BY <1>1 DEF PreExec, MirrorTopLayer, HLinks, Counted, MergesAsRequested
<1>2. CASE Rank \/ Rerank
  <2>1. /\ UNCHANGED <<layerVars, requested, mergeCount>> /\ hasMemory' = hasMemory
    BY <1>2 DEF Rank, Rerank, RankNodes
  <2>2. CASE hasMemory
    BY <1>2, <2>1, <2>2 DEF Rank, Rerank, Counted, MergesAsRequested
  <2>3. CASE ~hasMemory
    <3>1. Rank
      BY <1>2, <2>3 DEF Rerank, Queued
    <3>2. mergeCount = requested /\ nodes = UNION DOMAIN belowLink
      BY <3>1 DEF Rank, Counted
    <3>3. Gone = 0 /\ requested - mergeCount + 0 = 0
      BY <3>2, CountsType DEF Gone
    <3>4. Gone' = Gone /\ phase' = "looping"
      BY <2>1, <3>1 DEF Gone, layerVars, Rank
    <3> QED BY <2>1, <3>3, <3>4 DEF Counted, MergesAsRequested, Midway
  <2> QED BY <2>2, <2>3
<1>3. CASE Select
  <2>1. CASE hasMemory
    BY <1>3, <2>1 DEF Select, SelectNext, Counted, MergesAsRequested
  <2> QED BY <1>3, <2>1, SelectCounted
<1>4. CASE MergeNeighbor
  BY <1>4, MergeCounted
<1>5. CASE FinishMerge
  BY <1>5, FinishMergeCounted
<1>6. CASE Finish
  <2>1. /\ UNCHANGED layerVars /\ hasMemory' = hasMemory /\ requested' = requested
        /\ phase = "looping" /\ mergeCount <= 0 /\ phase' = "done"
    BY <1>6 DEF Finish, selectorVars
  <2>2. ASSUME ~hasMemory, HLinks # {} PROVE Gone >= requested
    <3>1. Gone = requested - mergeCount + 0
      BY <2>1, <2>2 DEF Counted, Midway
    <3> QED BY <2>1, <3>1, CountsType
  <2> QED BY <2>1, <2>2 DEF Counted, MergesAsRequested, Gone, layerVars, HLinks
<1>7. CASE PreExecFails \/ SelectFails
  BY <1>7 DEF PreExecFails, SelectFails, Counted, MergesAsRequested
<1>8. CASE UNCHANGED vars
  <2>1. UNCHANGED <<belowLink, nodes, link, hasMemory, phase, requested, mergeCount, merged, pending>>
    BY <1>8 DEF vars, layerVars, selectorVars, runVars
  <2> QED BY <2>1 DEF Counted, MergesAsRequested, Midway, Gone, HLinks
<1> QED BY <1>1, <1>2, <1>3, <1>4, <1>5, <1>6, <1>7, <1>8 DEF Next, Run

\* A run without memory that is done has merged at least as many nodes away as
\* it computed from the reduction factor, unless it ran out of HLinks: no
\* count is lost or made up over any sequence of selections and merges.
THEOREM MergedAsRequested == Spec => []MergesAsRequested
<1>1. Init => Counted
  BY DEF Init, Counted, MergesAsRequested
<1>2. Safe /\ Queued /\ Counted /\ [Next]_vars => Counted'
  BY CountedStep
<1>3. Counted => MergesAsRequested
  BY DEF Counted
<1> QED BY <1>1, <1>2, <1>3, AlwaysSafe, AlwaysQueued, PTL DEF Spec

---------------------------------------------------------------------------
(* The scores of HeavyHLinkSelector                                        *)

\* What HeavyScore computes, as a relation
IsHeaviest(v, s) ==
  \/ HNeighbors(v) = {} /\ s = <<0, 1>>
  \/ \E n \in HNeighbors(v) : /\ s = <<link[{v, n}], 1>>
                              /\ \A m \in HNeighbors(v) : link[{v, m}] <= link[{v, n}]

LEMMA HeaviestScore ==
  Selector = "heavy" /\ LayerTypeOK => \A v, s : CalcScore(v, {}) = s <=> IsHeaviest(v, s)
<1> SUFFICES ASSUME Selector = "heavy", LayerTypeOK, NEW v, NEW s
             PROVE  CalcScore(v, {}) = s <=> IsHeaviest(v, s)
  OBVIOUS
<1>1. GetNeighbors(v, {}) = HNeighbors(v)
  BY AllNeighbors
<1>2. CASE HNeighbors(v) = {}
  BY <1>1, <1>2 DEF CalcScore, HeavyScore, IsHeaviest
<1>3. CASE HNeighbors(v) # {}
  <2> DEFINE b == BestEndpoint(v, {})
  <2>1. b \in HNeighbors(v) /\ \A m \in HNeighbors(v) : link[{v, m}] <= link[{v, b}]
    BY <1>1, <1>3, BestEndpointType
  <2>2. CalcScore(v, {}) = <<link[{v, b}], 1>>
    BY <1>1, <1>3 DEF CalcScore, HeavyScore
  <2> HIDE DEF b
  <2>3. \A n \in HNeighbors(v) : link[{v, n}] \in Nat
    BY DEF HNeighbors, LayerTypeOK, HLinks
  <2>4. IsHeaviest(v, CalcScore(v, {}))
    BY <2>1, <2>2 DEF IsHeaviest
  <2>5. ASSUME IsHeaviest(v, s) PROVE CalcScore(v, {}) = s
    <3>1. PICK n \in HNeighbors(v) : /\ s = <<link[{v, n}], 1>>
                                     /\ \A m \in HNeighbors(v) : link[{v, m}] <= link[{v, n}]
      BY <1>3, <2>5 DEF IsHeaviest
    <3>2. link[{v, n}] <= link[{v, b}] /\ link[{v, b}] <= link[{v, n}]
      BY <2>1, <3>1
    <3>3. link[{v, n}] = link[{v, b}]
      BY <2>1, <2>3, <3>2
    <3> QED BY <2>2, <3>1, <3>3
  <2> QED BY <2>4, <2>5
<1> QED BY <1>2, <1>3

LEMMA HeaviestScoreNext ==
  (Selector = "heavy" /\ LayerTypeOK => \A v, s : CalcScore(v, {}) = s <=> IsHeaviest(v, s))'
BY HeaviestScore, PTL

LEMMA HeavyScoreSame ==
  ASSUME Selector = "heavy", LayerTypeOK, LayerTypeOK', nodes' = nodes, link' = link
  PROVE  \A v : CalcScore(v, {})' = CalcScore(v, {})
<1>1. \A v, s : IsHeaviest(v, s)' <=> IsHeaviest(v, s)
  BY DEF IsHeaviest, HNeighbors, HLinks
<1> QED BY <1>1, HeaviestScore, HeaviestScoreNext

\* Merging src into t changes the score of another node only when both are its
\* neighbours: then the added weight may be its heaviest
LEMMA MergeScores ==
  ASSUME Selector = "heavy", LayerTypeOK, NEW src \in nodes, NEW t \in nodes, src # t,
         {t, src} \in HLinks, MergeNode(src, t), NEW v \in nodes' \ {t}
  PROVE  CalcScore(v, {})' =
           IF v \in HNeighbors(t) \intersect HNeighbors(src)
           THEN <<Largest(CalcScore(v, {})[1], link'[{t, v}]), 1>>
           ELSE CalcScore(v, {})
<1>1. LayerTypeOK'
  BY MergeTypeOK
<1>2. nodes' = nodes \ {src} /\ v \in nodes /\ v # src /\ v # t /\ t \in nodes'
  BY DEF MergeNode
<1>3. /\ \A a, b \in nodes' : t # a /\ t # b =>
           /\ {a, b} \in HLinks' <=> {a, b} \in HLinks
           /\ {a, b} \in HLinks => link'[{a, b}] = link[{a, b}]
      /\ \A n \in nodes' : t # n =>
           /\ {t, n} \in HLinks' <=> {t, n} \in HLinks \/ {src, n} \in HLinks
           /\ {t, n} \in HLinks' => link'[{t, n}] = WeightOf({t, n}) + WeightOf({src, n})
  BY MergeLinks
<1>4. {t, v} = {v, t} /\ {src, v} = {v, src}
  OBVIOUS
<1> DEFINE N == HNeighbors(v)
           M == HNeighbors(v)'
           w == [n \in N |-> link[{v, n}]]
           u == [n \in M |-> link'[{v, n}]]
<1>5. \A n \in N : w[n] \in Nat \ {0}
  BY DEF HNeighbors, LayerTypeOK, HLinks
<1>6. \A n : n \in M <=> (n \in N /\ n # src) \/ (n = t /\ src \in N)
  <2>1. \A n : n \in M <=> n \in nodes' /\ {v, n} \in HLinks'
    BY DEF HNeighbors
  <2>2. \A n : n \in N <=> n \in nodes /\ {v, n} \in HLinks
    BY DEF HNeighbors
  <2>3. t \in M <=> t \in N \/ src \in N
    BY <1>2, <1>3, <1>4, <2>1, <2>2
  <2>4. \A n : n # t => (n \in M <=> n \in N /\ n # src)
    BY <1>2, <1>3, <2>1, <2>2
  <2> HIDE DEF N, M
  <2> QED BY <2>3, <2>4
<1>7. \A n \in M : n # t => u[n] = w[n]
  BY <1>2, <1>3, <1>6 DEF HNeighbors
<1>8. t \in M => u[t] = (IF t \in N THEN w[t] ELSE 0) + (IF src \in N THEN w[src] ELSE 0)
  <2>1. WeightOf({t, v}) = IF t \in N THEN w[t] ELSE 0
    BY <1>4, LinkEnds DEF WeightOf, HNeighbors
  <2>2. WeightOf({src, v}) = IF src \in N THEN w[src] ELSE 0
    BY <1>4, LinkEnds DEF WeightOf, HNeighbors
  <2>3. t \in M => {t, v} \in HLinks' /\ u[t] = link'[{t, v}]
    BY <1>4 DEF HNeighbors
  <2> HIDE DEF N, M, w, u
  <2> QED BY <1>2, <1>3, <2>1, <2>2, <2>3
<1>9. v \in HNeighbors(t) \intersect HNeighbors(src) <=> t \in N /\ src \in N
  BY <1>2, <1>4 DEF HNeighbors
<1>10. \A s : CalcScore(v, {}) = s <=>
         \/ N = {} /\ s = <<0, 1>>
         \/ \E n \in N : s = <<w[n], 1>> /\ \A m \in N : w[m] <= w[n]
  <2>1. \A s : CalcScore(v, {}) = s <=> IsHeaviest(v, s)
    BY HeaviestScore
  <2> QED BY <2>1 DEF IsHeaviest
<1>11. \A s : CalcScore(v, {})' = s <=>
         \/ M = {} /\ s = <<0, 1>>
         \/ \E n \in M : s = <<u[n], 1>> /\ \A m \in M : u[m] <= u[n]
  <2>1. \A s : CalcScore(v, {})' = s <=> IsHeaviest(v, s)'
    BY <1>1, HeaviestScoreNext
  <2> QED BY <2>1 DEF IsHeaviest
<1>12. t \in N => link'[{t, v}] = u[t]
  <2>1. t \in N => t \in M
    BY <1>2, <1>6
  <2> HIDE DEF M, N
  <2> QED BY <1>4, <2>1 DEF u
<1> DEFINE old == CalcScore(v, {})
           new == CalcScore(v, {})'
           both == v \in HNeighbors(t) \intersect HNeighbors(src)
<1> HIDE DEF N, M, w, u, old, new, both
<1>13. CASE src \notin N
  <2>1. M = N /\ ~both
    BY <1>6, <1>9, <1>13 DEF both
  <2>2. \A n \in N : u[n] = w[n]
    BY <1>5, <1>7, <1>8, <1>13, <2>1
  <2>3. old = new
    BY <1>10, <1>11, <2>1, <2>2 DEF old, new
  <2> QED BY <2>1, <2>3 DEF old, new, both
<1>14. CASE src \in N
  <2>1. PICK n \in N : old = <<w[n], 1>> /\ \A m \in N : w[m] <= w[n]
    BY <1>10, <1>14 DEF old
  <2>2. t \in M /\ u[t] \in Nat /\ (t \notin N => u[t] = w[src])
        /\ (t \in N => u[t] = w[t] + w[src])
    BY <1>5, <1>6, <1>8, <1>14
  <2>3. CASE t \notin N
    <3>1. \A m \in M : u[m] <= w[n]
      BY <1>6, <1>7, <1>14, <2>1, <2>2, <2>3
    <3>2. \E m \in M : u[m] = w[n]
      BY <1>6, <1>7, <1>14, <2>1, <2>2, <2>3
    <3>3. new = <<w[n], 1>>
      BY <1>11, <3>1, <3>2 DEF new
    <3> QED BY <1>9, <2>1, <2>3, <3>3 DEF old, new, both
  <2>4. CASE t \in N
    <3>1. CASE w[n] < u[t]
      <4>1. \A m \in M : u[m] <= u[t]
        BY <1>5, <1>6, <1>7, <2>1, <2>2, <3>1
      <4>2. new = <<u[t], 1>>
        BY <1>11, <2>2, <4>1 DEF new
      <4> QED BY <1>9, <1>12, <1>14, <2>1, <2>4, <3>1, <4>2 DEF old, new, both, Largest
    <3>2. CASE ~ (w[n] < u[t])
      <4>1. n # src /\ n # t
        BY <1>5, <1>14, <2>2, <2>4, <3>2
      <4>2. n \in M /\ u[n] = w[n]
        BY <1>6, <1>7, <4>1
      <4>3. \A m \in M : u[m] <= u[n]
        BY <1>5, <1>6, <1>7, <2>1, <2>2, <3>2, <4>2
      <4>4. new = <<w[n], 1>>
        BY <1>11, <4>2, <4>3 DEF new
      <4> QED BY <1>9, <1>12, <1>14, <2>1, <2>4, <3>2, <4>4 DEF old, new, both, Largest
    <3> QED BY <3>1, <3>2
  <2> QED BY <2>3, <2>4
<1> QED BY <1>13, <1>14

\* Between a selection and its merge all scores but that of the root are those
\* of the layer, and the nodes to update are the common neighbours of the root
\* and the node to merge; after it, theirs may be that of their link to the
\* root instead
Exact ==
  Selector = "heavy" /\ ~hasMemory /\ phase \in {"looping", "merging"} =>
    IF pending # {}
    THEN /\ \A v \in DOMAIN scores \ {root} : scores[v] = CalcScore(v, {})
         /\ \E b \in nodes :
              /\ pending = {b}
              /\ \A v : v \in nodesToUpdate <=> v \in HNeighbors(root) \intersect HNeighbors(b)
    ELSE \A v \in DOMAIN scores \ {root} :
           /\ scores[v][2] = 1
           /\ CalcScore(v, {}) = IF v \in nodesToUpdate
                                 THEN <<Largest(scores[v][1], link[{root, v}]), 1>>
                                 ELSE scores[v]

LEMMA WholeScores ==
  Selector = "heavy" => \A v, flags : CalcScore(v, flags)[2] = 1
BY DEF CalcScore, HeavyScore

\* updateScores makes all scores those of the layer
LEMMA UpdatedExact ==
  ASSUME Selector = "heavy", Safe, Queued, Exact, ~hasMemory, phase = "looping", ~NextIsInvalid
  PROVE  \A v \in nodes : UpdatedScores[v] = CalcScore(v, {})
<1>1. /\ TypeOK /\ Selection /\ LayerTypeOK /\ pending = {} /\ flagged = {}
      /\ DOMAIN scores = nodes /\ nodesToUpdate \subseteq HNeighbors(root)
  BY DEF Safe, TypeOK, Selection, Queued
<1>2. \A v \in nodes \ {root} :
        /\ scores[v][2] = 1
        /\ CalcScore(v, {}) = IF v \in nodesToUpdate
                              THEN <<Largest(scores[v][1], link[{root, v}]), 1>>
                              ELSE scores[v]
  BY <1>1 DEF Exact
<1>3. root \in nodes /\ DOMAIN UpdatedScores = DOMAIN ScoresWithRoot \union Rescored
  BY <1>1, Updated
<1>4. DOMAIN UpdatedScores = nodes
  BY UpdatedPositive
<1>5. \A v \in nodes : UpdatedScores[v] = IF v \in Rescored THEN NewScore(v) ELSE ScoresWithRoot[v]
  BY <1>3, <1>4 DEF UpdatedScores
<1>6. \A v \in nodes : ScoresWithRoot[v] = IF v = root THEN CalcScore(v, {}) ELSE scores[v]
  BY <1>1, <1>3 DEF ScoresWithRoot, Put
<1>7. \A v \in nodes : v \in Rescored <=>
        v \in nodesToUpdate \ {root} /\ Less(scores[v], <<link[{root, v}], 1>>)
  BY <1>6 DEF Rescored
<1>8. ASSUME NEW v \in nodes PROVE UpdatedScores[v] = CalcScore(v, {})
  <2>1. CASE v = root
    BY <1>5, <1>6, <1>7, <2>1
  <2>2. CASE v # root /\ v \notin nodesToUpdate
    BY <1>2, <1>5, <1>6, <1>7, <2>2
  <2>3. CASE v # root /\ v \in nodesToUpdate
    <3>1. PICK a \in Nat : scores[v] = <<a, 1>>
      <4>1. scores[v] \in Nat \X (Nat \ {0})
        BY <1>1 DEF TypeOK, SelectorTypeOK
      <4>2. scores[v][2] = 1
        BY <1>2, <2>3
      <4> QED BY <4>1, <4>2
    <3>2. PICK l \in Nat : link[{root, v}] = l
      BY <1>1, <2>3 DEF HNeighbors, LayerTypeOK, HLinks
    <3>3. CalcScore(v, {}) = <<IF a < l THEN l ELSE a, 1>>
      BY <1>2, <2>3, <3>1, <3>2 DEF Largest
    <3>4. v \in Rescored <=> a < l
      BY <1>7, <2>3, <3>1, <3>2 DEF Less
    <3>5. UpdatedScores[v] = IF v \in Rescored THEN <<l, 1>> ELSE <<a, 1>>
      BY <1>5, <1>6, <2>3, <3>1, <3>2 DEF NewScore
    <3> QED BY <3>3, <3>4, <3>5
  <2> QED BY <2>1, <2>2, <2>3
<1> QED BY <1>8

LEMMA SelectExact ==
  ASSUME Selector = "heavy", Safe, Queued, Exact, Select, ~hasMemory
  PROVE  Exact'
<1>1. /\ TypeOK /\ Selection /\ phase = "looping" /\ SelectNext /\ ~NextIsInvalid
      /\ UNCHANGED layerVars /\ LayerTypeOK /\ LayerTypeOK'
  BY DEF Safe, TypeOK, Select, SelectNext, LayerTypeOK, layerVars
<1>2. /\ phase' = "merging" /\ flagged' = {} /\ DOMAIN scores' = nodes \ pending'
      /\ pending' = curNeighbors' /\ nodesToUpdate' \subseteq HNeighbors(root)'
  BY <1>1, SelectQueued DEF layerVars
<1>3. \A v : HNeighbors(v)' = HNeighbors(v)
  BY <1>1 DEF HNeighbors, HLinks, layerVars
<1>4. HNeighbors(root)' = HNeighbors(root')
  BY <1>1 DEF HNeighbors, HLinks, layerVars
<1>5. \A v : CalcScore(v, {})' = CalcScore(v, {})
  BY <1>1, HeavyScoreSame DEF layerVars
<1>6. \A v \in DOMAIN scores' : scores'[v] = CalcScore(v, {})'
  <2>1. \A v \in DOMAIN scores' : scores'[v] = UpdatedScores[v]
    BY <1>1, Selected
  <2>2. \A v \in nodes : UpdatedScores[v] = CalcScore(v, {})
    BY <1>1, UpdatedExact
  <2> QED BY <1>2, <1>5, <2>1, <2>2
<1>7. curNeighbors' = NodesToMerge(root', {}) /\ nodesToUpdate' = NodesToUpdate(root', curNeighbors', {})
  BY <1>1, <1>2 DEF SelectNext
<1>8. CASE pending' = {}
  <2>1. HLinks = {}
    BY <1>1, <1>2, <1>8, FrontHasNeighbors
  <2>2. nodesToUpdate' = {}
    BY <1>2, <1>4, <2>1 DEF HNeighbors
  <2>3. \A v \in DOMAIN scores' : scores'[v][2] = 1
    BY <1>5, <1>6, WholeScores
  <2> QED BY <1>6, <1>8, <2>2, <2>3 DEF Exact
<1>9. CASE pending' # {}
  <2>1. PICK b : curNeighbors' = {b}
    BY <1>2, <1>7, <1>9 DEF NodesToMerge
  <2>2. b \in nodes'
    BY <1>1, <2>1, Selected DEF HNeighbors, layerVars
  <2>3. nodesToUpdate' = GetNeighbors(root', {}) \intersect GetNeighborsOfSet({b}, {})
    BY <1>7, <2>1 DEF NodesToUpdate
  <2>4. GetNeighborsOfSet({b}, {}) = HNeighbors(b)
    BY DEF GetNeighborsOfSet
  <2>5. \A v : v \in nodesToUpdate' <=> v \in HNeighbors(root)' \intersect HNeighbors(b)'
    BY <1>3, <1>4, <2>3, <2>4, AllNeighbors
  <2> QED BY <1>2, <1>6, <1>9, <2>1, <2>2, <2>5 DEF Exact
<1> QED BY <1>8, <1>9

LEMMA MergeExact ==
  ASSUME Selector = "heavy", Safe, Queued, Exact, MergeNeighbor, ~hasMemory
  PROVE  Exact'
<1>1. PICK src \in pending : /\ src \in nodes /\ target \in nodes /\ src # target
                             /\ {target, src} \in HLinks /\ MergeNode(src, target) /\ LayerTypeOK
                             /\ pending' = pending \ {src}
  BY MergedNext
<1>2. UNCHANGED selectorVars /\ phase = "merging" /\ nodes' = nodes \ {src}
  BY <1>1 DEF MergeNeighbor, MergeNode
<1>3. PICK t \in nodes : t = target /\ t = root
  BY <1>1, <1>2 DEF Queued
<1>4. /\ \A v \in DOMAIN scores \ {t} : scores[v] = CalcScore(v, {})
      /\ pending = {src}
      /\ \A v : v \in nodesToUpdate <=> v \in HNeighbors(t) \intersect HNeighbors(src)
  BY <1>1, <1>2, <1>3 DEF Exact
<1>5. pending' = {} /\ DOMAIN scores = nodes'
  BY <1>1, <1>2, <1>4 DEF Queued
<1>6. ASSUME NEW v \in nodes' \ {t}
      PROVE  /\ scores[v][2] = 1
             /\ CalcScore(v, {})' = IF v \in nodesToUpdate
                                    THEN <<Largest(scores[v][1], link'[{t, v}]), 1>>
                                    ELSE scores[v]
  <2>1. scores[v] = CalcScore(v, {})
    BY <1>4, <1>5
  <2>2. CalcScore(v, {})' = IF v \in HNeighbors(t) \intersect HNeighbors(src)
                            THEN <<Largest(CalcScore(v, {})[1], link'[{t, v}]), 1>>
                            ELSE CalcScore(v, {})
    BY <1>1, <1>3, MergeScores
  <2>3. CalcScore(v, {})[2] = 1
    BY WholeScores
  <2> QED BY <1>4, <2>1, <2>2, <2>3
<1>7. scores' = scores /\ root' = t /\ nodesToUpdate' = nodesToUpdate
  BY <1>2, <1>3 DEF selectorVars
<1> QED BY <1>5, <1>6, <1>7 DEF Exact

LEMMA ExactStep ==
  ASSUME Safe, Queued, Exact, [Next]_vars
  PROVE  Exact'
<1> SUFFICES ASSUME Selector = "heavy", ~hasMemory', phase' \in {"looping", "merging"}
             PROVE  Exact'
  BY DEF Exact
<1>1. CASE Rank \/ Rerank
  <2>1. /\ RankNodes /\ UNCHANGED layerVars /\ LayerTypeOK /\ LayerTypeOK' /\ hasMemory' = hasMemory
    BY <1>1 DEF Rank, Rerank, Safe, TypeOK, LayerTypeOK, layerVars, RankNodes
  <2>2. pending' = {}
    BY <1>1, <2>1 DEF Rank, Rerank, Queued, Safe, Selection
  <2>3. scores' = [v \in nodes |-> CalcScore(v, {})] /\ nodesToUpdate' = {}
    BY <2>1, Ranked
  <2>4. \A v : CalcScore(v, {})' = CalcScore(v, {})
    BY <2>1, HeavyScoreSame DEF layerVars
  <2>5. \A v \in nodes : scores'[v] = CalcScore(v, {})' /\ scores'[v][2] = 1
    BY <2>3, <2>4, WholeScores
  <2> QED BY <2>2, <2>3, <2>5 DEF Exact
<1>2. CASE Select
  <2>1. ~hasMemory
    BY <1>2 DEF Select, SelectNext
  <2> QED BY <1>2, <2>1, SelectExact
<1>3. CASE MergeNeighbor
  <2>1. ~hasMemory
    BY <1>3 DEF MergeNeighbor, selectorVars
  <2> QED BY <1>3, <2>1, MergeExact
<1>4. CASE FinishMerge \/ UNCHANGED vars
  <2>1. /\ UNCHANGED selectorVars /\ nodes' = nodes /\ link' = link /\ pending' = pending
        /\ phase \in {"looping", "merging"}
    BY <1>4 DEF FinishMerge, UpdateNode, vars, runVars, layerVars
  <2>2. LayerTypeOK /\ LayerTypeOK'
    BY StepSafe DEF Safe, TypeOK
  <2>3. \A v : CalcScore(v, {})' = CalcScore(v, {})
    BY <2>1, <2>2, HeavyScoreSame
  <2>4. \A v : HNeighbors(v)' = HNeighbors(v)
    BY <2>1 DEF HNeighbors, HLinks
  <2>5. HNeighbors(root)' = HNeighbors(root) /\ ~hasMemory
    BY <2>1 DEF HNeighbors, HLinks, selectorVars
  <2>6. scores' = scores /\ root' = root /\ nodesToUpdate' = nodesToUpdate
    BY <2>1 DEF selectorVars
  <2> QED BY <2>1, <2>3, <2>4, <2>5, <2>6 DEF Exact
<1>5. CASE PreExecFails \/ SelectFails \/ Finish \/ \E percent \in Percent : PreExec(percent)
  BY <1>5 DEF PreExecFails, SelectFails, Finish, PreExec
<1> QED BY <1>1, <1>2, <1>3, <1>4, <1>5 DEF Next, Run

\* Updating the common neighbours is enough: whenever HeavyHLinkSelector picks
\* a node without memory, every score in its queue is the weight of the
\* heaviest HLink that the node has then, after any sequence of merges.
THEOREM ScoresStayExact == Spec => []ScoresAreExact
<1>1. Init => Exact
  BY DEF Init, Exact
<1>2. Safe /\ Queued /\ Exact /\ [Next]_vars => Exact'
  BY ExactStep
<1>3. ASSUME Safe, Queued, Exact PROVE ScoresAreExact
  BY <1>3, UpdatedExact, UpdatedPositive DEF ScoresAreExact
<1> QED BY <1>1, <1>2, <1>3, AlwaysSafe, AlwaysQueued, PTL DEF Spec

=============================================================================
