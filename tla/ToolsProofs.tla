----------------------------- MODULE ToolsProofs ----------------------------
(***************************************************************************)
(* Proved for all files, plans and numbers of iterations, whatever ends a  *)
(* tool and wherever:                                                      *)
(* - the database holds the values of a whole number of iterations of the  *)
(*   filter: invariant IInv, which counts the layers written so far;       *)
(* - no tool leaves a step, a transaction or its session open: Open;       *)
(* - the parser accepts just the plans it should, and the layers of a plan *)
(*   come in its order: Stacked and Ordered;                               *)
(* - the graph in the database is one, Typed; it is the one of the files   *)
(*   that were parsed, AsRead; and what is exported can be imported again, *)
(*   Exported.                                                             *)
(* What the parser and the importers return is computed by FoldLeft, along *)
(* the factors of a part, the parts of a plan and the lines of a file: the *)
(* first section has what a fold is.                                       *)
(***************************************************************************)
EXTENDS Tools, SequenceTheorems, FiniteSetTheorems, WellFoundedInduction, TLAPS

---------------------------------------------------------------------------
(* Folds *)

LEMMA Induction ==
  ASSUME NEW S, 0 \in S, \A n \in Nat : n \in S => n + 1 \in S
  PROVE  Nat \subseteq S
<1> DEFINE R == OpToRel(<, Nat)
<1>1. \A x, y \in Nat : x < y => <<x, y>> \in R
  BY DEF OpToRel
<1>2. IsWellFoundedOn(R, Nat)
  BY NatLessThanWellFounded
<1> HIDE DEF R
<1>3. SUFFICES ASSUME Nat \ S # {} PROVE FALSE
  OBVIOUS
<1>4. PICK x \in Nat \ S : \A y \in Nat \ S : ~ (<<y, x>> \in R)
  BY <1>2, <1>3, WFMin
<1>5. x # 0 /\ x - 1 \in Nat /\ x - 1 < x
  OBVIOUS
<1>6. x - 1 \notin S
  <2>1. x - 1 \in S => (x - 1) + 1 \in S
    BY <1>5
  <2>2. (x - 1) + 1 = x
    BY <1>4
  <2> QED BY <1>4, <2>1, <2>2
<1>7. x - 1 \in Nat \ S /\ <<x - 1, x>> \in R
  BY <1>1, <1>5, <1>6
<1> QED BY <1>4, <1>7

\* A set of numbers up to n has a greatest and a least one
LEMMA Extremes ==
  ASSUME NEW n \in Nat, NEW s \in SUBSET (1..n), s # {}
  PROVE  /\ Max(s) \in s /\ \A y \in s : Max(s) >= y
         /\ Min(s) \in s /\ \A y \in s : Min(s) <= y
<1> DEFINE P(k) == \A t \in SUBSET (1..k) : t # {} =>
                      /\ \E x \in t : \A y \in t : x >= y
                      /\ \E x \in t : \A y \in t : x <= y
           G == {k \in Nat : P(k)}
<1>1. P(0)
  <2>1. SUBSET (1..0) = {{}}
    OBVIOUS
  <2> QED BY <2>1
<1>2. ASSUME NEW k \in Nat, P(k) PROVE P(k + 1)
  <2> SUFFICES ASSUME NEW t \in SUBSET (1..(k + 1)), t # {}
               PROVE  /\ \E x \in t : \A y \in t : x >= y
                      /\ \E x \in t : \A y \in t : x <= y
    OBVIOUS
  <2>1. \A y \in t : y \in Nat /\ y <= k + 1
    OBVIOUS
  <2>2. t \ {k + 1} \in SUBSET (1..k)
    BY <2>1
  <2>3. CASE t \ {k + 1} = {}
    <3>1. t = {k + 1}
      BY <2>3
    <3> QED BY <3>1
  <2>4. CASE t \ {k + 1} # {}
    <3>1. /\ \E x \in t \ {k + 1} : \A y \in t \ {k + 1} : x >= y
          /\ \E x \in t \ {k + 1} : \A y \in t \ {k + 1} : x <= y
      BY <1>2, <2>2, <2>4
    <3>2. PICK a \in t \ {k + 1} : \A y \in t \ {k + 1} : a >= y
      BY <3>1
    <3>3. PICK b \in t \ {k + 1} : \A y \in t \ {k + 1} : b <= y
      BY <3>1
    <3>4. \A y \in t : b <= y
      BY <2>1, <3>3
    <3>5. \E x \in t : \A y \in t : x >= y
      <4>1. CASE k + 1 \in t
        BY <2>1, <4>1
      <4>2. CASE k + 1 \notin t
        BY <3>2, <4>2
      <4> QED BY <4>1, <4>2
    <3> QED BY <3>3, <3>4, <3>5
  <2> QED BY <2>3, <2>4
<1> HIDE DEF P
<1>3. P(n)
  <2>1. 0 \in G /\ \A k \in Nat : k \in G => k + 1 \in G
    BY <1>1, <1>2
  <2>2. Nat \subseteq G
    <3> HIDE DEF G
    <3> QED BY <2>1, Induction
  <2> QED BY <2>2
<1>4. /\ \E x \in s : \A y \in s : x >= y
      /\ \E x \in s : \A y \in s : x <= y
  BY <1>3 DEF P
<1> QED BY <1>4 DEF Max, Min

\* What FoldLeft computes along 1..n, of an operation given as a function Op
\* of the place and the state
Folds(f, Op, base, n) ==
  /\ f[{}] = base
  /\ \A s \in SUBSET (1..n) : s # {} => f[s] = Op[<<Max(s), f[s \ {Max(s)}]>>]

LEMMA MaxLess ==
  ASSUME NEW n \in Nat, NEW s \in SUBSET (1..(n + 1)), s # {}
  PROVE  /\ n + 1 \in s => Max(s) = n + 1
         /\ n + 1 \notin s => s \in SUBSET (1..n)
         /\ s \ {n + 1} \in SUBSET (1..n)
<1>1. Max(s) \in s /\ \A y \in s : Max(s) >= y
  <2>1. n + 1 \in Nat
    OBVIOUS
  <2> QED BY <2>1, Extremes
<1>2. \A y \in s : y \in Nat /\ y >= 1 /\ y <= n + 1
  OBVIOUS
<1>3. s \ {n + 1} \in SUBSET (1..n)
  BY <1>2
<1> DEFINE m == Max(s)
<1>4. m \in s /\ \A y \in s : m >= y
  BY <1>1
<1> HIDE DEF m
<1>5. n + 1 \in s => m = n + 1
  BY <1>2, <1>4
<1> QED BY <1>3, <1>5 DEF m

LEMMA FoldExists ==
  ASSUME NEW A, NEW base \in A, NEW n \in Nat, NEW Op \in [(1..n) \X A -> A]
  PROVE  \E f \in [SUBSET (1..n) -> A] : Folds(f, Op, base, n)
<1> DEFINE P(k) == k <= n => \E f \in [SUBSET (1..k) -> A] : Folds(f, Op, base, k)
           G == {k \in Nat : P(k)}
<1>1. P(0)
  <2> DEFINE f == [s \in SUBSET (1..0) |-> base]
  <2>1. SUBSET (1..0) = {{}}
    OBVIOUS
  <2>2. f \in [SUBSET (1..0) -> A] /\ f[{}] = base
    BY <2>1
  <2> HIDE DEF f
  <2>3. Folds(f, Op, base, 0)
    BY <2>1, <2>2 DEF Folds
  <2> QED BY <2>2, <2>3
<1>2. ASSUME NEW k \in Nat, P(k) PROVE P(k + 1)
  <2> SUFFICES ASSUME k + 1 <= n
               PROVE  \E f \in [SUBSET (1..(k + 1)) -> A] : Folds(f, Op, base, k + 1)
    OBVIOUS
  <2>0. k <= n
    OBVIOUS
  <2>1. PICK g \in [SUBSET (1..k) -> A] : Folds(g, Op, base, k)
    BY <1>2, <2>0, Zenon
  <2> DEFINE f == [s \in SUBSET (1..(k + 1)) |->
                     IF k + 1 \in s THEN Op[<<k + 1, g[s \ {k + 1}]>>] ELSE g[s]]
  <2>2. \A s \in SUBSET (1..(k + 1)) :
          /\ s \ {k + 1} \in SUBSET (1..k)
          /\ k + 1 \notin s => s \in SUBSET (1..k)
    OBVIOUS
  <2>3. k + 1 \in 1..n
    OBVIOUS
  <2>4. f \in [SUBSET (1..(k + 1)) -> A]
    BY <2>1, <2>2, <2>3
  <2>5. f[{}] = base
    BY <2>1 DEF Folds
  <2>6. ASSUME NEW s \in SUBSET (1..(k + 1)), s # {}
        PROVE  f[s] = Op[<<Max(s), f[s \ {Max(s)}]>>]
    <3>1. CASE k + 1 \in s
      <4>1. Max(s) = k + 1
        BY <2>6, <3>1, MaxLess
      <4>2. s \ {k + 1} \in SUBSET (1..(k + 1)) /\ k + 1 \notin s \ {k + 1}
        OBVIOUS
      <4>3. f[s \ {k + 1}] = g[s \ {k + 1}]
        BY <4>2
      <4> QED BY <3>1, <4>1, <4>3
    <3>2. CASE k + 1 \notin s
      <4>1. s \in SUBSET (1..k)
        BY <2>2, <3>2
      <4>2. f[s] = g[s] /\ g[s] = Op[<<Max(s), g[s \ {Max(s)}]>>]
        BY <2>1, <2>6, <3>2, <4>1 DEF Folds
      <4>3. s \ {Max(s)} \in SUBSET (1..(k + 1)) /\ k + 1 \notin s \ {Max(s)}
        BY <3>2
      <4>4. f[s \ {Max(s)}] = g[s \ {Max(s)}]
        BY <4>3
      <4> QED BY <4>2, <4>4
    <3> QED BY <3>1, <3>2
  <2> HIDE DEF f
  <2>7. Folds(f, Op, base, k + 1)
    BY <2>5, <2>6 DEF Folds
  <2> QED BY <2>4, <2>7
<1> HIDE DEF P
<1>3. P(n)
  <2>1. 0 \in G /\ \A k \in Nat : k \in G => k + 1 \in G
    BY <1>1, <1>2
  <2>2. Nat \subseteq G
    <3> HIDE DEF G
    <3> QED BY <2>1, Induction
  <2> QED BY <2>2
<1>4. n <= n
  OBVIOUS
<1> QED BY <1>3, <1>4, Zenon DEF P

\* The same where the states are known to be in A only
FoldsIn(f, Op, base, n, A) ==
  /\ f[{}] = base
  /\ \A s \in SUBSET (1..n) : s # {} /\ f[s \ {Max(s)}] \in A
                               => f[s] = Op[<<Max(s), f[s \ {Max(s)}]>>]

Along(f, Op, base, n, A) ==
  /\ f[1..0] = base
  /\ \A k \in 0..n : f[1..k] \in A
  /\ \A k \in 1..n : f[1..k] = Op[<<k, f[1..(k - 1)]>>]

LEMMA FoldAlong ==
  ASSUME NEW A, NEW base \in A, NEW n \in Nat, NEW Op \in [(1..n) \X A -> A],
         NEW f, FoldsIn(f, Op, base, n, A)
  PROVE  Along(f, Op, base, n, A)
<1> DEFINE G == {k \in Nat : k <= n => f[1..k] \in A}
<1>0. /\ f[{}] = base
      /\ \A s \in SUBSET (1..n) : s # {} /\ f[s \ {Max(s)}] \in A
                                   => f[s] = Op[<<Max(s), f[s \ {Max(s)}]>>]
  BY DEF FoldsIn
<1>1. f[1..0] = base /\ 0 \in G
  <2>1. 1..0 = {}
    OBVIOUS
  <2> QED BY <1>0, <2>1
<1>2. ASSUME NEW k \in 1..n
      PROVE  1..k \in SUBSET (1..n) /\ 1..k # {} /\ Max(1..k) = k /\ (1..k) \ {k} = 1..(k - 1)
  <2>1. k - 1 \in Nat /\ (k - 1) + 1 = k /\ k \in 1..k /\ 1..k # {}
    OBVIOUS
  <2>2. Max(1..k) = k
    BY <2>1, MaxLess
  <2>3. 1..k \in SUBSET (1..n) /\ (1..k) \ {k} = 1..(k - 1)
    OBVIOUS
  <2> QED BY <2>1, <2>2, <2>3
<1>3. ASSUME NEW k \in 1..n, f[1..(k - 1)] \in A
      PROVE  f[1..k] = Op[<<k, f[1..(k - 1)]>>] /\ f[1..k] \in A
  <2>1. f[1..k] = Op[<<k, f[1..(k - 1)]>>]
    BY <1>0, <1>2, <1>3
  <2> QED BY <1>3, <2>1
<1>4. ASSUME NEW k \in Nat, k \in G PROVE k + 1 \in G
  <2> SUFFICES ASSUME k + 1 <= n PROVE f[1..(k + 1)] \in A
    OBVIOUS
  <2>1. k + 1 \in 1..n /\ (k + 1) - 1 = k /\ f[1..k] \in A
    BY <1>4
  <2> QED BY <1>3, <2>1
<1> HIDE DEF G
<1>5. \A k \in Nat : k \in G
  <2>1. \A k \in Nat : k \in G => k + 1 \in G
    BY <1>4
  <2> QED BY <1>1, <2>1, Induction
<1>6. \A k \in 0..n : f[1..k] \in A
  BY <1>5 DEF G
<1>7. \A k \in 1..n : f[1..k] = Op[<<k, f[1..(k - 1)]>>]
  <2> SUFFICES ASSUME NEW k \in 1..n PROVE f[1..k] = Op[<<k, f[1..(k - 1)]>>]
    OBVIOUS
  <2>1. k - 1 \in 0..n
    OBVIOUS
  <2> QED BY <1>3, <1>6, <2>1
<1> QED BY <1>1, <1>6, <1>7 DEF Along

Recursion(g, Op, base, n) == g[0] = base /\ \A k \in 1..n : g[k] = Op[<<k, g[k - 1]>>]

LEMMA RecursionExists ==
  ASSUME NEW A, NEW base \in A, NEW n \in Nat, NEW Op \in [(1..n) \X A -> A]
  PROVE  \E g \in [0..n -> A] : Recursion(g, Op, base, n)
<1>1. PICK f \in [SUBSET (1..n) -> A] : Folds(f, Op, base, n)
  BY FoldExists
<1> DEFINE g == [k \in 0..n |-> f[1..k]]
<1>2. /\ f[1..0] = base
      /\ \A k \in 0..n : f[1..k] \in A
      /\ \A k \in 1..n : f[1..k] = Op[<<k, f[1..(k - 1)]>>]
  <2>1. FoldsIn(f, Op, base, n, A)
    BY <1>1 DEF Folds, FoldsIn
  <2>2. Along(f, Op, base, n, A)
    BY <2>1, FoldAlong
  <2> QED BY <2>2 DEF Along
<1>3. g \in [0..n -> A] /\ g[0] = base
  BY <1>2
<1>4. \A k \in 1..n : g[k] = Op[<<k, g[k - 1]>>]
  <2> SUFFICES ASSUME NEW k \in 1..n PROVE g[k] = Op[<<k, g[k - 1]>>]
    OBVIOUS
  <2>1. k \in 0..n /\ k - 1 \in 0..n
    OBVIOUS
  <2> QED BY <1>2, <2>1
<1> HIDE DEF g
<1> QED BY <1>3, <1>4 DEF Recursion

---------------------------------------------------------------------------
(* FlattenSeq *)

Flat(s, k) == FlattenSeq([i \in 1..k |-> s[i]])

IsFlat(f, t, k) == f = [i \in 1..k |-> IF i = 1 THEN t[i] ELSE f[i - 1] \o t[i]]

LEMMA FlatIs ==
  ASSUME NEW S, NEW n \in Nat, NEW s \in [1..n -> Seq(S)]
  PROVE  /\ Flat(s, 0) = << >>
         /\ \A k \in 0..n : Flat(s, k) \in Seq(S)
         /\ \A k \in 1..n : Flat(s, k) = Flat(s, k - 1) \o s[k]
<1> DEFINE Op == [p \in (1..n) \X Seq(S) |-> p[2] \o s[p[1]]]
<1>1. Op \in [(1..n) \X Seq(S) -> Seq(S)] /\ << >> \in Seq(S)
  <2>1. \A p \in (1..n) \X Seq(S) : p[2] \o s[p[1]] \in Seq(S)
    BY ConcatProperties
  <2> QED BY <2>1, EmptySeq
<1>2. \A k \in 1..n, a \in Seq(S) : Op[<<k, a>>] = a \o s[k]
  OBVIOUS
<1> HIDE DEF Op
<1>3. PICK g \in [0..n -> Seq(S)] : g[0] = << >> /\ \A k \in 1..n : g[k] = Op[<<k, g[k - 1]>>]
  <2> DEFINE A == Seq(S)
  <2>1. Op \in [(1..n) \X A -> A] /\ << >> \in A
    BY <1>1
  <2> HIDE DEF A
  <2>2. \E g \in [0..n -> A] : Recursion(g, Op, << >>, n)
    BY <2>1, RecursionExists
  <2> QED BY <2>2 DEF A, Recursion
<1>4. \A k \in 1..n : g[k] = g[k - 1] \o s[k]
  <2> SUFFICES ASSUME NEW k \in 1..n PROVE g[k] = g[k - 1] \o s[k]
    OBVIOUS
  <2>1. k - 1 \in 0..n
    OBVIOUS
  <2>2. g[k - 1] \in Seq(S)
    BY <1>3, <2>1
  <2> QED BY <1>2, <1>3, <2>2
<1>5. Flat(s, 0) = << >>
  <2>1. [i \in 1..0 |-> s[i]] = << >>
    OBVIOUS
  <2> QED BY <2>1 DEF Flat, FlattenSeq
<1>6. ASSUME NEW k \in 1..n PROVE Flat(s, k) = g[k]
  <2> DEFINE t == [i \in 1..k |-> s[i]]
             G == [i \in 1..k |-> g[i]]
  <2>1. t \in Seq(Seq(S)) /\ Len(t) = k /\ \A i \in 1..k : t[i] = s[i]
    OBVIOUS
  <2> HIDE DEF t
  <2>2. IsFlat(G, t, k)
    <3>1. ASSUME NEW i \in 1..k PROVE g[i] = IF i = 1 THEN t[i] ELSE G[i - 1] \o t[i]
      <4>1. i \in 1..n /\ g[i] = g[i - 1] \o s[i] /\ t[i] = s[i] /\ s[i] \in Seq(S)
        <5>1. i \in 1..n
          OBVIOUS
        <5> QED BY <1>4, <2>1, <5>1
      <4>2. CASE i = 1
        <5>1. g[0] = << >> /\ i - 1 = 0
          BY <1>3, <4>2
        <5> QED BY <4>1, <4>2, <5>1, ConcatEmptySeq
      <4>3. CASE i # 1
        <5>1. G[i - 1] = g[i - 1]
          BY <4>3
        <5> QED BY <4>1, <4>3, <5>1
      <4> QED BY <4>2, <4>3
    <3>2. \A i \in 1..k : g[i] = IF i = 1 THEN t[i] ELSE G[i - 1] \o t[i]
      BY <3>1
    <3>3. G = [i \in 1..k |-> IF i = 1 THEN t[i] ELSE G[i - 1] \o t[i]]
      BY <3>2
    <3> HIDE DEF G
    <3> QED BY <3>3 DEF IsFlat
  <2> DEFINE f == CHOOSE h : IsFlat(h, t, k)
  <2>3. IsFlat(f, t, k)
    <3> HIDE DEF G
    <3> QED BY <2>2
  <2>4. Flat(s, k) = f[k]
    <3>1. FlattenSeq(t) = f[Len(t)]
      BY <2>1 DEF FlattenSeq, IsFlat
    <3> QED BY <2>1, <3>1 DEF Flat, t
  <2> HIDE DEF f
  <2>5. \A i \in 1..k : f[i] = IF i = 1 THEN t[i] ELSE f[i - 1] \o t[i]
    <3> DEFINE h == [i \in 1..k |-> IF i = 1 THEN t[i] ELSE f[i - 1] \o t[i]]
    <3>1. \A i \in 1..k : h[i] = IF i = 1 THEN t[i] ELSE f[i - 1] \o t[i]
      OBVIOUS
    <3>2. f = h
      BY <2>3 DEF IsFlat
    <3> HIDE DEF h
    <3> QED BY <3>1, <3>2
  <2> DEFINE P(i) == 1 <= i /\ i <= k => f[i] = g[i]
             N == {i \in Nat : P(i)}
  <2>6. P(0)
    OBVIOUS
  <2>7. ASSUME NEW i \in Nat, P(i) PROVE P(i + 1)
    <3> SUFFICES ASSUME i + 1 <= k PROVE f[i + 1] = g[i + 1]
      OBVIOUS
    <3>1. i + 1 \in 1..k /\ i + 1 \in 1..n /\ (i + 1) - 1 = i
      OBVIOUS
    <3>2. g[i + 1] = g[i] \o s[i + 1] /\ t[i + 1] = s[i + 1] /\ s[i + 1] \in Seq(S)
      BY <1>4, <2>1, <3>1
    <3>3. CASE i = 0
      <4>1. g[i] = << >> /\ f[i + 1] = t[i + 1]
        BY <1>3, <2>5, <3>1, <3>3
      <4> QED BY <3>2, <4>1, ConcatEmptySeq
    <3>4. CASE i # 0
      <4>1. f[i] = g[i]
        BY <2>7, <3>1, <3>4
      <4>2. f[i + 1] = f[i] \o t[i + 1]
        <5>1. i + 1 # 1
          BY <3>4
        <5> QED BY <2>5, <3>1, <5>1
      <4> QED BY <3>2, <4>1, <4>2
    <3> QED BY <3>3, <3>4
  <2>8. Nat \subseteq N
    <3>1. 0 \in N /\ \A i \in Nat : i \in N => i + 1 \in N
      <4> HIDE DEF P
      <4> QED BY <2>6, <2>7
    <3> HIDE DEF N
    <3> QED BY <3>1, Induction
  <2>9. k \in N /\ 1 <= k /\ k <= k
    BY <2>8
  <2> QED BY <2>4, <2>9
<1>7. Flat(s, 0) = g[0]
  BY <1>3, <1>5
<1>8. \A k \in 0..n : Flat(s, k) = g[k]
  <2> SUFFICES ASSUME NEW k \in 0..n PROVE Flat(s, k) = g[k]
    OBVIOUS
  <2>1. k = 0 \/ k \in 1..n
    OBVIOUS
  <2> QED BY <1>6, <1>7, <2>1
<1>9. \A k \in 1..n : Flat(s, k) = Flat(s, k - 1) \o s[k]
  <2> SUFFICES ASSUME NEW k \in 1..n PROVE Flat(s, k) = Flat(s, k - 1) \o s[k]
    OBVIOUS
  <2>1. k \in 0..n /\ k - 1 \in 0..n
    OBVIOUS
  <2> QED BY <1>4, <1>8, <2>1
<1>10. \A k \in 0..n : Flat(s, k) \in Seq(S)
  BY <1>3, <1>8
<1> QED BY <1>5, <1>9, <1>10

---------------------------------------------------------------------------
(* The parser of plans *)

Factor == Nat \union {NoText, NoNumber}
StepOf == [name : STRING, fac : Nat]
States == [ok : BOOLEAN, fac : Nat, steps : Seq(StepOf)]

LastFac(s) == IF s = << >> THEN 0 ELSE s[Len(s)].fac

LEMMA Associative == \A x, y, z \in Seq(StepOf) : (x \o y) \o z = x \o (y \o z)
BY ConcatAssociative, SMTT(60)

LEMMA GrowingMore ==
  ASSUME NEW s \in Seq(StepOf), NEW x \in StepOf
  PROVE  /\ s \o <<x>> \in Seq(StepOf)
         /\ Growing(s \o <<x>>) <=> Growing(s) /\ x.fac > LastFac(s)
         /\ LastFac(s \o <<x>>) = x.fac
<1> DEFINE n == Len(s)
           t == s \o <<x>>
<1>1. n \in Nat /\ DOMAIN s = 1..n /\ (s = << >> <=> n = 0)
  BY LenProperties, EmptySeq
<1>2. <<x>> \in Seq(StepOf) /\ Len(<<x>>) = 1 /\ <<x>>[1] = x
  OBVIOUS
<1>3. /\ t \in Seq(StepOf) /\ Len(t) = n + 1
      /\ \A i \in 1..(n + 1) : t[i] = IF i <= n THEN s[i] ELSE <<x>>[i - n]
  BY <1>2, ConcatProperties
<1>4. \A i \in 1..n : t[i] = s[i]
  BY <1>1, <1>3
<1>5. t[n + 1] = x
  BY <1>1, <1>2, <1>3
<1>6. DOMAIN t = 1..(n + 1)
  BY <1>3, LenProperties
<1> HIDE DEF t, n
<1>7. LastFac(t) = x.fac
  <2>1. t # << >>
    BY <1>1, <1>6
  <2> QED BY <1>3, <1>5, <2>1 DEF LastFac
<1>8. LastFac(s) = IF n = 0 THEN 0 ELSE s[n].fac
  BY <1>1 DEF LastFac, n
<1>9. Growing(t) => Growing(s) /\ x.fac > LastFac(s)
  <2> SUFFICES ASSUME Growing(t) PROVE Growing(s) /\ x.fac > LastFac(s)
    OBVIOUS
  <2>1. \A j \in 1..(n + 1) : t[j].fac > IF j = 1 THEN 0 ELSE t[j - 1].fac
    BY <1>6 DEF Growing
  <2>2. x.fac > LastFac(s)
    <3>1. n + 1 \in 1..(n + 1) /\ (n + 1) - 1 = n /\ (n + 1 = 1 <=> n = 0)
      BY <1>1
    <3>2. x.fac > IF n = 0 THEN 0 ELSE t[n].fac
      BY <1>5, <2>1, <3>1
    <3>3. n # 0 => t[n] = s[n]
      BY <1>1, <1>4
    <3> QED BY <1>8, <3>2, <3>3
  <2>3. ASSUME NEW j \in 1..n PROVE s[j].fac > IF j = 1 THEN 0 ELSE s[j - 1].fac
    <3>1. t[j].fac > IF j = 1 THEN 0 ELSE t[j - 1].fac
      BY <1>1, <2>1
    <3>2. t[j] = s[j] /\ (j # 1 => t[j - 1] = s[j - 1])
      BY <1>1, <1>4
    <3> QED BY <3>1, <3>2
  <2> QED BY <1>1, <2>2, <2>3 DEF Growing
<1>10. Growing(s) /\ x.fac > LastFac(s) => Growing(t)
  <2> SUFFICES ASSUME Growing(s), x.fac > LastFac(s), NEW j \in 1..(n + 1)
               PROVE  t[j].fac > IF j = 1 THEN 0 ELSE t[j - 1].fac
    BY <1>6 DEF Growing
  <2>1. CASE j = n + 1
    <3>1. t[j] = x /\ (n # 0 => t[n] = s[n]) /\ j - 1 = n /\ (j = 1 <=> n = 0)
      BY <1>1, <1>4, <1>5, <2>1
    <3> QED BY <1>8, <3>1
  <2>2. CASE j # n + 1
    <3>1. j \in 1..n /\ t[j] = s[j] /\ (j # 1 => t[j - 1] = s[j - 1])
      BY <1>1, <1>4, <2>2
    <3>2. s[j].fac > IF j = 1 THEN 0 ELSE s[j - 1].fac
      BY <1>1, <3>1 DEF Growing
    <3> QED BY <3>1, <3>2
  <2> QED BY <2>1, <2>2
<1> QED BY <1>3, <1>7, <1>9, <1>10 DEF t

\* st is what the parser has when it has read the parts of a plan that ask for
\* the steps s, all of them fine or not
ReadAs(st, fine, s) ==
  /\ st.ok <=> fine /\ Growing(s)
  /\ IF st.ok THEN st.steps = s /\ st.fac = LastFac(s) ELSE st.steps = << >>

Piece(name, f) == IF f \in {NoText, NoNumber} THEN << >> ELSE <<[name |-> name, fac |-> f]>>

FineFactor(name, f, count) ==
  /\ f # NoNumber /\ (f = NoText => count > 1)
  /\ Piece(name, f) # << >> => name \in CoarsenerName

LEMMA PieceType ==
  ASSUME NEW name \in STRING, NEW f \in Factor
  PROVE  /\ Piece(name, f) \in Seq(StepOf)
         /\ Piece(name, f) # << >> <=> f \notin {NoText, NoNumber}
<1> DEFINE x == [name |-> name, fac |-> f]
<1>1. CASE f \in {NoText, NoNumber}
  BY <1>1, EmptySeq DEF Piece
<1>2. CASE f \notin {NoText, NoNumber}
  <2>1. x \in StepOf /\ Piece(name, f) = <<x>>
    BY <1>2 DEF Factor, StepOf, Piece
  <2> HIDE DEF x
  <2>2. <<x>> \in Seq(StepOf) /\ <<x>> # << >>
    BY <2>1
  <2> QED BY <1>2, <2>1, <2>2
<1> QED BY <1>1, <1>2

LEMMA AddFactorType ==
  ASSUME NEW st \in States, NEW name \in STRING, NEW f \in Factor, NEW count
  PROVE  AddFactor(st, name, f, count) \in States
<1>1. st.ok \in BOOLEAN /\ st.fac \in Nat /\ st.steps \in Seq(StepOf)
  BY DEF States
<1>2. Rejected \in States
  BY EmptySeq DEF Rejected, States
<1>3. CASE f \in {NoText, NoNumber}
  BY <1>2, <1>3 DEF AddFactor
<1>4. CASE f \notin {NoText, NoNumber}
  <2> DEFINE x == [name |-> name, fac |-> f]
  <2>1. f \in Nat /\ x \in StepOf
    BY <1>4 DEF Factor, StepOf
  <2> HIDE DEF x
  <2>2. Append(st.steps, x) \in Seq(StepOf)
    BY <1>1, <2>1, AppendProperties
  <2>3. [st EXCEPT !.fac = f, !.steps = Append(@, x)] \in States
    BY <2>1, <2>2 DEF States
  <2> QED BY <1>2, <2>3 DEF AddFactor, x
<1> QED BY <1>3, <1>4

LEMMA FactorRead ==
  ASSUME NEW st \in States, NEW fine \in BOOLEAN, NEW s \in Seq(StepOf), ReadAs(st, fine, s),
         NEW name \in STRING, NEW f \in Factor, NEW count \in Nat \ {0}
  PROVE  /\ AddFactor(st, name, f, count) \in States
         /\ ReadAs(AddFactor(st, name, f, count), fine /\ FineFactor(name, f, count),
                   s \o Piece(name, f))
<1> DEFINE u == AddFactor(st, name, f, count)
           x == [name |-> name, fac |-> f]
<1>1. Rejected \in States /\ Rejected.ok = FALSE /\ Rejected.steps = << >>
  BY EmptySeq DEF Rejected, States
<1>2. st.ok \in BOOLEAN /\ st.fac \in Nat /\ st.steps \in Seq(StepOf)
  BY DEF States
<1>3. CASE f \in {NoText, NoNumber}
  <2>1. Piece(name, f) = << >> /\ s \o << >> = s
    BY <1>3, ConcatEmptySeq DEF Piece
  <2>2. CASE ~st.ok \/ (f = NoText /\ count > 1)
    <3>1. u = st
      BY <2>2 DEF AddFactor
    <3>2. st.ok => FineFactor(name, f, count)
      BY <2>1, <2>2, TextsAssumption DEF FineFactor
    <3> QED BY <2>1, <3>1, <3>2 DEF ReadAs
  <2>3. CASE ~(~st.ok \/ (f = NoText /\ count > 1))
    <3>1. u = Rejected
      BY <1>3, <2>3 DEF AddFactor
    <3>2. ~FineFactor(name, f, count)
      BY <1>3, <2>3 DEF FineFactor
    <3> QED BY <1>1, <3>1, <3>2 DEF ReadAs
  <2> QED BY <2>2, <2>3
<1>4. CASE f \notin {NoText, NoNumber}
  <2>1. f \in Nat /\ x \in StepOf /\ Piece(name, f) = <<x>> /\ x.fac = f
    BY <1>4 DEF Factor, StepOf, Piece
  <2>2. FineFactor(name, f, count) <=> name \in CoarsenerName
    BY <1>4, <2>1, PieceType DEF FineFactor
  <2> HIDE DEF x
  <2>3. /\ s \o <<x>> \in Seq(StepOf)
        /\ Growing(s \o <<x>>) <=> Growing(s) /\ f > LastFac(s)
        /\ LastFac(s \o <<x>>) = f
    BY <2>1, GrowingMore
  <2>4. CASE ~st.ok
    <3>1. u = st
      BY <2>4 DEF AddFactor
    <3> QED BY <2>1, <2>3, <2>4, <3>1 DEF ReadAs
  <2>5. CASE st.ok /\ (f <= st.fac \/ name \notin CoarsenerName)
    <3>1. u = Rejected
      BY <1>4, <2>5 DEF AddFactor
    <3>2. st.fac = LastFac(s)
      BY <2>5 DEF ReadAs
    <3>3. ~(fine /\ FineFactor(name, f, count) /\ Growing(s \o <<x>>))
      BY <1>2, <2>1, <2>2, <2>3, <2>5, <3>2
    <3> QED BY <1>1, <2>1, <3>1, <3>3 DEF ReadAs
  <2>6. CASE st.ok /\ ~(f <= st.fac \/ name \notin CoarsenerName)
    <3>1. u = [st EXCEPT !.fac = f, !.steps = Append(@, x)]
      BY <1>4, <2>6 DEF AddFactor, x
    <3>2. /\ u \in States /\ u.ok = st.ok /\ u.fac = f /\ u.steps = Append(st.steps, x)
      <4>1. Append(st.steps, x) \in Seq(StepOf)
        BY <1>2, <2>1, AppendProperties
      <4> HIDE DEF u
      <4> QED BY <1>2, <2>1, <3>1, <4>1 DEF States
    <3>3. st.steps = s /\ st.fac = LastFac(s) /\ fine /\ Growing(s)
      BY <2>6 DEF ReadAs
    <3>4. Append(s, x) = s \o <<x>>
      BY <2>1
    <3>5. f > LastFac(s)
      BY <1>2, <2>1, <2>6, <3>3
    <3> QED BY <2>1, <2>2, <2>3, <2>6, <3>2, <3>3, <3>4, <3>5 DEF ReadAs
  <2> QED BY <2>4, <2>5, <2>6
<1> QED BY <1>3, <1>4

\* The states that AddPart goes through, a factor at a time
IsPartFold(f, st, part) ==
  f = [s \in SUBSET DOMAIN part.factors |->
         IF s = {} THEN st
         ELSE AddFactor(f[s \ {Max(s)}], part.name, part.factors[Max(s)], Len(part.factors))]

LEMMA PartFoldIs ==
  ASSUME NEW st, NEW part, part.factors # << >>
  PROVE  AddPart(st, part) = (CHOOSE f : IsPartFold(f, st, part))[DOMAIN part.factors]
BY DEF AddPart, FoldLeft, MapThenFoldSet, IsPartFold

LEMMA PartHas ==
  ASSUME NEW part \in Parts
  PROVE  /\ part.name \in STRING /\ part.factors \in Seq(Factor)
         /\ Len(part.factors) \in Nat /\ DOMAIN part.factors = 1..Len(part.factors)
         /\ \A k \in 1..Len(part.factors) : part.factors[k] \in Factor
         /\ part.factors # << >> => Len(part.factors) # 0
<1>1. part.name \in STRING /\ part.factors \in Seq(Factor)
  BY DEF Parts, Factor
<1> QED BY <1>1, LenProperties, ElementOfSeq, EmptySeq

LEMMA PartFold ==
  ASSUME NEW st \in States, NEW part \in Parts, part.factors # << >>
  PROVE  \E f : /\ f[1..0] = st /\ f[1..Len(part.factors)] = AddPart(st, part)
                /\ \A k \in 0..Len(part.factors) : f[1..k] \in States
                /\ \A k \in 1..Len(part.factors) :
                     f[1..k] = AddFactor(f[1..(k - 1)], part.name, part.factors[k], Len(part.factors))
<1> DEFINE n == Len(part.factors)
           Add(a, k) == AddFactor(a, part.name, part.factors[k], n)
           Op == [p \in (1..n) \X States |-> Add(p[2], p[1])]
<1>1. n \in Nat /\ DOMAIN part.factors = 1..n
  BY PartHas
<1>2. \A a \in States, k \in 1..n : Add(a, k) \in States
  BY PartHas, AddFactorType
<1> HIDE DEF Add, n
<1>3. Op \in [(1..n) \X States -> States] /\ \A a \in States, k \in 1..n : Op[<<k, a>>] = Add(a, k)
  BY <1>2
<1> HIDE DEF Op
<1>4. PICK g \in [SUBSET (1..n) -> States] : Folds(g, Op, st, n)
  BY <1>1, <1>3, FoldExists
<1>5. \A s \in SUBSET (1..n) : s # {} => Max(s) \in 1..n /\ s \ {Max(s)} \in SUBSET (1..n)
  BY <1>1, Extremes
<1>6. \A f : IsPartFold(f, st, part) <=>
               f = [s \in SUBSET (1..n) |-> IF s = {} THEN st ELSE Add(f[s \ {Max(s)}], Max(s))]
  BY <1>1 DEF IsPartFold, Add, n
<1>7. IsPartFold(g, st, part)
  <2>1. ASSUME NEW s \in SUBSET (1..n)
        PROVE  g[s] = IF s = {} THEN st ELSE Add(g[s \ {Max(s)}], Max(s))
    <3>1. CASE s = {}
      BY <1>4, <3>1 DEF Folds
    <3>2. CASE s # {}
      <4>1. g[s] = Op[<<Max(s), g[s \ {Max(s)}]>>]
        BY <1>4, <3>2 DEF Folds
      <4>2. Max(s) \in 1..n /\ g[s \ {Max(s)}] \in States
        BY <1>4, <1>5, <3>2
      <4> QED BY <1>3, <3>2, <4>1, <4>2
    <3> QED BY <3>1, <3>2
  <2>2. g = [s \in SUBSET (1..n) |-> IF s = {} THEN st ELSE Add(g[s \ {Max(s)}], Max(s))]
    BY <1>4, <2>1
  <2> QED BY <1>6, <2>2
<1> DEFINE f == CHOOSE h : IsPartFold(h, st, part)
<1>8. IsPartFold(f, st, part)
  BY <1>7
<1>9. AddPart(st, part) = f[1..n]
  BY <1>1, PartFoldIs
<1> HIDE DEF f
<1>10. f = [s \in SUBSET (1..n) |-> IF s = {} THEN st ELSE Add(f[s \ {Max(s)}], Max(s))]
  BY <1>6, <1>8
<1>11. FoldsIn(f, Op, st, n, States)
  <2> DEFINE h == [s \in SUBSET (1..n) |-> IF s = {} THEN st ELSE Add(f[s \ {Max(s)}], Max(s))]
  <2>1. \A s \in SUBSET (1..n) : h[s] = IF s = {} THEN st ELSE Add(f[s \ {Max(s)}], Max(s))
    OBVIOUS
  <2>2. f = h
    BY <1>10
  <2> HIDE DEF h
  <2>3. f[{}] = st
    BY <2>1, <2>2
  <2>4. ASSUME NEW s \in SUBSET (1..n), s # {}, f[s \ {Max(s)}] \in States
        PROVE  f[s] = Op[<<Max(s), f[s \ {Max(s)}]>>]
    <3>1. f[s] = Add(f[s \ {Max(s)}], Max(s))
      BY <2>1, <2>2, <2>4
    <3> QED BY <1>3, <1>5, <2>4, <3>1
  <2> QED BY <2>3, <2>4 DEF FoldsIn
<1>12. Along(f, Op, st, n, States)
  BY <1>1, <1>3, <1>11, FoldAlong
<1>13. /\ f[1..0] = st /\ \A k \in 0..n : f[1..k] \in States
       /\ \A k \in 1..n : f[1..k] = Op[<<k, f[1..(k - 1)]>>]
  BY <1>12 DEF Along
<1>14. ASSUME NEW k \in 1..n PROVE f[1..k] = Add(f[1..(k - 1)], k)
  <2>1. k - 1 \in 0..n
    BY <1>1
  <2> QED BY <1>3, <1>13, <2>1
<1>15. \A k \in 1..n : f[1..k] = AddFactor(f[1..(k - 1)], part.name, part.factors[k], n)
  BY <1>14 DEF Add
<1> QED BY <1>9, <1>13, <1>15 DEF n

FinePart(part) ==
  /\ part.factors # << >>
  /\ \A j \in DOMAIN part.factors :
       FineFactor(part.name, part.factors[j], Len(part.factors))

LEMMA PiecesOf ==
  ASSUME NEW part \in Parts
  PROVE  LET n == Len(part.factors)
             s == [j \in 1..n |-> Piece(part.name, part.factors[j])]
         IN  s \in [1..n -> Seq(StepOf)] /\ StepsOfPart(part) = Flat(s, n)
<1> DEFINE n == Len(part.factors)
           s == [j \in 1..n |-> Piece(part.name, part.factors[j])]
<1>1. DOMAIN part.factors = 1..n
  BY PartHas
<1>2. s \in [1..n -> Seq(StepOf)]
  <2>1. \A j \in 1..n : Piece(part.name, part.factors[j]) \in Seq(StepOf)
    BY PartHas, PieceType
  <2> QED BY <2>1
<1>3. StepsOfPart(part) = FlattenSeq([j \in 1..n |-> Piece(part.name, part.factors[j])])
  BY <1>1 DEF StepsOfPart, Piece
<1>4. [j \in 1..n |-> s[j]] = [j \in 1..n |-> Piece(part.name, part.factors[j])]
  OBVIOUS
<1>5. StepsOfPart(part) = Flat(s, n)
  BY <1>3, <1>4 DEF Flat
<1> QED BY <1>2, <1>5

LEMMA PartRead ==
  ASSUME NEW st \in States, NEW fine \in BOOLEAN, NEW s \in Seq(StepOf), ReadAs(st, fine, s),
         NEW part \in Parts
  PROVE  /\ AddPart(st, part) \in States /\ StepsOfPart(part) \in Seq(StepOf)
         /\ ReadAs(AddPart(st, part), fine /\ FinePart(part), s \o StepsOfPart(part))
<1> DEFINE n == Len(part.factors)
           t == [j \in 1..n |-> Piece(part.name, part.factors[j])]
<1>1. /\ n \in Nat /\ part.name \in STRING /\ DOMAIN part.factors = 1..n
      /\ \A k \in 1..n : part.factors[k] \in Factor
      /\ part.factors # << >> => n \in Nat \ {0}
  BY PartHas
<1>2. t \in [1..n -> Seq(StepOf)] /\ StepsOfPart(part) = Flat(t, n)
  BY PiecesOf
<1>3. /\ Flat(t, 0) = << >>
      /\ \A k \in 0..n : Flat(t, k) \in Seq(StepOf)
      /\ \A k \in 1..n : Flat(t, k) = Flat(t, k - 1) \o t[k]
  <2> HIDE DEF t, n
  <2> QED BY <1>1, <1>2, FlatIs
<1>4. \A k \in 1..n : t[k] = Piece(part.name, part.factors[k])
  OBVIOUS
<1> HIDE DEF t, n
<1>5. StepsOfPart(part) \in Seq(StepOf)
  BY <1>1, <1>2, <1>3
<1>6. CASE part.factors = << >>
  <2>1. AddPart(st, part) = Rejected
    BY <1>6 DEF AddPart
  <2>2. Rejected \in States /\ Rejected.ok = FALSE /\ Rejected.steps = << >>
    BY EmptySeq DEF Rejected, States
  <2> QED BY <1>5, <1>6, <2>1, <2>2 DEF ReadAs, FinePart
<1>7. CASE part.factors # << >>
  <2> DEFINE fineTo(k) == fine /\ \A j \in 1..k : FineFactor(part.name, part.factors[j], n)
             R(u, k) == u \in States /\ ReadAs(u, fineTo(k), s \o Flat(t, k))
  <2>2. PICK f : /\ f[1..0] = st /\ f[1..n] = AddPart(st, part)
                 /\ \A k \in 0..n : f[1..k] \in States
                 /\ \A k \in 1..n : f[1..k] = AddFactor(f[1..(k - 1)], part.name, part.factors[k], n)
    BY <1>7, PartFold DEF n
  <2>3. R(f[1..0], 0)
    <3>1. s \o Flat(t, 0) = s /\ fineTo(0) = fine
      BY <1>3, ConcatEmptySeq
    <3> HIDE DEF fineTo
    <3> QED BY <2>2, <3>1
  <2>4. ASSUME NEW k \in 1..n, R(f[1..(k - 1)], k - 1) PROVE R(f[1..k], k)
    <3> DEFINE p == Piece(part.name, part.factors[k])
               c == FineFactor(part.name, part.factors[k], n)
    <3>1. k - 1 \in 0..n /\ k \in 0..n /\ 1..k = (1..(k - 1)) \union {k}
      BY <1>1
    <3>2. s \o Flat(t, k - 1) \in Seq(StepOf)
      BY <1>3, <3>1, ConcatProperties
    <3>3. ReadAs(f[1..k], fineTo(k - 1) /\ c, (s \o Flat(t, k - 1)) \o p) /\ f[1..k] \in States
      <4> DEFINE b == fineTo(k - 1)
                 q == s \o Flat(t, k - 1)
                 u == f[1..(k - 1)]
      <4>1. b \in BOOLEAN /\ q \in Seq(StepOf) /\ u \in States /\ ReadAs(u, b, q)
        BY <2>4, <3>2
      <4>2. part.factors[k] \in Factor /\ n \in Nat \ {0} /\ f[1..k] = AddFactor(u, part.name, part.factors[k], n)
        BY <1>1, <1>7, <2>2
      <4> DEFINE w == part.factors[k]
                 v == AddFactor(u, part.name, w, n)
      <4>3. part.name \in STRING /\ w \in Factor /\ n \in Nat \ {0} /\ f[1..k] = v
        BY <1>1, <4>2
      <4> HIDE DEF b, q, u, w
      <4>4. /\ AddFactor(u, part.name, w, n) \in States
            /\ ReadAs(AddFactor(u, part.name, w, n), b /\ FineFactor(part.name, w, n),
                      q \o Piece(part.name, w))
        BY ONLY <4>1, <4>3, FactorRead
      <4> QED BY <4>3, <4>4 DEF b, q, w
    <3>4. (s \o Flat(t, k - 1)) \o p = s \o Flat(t, k)
      <4>1. Flat(t, k) = Flat(t, k - 1) \o p /\ p \in Seq(StepOf) /\ Flat(t, k - 1) \in Seq(StepOf)
        BY <1>1, <1>3, <1>4, <3>1, PieceType
      <4> HIDE DEF p
      <4> DEFINE v == Flat(t, k - 1)
      <4>2. v \in Seq(StepOf)
        BY <4>1
      <4> HIDE DEF v
      <4>3. (s \o v) \o p = s \o (v \o p)
        BY <4>1, <4>2, Associative, Zenon
      <4> QED BY <4>1, <4>3 DEF v
    <3>5. fineTo(k) <=> fineTo(k - 1) /\ c
      BY <3>1
    <3> HIDE DEF fineTo, c, p
    <3>6. ReadAs(f[1..k], fineTo(k - 1) /\ c, s \o Flat(t, k))
      BY <3>3, <3>4
    <3> QED BY <3>3, <3>5, <3>6 DEF ReadAs
  <2> HIDE DEF R
  <2>5. R(f[1..n], n)
    <3> DEFINE N == {k \in Nat : k <= n => R(f[1..k], k)}
    <3>1. 0 \in N
      BY <2>3
    <3>2. ASSUME NEW k \in Nat, k \in N PROVE k + 1 \in N
      <4> SUFFICES ASSUME k + 1 <= n PROVE R(f[1..(k + 1)], k + 1)
        OBVIOUS
      <4>1. k + 1 \in 1..n /\ (k + 1) - 1 = k /\ R(f[1..k], k)
        BY <1>1, <3>2
      <4>2. R(f[1..((k + 1) - 1)], (k + 1) - 1)
        BY <4>1
      <4> QED BY <2>4, <4>1, <4>2
    <3>3. \A k \in Nat : k \in N => k + 1 \in N
      BY <3>2
    <3>4. Nat \subseteq N
      <4> HIDE DEF N
      <4> QED BY <3>1, <3>3, Induction
    <3>5. n \in N /\ n <= n
      BY <1>1, <3>4
    <3> QED BY <3>5
  <2>6. fineTo(n) <=> fine /\ FinePart(part)
    BY <1>1, <1>7 DEF FinePart, n
  <2>7. AddPart(st, part) \in States /\ ReadAs(AddPart(st, part), fineTo(n), s \o StepsOfPart(part))
    BY <1>2, <2>2, <2>5 DEF R
  <2> HIDE DEF fineTo
  <2> QED BY <1>5, <2>6, <2>7 DEF ReadAs
<1> QED BY <1>6, <1>7

LEMMA AddPartType ==
  ASSUME NEW st \in States, NEW part \in Parts
  PROVE  AddPart(st, part) \in States
<1>1. CASE part.factors = << >>
  BY <1>1, EmptySeq DEF AddPart, Rejected, States
<1>2. CASE part.factors # << >>
  BY <1>2, PartFold, PartHas
<1> QED BY <1>1, <1>2

\* The same of a plan, a part at a time
Unread == [ok |-> TRUE, fac |-> 0, steps |-> << >>]

IsPlanFold(f, plan) ==
  f = [s \in SUBSET DOMAIN plan |->
         IF s = {} THEN Unread ELSE AddPart(f[s \ {Max(s)}], plan[Max(s)])]

LEMMA PlanFoldIs ==
  ASSUME NEW plan, plan # << >>
  PROVE  FromRawString(plan) = (CHOOSE f : IsPlanFold(f, plan))[DOMAIN plan]
BY DEF FromRawString, FoldLeft, MapThenFoldSet, IsPlanFold, Unread

LEMMA PlanFold ==
  ASSUME NEW plan \in Seq(Parts), plan # << >>
  PROVE  \E f : /\ f[1..0] = Unread /\ f[1..Len(plan)] = FromRawString(plan)
                /\ \A k \in 0..Len(plan) : f[1..k] \in States
                /\ \A k \in 1..Len(plan) : f[1..k] = AddPart(f[1..(k - 1)], plan[k])
<1> DEFINE n == Len(plan)
           Op == [p \in (1..n) \X States |-> AddPart(p[2], plan[p[1]])]
<1>1. n \in Nat /\ DOMAIN plan = 1..n /\ \A k \in 1..n : plan[k] \in Parts
  BY LenProperties, ElementOfSeq
<1>2. Unread \in States
  BY EmptySeq DEF Unread, States
<1> HIDE DEF n
<1>3. Op \in [(1..n) \X States -> States] /\ \A a \in States, k \in 1..n : Op[<<k, a>>] = AddPart(a, plan[k])
  BY <1>1, AddPartType
<1> HIDE DEF Op
<1>4. PICK g \in [SUBSET (1..n) -> States] : Folds(g, Op, Unread, n)
  BY <1>1, <1>2, <1>3, FoldExists
<1>5. \A s \in SUBSET (1..n) : s # {} => Max(s) \in 1..n /\ s \ {Max(s)} \in SUBSET (1..n)
  BY <1>1, Extremes
<1>6. \A f : IsPlanFold(f, plan) <=>
               f = [s \in SUBSET (1..n) |-> IF s = {} THEN Unread ELSE AddPart(f[s \ {Max(s)}], plan[Max(s)])]
  BY <1>1 DEF IsPlanFold
<1>7. IsPlanFold(g, plan)
  <2>1. ASSUME NEW s \in SUBSET (1..n)
        PROVE  g[s] = IF s = {} THEN Unread ELSE AddPart(g[s \ {Max(s)}], plan[Max(s)])
    <3>1. CASE s = {}
      BY <1>4, <3>1 DEF Folds
    <3>2. CASE s # {}
      <4>1. g[s] = Op[<<Max(s), g[s \ {Max(s)}]>>]
        BY <1>4, <3>2 DEF Folds
      <4>2. Max(s) \in 1..n /\ g[s \ {Max(s)}] \in States
        BY <1>4, <1>5, <3>2
      <4> QED BY <1>3, <3>2, <4>1, <4>2
    <3> QED BY <3>1, <3>2
  <2>2. g = [s \in SUBSET (1..n) |-> IF s = {} THEN Unread ELSE AddPart(g[s \ {Max(s)}], plan[Max(s)])]
    BY <1>4, <2>1
  <2> QED BY <1>6, <2>2
<1> DEFINE f == CHOOSE h : IsPlanFold(h, plan)
<1>8. IsPlanFold(f, plan)
  BY <1>7
<1>9. FromRawString(plan) = f[1..n]
  BY <1>1, PlanFoldIs
<1> HIDE DEF f
<1>10. f = [s \in SUBSET (1..n) |-> IF s = {} THEN Unread ELSE AddPart(f[s \ {Max(s)}], plan[Max(s)])]
  BY <1>6, <1>8
<1>11. FoldsIn(f, Op, Unread, n, States)
  <2> DEFINE h == [s \in SUBSET (1..n) |-> IF s = {} THEN Unread ELSE AddPart(f[s \ {Max(s)}], plan[Max(s)])]
  <2>1. \A s \in SUBSET (1..n) : h[s] = IF s = {} THEN Unread ELSE AddPart(f[s \ {Max(s)}], plan[Max(s)])
    OBVIOUS
  <2>2. f = h
    BY <1>10
  <2> HIDE DEF h
  <2>3. f[{}] = Unread
    BY <2>1, <2>2
  <2>4. ASSUME NEW s \in SUBSET (1..n), s # {}, f[s \ {Max(s)}] \in States
        PROVE  f[s] = Op[<<Max(s), f[s \ {Max(s)}]>>]
    <3>1. f[s] = AddPart(f[s \ {Max(s)}], plan[Max(s)])
      BY <2>1, <2>2, <2>4
    <3> QED BY <1>3, <1>5, <2>4, <3>1
  <2> QED BY <2>3, <2>4 DEF FoldsIn
<1>12. Along(f, Op, Unread, n, States)
  BY <1>1, <1>2, <1>3, <1>11, FoldAlong
<1>13. /\ f[1..0] = Unread /\ \A k \in 0..n : f[1..k] \in States
       /\ \A k \in 1..n : f[1..k] = Op[<<k, f[1..(k - 1)]>>]
  BY <1>12 DEF Along
<1>14. \A k \in 1..n : f[1..k] = AddPart(f[1..(k - 1)], plan[k])
  <2> SUFFICES ASSUME NEW k \in 1..n PROVE f[1..k] = AddPart(f[1..(k - 1)], plan[k])
    OBVIOUS
  <2>1. k - 1 \in 0..n
    BY <1>1
  <2> QED BY <1>3, <1>13, <2>1
<1> QED BY <1>9, <1>13, <1>14 DEF n

LEMMA PlanRead ==
  ASSUME NEW plan \in Seq(Parts), plan # << >>
  PROVE  /\ FromRawString(plan) \in States /\ StepsOf(plan) \in Seq(StepOf)
         /\ ReadAs(FromRawString(plan), \A i \in DOMAIN plan : FinePart(plan[i]), StepsOf(plan))
<1> DEFINE n == Len(plan)
           t == [i \in 1..n |-> StepsOfPart(plan[i])]
           fineTo(k) == \A i \in 1..k : FinePart(plan[i])
           R(u, k) == u \in States /\ ReadAs(u, fineTo(k), Flat(t, k))
<1>1. n \in Nat /\ DOMAIN plan = 1..n /\ \A k \in 1..n : plan[k] \in Parts
  BY LenProperties, ElementOfSeq
<1>2. Unread \in States /\ ReadAs(Unread, TRUE, << >>)
  BY EmptySeq DEF Unread, States, ReadAs, Growing, LastFac
<1>3. \A k \in 1..n : StepsOfPart(plan[k]) \in Seq(StepOf)
  <2>1. Unread \in States /\ TRUE \in BOOLEAN /\ << >> \in Seq(StepOf)
    BY <1>2, EmptySeq
  <2> QED BY <1>1, <1>2, <2>1, PartRead
<1>4. t \in [1..n -> Seq(StepOf)] /\ \A k \in 1..n : t[k] = StepsOfPart(plan[k])
  BY <1>3
<1>5. StepsOf(plan) = Flat(t, n)
  <2>1. [i \in 1..n |-> t[i]] = [i \in 1..n |-> StepsOfPart(plan[i])]
    OBVIOUS
  <2> QED BY <1>1, <2>1 DEF StepsOf, Flat
<1> HIDE DEF n, t
<1>6. /\ Flat(t, 0) = << >>
      /\ \A k \in 0..n : Flat(t, k) \in Seq(StepOf)
      /\ \A k \in 1..n : Flat(t, k) = Flat(t, k - 1) \o t[k]
  BY <1>1, <1>4, FlatIs
<1>7. PICK f : /\ f[1..0] = Unread /\ f[1..n] = FromRawString(plan)
               /\ \A k \in 0..n : f[1..k] \in States
               /\ \A k \in 1..n : f[1..k] = AddPart(f[1..(k - 1)], plan[k])
  BY PlanFold DEF n
<1>8. R(f[1..0], 0)
  <2>1. fineTo(0) <=> TRUE
    OBVIOUS
  <2> HIDE DEF fineTo
  <2> QED BY <1>2, <1>6, <1>7, <2>1 DEF ReadAs
<1>9. ASSUME NEW k \in 1..n, R(f[1..(k - 1)], k - 1) PROVE R(f[1..k], k)
  <2> DEFINE b == fineTo(k - 1)
             q == Flat(t, k - 1)
             u == f[1..(k - 1)]
             w == plan[k]
  <2>1. k - 1 \in 0..n /\ 1..k = (1..(k - 1)) \union {k}
    BY <1>1
  <2>2. b \in BOOLEAN /\ q \in Seq(StepOf) /\ u \in States /\ ReadAs(u, b, q) /\ w \in Parts
    BY <1>1, <1>6, <1>9, <2>1
  <2>3. f[1..k] = AddPart(u, w) /\ Flat(t, k) = q \o StepsOfPart(w)
    BY <1>4, <1>6, <1>7
  <2>4. fineTo(k) <=> b /\ FinePart(w)
    BY <2>1
  <2> HIDE DEF b, q, u, w, fineTo
  <2>5. AddPart(u, w) \in States /\ ReadAs(AddPart(u, w), b /\ FinePart(w), q \o StepsOfPart(w))
    BY ONLY <2>2, PartRead
  <2> QED BY <2>3, <2>4, <2>5 DEF ReadAs
<1> HIDE DEF R
<1>10. R(f[1..n], n)
  <2> DEFINE N == {k \in Nat : k <= n => R(f[1..k], k)}
  <2>1. 0 \in N
    BY <1>8
  <2>2. ASSUME NEW k \in Nat, k \in N PROVE k + 1 \in N
    <3> SUFFICES ASSUME k + 1 <= n PROVE R(f[1..(k + 1)], k + 1)
      OBVIOUS
    <3>1. k + 1 \in 1..n /\ (k + 1) - 1 = k /\ R(f[1..k], k)
      BY <1>1, <2>2
    <3>2. R(f[1..((k + 1) - 1)], (k + 1) - 1)
      BY <3>1
    <3> QED BY <1>9, <3>1, <3>2
  <2>3. \A k \in Nat : k \in N => k + 1 \in N
    BY <2>2
  <2>4. Nat \subseteq N
    <3> HIDE DEF N
    <3> QED BY <2>1, <2>3, Induction
  <2>5. n \in N /\ n <= n
    BY <1>1, <2>4
  <2> QED BY <2>5
<1>11. FromRawString(plan) \in States /\ ReadAs(FromRawString(plan), fineTo(n), StepsOf(plan))
  BY <1>5, <1>7, <1>10 DEF R
<1>12. fineTo(n) <=> \A i \in DOMAIN plan : FinePart(plan[i])
  BY <1>1
<1>13. StepsOf(plan) \in Seq(StepOf)
  BY <1>1, <1>5, <1>6
<1> HIDE DEF fineTo
<1> QED BY <1>11, <1>12, <1>13 DEF ReadAs

LEMMA FlatEmpty ==
  ASSUME NEW S, NEW n \in Nat, NEW s \in [1..n -> Seq(S)]
  PROVE  Flat(s, n) = << >> <=> \A k \in 1..n : s[k] = << >>
<1>1. /\ Flat(s, 0) = << >>
      /\ \A k \in 0..n : Flat(s, k) \in Seq(S)
      /\ \A k \in 1..n : Flat(s, k) = Flat(s, k - 1) \o s[k]
  BY FlatIs
<1> DEFINE E(k) == Flat(s, k) = << >> <=> \A i \in 1..k : s[i] = << >>
           N == {k \in Nat : k <= n => E(k)}
<1>2. 0 \in N
  BY <1>1
<1>3. ASSUME NEW k \in Nat, k \in N PROVE k + 1 \in N
  <2> SUFFICES ASSUME k + 1 <= n PROVE E(k + 1)
    OBVIOUS
  <2>1. k + 1 \in 1..n /\ (k + 1) - 1 = k /\ k \in 0..n /\ E(k)
    BY <1>3
  <2>2. Flat(s, k + 1) = Flat(s, k) \o s[k + 1] /\ Flat(s, k) \in Seq(S) /\ s[k + 1] \in Seq(S)
    BY <1>1, <2>1
  <2>3. Flat(s, k + 1) = << >> <=> Flat(s, k) = << >> /\ s[k + 1] = << >>
    <3> DEFINE a == Flat(s, k)
               b == s[k + 1]
    <3>1. a \in Seq(S) /\ b \in Seq(S)
      BY <2>2
    <3> HIDE DEF a, b
    <3>2. Len(a \o b) = Len(a) + Len(b) /\ a \o b \in Seq(S) /\ Len(a) \in Nat /\ Len(b) \in Nat
      BY <3>1, ConcatProperties, LenProperties
    <3>3. /\ a \o b = << >> <=> Len(a \o b) = 0
          /\ a = << >> <=> Len(a) = 0
          /\ b = << >> <=> Len(b) = 0
      BY <3>1, <3>2, EmptySeq
    <3>4. a \o b = << >> <=> a = << >> /\ b = << >>
      BY <3>2, <3>3
    <3> QED BY <2>2, <3>4 DEF a, b
  <2>4. 1..(k + 1) = (1..k) \union {k + 1}
    OBVIOUS
  <2> QED BY <2>1, <2>3, <2>4
<1>4. Nat \subseteq N
  <2>1. \A k \in Nat : k \in N => k + 1 \in N
    BY <1>3
  <2> HIDE DEF N
  <2> QED BY <1>2, <2>1, Induction
<1>5. n \in N /\ n <= n
  BY <1>4
<1> QED BY <1>5

\* A part is fine when Acceptable says so
FineHere(part) ==
  /\ part.factors \notin {<< >>, <<NoText>>}
  /\ \A j \in DOMAIN part.factors : part.factors[j] # NoNumber
  /\ StepsOfPart(part) # << >> => part.name \in CoarsenerName

LEMMA PartFine ==
  ASSUME NEW part \in Parts
  PROVE  FineHere(part) <=> FinePart(part)
<1> DEFINE fs == part.factors
           n == Len(fs)
           s == [j \in 1..n |-> Piece(part.name, part.factors[j])]
<1>1. n \in Nat /\ fs \in Seq(Factor) /\ DOMAIN fs = 1..n
  BY PartHas
<1>2. s \in [1..n -> Seq(StepOf)] /\ StepsOfPart(part) = Flat(s, n)
  BY PiecesOf
<1>3. \A j \in 1..n : s[j] = Piece(part.name, fs[j])
  OBVIOUS
<1> HIDE DEF s, n
<1>4. StepsOfPart(part) = << >> <=> \A j \in 1..n : Piece(part.name, fs[j]) = << >>
  BY <1>1, <1>2, <1>3, FlatEmpty
<1>5. fs = <<NoText>> <=> n = 1 /\ fs[1] = NoText
  <2> HIDE DEF fs
  <2>1. fs = <<NoText>> => n = 1 /\ fs[1] = NoText
    BY DEF n
  <2>2. n = 1 /\ fs[1] = NoText => fs = <<NoText>>
    BY <1>1 DEF n
  <2> QED BY <2>1, <2>2
<1>6. fs = << >> <=> n = 0
  BY <1>1, EmptySeq DEF n
<1>7. (\A j \in 1..n : fs[j] = NoText => n > 1) <=> ~(n = 1 /\ fs[1] = NoText)
  <2>1. ASSUME NEW j \in 1..n, fs[j] = NoText, ~(n > 1) PROVE n = 1 /\ fs[1] = NoText
    BY <1>1, <2>1
  <2>2. n = 1 /\ fs[1] = NoText => 1 \in 1..n /\ ~(n > 1)
    OBVIOUS
  <2> QED BY <2>1, <2>2
<1> DEFINE p(j) == Piece(part.name, fs[j])
           c == part.name \in CoarsenerName
<1>8. FineHere(part) <=>
        fs # << >> /\ fs # <<NoText>> /\ (\A j \in 1..n : fs[j] # NoNumber)
        /\ (~(\A j \in 1..n : p(j) = << >>) => c)
  BY <1>1, <1>4 DEF FineHere
<1>9. FinePart(part) <=>
        fs # << >> /\ \A j \in 1..n : fs[j] # NoNumber /\ (fs[j] = NoText => n > 1)
                                     /\ (p(j) # << >> => c)
  BY <1>1 DEF FinePart, FineFactor, n
<1> HIDE DEF fs, c, p
<1> QED BY <1>5, <1>7, <1>8, <1>9, Zenon

\* The parser accepts exactly the plans that it should, and then has queued
\* their steps; otherwise it has queued none.
THEOREM ParserRight ==
  ASSUME NEW plan \in Seq(Parts)
  PROVE  /\ FromRawString(plan) \in States
         /\ FromRawString(plan).ok <=> Acceptable(plan)
         /\ FromRawString(plan).ok => FromRawString(plan).steps = StepsOf(plan)
         /\ ~FromRawString(plan).ok => FromRawString(plan).steps = << >>
<1>1. CASE plan = << >>
  <2>1. FromRawString(plan) = Rejected
    BY <1>1 DEF FromRawString
  <2>2. ~Acceptable(plan)
    BY <1>1 DEF Acceptable
  <2> QED BY <2>1, <2>2, EmptySeq DEF Rejected, States
<1>2. CASE plan # << >>
  <2>1. \A i \in DOMAIN plan : plan[i] \in Parts
    BY LenProperties, ElementOfSeq
  <2>2. \A i \in DOMAIN plan : FineHere(plan[i]) <=> FinePart(plan[i])
    BY <2>1, PartFine
  <2>3. Acceptable(plan) <=> (\A i \in DOMAIN plan : FinePart(plan[i])) /\ Growing(StepsOf(plan))
    <3>1. Acceptable(plan) <=> (\A i \in DOMAIN plan : FineHere(plan[i])) /\ Growing(StepsOf(plan))
      BY <1>2, Zenon DEF Acceptable, FineHere
    <3> QED BY <2>2, <3>1, Zenon
  <2>4. /\ FromRawString(plan) \in States
        /\ ReadAs(FromRawString(plan), \A i \in DOMAIN plan : FinePart(plan[i]), StepsOf(plan))
    BY <1>2, PlanRead
  <2> DEFINE a == \A i \in DOMAIN plan : FinePart(plan[i])
             u == FromRawString(plan)
             s == StepsOf(plan)
             c == Acceptable(plan)
  <2>5. u \in States /\ ReadAs(u, a, s) /\ (c <=> a /\ Growing(s))
    BY <2>3, <2>4
  <2> HIDE DEF a, u, s, c
  <2>6. /\ u \in States /\ (u.ok <=> c) /\ (u.ok => u.steps = s) /\ (~u.ok => u.steps = << >>)
    BY <2>5 DEF ReadAs
  <2> QED BY <2>6 DEF u, c, s
<1> QED BY <1>1, <1>2

---------------------------------------------------------------------------
(* Whole iterations *)

\* All layers of db have been written n times, those up to layer k once more
Written(db, n, k) ==
  /\ {"graph", "coarse", "written"} \subseteq DOMAIN db
  /\ DOMAIN db.written = 1..db.graph.layers
  /\ \A l \in DOMAIN db.written : db.written[l] = IF l <= k THEN n + 1 ELSE n

\* Layers of the iteration under way that are in the session's database
Ahead == IF pc = "writing" THEN layer ELSE 0

\* The inductive invariant
IInv ==
  /\ layer \in Nat
  /\ disk # NoDatabase => \E n \in Nat : Written(disk, n, 0)
  /\ Running => \E n \in Nat : Written(work, n, Ahead)

LEMMA InitIInv == Init => IInv
  BY DEF Init, IInv, Running, Ended

\* A step that leaves the values of both databases alone keeps the invariant.
LEMMA Untouched ==
  ASSUME IInv, Running, pc # "writing", pc' # "writing", layer' \in Nat,
         disk' = disk, work' = work
  PROVE  IInv'
  BY DEF IInv, Ahead, Running

\* The same of the end of a tool that is not writing, with what it commits.
LEMMA Committed ==
  ASSUME IInv, Running, pc = "ran", pc' # "writing", layer' \in Nat,
         disk' = work, work' = work
  PROVE  IInv'
  BY DEF IInv, Ahead, Running

LEMMA LaunchIInv ==
  ASSUME NEW t, IInv, Launch(t)
  PROVE  IInv'
<1>1. \E n \in Nat : Written(disk', n, 0)
  <2>1. CASE disk = NoDatabase
    <3>1. disk' = Empty  BY <2>1 DEF Launch
    <3>2. DOMAIN Empty = {"graph", "coarse", "written"}  BY DEF Empty
    <3>3. Empty.written = << >> /\ Empty.graph.layers = 0  BY DEF Empty, NoGraph
    <3>4. Written(Empty, 0, 0)  BY <3>2, <3>3 DEF Written
    <3> QED  BY <3>1, <3>4
  <2>2. CASE disk # NoDatabase
    BY <2>2 DEF Launch, IInv
  <2> QED  BY <2>1, <2>2
<1>2. work' = disk' /\ layer' = 0 /\ pc' = "opened"
  BY DEF Launch
<1> QED
  BY <1>1, <1>2 DEF IInv, Ahead

LEMMA ImportIInv ==
  ASSUME NEW r, IInv, pc = "running", Imported(r)
  PROVE  IInv'
<1> DEFINE written == [l \in 1..r.graph.layers |-> 0]
<1>1. work' = [work EXCEPT !.graph = r.graph, !.written = written]
  BY DEF Imported
<1>2. {"graph", "coarse", "written"} \subseteq DOMAIN work
  BY DEF IInv, Running, Ended, Written
<1>3. /\ DOMAIN work' = DOMAIN work
      /\ work'.written = written
      /\ work'.graph = r.graph
  BY <1>1, <1>2
<1>4. Written(work', 0, 0)
  <2>1. DOMAIN written = 1..r.graph.layers /\ \A l \in DOMAIN written : written[l] = 0
    OBVIOUS
  <2>2. \A l \in 1..r.graph.layers : ~(l <= 0)
    OBVIOUS
  <2> QED  BY <1>2, <1>3, <2>1, <2>2 DEF Written
<1> QED
  BY <1>4 DEF Imported, IInv, Ahead, rest

LEMMA WriteIInv ==
  ASSUME IInv, FilterWrite
  PROVE  IInv'
<1>1. PICK n \in Nat : Written(work, n, layer)
  BY DEF IInv, FilterWrite, Running, Ended, Ahead
<1>2. work' = [work EXCEPT !.written[layer + 1] = @ + 1]
  BY DEF FilterWrite
<1>3. /\ DOMAIN work' = DOMAIN work
      /\ work'.graph = work.graph
      /\ work'.written = [work.written EXCEPT ![layer + 1] = @ + 1]
  BY <1>1, <1>2 DEF Written
<1>4. Written(work', n, layer + 1)
  <2>1. layer \in Nat  BY DEF IInv
  <2>2. ASSUME NEW l \in DOMAIN work'.written
        PROVE  work'.written[l] = IF l <= layer + 1 THEN n + 1 ELSE n
    <3>1. l \in DOMAIN work.written /\ l \in 1..work.graph.layers  BY <1>1, <1>3, <2>2 DEF Written
    <3>2. work.written[l] = IF l <= layer THEN n + 1 ELSE n  BY <1>1, <3>1 DEF Written
    <3>3. CASE l = layer + 1
      BY <1>3, <2>1, <3>1, <3>2, <3>3
    <3>4. CASE l # layer + 1
      BY <1>3, <2>1, <3>1, <3>2, <3>4
    <3> QED  BY <3>3, <3>4
  <2> QED  BY <1>1, <1>3, <2>2 DEF Written
<1> QED
  BY <1>4 DEF FilterWrite, IInv, Ahead

\* When all layers have been written, all have been written once more.
LEMMA DoneIInv ==
  ASSUME IInv, FilterDone
  PROVE  IInv'
<1>1. PICK n \in Nat : Written(work, n, layer)
  BY DEF IInv, FilterDone, Running, Ended, Ahead
<1>2. layer \in Nat /\ layer = work.graph.layers /\ DOMAIN work.written = 1..layer
  BY <1>1 DEF IInv, FilterDone, Written
<1>3. \A l \in DOMAIN work.written : work.written[l] = n + 1 /\ ~(l <= 0)
  BY <1>1, <1>2 DEF Written
<1>4. Written(work, n + 1, 0)
  BY <1>1, <1>3 DEF Written
<1> QED
  BY <1>4 DEF FilterDone, IInv, Ahead, rest

LEMMA CoarsenIInv ==
  ASSUME IInv, RunStep \/ StepDone
  PROVE  IInv'
<1>1. PICK n \in Nat : Written(work, n, 0)
  BY DEF IInv, RunStep, StepDone, Running, Ended, Ahead
<1>2. /\ DOMAIN work' = DOMAIN work
      /\ work'.written = work.written /\ work'.graph = work.graph
  <2>1. CASE RunStep  BY <1>1, <2>1 DEF RunStep, Written
  <2>2. CASE StepDone  BY <1>1, <2>2 DEF StepDone, Written
  <2> QED  BY <2>1, <2>2
<1>3. Written(work', n, 0)
  BY <1>1, <1>2 DEF Written
<1> QED
  BY <1>3 DEF RunStep, StepDone, IInv, Ahead, rest

LEMMA NextIInv == IInv /\ [Next]_vars => IInv'
<1> SUFFICES ASSUME IInv, [Next]_vars PROVE IInv'
  OBVIOUS
<1> USE DEF Ended, Running
<1>1. CASE \E t \in Parser \union Other : Launch(t)
  BY <1>1, LaunchIInv
<1>2. CASE \/ Begin("ts_parser") \/ Begin("snap_parser") \/ FilterBegin
           \/ FilterUnknown \/ FilterEnd \/ CoarsenerParse \/ StepFails \/ Export
  <2>1. layer \in Nat  BY DEF IInv
  <2> QED
    BY <1>2, <2>1, Untouched DEF Begin, FilterBegin, FilterUnknown, FilterEnd,
       CoarsenerParse, StepFails, Export, Exit, rest
<1>3. CASE TSParserImport \/ SnapParserImport
  BY <1>3, ImportIInv DEF TSParserImport, SnapParserImport
<1>4. CASE TSParserCommit \/ SnapParserCommit \/ FilterCommit \/ CoarsenerCommit
  <2>1. layer \in Nat  BY DEF IInv
  <2> QED
    BY <1>4, <2>1, Committed DEF TSParserCommit, SnapParserCommit, FilterCommit,
       CoarsenerCommit, Commit, Exit
<1>5. CASE FilterExec
  BY <1>5 DEF FilterExec, IInv, Ahead
<1>6. CASE FilterWrite
  BY <1>6, WriteIInv
<1>7. CASE FilterDone
  BY <1>7, DoneIInv
<1>8. CASE RunStep \/ StepDone
  BY <1>8, CoarsenIInv
<1>9. CASE Die
  BY <1>9 DEF Die, Exit, IInv
<1>10. CASE UNCHANGED vars
  BY <1>10 DEF vars, rest, IInv, Ahead
<1> QED
  BY <1>1, <1>2, <1>3, <1>4, <1>5, <1>6, <1>7, <1>8, <1>9, <1>10 DEF Next, Step

LEMMA IInvWhole == IInv => WholeIterations
<1> SUFFICES ASSUME IInv, disk # NoDatabase, NEW l \in DOMAIN disk.written,
                    NEW m \in DOMAIN disk.written
             PROVE  disk.written[l] = disk.written[m]
  BY DEF WholeIterations
<1>1. PICK n \in Nat : Written(disk, n, 0)
  BY DEF IInv
<1>2. \A k \in DOMAIN disk.written : ~(k <= 0)
  BY <1>1 DEF Written
<1> QED
  BY <1>1, <1>2 DEF Written

\* Wherever ts_filter, or any other tool, is killed, throws or fails, the
\* committed values are those of a whole number of iterations.
THEOREM WholeIterationsOnDisk == Spec => []WholeIterations
<1>1. Spec => []IInv
  BY InitIInv, NextIInv, PTL DEF Spec
<1> QED
  BY <1>1, IInvWhole, PTL

---------------------------------------------------------------------------
(* What a tool has open *)

Open ==
  /\ Running <=> session
  /\ pc \notin {"running", "writing", "coarsening", "ran"} => ~tx /\ disk = work
  /\ steps # << >> => tool.name = "coarsener" /\ pc \in {"running", "coarsening"}
  /\ pc = "coarsening" => tool.name = "coarsener" /\ steps # << >>
  /\ pc = "writing" => tool.name = "ts_filter"
  /\ tool.name = "coarsener" /\ Running => tool.plan \in Plan
  /\ tool.name = "coarsener" => pc # "idle"

---------------------------------------------------------------------------
(* The steps of a plan *)

Layers == [step : StepOf, whole : BOOLEAN]

\* The layers that w has more than d, and the steps that made them
Done(w, d) == SubSeq(w.coarse, Len(d.coarse) + 1, Len(w.coarse))
Made(done) == [i \in DOMAIN done |-> done[i].step]
WholeTo(done, n) == \A i \in 1..n : done[i].whole

Stacked ==
  /\ steps \in Seq(StepOf)
  /\ pc = "idle" => disk = NoDatabase
  /\ pc # "idle" => /\ disk.coarse \in Seq(Layers) /\ work.coarse \in Seq(Layers)
                    /\ Len(disk.coarse) <= Len(work.coarse)

Ordered ==
  tool.name = "coarsener" =>
    LET asked == StepsOf(tool.plan)
        done == Done(work, disk)
    IN /\ pc = "running" => /\ ok /\ Made(done) \o steps = asked
                            /\ WholeTo(done, Len(done))
       /\ pc = "coarsening" => /\ ok /\ Made(done) \o Tail(steps) = asked
                               /\ done # << >> /\ WholeTo(done, Len(done) - 1)
       /\ pc = "ran" => /\ IsPrefix(Made(done), asked) /\ WholeTo(done, Len(done) - 1)
                        /\ ok => Made(done) = asked
       /\ pc \in {"running", "coarsening", "ran"} => asked \in Seq(StepOf)
       /\ pc \in {"running", "coarsening", "ran", "success"} => Acceptable(tool.plan)
       /\ pc = "failure" => ~Acceptable(tool.plan)

LEMMA InitOpen == Init => Open
BY DEF Init, Open, Running, Ended

LEMMA LaunchOpen ==
  ASSUME Open, NEW t \in Parser \union Other, Launch(t)
  PROVE  Open'
<1>1. t.name = "coarsener" => t.plan \in Plan
  BY DEF Parser, Other
<1>2. ~Running /\ ~tx /\ steps = << >>
  BY DEF Launch, Open, Running, Ended
<1> QED BY <1>1, <1>2 DEF Launch, Open, Running, Ended

LEMMA ParseOpen ==
  ASSUME Open, CoarsenerParse
  PROVE  Open'
<1>1. tool.name = "coarsener" /\ pc = "opened" /\ Running /\ tool.plan \in Plan /\ disk = work
  BY DEF CoarsenerParse, Open, Running, Ended
<1> DEFINE parsed == FromRawString(tool.plan)
<1>2. parsed.ok \in BOOLEAN /\ (~parsed.ok => parsed.steps = << >>)
  BY <1>1, ParserRight, PlanAssumption DEF States
<1>3. /\ steps' = parsed.steps /\ tx' = parsed.ok /\ session' = parsed.ok
      /\ pc' = IF parsed.ok THEN "running" ELSE "failure"
      /\ UNCHANGED <<disk, work, tool>>
  BY DEF CoarsenerParse
<1> HIDE DEF parsed
<1> QED BY <1>1, <1>2, <1>3 DEF Open, Running, Ended

LEMMA NextOpen == Open /\ [Next]_vars => Open'
<1> SUFFICES ASSUME Open, [Next]_vars PROVE Open'
  OBVIOUS
<1> USE DEF Open, Ended, Running
<1>1. CASE \E t \in Parser \union Other : Launch(t)
  BY <1>1, LaunchOpen
<1>2. CASE Begin("ts_parser") \/ Begin("snap_parser") \/ FilterBegin
  BY <1>2 DEF Begin, FilterBegin, rest
<1>3. CASE TSParserImport \/ SnapParserImport
  BY <1>3 DEF TSParserImport, SnapParserImport, Imported, rest
<1>4. CASE TSParserCommit \/ SnapParserCommit \/ FilterCommit \/ CoarsenerCommit
  BY <1>4 DEF TSParserCommit, SnapParserCommit, FilterCommit, CoarsenerCommit, Commit, Exit
<1>5. CASE FilterUnknown \/ FilterExec \/ FilterWrite \/ FilterDone \/ FilterEnd
  BY <1>5 DEF FilterUnknown, FilterExec, FilterWrite, FilterDone, FilterEnd, Exit, rest
<1>6. CASE CoarsenerParse
  BY <1>6, ParseOpen
<1>7. CASE RunStep
  BY <1>7 DEF RunStep, rest
<1>8. CASE StepDone
  BY <1>8 DEF StepDone
<1>9. CASE StepFails
  BY <1>9 DEF StepFails
<1>10. CASE Export
  BY <1>10 DEF Export, Exit
<1>11. CASE Die
  BY <1>11 DEF Die, Exit
<1>12. CASE UNCHANGED vars
  BY <1>12 DEF vars, rest
<1> QED
  BY <1>1, <1>2, <1>3, <1>4, <1>5, <1>6, <1>7, <1>8, <1>9, <1>10, <1>11, <1>12 DEF Next, Step

\* A step of the builder and a transaction need the session, and a tool that
\* ends by itself has committed all it did.
THEOREM NothingLeftOpen == Spec => []LeavesNothingOpen
<1>1. Open => LeavesNothingOpen
  BY DEF Open, LeavesNothingOpen, Running, Ended
<1>2. Spec => []Open
  BY InitOpen, NextOpen, PTL DEF Spec
<1> QED BY <1>1, <1>2, PTL

---------------------------------------------------------------------------
(* Steps and layers *)

LEMMA DoneIs ==
  ASSUME NEW c \in Seq(Layers), NEW m \in Nat, m <= Len(c)
  PROVE  LET d == SubSeq(c, m + 1, Len(c))
         IN  /\ d \in Seq(Layers) /\ Len(d) = Len(c) - m /\ DOMAIN d = 1..(Len(c) - m)
             /\ \A i \in 1..(Len(c) - m) : d[i] = c[m + i]
<1> DEFINE n == Len(c)
           d == SubSeq(c, m + 1, n)
<1>1. n \in Nat /\ \A i \in 1..n : c[i] \in Layers
  BY LenProperties, ElementOfSeq
<1>2. m + 1 \in Int /\ n \in Int /\ \A i \in (m + 1)..n : c[i] \in Layers
  BY <1>1
<1>3. /\ d \in Seq(Layers)
      /\ Len(d) = IF m + 1 <= n THEN n - (m + 1) + 1 ELSE 0
      /\ \A i \in 1..(n - (m + 1) + 1) : d[i] = c[m + 1 + i - 1]
  <2> HIDE DEF n
  <2> QED BY <1>2, SubSeqProperties
<1>4. DOMAIN d = 1..Len(d)
  BY <1>3, LenProperties
<1> HIDE DEF d
<1>5. Len(d) = n - m
  BY <1>1, <1>3
<1>6. n - (m + 1) + 1 = n - m
  BY <1>1
<1>7. \A i \in 1..(n - m) : m + 1 + i - 1 = m + i
  OBVIOUS
<1> QED BY <1>3, <1>4, <1>5, <1>6, <1>7 DEF d

LEMMA MadeIs ==
  ASSUME NEW d \in Seq(Layers)
  PROVE  /\ Made(d) \in Seq(StepOf) /\ Len(Made(d)) = Len(d)
         /\ \A i \in 1..Len(d) : Made(d)[i] = d[i].step
<1>1. Len(d) \in Nat /\ DOMAIN d = 1..Len(d) /\ \A i \in 1..Len(d) : d[i] \in Layers
  BY LenProperties, ElementOfSeq
<1>2. \A i \in 1..Len(d) : d[i].step \in StepOf
  BY <1>1 DEF Layers
<1> QED BY <1>1, <1>2 DEF Made

\* A step that is started puts its layer on top
LEMMA MadeMore ==
  ASSUME NEW d \in Seq(Layers), NEW e \in Seq(Layers), Len(e) = Len(d) + 1,
         \A i \in 1..Len(d) : e[i] = d[i], NEW h \in StepOf, e[Len(e)].step = h
  PROVE  Made(e) = Append(Made(d), h)
<1> DEFINE a == Append(Made(d), h)
           b == Made(e)
<1>1. Len(d) \in Nat
  BY LenProperties
<1>2. /\ a \in Seq(StepOf) /\ Len(a) = Len(d) + 1
      /\ \A i \in 1..Len(d) : a[i] = d[i].step
      /\ a[Len(d) + 1] = h
  BY <1>1, MadeIs, AppendProperties
<1>3. /\ b \in Seq(StepOf) /\ Len(b) = Len(d) + 1
      /\ \A i \in 1..(Len(d) + 1) : b[i] = e[i].step
  BY MadeIs
<1> HIDE DEF a, b
<1>4. ASSUME NEW i \in 1..Len(d) PROVE a[i] = b[i]
  <2>1. i \in 1..(Len(d) + 1)
    BY <1>1
  <2>2. a[i] = d[i].step /\ b[i] = e[i].step /\ e[i] = d[i]
    BY <1>2, <1>3, <2>1
  <2> QED BY <2>2
<1>5. a[Len(d) + 1] = b[Len(d) + 1]
  BY <1>1, <1>2, <1>3
<1>6. \A i \in 1..Len(a) : a[i] = b[i]
  BY <1>1, <1>2, <1>4, <1>5
<1>7. a = b
  BY <1>2, <1>3, <1>6, SeqEqual
<1> QED BY <1>7 DEF a, b

LEMMA MadeSame ==
  ASSUME NEW d \in Seq(Layers), NEW e \in Seq(Layers), Len(e) = Len(d),
         \A i \in 1..Len(d) : e[i].step = d[i].step
  PROVE  Made(e) = Made(d)
<1>1. \A i \in 1..Len(Made(d)) : Made(d)[i] = Made(e)[i]
  BY MadeIs
<1> QED BY <1>1, MadeIs, SeqEqual

LEMMA HeadMoves ==
  ASSUME NEW a \in Seq(StepOf), NEW s \in Seq(StepOf), s # << >>
  PROVE  Head(s) \in StepOf /\ Append(a, Head(s)) \o Tail(s) = a \o s
<1> DEFINE h == Head(s)
           t == Tail(s)
           one == <<h>>
<1>1. h \in StepOf /\ t \in Seq(StepOf) /\ Len(t) = Len(s) - 1 /\ \A i \in 1..Len(t) : t[i] = s[i + 1]
  BY HeadTailProperties
<1>2. Append(a, h) = a \o one /\ one \in Seq(StepOf) /\ Len(one) = 1 /\ one[1] = h
  BY <1>1
<1>3. h = s[1]
  OBVIOUS
<1> HIDE DEF h, t, one
<1>4. (a \o one) \o t = a \o (one \o t)
  <2>1. t \in Seq(StepOf) /\ one \in Seq(StepOf)
    BY <1>1, <1>2
  <2> QED BY <2>1, Associative, Zenon
<1>5. one \o t = s
  <2>1. one \o t \in Seq(StepOf) /\ Len(one \o t) = 1 + Len(t)
        /\ \A i \in 1..(1 + Len(t)) : (one \o t)[i] = IF i <= 1 THEN one[i] ELSE t[i - 1]
    BY <1>1, <1>2, ConcatProperties
  <2>2. Len(s) \in Nat /\ Len(s) = 1 + Len(t)
    BY <1>1, LenProperties
  <2>3. \A i \in 1..Len(s) : (one \o t)[i] = s[i]
    <3> SUFFICES ASSUME NEW i \in 1..Len(s) PROVE (one \o t)[i] = s[i]
      OBVIOUS
    <3>1. CASE i = 1
      BY <1>2, <1>3, <2>1, <2>2, <3>1
    <3>2. CASE i # 1
      <4>1. i - 1 \in 1..Len(t) /\ (i - 1) + 1 = i
        BY <2>2, <3>2
      <4>2. t[i - 1] = s[i] /\ (one \o t)[i] = t[i - 1]
        BY <1>1, <2>1, <2>2, <3>2, <4>1
      <4> QED BY <4>2
    <3> QED BY <3>1, <3>2
  <2> QED BY <2>1, <2>2, <2>3, SeqEqual
<1>6. a \o s = a \o (one \o t)
  BY <1>5
<1>7. Append(a, h) \o t = a \o s
  BY <1>2, <1>4, <1>6
<1> QED BY <1>1, <1>7 DEF h, t

LEMMA FrontIsPrefix ==
  ASSUME NEW a \in Seq(StepOf), NEW s \in Seq(StepOf)
  PROVE  IsPrefix(a, a \o s)
<1> DEFINE b == a \o s
<1>1. /\ b \in Seq(StepOf) /\ Len(b) = Len(a) + Len(s) /\ Len(a) \in Nat /\ Len(s) \in Nat
      /\ \A i \in 1..Len(a) : b[i] = a[i]
  BY ConcatProperties, LenProperties
<1> HIDE DEF b
<1>2. Len(a) <= Len(b)
  BY <1>1
<1>3. SubSeq(a, 1, Len(a)) = SubSeq(b, 1, Len(a))
  BY <1>1
<1> QED BY <1>2, <1>3 DEF IsPrefix, b

LEMMA InitStacked == Init => Stacked
BY EmptySeq DEF Init, Stacked

\* Neither the layers nor the queue change
LEMMA SameLayers ==
  ASSUME Stacked, pc # "idle", pc' # "idle", steps' \in {steps, << >>},
         \/ disk'.coarse = disk.coarse /\ work'.coarse = work.coarse
         \/ disk'.coarse = work.coarse /\ work'.coarse = work.coarse
         \/ disk'.coarse = disk.coarse /\ work'.coarse = disk.coarse
  PROVE  Stacked'
<1>1. steps' \in Seq(StepOf)
  BY EmptySeq DEF Stacked
<1>2. /\ disk.coarse \in Seq(Layers) /\ work.coarse \in Seq(Layers)
      /\ Len(disk.coarse) <= Len(work.coarse)
  BY DEF Stacked
<1>3. disk'.coarse \in Seq(Layers) /\ work'.coarse \in Seq(Layers)
  BY <1>2
<1>4. Len(disk'.coarse) <= Len(work'.coarse)
  <2>1. Len(work.coarse) \in Nat /\ Len(disk.coarse) \in Nat
    BY <1>2, LenProperties
  <2> QED BY <1>2, <2>1
<1> QED BY <1>1, <1>3, <1>4 DEF Stacked

LEMMA LaunchStacked ==
  ASSUME NEW t, Stacked, Launch(t)
  PROVE  Stacked'
<1>1. disk'.coarse \in Seq(Layers)
  <2>1. CASE disk = NoDatabase
    <3>1. disk'.coarse = << >>
      BY <2>1 DEF Launch, Empty
    <3> QED BY <3>1, EmptySeq
  <2>2. CASE disk # NoDatabase
    BY <2>2 DEF Launch, Stacked
  <2> QED BY <2>1, <2>2
<1>2. work' = disk' /\ pc' = "opened" /\ steps' = steps
  BY DEF Launch
<1>3. Len(disk'.coarse) <= Len(work'.coarse)
  <2>1. Len(disk'.coarse) \in Nat
    BY <1>1, LenProperties
  <2> QED BY <1>2, <2>1
<1> QED BY <1>1, <1>2, <1>3 DEF Stacked

\* The record the session has
LEMMA WorkHas == IInv /\ Running => {"graph", "coarse", "written"} \subseteq DOMAIN work
BY DEF IInv, Written

\* What RunStep does to the layers
LEMMA Run ==
  ASSUME IInv, Stacked, Open, RunStep
  PROVE  LET x == [step |-> Head(steps), whole |-> FALSE]
         IN  /\ x \in Layers /\ work'.coarse = Append(work.coarse, x)
             /\ work'.coarse \in Seq(Layers) /\ Len(work'.coarse) = Len(work.coarse) + 1
             /\ \A i \in 1..Len(work.coarse) : work'.coarse[i] = work.coarse[i]
             /\ work'.coarse[Len(work.coarse) + 1] = x
<1> DEFINE x == [step |-> Head(steps), whole |-> FALSE]
           c == work.coarse
<1>1. steps # << >> /\ pc = "running" /\ work' = [work EXCEPT !.coarse = Append(@, x)]
  BY DEF RunStep
<1>2. x \in Layers
  <2>1. Head(steps) \in StepOf
    BY <1>1, HeadTailProperties DEF Stacked
  <2> QED BY <2>1 DEF Layers
<1>3. work'.coarse = Append(c, x)
  <2>1. "coarse" \in DOMAIN work
    BY <1>1, WorkHas DEF Running, Ended
  <2> HIDE DEF x
  <2> QED BY <1>1, <2>1
<1>4. c \in Seq(Layers)
  BY <1>1 DEF Stacked
<1> HIDE DEF x, c
<1>5. /\ Append(c, x) \in Seq(Layers) /\ Len(Append(c, x)) = Len(c) + 1
      /\ \A i \in 1..Len(c) : Append(c, x)[i] = c[i]
      /\ Append(c, x)[Len(c) + 1] = x
  BY <1>2, <1>4, AppendProperties
<1> QED BY <1>2, <1>3, <1>5 DEF x, c

\* And StepDone
LEMMA Finish ==
  ASSUME IInv, Stacked, StepDone, Len(work.coarse) # 0
  PROVE  LET c == work.coarse
             d == work'.coarse
         IN  /\ d \in Seq(Layers) /\ Len(d) = Len(c) /\ d[Len(c)].whole
             /\ \A i \in 1..Len(c) : d[i].step = c[i].step /\ (c[i].whole => d[i].whole)
<1> DEFINE c == work.coarse
           n == Len(c)
           d == [c EXCEPT ![n].whole = TRUE]
<1>1. pc = "coarsening" /\ work' = [work EXCEPT !.coarse = [@ EXCEPT ![n].whole = TRUE]]
  BY DEF StepDone
<1>2. work'.coarse = d
  <2>1. "coarse" \in DOMAIN work
    BY <1>1, WorkHas DEF Running, Ended
  <2> QED BY <1>1, <2>1
<1>3. c \in Seq(Layers)
  BY <1>1 DEF Stacked
<1>4. n \in Nat /\ n # 0 /\ DOMAIN c = 1..n /\ \A i \in 1..n : c[i] \in Layers
  BY <1>3, LenProperties, ElementOfSeq
<1>5. \A i \in 1..n : /\ d[i] \in Layers /\ d[i].step = c[i].step
                      /\ c[i].whole => d[i].whole
  BY <1>4 DEF Layers
<1>6. d[n].whole
  BY <1>4 DEF Layers
<1>7. d \in Seq(Layers) /\ Len(d) = n
  <2>1. DOMAIN d = 1..n /\ d = [i \in 1..n |-> d[i]]
    BY <1>4
  <2> HIDE DEF d, n
  <2> QED BY <1>4, <1>5, <2>1
<1> QED BY <1>2, <1>5, <1>6, <1>7

LEMMA ParseStacked ==
  ASSUME Stacked, Open, CoarsenerParse
  PROVE  Stacked'
<1> DEFINE parsed == FromRawString(tool.plan)
<1>1. tool.plan \in Seq(Parts)
  BY PlanAssumption DEF CoarsenerParse, Open, Running, Ended
<1>2. parsed.steps \in Seq(StepOf) /\ parsed.ok \in BOOLEAN
  BY <1>1, ParserRight DEF States
<1>3. /\ pc = "opened" /\ steps' = parsed.steps /\ disk' = disk /\ work' = work
      /\ pc' = IF parsed.ok THEN "running" ELSE "failure"
  BY DEF CoarsenerParse
<1> HIDE DEF parsed
<1> QED BY <1>2, <1>3 DEF Stacked

LEMMA NextStacked == IInv /\ Open /\ Stacked /\ [Next]_vars => Stacked'
<1> SUFFICES ASSUME IInv, Open, Stacked, [Next]_vars PROVE Stacked'
  OBVIOUS
<1>1. CASE \E t \in Parser \union Other : Launch(t)
  BY <1>1, LaunchStacked
<1>2. CASE Begin("ts_parser") \/ Begin("snap_parser") \/ FilterBegin
  BY <1>2, SameLayers DEF Begin, FilterBegin, rest
<1>3. CASE TSParserImport \/ SnapParserImport
  <2>1. work'.coarse = work.coarse
    <3>1. {"graph", "coarse", "written"} \subseteq DOMAIN work
      BY <1>3, WorkHas DEF TSParserImport, SnapParserImport, Running, Ended
    <3> QED BY <1>3, <3>1 DEF TSParserImport, SnapParserImport, Imported
  <2> QED BY <1>3, <2>1, SameLayers DEF TSParserImport, SnapParserImport, Imported, rest
<1>4. CASE TSParserCommit \/ SnapParserCommit \/ FilterCommit \/ CoarsenerCommit
  BY <1>4, SameLayers DEF TSParserCommit, SnapParserCommit, FilterCommit, CoarsenerCommit, Commit, Exit
<1>5. CASE FilterUnknown \/ FilterExec \/ FilterDone \/ FilterEnd
  BY <1>5, SameLayers DEF FilterUnknown, FilterExec, FilterDone, FilterEnd, Exit, rest
<1>6. CASE FilterWrite
  <2>1. work'.coarse = work.coarse
    <3>1. {"graph", "coarse", "written"} \subseteq DOMAIN work
      BY <1>6, WorkHas DEF FilterWrite, Running, Ended
    <3> QED BY <1>6, <3>1 DEF FilterWrite
  <2> QED BY <1>6, <2>1, SameLayers DEF FilterWrite
<1>7. CASE CoarsenerParse
  BY <1>7, ParseStacked
<1>8. CASE RunStep
  <2>1. work'.coarse \in Seq(Layers) /\ Len(work'.coarse) = Len(work.coarse) + 1
    BY <1>8, Run
  <2>2. /\ disk.coarse \in Seq(Layers) /\ Len(disk.coarse) <= Len(work.coarse)
        /\ Len(work.coarse) \in Nat /\ Len(disk.coarse) \in Nat
    BY <1>8, LenProperties DEF RunStep, Stacked
  <2> QED BY <1>8, <2>1, <2>2 DEF RunStep, rest, Stacked
<1>9. CASE StepDone
  <2>1. /\ disk.coarse \in Seq(Layers) /\ Len(disk.coarse) <= Len(work.coarse)
        /\ work.coarse \in Seq(Layers) /\ Len(work.coarse) \in Nat /\ Len(disk.coarse) \in Nat
    BY <1>9, LenProperties DEF StepDone, Stacked
  <2>2. work'.coarse \in Seq(Layers) /\ Len(work'.coarse) = Len(work.coarse)
    <3>1. CASE Len(work.coarse) # 0
      BY <1>9, <3>1, Finish
    <3>2. CASE Len(work.coarse) = 0
      <4>1. work.coarse = << >> /\ "coarse" \in DOMAIN work
        BY <1>9, <2>1, <3>2, EmptySeq, WorkHas DEF StepDone, Running, Ended
      <4>2. work'.coarse = [work.coarse EXCEPT ![Len(work.coarse)].whole = TRUE]
        BY <1>9, <4>1 DEF StepDone
      <4>3. work'.coarse = << >>
        BY <4>1, <4>2
      <4> QED BY <2>1, <4>1, <4>3
    <3> QED BY <3>1, <3>2
  <2>3. steps' \in Seq(StepOf)
    BY <1>9, HeadTailProperties DEF StepDone, Open, Stacked
  <2> QED BY <1>9, <2>1, <2>2, <2>3 DEF StepDone, Stacked
<1>10. CASE StepFails
  BY <1>10, SameLayers DEF StepFails
<1>11. CASE Export
  BY <1>11, SameLayers DEF Export, Exit
<1>12. CASE Die
  <2>1. pc # "idle"
    BY <1>12 DEF Die, Running, Ended
  <2> QED BY <1>12, <2>1, SameLayers DEF Die, Exit
<1>13. CASE UNCHANGED vars
  BY <1>13 DEF vars, rest, Stacked
<1> QED
  BY <1>1, <1>2, <1>3, <1>4, <1>5, <1>6, <1>7, <1>8, <1>9, <1>10, <1>11, <1>12, <1>13 DEF Next, Step

LEMMA StackedDone ==
  ASSUME Stacked, pc # "idle"
  PROVE  LET d == Done(work, disk)
             m == Len(disk.coarse)
         IN  /\ m \in Nat /\ Len(work.coarse) \in Nat /\ m <= Len(work.coarse)
             /\ d \in Seq(Layers) /\ Len(d) = Len(work.coarse) - m
             /\ \A i \in 1..Len(d) : d[i] = work.coarse[m + i]
<1> DEFINE c == work.coarse
           m == Len(disk.coarse)
<1>1. c \in Seq(Layers) /\ m \in Nat /\ m <= Len(c) /\ Len(c) \in Nat
  BY LenProperties DEF Stacked
<1>2. Done(work, disk) = SubSeq(c, m + 1, Len(c))
  BY DEF Done
<1> HIDE DEF c, m
<1>3. /\ SubSeq(c, m + 1, Len(c)) \in Seq(Layers)
      /\ Len(SubSeq(c, m + 1, Len(c))) = Len(c) - m
      /\ \A i \in 1..(Len(c) - m) : SubSeq(c, m + 1, Len(c))[i] = c[m + i]
  BY <1>1, DoneIs
<1> QED BY <1>1, <1>2, <1>3 DEF c, m

\* The same after a step of the builder
LEMMA StackedDoneNext ==
  ASSUME Stacked', pc' # "idle"
  PROVE  LET d == Done(work', disk')
             m == Len(disk'.coarse)
         IN  /\ m \in Nat /\ Len(work'.coarse) \in Nat /\ m <= Len(work'.coarse)
             /\ d \in Seq(Layers) /\ Len(d) = Len(work'.coarse) - m
             /\ \A i \in 1..Len(d) : d[i] = work'.coarse[m + i]
<1> DEFINE c == work'.coarse
           m == Len(disk'.coarse)
<1>1. c \in Seq(Layers) /\ m \in Nat /\ m <= Len(c) /\ Len(c) \in Nat
  BY LenProperties DEF Stacked
<1>2. Done(work', disk') = SubSeq(c, m + 1, Len(c))
  BY DEF Done
<1> HIDE DEF c, m
<1>3. /\ SubSeq(c, m + 1, Len(c)) \in Seq(Layers)
      /\ Len(SubSeq(c, m + 1, Len(c))) = Len(c) - m
      /\ \A i \in 1..(Len(c) - m) : SubSeq(c, m + 1, Len(c))[i] = c[m + i]
  BY <1>1, DoneIs
<1> QED BY <1>1, <1>2, <1>3 DEF c, m

LEMMA ParseOrdered ==
  ASSUME Stacked, Open, Stacked', CoarsenerParse
  PROVE  Ordered'
<1> DEFINE parsed == FromRawString(tool.plan)
           asked == StepsOf(tool.plan)
           e == Done(work', disk')
<1>1. tool.plan \in Seq(Parts) /\ disk = work
  BY PlanAssumption DEF CoarsenerParse, Open, Running, Ended
<1>2. /\ parsed.steps \in Seq(StepOf) /\ parsed.ok \in BOOLEAN
      /\ parsed.ok <=> Acceptable(tool.plan)
      /\ parsed.ok => parsed.steps = asked
  BY <1>1, ParserRight DEF States
<1>3. /\ pc = "opened" /\ steps' = parsed.steps /\ disk' = disk /\ work' = work
      /\ pc' = IF parsed.ok THEN "running" ELSE "failure"
      /\ ok' = parsed.ok /\ tool' = tool
  BY DEF CoarsenerParse
<1>4. e \in Seq(Layers) /\ Len(e) = 0
  BY <1>1, <1>3, StackedDoneNext
<1> HIDE DEF parsed, asked, e
<1>5. Made(e) = << >> /\ WholeTo(e, Len(e))
  <2>1. Made(e) \in Seq(StepOf) /\ Len(Made(e)) = 0
    BY <1>4, MadeIs
  <2>2. Made(e) = << >>
    BY <2>1, EmptySeq
  <2>3. 1..Len(e) = {}
    BY <1>4
  <2> QED BY <2>2, <2>3 DEF WholeTo
<1>6. parsed.ok => Made(e) \o steps' = asked
  BY <1>2, <1>3, <1>5, ConcatEmptySeq
<1> QED BY <1>2, <1>3, <1>5, <1>6 DEF Ordered, asked, e

LEMMA RunOrdered ==
  ASSUME IInv, Stacked, Open, Ordered, Stacked', RunStep
  PROVE  Ordered'
<1> DEFINE asked == StepsOf(tool.plan)
           d == Done(work, disk)
           e == Done(work', disk')
           h == Head(steps)
<1>1. /\ tool.name = "coarsener" /\ pc = "running" /\ steps # << >> /\ steps \in Seq(StepOf)
      /\ pc' = "coarsening" /\ tool' = tool /\ disk' = disk /\ steps' = steps /\ ok' = ok
  BY DEF RunStep, Stacked, rest
<1>2. ok /\ Made(d) \o steps = asked /\ WholeTo(d, Len(d)) /\ asked \in Seq(StepOf) /\ Acceptable(tool.plan)
  BY <1>1 DEF Ordered
<1>3. d \in Seq(Layers) /\ Len(d) \in Nat /\ Made(d) \in Seq(StepOf)
  <2>1. d \in Seq(Layers)
    BY <1>1, StackedDone
  <2> QED BY <2>1, MadeIs, LenProperties
<1>4. /\ e \in Seq(Layers) /\ Len(e) = Len(d) + 1 /\ \A i \in 1..Len(d) : e[i] = d[i]
      /\ e[Len(e)].step = h
  <2> DEFINE c == work.coarse
             m == Len(disk.coarse)
  <2>1. /\ m \in Nat /\ Len(c) \in Nat /\ m <= Len(c) /\ Len(d) = Len(c) - m
        /\ \A i \in 1..Len(d) : d[i] = c[m + i]
    BY <1>1, StackedDone
  <2>2. /\ Len(work'.coarse) = Len(c) + 1 /\ \A i \in 1..Len(c) : work'.coarse[i] = c[i]
        /\ work'.coarse[Len(c) + 1].step = h
    BY Run
  <2>3. /\ e \in Seq(Layers) /\ Len(e) = Len(work'.coarse) - m
        /\ \A i \in 1..Len(e) : e[i] = work'.coarse[m + i]
    BY <1>1, StackedDoneNext
  <2> HIDE DEF c, m, d, e, h
  <2>4. Len(e) = Len(d) + 1 /\ m + Len(e) = Len(c) + 1 /\ Len(e) \in 1..Len(e)
    BY <2>1, <2>2, <2>3
  <2>5. \A i \in 1..Len(d) : m + i \in 1..Len(c) /\ i \in 1..Len(e)
    BY <2>1, <2>4
  <2>6. \A i \in 1..Len(d) : e[i] = d[i]
    BY <2>1, <2>2, <2>3, <2>5
  <2>7. e[Len(e)].step = h
    BY <2>2, <2>3, <2>4
  <2> QED BY <2>3, <2>4, <2>6, <2>7
<1> HIDE DEF asked, d, e
<1>5. Made(e) \o Tail(steps) = asked
  <2>1. h \in StepOf /\ Append(Made(d), h) \o Tail(steps) = Made(d) \o steps
    BY <1>1, <1>3, HeadMoves
  <2> HIDE DEF h
  <2>2. Made(e) = Append(Made(d), h)
    BY <1>3, <1>4, <2>1, MadeMore
  <2> QED BY <1>2, <2>1, <2>2
<1>6. WholeTo(e, Len(e) - 1)
  <2>1. 1..(Len(e) - 1) = 1..Len(d)
    BY <1>3, <1>4
  <2>2. \A i \in 1..Len(d) : e[i].whole
    BY <1>2, <1>4, Zenon DEF WholeTo
  <2> QED BY <2>1, <2>2 DEF WholeTo
<1>7. e # << >>
  BY <1>3, <1>4, EmptySeq
<1> QED BY <1>1, <1>2, <1>5, <1>6, <1>7 DEF Ordered, asked, e

LEMMA FinishOrdered ==
  ASSUME IInv, Stacked, Open, Ordered, Stacked', StepDone
  PROVE  Ordered'
<1> DEFINE asked == StepsOf(tool.plan)
           d == Done(work, disk)
           e == Done(work', disk')
           t == Tail(steps)
<1>1. /\ tool.name = "coarsener" /\ pc = "coarsening" /\ steps # << >> /\ steps \in Seq(StepOf)
      /\ pc' = IF t = << >> THEN "ran" ELSE "running"
      /\ tool' = tool /\ disk' = disk /\ steps' = t /\ ok' = ok
  BY DEF StepDone, Stacked, Open
<1>2. /\ ok /\ Made(d) \o t = asked /\ WholeTo(d, Len(d) - 1) /\ d # << >>
      /\ asked \in Seq(StepOf) /\ Acceptable(tool.plan)
  BY <1>1 DEF Ordered
<1>3. d \in Seq(Layers) /\ Len(d) \in Nat \ {0} /\ Made(d) \in Seq(StepOf)
  <2>1. d \in Seq(Layers)
    BY <1>1, StackedDone
  <2> HIDE DEF d
  <2> QED BY <1>2, <2>1, MadeIs, LenProperties, EmptySeq
<1>4. /\ e \in Seq(Layers) /\ Len(e) = Len(d)
      /\ \A i \in 1..Len(d) : e[i].step = d[i].step /\ (d[i].whole => e[i].whole)
      /\ e[Len(d)].whole
  <2> DEFINE c == work.coarse
             m == Len(disk.coarse)
  <2>1. /\ m \in Nat /\ Len(c) \in Nat /\ m <= Len(c) /\ Len(d) = Len(c) - m
        /\ \A i \in 1..Len(d) : d[i] = c[m + i]
    BY <1>1, StackedDone
  <2>2. Len(c) # 0
    <3> HIDE DEF d, c, m
    <3> QED BY <1>3, <2>1
  <2>3. /\ Len(work'.coarse) = Len(c) /\ work'.coarse[Len(c)].whole
        /\ \A i \in 1..Len(c) : /\ work'.coarse[i].step = c[i].step
                                /\ c[i].whole => work'.coarse[i].whole
    BY <2>2, Finish
  <2>4. /\ e \in Seq(Layers) /\ Len(e) = Len(work'.coarse) - m
        /\ \A i \in 1..Len(e) : e[i] = work'.coarse[m + i]
    BY <1>1, StackedDoneNext
  <2> HIDE DEF c, m, d, e
  <2>5. Len(e) = Len(d) /\ m + Len(d) = Len(c) /\ Len(d) \in 1..Len(d)
    BY <1>3, <2>1, <2>3, <2>4
  <2>6. \A i \in 1..Len(d) : m + i \in 1..Len(c)
    BY <2>1, <2>5
  <2>7. \A i \in 1..Len(d) : e[i].step = d[i].step /\ (d[i].whole => e[i].whole)
    BY <2>1, <2>3, <2>4, <2>5, <2>6
  <2>8. e[Len(d)].whole
    BY <2>3, <2>4, <2>5
  <2> QED BY <2>4, <2>5, <2>7, <2>8
<1>5. t \in Seq(StepOf)
  BY <1>1, HeadTailProperties
<1> HIDE DEF asked, d, e, t
<1>6. Made(e) = Made(d)
  BY <1>3, <1>4, MadeSame
<1>7. WholeTo(e, Len(e)) /\ WholeTo(e, Len(e) - 1)
  BY <1>2, <1>3, <1>4 DEF WholeTo
<1>8. t = << >> => IsPrefix(Made(e), asked) /\ Made(e) = asked
  <2>1. IsPrefix(Made(e), asked)
    BY <1>2, <1>3, <1>5, <1>6, FrontIsPrefix
  <2> QED BY <1>2, <1>3, <1>6, <2>1, ConcatEmptySeq
<1> QED BY <1>1, <1>2, <1>6, <1>7, <1>8 DEF Ordered, asked, e

LEMMA FailOrdered ==
  ASSUME Stacked, Open, Ordered, StepFails
  PROVE  Ordered'
<1> DEFINE asked == StepsOf(tool.plan)
           d == Done(work, disk)
<1>1. /\ tool.name = "coarsener" /\ pc \in {"running", "coarsening"} /\ steps \in Seq(StepOf)
      /\ pc = "coarsening" => steps # << >>
      /\ pc' = "ran" /\ ok' = FALSE
      /\ tool' = tool /\ disk' = disk /\ work' = work
  BY DEF StepFails, Stacked, Open
<1>2. d \in Seq(Layers) /\ Len(d) \in Nat /\ Made(d) \in Seq(StepOf)
  <2>1. d \in Seq(Layers)
    BY <1>1, StackedDone
  <2> QED BY <2>1, MadeIs, LenProperties
<1>3. Acceptable(tool.plan) /\ asked \in Seq(StepOf)
  BY <1>1 DEF Ordered
<1>4. IsPrefix(Made(d), asked) /\ WholeTo(d, Len(d) - 1)
  <2>1. CASE pc = "running"
    <3>1. Made(d) \o steps = asked /\ WholeTo(d, Len(d))
      BY <1>1, <2>1 DEF Ordered
    <3> HIDE DEF asked, d
    <3>2. IsPrefix(Made(d), asked)
      BY <1>1, <1>2, <3>1, FrontIsPrefix
    <3> QED BY <1>2, <3>1, <3>2 DEF WholeTo
  <2>2. CASE pc = "coarsening"
    <3>1. Made(d) \o Tail(steps) = asked /\ WholeTo(d, Len(d) - 1)
      BY <1>1, <2>2 DEF Ordered
    <3>2. Tail(steps) \in Seq(StepOf)
      BY <1>1, <2>2, HeadTailProperties
    <3> HIDE DEF asked, d
    <3> QED BY <1>2, <3>1, <3>2, FrontIsPrefix
  <2> QED BY <1>1, <2>1, <2>2
<1> HIDE DEF asked, d
<1> QED BY <1>1, <1>3, <1>4 DEF Ordered, asked, d

LEMMA NextOrdered ==
  IInv /\ Open /\ Stacked /\ Ordered /\ Stacked' /\ [Next]_vars => Ordered'
<1> SUFFICES ASSUME IInv, Open, Stacked, Ordered, Stacked', [Next]_vars PROVE Ordered'
  OBVIOUS
<1>1. CASE \E t \in Parser \union Other : Launch(t)
  BY <1>1 DEF Launch, Ordered
<1>2. CASE Begin("ts_parser") \/ Begin("snap_parser") \/ FilterBegin
  BY <1>2 DEF Begin, FilterBegin, Ordered
<1>3. CASE TSParserImport \/ SnapParserImport
  BY <1>3 DEF TSParserImport, SnapParserImport, Imported, Ordered
<1>4. CASE TSParserCommit \/ SnapParserCommit \/ FilterCommit
  BY <1>4 DEF TSParserCommit, SnapParserCommit, FilterCommit, Commit, Ordered
<1>5. CASE FilterUnknown \/ FilterExec \/ FilterWrite \/ FilterDone \/ FilterEnd
  BY <1>5 DEF FilterUnknown, FilterExec, FilterWrite, FilterDone, FilterEnd, Ordered
<1>6. CASE CoarsenerParse
  BY <1>6, ParseOrdered
<1>7. CASE RunStep
  BY <1>7, RunOrdered
<1>8. CASE StepDone
  BY <1>8, FinishOrdered
<1>9. CASE StepFails
  BY <1>9, FailOrdered
<1>10. CASE CoarsenerCommit
  BY <1>10 DEF CoarsenerCommit, Commit, Exit, Ordered
<1>11. CASE Export
  BY <1>11 DEF Export, Ordered
<1>12. CASE Die
  BY <1>12 DEF Die, Exit, Ordered
<1>13. CASE UNCHANGED vars
  BY <1>13 DEF vars, rest, Ordered
<1> QED
  BY <1>1, <1>2, <1>3, <1>4, <1>5, <1>6, <1>7, <1>8, <1>9, <1>10, <1>11, <1>12, <1>13 DEF Next, Step

LEMMA InOrder == Open /\ Stacked /\ Ordered => PlanRunsInOrder
<1> SUFFICES ASSUME Open, Stacked, Ordered, tool.name = "coarsener" PROVE PlanRunsInOrder
  BY DEF PlanRunsInOrder
<1> DEFINE asked == StepsOf(tool.plan)
           d == Done(work, disk)
           queued == IF pc = "coarsening" THEN Tail(steps) ELSE steps
<1>1. pc \in {"running", "coarsening", "ran"} /\ ok => Made(d) \o queued = asked
  <2>1. CASE pc \in {"running", "coarsening"}
    BY <2>1 DEF Ordered
  <2>2. CASE pc = "ran" /\ ok
    <3>1. Made(d) = asked /\ steps = << >> /\ asked \in Seq(StepOf)
      BY <2>2 DEF Ordered, Open
    <3> HIDE DEF asked, d
    <3> QED BY <2>2, <3>1, ConcatEmptySeq
  <2> QED BY <2>1, <2>2
<1>2. WholeTo(d, Len(d) - 1)
  <2>1. CASE pc \in {"coarsening", "ran"}
    BY <2>1 DEF Ordered
  <2>2. CASE pc = "running"
    <3>1. WholeTo(d, Len(d)) /\ d \in Seq(Layers)
      BY <2>2, StackedDone DEF Ordered
    <3>2. \A i \in 1..(Len(d) - 1) : i \in 1..Len(d)
      BY <3>1, LenProperties
    <3> HIDE DEF d
    <3> QED BY <3>1, <3>2, Zenon DEF WholeTo
  <2>3. CASE pc \notin {"running", "coarsening", "ran"}
    <3>1. disk = work
      BY <2>3 DEF Open
    <3>2. 1..(Len(d) - 1) = {}
      <4>1. Len(d) = 0
        <5>1. pc # "idle"
          BY DEF Open
        <5> QED BY <3>1, <5>1, StackedDone
      <4> HIDE DEF d
      <4> QED BY <4>1
    <3> HIDE DEF d
    <3> QED BY <3>2 DEF WholeTo
  <2> QED BY <2>1, <2>2, <2>3
<1>3. pc = "failure" => ~Acceptable(tool.plan)
  BY DEF Ordered
<1>4. pc \in {"running", "coarsening", "ran", "success"} => Acceptable(tool.plan)
  BY DEF Ordered
<1>5. pc = "ran" => IsPrefix(Made(d), asked)
  BY DEF Ordered
<1> QED BY <1>1, <1>2, <1>3, <1>4, <1>5 DEF PlanRunsInOrder, Done, Made, WholeTo

\* The layers of a plan come in its order, and only if its parser accepts it,
\* which it does just when it should; a plan that does not finish leaves a
\* beginning of them, all whole but the last.
THEOREM PlansRunInOrder == Spec => []PlanRunsInOrder
<1>1. Init => IInv /\ Open /\ Stacked /\ Ordered
  BY InitIInv, InitOpen, InitStacked DEF Init, Ordered
<1>2. IInv /\ Open /\ Stacked /\ Ordered /\ [Next]_vars => IInv' /\ Open' /\ Stacked' /\ Ordered'
  BY NextIInv, NextOpen, NextStacked, NextOrdered
<1>3. Spec => [](IInv /\ Open /\ Stacked /\ Ordered)
  BY <1>1, <1>2, PTL DEF Spec
<1> QED BY <1>3, InOrder, PTL

---------------------------------------------------------------------------
(* Graphs *)

Node == [label : Token, signal : Seq(Token)]
HLink == [ends : Nat \X Nat, weight : {DefaultWeight}]
Graphs == [layers : Nat, nodes : Seq(Node), hlinks : Seq(HLink)]

\* A link between two nodes
Between(nodes, link) ==
  {link.ends[1], link.ends[2]} \subseteq DOMAIN nodes /\ link.ends[1] # link.ends[2]

GraphOK(g) ==
  /\ g \in Graphs
  /\ \A k \in DOMAIN g.nodes : Len(g.nodes[k].signal) <= g.layers
  /\ \A i \in DOMAIN g.hlinks : Between(g.nodes, g.hlinks[i])

---------------------------------------------------------------------------
(* What is read of a file *)

\* The lines of a file up to the first that is too short
LEMMA ReadIs ==
  ASSUME NEW S, NEW lines \in Seq(Seq(S)), NEW n \in Nat
  PROVE  LET r == Read(lines, n)
         IN  /\ r \in Seq(Seq(S)) /\ Len(r) <= Len(lines)
             /\ \A j \in 1..Len(r) : r[j] = lines[j] /\ Len(lines[j]) >= n
             /\ Len(r) < Len(lines) => Len(lines[Len(r) + 1]) < n
<1> DEFINE short == SelectInSeq(lines, LAMBDA line : Len(line) < n)
           I == {i \in 1..Len(lines) : Len(lines[i]) < n}
           N == Len(lines)
<1>1. N \in Nat /\ \A j \in 1..N : lines[j] \in Seq(S) /\ Len(lines[j]) \in Nat
  <2>1. N \in Nat /\ \A j \in 1..N : lines[j] \in Seq(S)
    BY LenProperties, ElementOfSeq
  <2> QED BY <2>1, LenProperties
<1>2. short = IF I # {} THEN Min(I) ELSE 0
  BY DEF SelectInSeq
<1>3. Read(lines, n) = IF short = 0 THEN lines ELSE SubSeq(lines, 1, short - 1)
  BY DEF Read
<1> HIDE DEF short
<1>4. CASE I = {}
  <2>1. Read(lines, n) = lines
    BY <1>2, <1>3, <1>4
  <2>2. ASSUME NEW j \in 1..N PROVE Len(lines[j]) >= n
    <3>1. ~(Len(lines[j]) < n)
      BY <1>4
    <3> DEFINE l == Len(lines[j])
    <3>2. l \in Nat /\ ~(l < n)
      BY <1>1, <3>1
    <3> HIDE DEF l
    <3>3. l >= n
      BY <3>2
    <3> QED BY <3>3 DEF l
  <2> QED BY <1>1, <2>1, <2>2
<1>5. CASE I # {}
  <2>1. I \in SUBSET (1..N)
    OBVIOUS
  <2>2. short \in I /\ \A y \in I : short <= y
    <3> HIDE DEF I
    <3> QED BY <1>1, <1>2, <1>5, <2>1, Extremes
  <2>3. short \in 1..N /\ Len(lines[short]) < n /\ \A j \in 1..(short - 1) : Len(lines[j]) >= n
    <3>1. short \in 1..N /\ Len(lines[short]) < n
      BY <2>2
    <3>2. ASSUME NEW j \in 1..(short - 1), ~(Len(lines[j]) >= n) PROVE FALSE
      <4>1. j \in I
        BY <1>1, <3>1, <3>2
      <4> QED BY <2>2, <3>1, <4>1
    <3> QED BY <3>1, <3>2
  <2> DEFINE r == SubSeq(lines, 1, short - 1)
  <2>4. /\ r \in Seq(Seq(S)) /\ Len(r) = short - 1 /\ \A j \in 1..(short - 1) : r[j] = lines[j]
    <3>1. \A j \in 1..(short - 1) : j \in 1..N
      BY <2>3
    <3> QED BY <1>1, <2>3, <3>1
  <2>5. Read(lines, n) = r
    BY <1>3, <2>3
  <2> HIDE DEF r, N
  <2>6. Len(r) + 1 = short /\ Len(r) <= N
    BY <1>1, <2>3, <2>4
  <2> QED BY <2>3, <2>4, <2>5, <2>6 DEF N
<1> QED BY <1>4, <1>5

\* The rows of a file are the lines that are read
LEMMA Rows ==
  ASSUME NEW S, NEW lines \in Seq(Seq(S)), NEW n \in Nat
  PROVE  {k \in DOMAIN lines : \A i \in 1..k : Len(lines[i]) >= n} = 1..Len(Read(lines, n))
<1> DEFINE r == Read(lines, n)
           m == Len(r)
           N == Len(lines)
<1>1. /\ r \in Seq(Seq(S)) /\ m <= N
      /\ \A j \in 1..m : Len(lines[j]) >= n
      /\ m < N => Len(lines[m + 1]) < n
  BY ReadIs
<1>2. m \in Nat /\ N \in Nat /\ DOMAIN lines = 1..N /\ \A j \in 1..N : Len(lines[j]) \in Nat
  <2>1. \A j \in 1..N : lines[j] \in Seq(S)
    BY ElementOfSeq
  <2> QED BY <1>1, <2>1, LenProperties
<1> HIDE DEF r, m, N
<1>3. ASSUME NEW k \in 1..N, \A i \in 1..k : Len(lines[i]) >= n PROVE k <= m
  <2>1. ~(k <= m) => m < N /\ m + 1 \in 1..k /\ m + 1 \in 1..N
    BY <1>2
  <2> QED BY <1>1, <1>2, <1>3, <2>1
<1>4. ASSUME NEW k \in 1..m PROVE k \in 1..N /\ \A i \in 1..k : Len(lines[i]) >= n
  BY <1>1, <1>2
<1>5. \A k : k \in 1..N /\ (\A i \in 1..k : Len(lines[i]) >= n) <=> k \in 1..m
  <2>1. ASSUME NEW k \in 1..N, \A i \in 1..k : Len(lines[i]) >= n PROVE k \in 1..m
    <3>1. k <= m
      BY <1>3, <2>1, Zenon
    <3> QED BY <1>2, <3>1
  <2> QED BY <1>4, <2>1
<1> QED BY <1>2, <1>5 DEF r, m

LEMMA PositionIs ==
  ASSUME NEW g \in Graphs, NEW label
  PROVE  LET p == Position(g, label)
         IN  /\ p = 0 => \A k \in DOMAIN g.nodes : g.nodes[k].label # label
             /\ p # 0 => p \in DOMAIN g.nodes /\ g.nodes[p].label = label
<1> DEFINE n == Len(g.nodes)
           I == {i \in 1..n : g.nodes[i].label = label}
<1>1. n \in Nat /\ DOMAIN g.nodes = 1..n
  BY LenProperties DEF Graphs
<1>2. Position(g, label) = IF I # {} THEN Min(I) ELSE 0
  BY DEF Position, SelectInSeq
<1>3. CASE I = {}
  BY <1>1, <1>2, <1>3
<1>4. CASE I # {}
  <2>1. I \in SUBSET (1..n)
    OBVIOUS
  <2>2. Min(I) \in I
    <3> HIDE DEF I, n
    <3> QED BY <1>1, <1>4, <2>1, Extremes
  <2> QED BY <1>1, <1>2, <1>4, <2>2
<1> QED BY <1>3, <1>4

---------------------------------------------------------------------------
(* HLinks, a line at a time *)

\* The lines up to the k-th that are not self loops
Kept(r, k) == {j \in 1..k : r[j][1] # r[j][2]}
Count(r, k) == Cardinality(Kept(r, k))

\* h has an HLink for each of them, in their order, one that P allows
Gathered(h, r, P, k) ==
  /\ h \in Seq(HLink) /\ Len(h) = Count(r, k)
  /\ \A j \in Kept(r, k) : h[Count(r, j)] \in P[j]
  /\ \A i \in DOMAIN h : \E j \in Kept(r, k) : h[i] \in P[j]

LEMMA KeptFinite ==
  ASSUME NEW r, NEW k \in Nat
  PROVE  IsFiniteSet(Kept(r, k)) /\ Count(r, k) \in Nat
<1>1. IsFiniteSet(1..k) /\ Kept(r, k) \in SUBSET (1..k)
  BY FS_Interval DEF Kept
<1>2. IsFiniteSet(Kept(r, k))
  BY <1>1, FS_Subset
<1> QED BY <1>2, FS_CardinalityType DEF Count

LEMMA KeptMore ==
  ASSUME NEW r, NEW k \in Nat \ {0}
  PROVE  /\ r[k][1] # r[k][2] => /\ Kept(r, k) = Kept(r, k - 1) \union {k}
                                 /\ Count(r, k) = Count(r, k - 1) + 1
         /\ r[k][1] = r[k][2] => Kept(r, k) = Kept(r, k - 1)
<1>1. k - 1 \in Nat /\ 1..k = (1..(k - 1)) \union {k} /\ k \notin Kept(r, k - 1)
  BY DEF Kept
<1>2. IsFiniteSet(Kept(r, k - 1))
  BY <1>1, KeptFinite
<1>3. CASE r[k][1] # r[k][2]
  <2>1. Kept(r, k) = Kept(r, k - 1) \union {k}
    BY <1>1, <1>3 DEF Kept
  <2>2. Cardinality(Kept(r, k - 1) \union {k}) = Cardinality(Kept(r, k - 1)) + 1
    BY <1>1, <1>2, FS_AddElement
  <2> QED BY <1>3, <2>1, <2>2 DEF Count
<1>4. CASE r[k][1] = r[k][2]
  BY <1>1, <1>4 DEF Kept
<1> QED BY <1>3, <1>4

LEMMA KeptUpTo ==
  ASSUME NEW r, NEW k \in Nat, NEW j \in Kept(r, k)
  PROVE  /\ j \in 1..k /\ Kept(r, j) = {i \in Kept(r, k) : i <= j}
         /\ Count(r, j) \in 1..Count(r, k)
<1>1. j \in 1..k /\ j \in Kept(r, j)
  BY DEF Kept
<1>2. Kept(r, j) = {i \in Kept(r, k) : i <= j}
  BY <1>1 DEF Kept
<1>3. IsFiniteSet(Kept(r, k)) /\ Count(r, k) \in Nat /\ IsFiniteSet(Kept(r, j)) /\ Count(r, j) \in Nat
  BY <1>1, KeptFinite
<1>4. Count(r, j) <= Count(r, k)
  <2>1. Kept(r, j) \in SUBSET Kept(r, k)
    BY <1>2
  <2> QED BY <1>3, <2>1, FS_Subset DEF Count
<1>5. Count(r, j) # 0
  BY <1>1, <1>3, FS_EmptySet DEF Count
<1> QED BY <1>1, <1>2, <1>3, <1>4, <1>5

\* A line that is a self loop adds nothing, any other line a link
LEMMA GatheredMore ==
  ASSUME NEW h, NEW r, NEW P, NEW Q, NEW k \in Nat \ {0}, Gathered(h, r, P, k - 1),
         \A j \in Kept(r, k - 1) : P[j] \subseteq Q[j]
  PROVE  /\ r[k][1] = r[k][2] => Gathered(h, r, Q, k)
         /\ \A x \in HLink : r[k][1] # r[k][2] /\ x \in Q[k] => Gathered(Append(h, x), r, Q, k)
<1> DEFINE n == Len(h)
<1>1. /\ h \in Seq(HLink) /\ n = Count(r, k - 1) /\ n \in Nat /\ DOMAIN h = 1..n
      /\ \A j \in Kept(r, k - 1) : h[Count(r, j)] \in Q[j]
      /\ \A i \in 1..n : \E j \in Kept(r, k - 1) : h[i] \in Q[j]
  <2>1. h \in Seq(HLink) /\ n = Count(r, k - 1) /\ n \in Nat /\ DOMAIN h = 1..n
    BY LenProperties DEF Gathered
  <2> QED BY <2>1 DEF Gathered
<1>2. r[k][1] = r[k][2] => Gathered(h, r, Q, k)
  <2> SUFFICES ASSUME r[k][1] = r[k][2] PROVE Gathered(h, r, Q, k)
    OBVIOUS
  <2>1. Kept(r, k) = Kept(r, k - 1) /\ Count(r, k) = Count(r, k - 1)
    BY KeptMore DEF Count
  <2> QED BY <1>1, <2>1 DEF Gathered
<1>3. ASSUME NEW x \in HLink, r[k][1] # r[k][2], x \in Q[k] PROVE Gathered(Append(h, x), r, Q, k)
  <2> DEFINE a == Append(h, x)
  <2>1. Kept(r, k) = Kept(r, k - 1) \union {k} /\ Count(r, k) = Count(r, k - 1) + 1
    BY <1>3, KeptMore
  <2>2. /\ a \in Seq(HLink) /\ Len(a) = n + 1 /\ a[n + 1] = x
        /\ \A i \in 1..n : a[i] = h[i]
    BY <1>1, <1>3, AppendProperties
  <2>3. DOMAIN a = 1..(n + 1)
    BY <2>2, LenProperties
  <2> HIDE DEF a, n
  <2>4. ASSUME NEW j \in Kept(r, k) PROVE a[Count(r, j)] \in Q[j]
    <3>1. CASE j = k
      <4>1. Count(r, j) = n + 1
        BY <1>1, <2>1, <3>1
      <4> QED BY <1>3, <2>2, <3>1, <4>1
    <3>2. CASE j # k
      <4>1. j \in Kept(r, k - 1) /\ k - 1 \in Nat
        BY <2>1, <3>2
      <4>2. Count(r, j) \in 1..n
        BY <1>1, <4>1, KeptUpTo
      <4> QED BY <1>1, <2>2, <4>1, <4>2
    <3> QED BY <3>1, <3>2
  <2>5. ASSUME NEW i \in 1..(n + 1) PROVE \E j \in Kept(r, k) : a[i] \in Q[j]
    <3>1. CASE i = n + 1
      BY <1>3, <2>1, <2>2, <3>1
    <3>2. CASE i # n + 1
      <4>1. i \in 1..n
        BY <1>1, <3>2
      <4>2. a[i] = h[i] /\ \E j \in Kept(r, k - 1) : h[i] \in Q[j]
        BY <1>1, <2>2, <4>1
      <4> QED BY <2>1, <4>2
    <3> QED BY <3>1, <3>2
  <2>6. Gathered(a, r, Q, k)
    BY <1>1, <2>1, <2>2, <2>3, <2>4, <2>5 DEF Gathered
  <2> QED BY <2>6 DEF a
<1> QED BY <1>2, <1>3

\* The lines that are kept are those that should become a link
LEMMA LinksAre ==
  ASSUME NEW file \in Seq(Seq(Nat))
  PROVE  LET r == Read(file, 2)
             m == Len(r)
         IN  /\ m \in Nat /\ r \in Seq(Seq(Nat))
             /\ Links(file) = Kept(r, m)
             /\ \A j \in Links(file) : /\ file[j] = r[j] /\ j \in 1..m
                                       /\ {i \in Links(file) : i <= j} = Kept(r, j)
             /\ \A j \in 1..m : Len(r[j]) >= 2 /\ r[j] \in Seq(Nat) /\ r[j][1] \in Nat /\ r[j][2] \in Nat
<1> DEFINE r == Read(file, 2)
           m == Len(r)
<1>1. /\ r \in Seq(Seq(Nat)) /\ m <= Len(file) /\ m \in Nat
      /\ \A j \in 1..m : r[j] = file[j] /\ Len(file[j]) >= 2
  <2>1. r \in Seq(Seq(Nat)) /\ m <= Len(file) /\ \A j \in 1..m : r[j] = file[j] /\ Len(file[j]) >= 2
    BY ReadIs
  <2> QED BY <2>1, LenProperties
<1>2. {k \in DOMAIN file : \A i \in 1..k : Len(file[i]) >= 2} = 1..m
  BY Rows
<1> HIDE DEF r, m
<1>3. Links(file) = {j \in {k \in DOMAIN file : \A i \in 1..k : Len(file[i]) >= 2} : file[j][1] # file[j][2]}
  BY DEF Links
<1>4. Links(file) = Kept(r, m)
  BY <1>1, <1>2, <1>3 DEF Kept
<1>5. ASSUME NEW j \in Links(file)
      PROVE  file[j] = r[j] /\ j \in 1..m /\ {i \in Links(file) : i <= j} = Kept(r, j)
  <2>1. j \in Kept(r, m)
    BY <1>4
  <2>2. j \in 1..m /\ Kept(r, j) = {i \in Kept(r, m) : i <= j}
    BY <1>1, <2>1, KeptUpTo
  <2> QED BY <1>1, <1>4, <2>2
<1>6. ASSUME NEW j \in 1..m
      PROVE  Len(r[j]) >= 2 /\ r[j] \in Seq(Nat) /\ r[j][1] \in Nat /\ r[j][2] \in Nat
  <2> DEFINE l == r[j]
  <2>1. l \in Seq(Nat) /\ Len(l) >= 2
    BY <1>1, ElementOfSeq DEF m
  <2> HIDE DEF l
  <2>2. 1 \in 1..Len(l) /\ 2 \in 1..Len(l)
    BY <2>1, LenProperties
  <2>3. l[1] \in Nat /\ l[2] \in Nat
    BY <2>1, <2>2, ElementOfSeq
  <2> QED BY <2>1, <2>3 DEF l
<1> QED BY <1>1, <1>4, <1>5, <1>6 DEF r, m

---------------------------------------------------------------------------
(* The importers: both read a line at a time *)

IsLink(line) == Len(line) >= 2 /\ line[1] \in Nat /\ line[2] \in Nat

AddLine(kind, g, line) == IF kind = "ts" THEN AddTSLine(g, line) ELSE AddSnapEdge(g, line)

LinesAdded(kind, g, lines) ==
  IF kind = "ts" THEN FoldLeft(AddTSLine, g, lines) ELSE FoldLeft(AddSnapEdge, g, lines)

LEMMA NodeAdded ==
  ASSUME NEW g \in Graphs, NEW label \in Nat
  PROVE  LET h == AddOrGetFromIndexMap(g, label)
             p == Position(h, label)
             n == Len(g.nodes)
         IN  /\ h \in Graphs /\ h.layers = g.layers /\ h.hlinks = g.hlinks
             /\ p \in DOMAIN h.nodes /\ h.nodes[p].label = label
             /\ \/ h = g
                \/ /\ \A k \in 1..n : g.nodes[k].label # label
                   /\ Len(h.nodes) = n + 1 /\ \A k \in 1..n : h.nodes[k] = g.nodes[k]
                   /\ h.nodes[n + 1] = [label |-> label, signal |-> <<DefaultWeight>>]
<1> DEFINE h == AddOrGetFromIndexMap(g, label)
           x == [label |-> label, signal |-> <<DefaultWeight>>]
           n == Len(g.nodes)
<1>1. g.nodes \in Seq(Node) /\ n \in Nat /\ DOMAIN g.nodes = 1..n
  BY LenProperties DEF Graphs
<1>2. CASE Position(g, label) # 0
  <2>1. h = g
    BY <1>2 DEF AddOrGetFromIndexMap
  <2> QED BY <1>2, <2>1, PositionIs
<1>3. CASE Position(g, label) = 0
  <2>1. x \in Node
    BY DEF Node, Token, DefaultWeight
  <2>2. h = [g EXCEPT !.nodes = Append(@, x)]
    BY <1>3 DEF AddOrGetFromIndexMap
  <2>3. \A k \in 1..n : g.nodes[k].label # label
    BY <1>1, <1>3, PositionIs
  <2>4. x.label = label
    OBVIOUS
  <2> HIDE DEF x, h
  <2>5. /\ Append(g.nodes, x) \in Seq(Node) /\ Len(Append(g.nodes, x)) = n + 1
        /\ \A k \in 1..n : Append(g.nodes, x)[k] = g.nodes[k]
        /\ Append(g.nodes, x)[n + 1] = x
    BY <1>1, <2>1, AppendProperties
  <2>6. h \in Graphs /\ h.layers = g.layers /\ h.hlinks = g.hlinks /\ h.nodes = Append(g.nodes, x)
    BY <2>2, <2>5 DEF Graphs
  <2>7. n + 1 \in DOMAIN h.nodes
    BY <1>1, <2>5, <2>6, LenProperties
  <2>8. Position(h, label) # 0
    BY <2>4, <2>5, <2>6, <2>7, PositionIs
  <2>9. Position(h, label) \in DOMAIN h.nodes /\ h.nodes[Position(h, label)].label = label
    BY <2>6, <2>8, PositionIs
  <2> QED BY <2>3, <2>5, <2>6, <2>9 DEF h, x
<1> QED BY <1>2, <1>3

\* What nodes added one after the other keep
Labels(nodes) == {nodes[k].label : k \in DOMAIN nodes}
Distinct(nodes) == \A k, l \in DOMAIN nodes : nodes[k].label = nodes[l].label => k = l
OneValue(nodes) == \A k \in DOMAIN nodes : Len(nodes[k].signal) = 1
Grown(nodes, more) ==
  DOMAIN nodes \subseteq DOMAIN more /\ \A k \in DOMAIN nodes : more[k] = nodes[k]

MoreNodes(nodes, more, labels) ==
  /\ Grown(nodes, more) /\ Labels(more) = Labels(nodes) \union labels
  /\ Distinct(nodes) => Distinct(more)
  /\ OneValue(nodes) => OneValue(more)

LEMMA NodeAddedTo ==
  ASSUME NEW g \in Graphs, NEW label \in Nat
  PROVE  LET h == AddOrGetFromIndexMap(g, label)
         IN  /\ h \in Graphs /\ h.layers = g.layers /\ h.hlinks = g.hlinks
             /\ MoreNodes(g.nodes, h.nodes, {label})
<1> DEFINE h == AddOrGetFromIndexMap(g, label)
           p == Position(h, label)
           n == Len(g.nodes)
           x == [label |-> label, signal |-> <<DefaultWeight>>]
<1>1. /\ h \in Graphs /\ h.layers = g.layers /\ h.hlinks = g.hlinks
      /\ p \in DOMAIN h.nodes /\ h.nodes[p].label = label
      /\ \/ h = g
         \/ /\ \A k \in 1..n : g.nodes[k].label # label
            /\ Len(h.nodes) = n + 1 /\ \A k \in 1..n : h.nodes[k] = g.nodes[k]
            /\ h.nodes[n + 1] = x
  BY NodeAdded
<1>2. n \in Nat /\ DOMAIN g.nodes = 1..n /\ DOMAIN h.nodes = 1..Len(h.nodes)
  BY <1>1, LenProperties DEF Graphs
<1>x. x.label = label /\ Len(x.signal) = 1
  OBVIOUS
<1> HIDE DEF h, p, n, x
<1>3. CASE h = g
  <2>1. label \in Labels(g.nodes)
    BY <1>1, <1>3 DEF Labels
  <2> QED BY <1>1, <1>3, <2>1 DEF MoreNodes, Grown, h
<1>4. CASE h # g
  <2> DEFINE a == g.nodes
             b == h.nodes
  <2>1. /\ \A k \in 1..n : a[k].label # label
        /\ DOMAIN b = 1..(n + 1) /\ \A k \in 1..n : b[k] = a[k]
        /\ b[n + 1] = x /\ DOMAIN a = 1..n
    BY <1>1, <1>2, <1>4
  <2>2. 1..(n + 1) = (1..n) \union {n + 1} /\ n + 1 \notin 1..n
    BY <1>2
  <2> HIDE DEF a, b
  <2>3. Labels(b) = Labels(a) \union {label}
    <3>1. ASSUME NEW k \in 1..(n + 1) PROVE b[k].label \in Labels(a) \union {label}
      BY <1>x, <2>1, <2>2 DEF Labels
    <3>2. ASSUME NEW k \in 1..n PROVE a[k].label \in Labels(b)
      <4>1. k \in DOMAIN b /\ b[k].label = a[k].label
        BY <2>1, <2>2
      <4> QED BY <4>1 DEF Labels
    <3>3. label \in Labels(b)
      <4>1. n + 1 \in DOMAIN b /\ b[n + 1].label = label
        BY <1>x, <2>1, <2>2
      <4> QED BY <4>1 DEF Labels
    <3> QED BY <2>1, <3>1, <3>2, <3>3 DEF Labels
  <2>4. Grown(a, b)
    BY <2>1, <2>2 DEF Grown
  <2>5. Distinct(a) => Distinct(b)
    <3> SUFFICES ASSUME Distinct(a), NEW k \in 1..(n + 1), NEW l \in 1..(n + 1), b[k].label = b[l].label
                 PROVE  k = l
      BY <2>1 DEF Distinct
    <3>1. CASE k = n + 1 \/ l = n + 1
      BY <1>x, <2>1, <2>2, <3>1
    <3>2. CASE k \in 1..n /\ l \in 1..n
      BY <2>1, <3>2 DEF Distinct
    <3> QED BY <2>2, <3>1, <3>2
  <2>6. OneValue(a) => OneValue(b)
    BY <1>x, <2>1, <2>2 DEF OneValue
  <2>7. MoreNodes(a, b, {label})
    BY <2>3, <2>4, <2>5, <2>6 DEF MoreNodes
  <2> QED BY <1>1, <2>7 DEF a, b, h
<1> QED BY <1>3, <1>4

LEMMA MoreAndMore ==
  ASSUME NEW a, NEW b, NEW c, NEW s, NEW t, MoreNodes(a, b, s), MoreNodes(b, c, t)
  PROVE  MoreNodes(a, c, s \union t)
<1>1. Grown(a, c)
  BY DEF MoreNodes, Grown
<1>2. Labels(c) = Labels(a) \union (s \union t)
  BY DEF MoreNodes
<1> QED BY <1>1, <1>2 DEF MoreNodes

\* What a link made for a line of a SNAP file is
Joins(nodes, link, line) ==
  /\ link.ends = <<link.ends[1], link.ends[2]>>
  /\ {link.ends[1], link.ends[2]} \subseteq DOMAIN nodes
  /\ nodes[link.ends[1]].label = line[1] /\ nodes[link.ends[2]].label = line[2]

LEMMA SnapLine ==
  ASSUME NEW g \in Graphs, NEW line, IsLink(line), line[1] # line[2]
  PROVE  LET u == AddSnapEdge(g, line)
         IN  /\ u \in Graphs /\ u.layers = g.layers
             /\ MoreNodes(g.nodes, u.nodes, {line[1], line[2]})
             /\ \E x \in HLink : u.hlinks = Append(g.hlinks, x) /\ Joins(u.nodes, x, line)
<1> DEFINE u == AddSnapEdge(g, line)
           h1 == AddOrGetFromIndexMap(g, line[1])
           h == AddOrGetFromIndexMap(h1, line[2])
           p == Position(h, line[1])
           q == Position(h, line[2])
           x == [ends |-> <<p, q>>, weight |-> DefaultWeight]
<1>1. line[1] \in Nat /\ line[2] \in Nat
  BY DEF IsLink
<1>2. /\ h1 \in Graphs /\ h1.layers = g.layers /\ h1.hlinks = g.hlinks
      /\ MoreNodes(g.nodes, h1.nodes, {line[1]})
  BY <1>1, NodeAddedTo
<1>3. /\ h \in Graphs /\ h.layers = h1.layers /\ h.hlinks = h1.hlinks
      /\ MoreNodes(h1.nodes, h.nodes, {line[2]})
  <2> HIDE DEF h1
  <2> QED BY <1>1, <1>2, NodeAddedTo
<1>4. u = [h EXCEPT !.hlinks = Append(@, x)]
  BY DEF AddSnapEdge
<1> HIDE DEF h1, h, u
<1>5. MoreNodes(g.nodes, h.nodes, {line[1], line[2]})
  <2>1. {line[1]} \union {line[2]} = {line[1], line[2]}
    OBVIOUS
  <2> QED BY <1>2, <1>3, <2>1, MoreAndMore
<1>6. line[1] \in Labels(h.nodes) /\ line[2] \in Labels(h.nodes)
  BY <1>5 DEF MoreNodes
<1>7. /\ p \in DOMAIN h.nodes /\ h.nodes[p].label = line[1]
      /\ q \in DOMAIN h.nodes /\ h.nodes[q].label = line[2]
  <2>1. p # 0 /\ q # 0
    BY <1>3, <1>6, PositionIs DEF Labels
  <2> QED BY <1>3, <2>1, PositionIs
<1>8. x \in HLink
  <2>1. DOMAIN h.nodes \subseteq Nat
    BY <1>3, LenProperties DEF Graphs
  <2> HIDE DEF p, q
  <2> QED BY <1>7, <2>1 DEF HLink
<1>9. x.ends = <<p, q>>
  OBVIOUS
<1> HIDE DEF x, p, q
<1>10. Append(h.hlinks, x) \in Seq(HLink)
  <2>1. h.hlinks \in Seq(HLink)
    BY <1>3 DEF Graphs
  <2> QED BY <1>8, <2>1, AppendProperties
<1>11. u \in Graphs /\ u.layers = h.layers /\ u.nodes = h.nodes /\ u.hlinks = Append(h.hlinks, x)
  BY <1>3, <1>4, <1>10 DEF Graphs
<1>12. Joins(u.nodes, x, line)
  BY <1>7, <1>9, <1>11 DEF Joins
<1> QED BY <1>2, <1>3, <1>5, <1>8, <1>11, <1>12 DEF u

LEMMA TSLine ==
  ASSUME NEW g \in Graphs, NEW line, IsLink(line), line[1] # line[2]
  PROVE  LET u == AddTSLine(g, line)
         IN  /\ u \in Graphs /\ u.layers = g.layers /\ u.nodes = g.nodes
             /\ u.hlinks = Append(g.hlinks, HLinkOfLine(line)) /\ HLinkOfLine(line) \in HLink
<1> DEFINE u == AddTSLine(g, line)
           x == HLinkOfLine(line)
<1>1. x \in HLink
  BY DEF IsLink, HLinkOfLine, HLink
<1>2. u = [g EXCEPT !.hlinks = Append(@, x)]
  BY DEF AddTSLine
<1> HIDE DEF x, u
<1>3. Append(g.hlinks, x) \in Seq(HLink)
  <2>1. g.hlinks \in Seq(HLink)
    BY DEF Graphs
  <2> QED BY <1>1, <2>1, AppendProperties
<1> QED BY <1>1, <1>2, <1>3 DEF Graphs, u, x

LEMMA AddLineType ==
  ASSUME NEW kind, NEW g \in Graphs, NEW line, IsLink(line)
  PROVE  AddLine(kind, g, line) \in Graphs /\ (line[1] = line[2] => AddLine(kind, g, line) = g)
<1>1. CASE line[1] = line[2]
  BY <1>1 DEF AddLine, AddTSLine, AddSnapEdge
<1>2. CASE line[1] # line[2]
  BY <1>2, TSLine, SnapLine DEF AddLine
<1> QED BY <1>1, <1>2

IsLineFold(f, kind, g, lines) ==
  f = [s \in SUBSET DOMAIN lines |->
         IF s = {} THEN g ELSE AddLine(kind, f[s \ {Max(s)}], lines[Max(s)])]

LEMMA LineFoldIs ==
  ASSUME NEW kind, NEW g, NEW lines
  PROVE  LinesAdded(kind, g, lines) = (CHOOSE f : IsLineFold(f, kind, g, lines))[DOMAIN lines]
<1>1. CASE kind = "ts"
  BY <1>1 DEF LinesAdded, FoldLeft, MapThenFoldSet, IsLineFold, AddLine
<1>2. CASE kind # "ts"
  BY <1>2 DEF LinesAdded, FoldLeft, MapThenFoldSet, IsLineFold, AddLine
<1> QED BY <1>1, <1>2

GoodLines(lines) == lines \in Seq(Seq(Nat)) /\ \A k \in 1..Len(lines) : IsLink(lines[k])

Line(f, kind, g, lines) ==
  /\ f[1..0] = g /\ f[1..Len(lines)] = LinesAdded(kind, g, lines)
  /\ \A k \in 0..Len(lines) : f[1..k] \in Graphs
  /\ \A k \in 1..Len(lines) : f[1..k] = AddLine(kind, f[1..(k - 1)], lines[k])

LEMMA LineFold ==
  ASSUME NEW kind, NEW g \in Graphs, NEW lines, GoodLines(lines)
  PROVE  \E f : Line(f, kind, g, lines)
<1> DEFINE n == Len(lines)
           Op == [p \in (1..n) \X Graphs |-> AddLine(kind, p[2], lines[p[1]])]
<1>1. n \in Nat /\ DOMAIN lines = 1..n /\ \A k \in 1..n : lines[k] \in Seq(Nat) /\ IsLink(lines[k])
  BY LenProperties, ElementOfSeq DEF GoodLines
<1>2. g \in Graphs
  OBVIOUS
<1> HIDE DEF n
<1>3. Op \in [(1..n) \X Graphs -> Graphs] /\ \A a \in Graphs, k \in 1..n : Op[<<k, a>>] = AddLine(kind, a, lines[k])
  BY <1>1, AddLineType
<1> HIDE DEF Op
<1>4. PICK e \in [SUBSET (1..n) -> Graphs] : Folds(e, Op, g, n)
  BY <1>1, <1>2, <1>3, FoldExists
<1>5. \A s \in SUBSET (1..n) : s # {} => Max(s) \in 1..n /\ s \ {Max(s)} \in SUBSET (1..n)
  BY <1>1, Extremes
<1>6. \A f : IsLineFold(f, kind, g, lines) <=>
               f = [s \in SUBSET (1..n) |-> IF s = {} THEN g ELSE AddLine(kind, f[s \ {Max(s)}], lines[Max(s)])]
  BY <1>1 DEF IsLineFold
<1>7. IsLineFold(e, kind, g, lines)
  <2>1. ASSUME NEW s \in SUBSET (1..n)
        PROVE  e[s] = IF s = {} THEN g ELSE AddLine(kind, e[s \ {Max(s)}], lines[Max(s)])
    <3>1. CASE s = {}
      BY <1>4, <3>1 DEF Folds
    <3>2. CASE s # {}
      <4>1. e[s] = Op[<<Max(s), e[s \ {Max(s)}]>>]
        BY <1>4, <3>2 DEF Folds
      <4>2. Max(s) \in 1..n /\ e[s \ {Max(s)}] \in Graphs
        BY <1>4, <1>5, <3>2
      <4> QED BY <1>3, <3>2, <4>1, <4>2
    <3> QED BY <3>1, <3>2
  <2>2. e = [s \in SUBSET (1..n) |-> IF s = {} THEN g ELSE AddLine(kind, e[s \ {Max(s)}], lines[Max(s)])]
    BY <1>4, <2>1
  <2> QED BY <1>6, <2>2
<1> DEFINE f == CHOOSE h : IsLineFold(h, kind, g, lines)
<1>8. IsLineFold(f, kind, g, lines)
  BY <1>7
<1>9. LinesAdded(kind, g, lines) = f[1..n]
  BY <1>1, LineFoldIs
<1> HIDE DEF f
<1>10. f = [s \in SUBSET (1..n) |-> IF s = {} THEN g ELSE AddLine(kind, f[s \ {Max(s)}], lines[Max(s)])]
  BY <1>6, <1>8
<1>11. FoldsIn(f, Op, g, n, Graphs)
  <2> DEFINE h == [s \in SUBSET (1..n) |-> IF s = {} THEN g ELSE AddLine(kind, f[s \ {Max(s)}], lines[Max(s)])]
  <2>1. \A s \in SUBSET (1..n) : h[s] = IF s = {} THEN g ELSE AddLine(kind, f[s \ {Max(s)}], lines[Max(s)])
    OBVIOUS
  <2>2. f = h
    BY <1>10
  <2> HIDE DEF h
  <2>3. f[{}] = g
    BY <2>1, <2>2
  <2>4. ASSUME NEW s \in SUBSET (1..n), s # {}, f[s \ {Max(s)}] \in Graphs
        PROVE  f[s] = Op[<<Max(s), f[s \ {Max(s)}]>>]
    <3>1. f[s] = AddLine(kind, f[s \ {Max(s)}], lines[Max(s)])
      BY <2>1, <2>2, <2>4
    <3> QED BY <1>3, <1>5, <2>4, <3>1
  <2> QED BY <2>3, <2>4 DEF FoldsIn
<1>12. Along(f, Op, g, n, Graphs)
  BY <1>1, <1>2, <1>3, <1>11, FoldAlong
<1>13. /\ f[1..0] = g /\ \A k \in 0..n : f[1..k] \in Graphs
       /\ \A k \in 1..n : f[1..k] = Op[<<k, f[1..(k - 1)]>>]
  BY <1>12 DEF Along
<1>14. \A k \in 1..n : f[1..k] = AddLine(kind, f[1..(k - 1)], lines[k])
  <2> SUFFICES ASSUME NEW k \in 1..n PROVE f[1..k] = AddLine(kind, f[1..(k - 1)], lines[k])
    OBVIOUS
  <2>1. k - 1 \in 0..n
    BY <1>1
  <2> QED BY <1>3, <1>13, <2>1
<1> QED BY <1>9, <1>13, <1>14 DEF n, Line

\* What HLinks may be made of the lines of an edge file
FromEdges(lines) == [j \in 1..Len(lines) |-> {HLinkOfLine(lines[j])}]

LEMMA KeptNone ==
  ASSUME NEW r, NEW P
  PROVE  Kept(r, 0) = {} /\ Gathered(<< >>, r, P, 0)
<1>1. Kept(r, 0) = {}
  BY DEF Kept
<1>2. << >> \in Seq(HLink) /\ Len(<< >>) = 0 /\ DOMAIN << >> = {}
  BY EmptySeq, LenProperties
<1> QED BY <1>1, <1>2, FS_EmptySet DEF Count, Gathered

LEMMA EdgesAdded ==
  ASSUME NEW g \in Graphs, g.hlinks = << >>, NEW lines, GoodLines(lines)
  PROVE  LET u == LinesAdded("ts", g, lines)
         IN  /\ u \in Graphs /\ u.layers = g.layers /\ u.nodes = g.nodes
             /\ Gathered(u.hlinks, lines, FromEdges(lines), Len(lines))
<1> DEFINE n == Len(lines)
           P == FromEdges(lines)
           R(u, k) == /\ u \in Graphs /\ u.layers = g.layers /\ u.nodes = g.nodes
                      /\ Gathered(u.hlinks, lines, P, k)
<1>1. n \in Nat /\ lines \in Seq(Seq(Nat)) /\ \A k \in 1..n : IsLink(lines[k])
  BY LenProperties DEF GoodLines
<1>2. PICK f : /\ f[1..0] = g /\ f[1..n] = LinesAdded("ts", g, lines)
               /\ \A k \in 0..n : f[1..k] \in Graphs
               /\ \A k \in 1..n : f[1..k] = AddLine("ts", f[1..(k - 1)], lines[k])
  <2>1. \E f : Line(f, "ts", g, lines)
    BY LineFold
  <2> QED BY <2>1 DEF Line
<1>3. R(f[1..0], 0)
  BY <1>2, KeptNone
<1>4. ASSUME NEW k \in 1..n, R(f[1..(k - 1)], k - 1) PROVE R(f[1..k], k)
  <2> DEFINE v == f[1..(k - 1)]
             l == lines[k]
  <2>1. /\ v \in Graphs /\ v.layers = g.layers /\ v.nodes = g.nodes
        /\ Gathered(v.hlinks, lines, P, k - 1)
    BY <1>4
  <2>2. IsLink(l) /\ f[1..k] = AddLine("ts", v, l) /\ k \in Nat \ {0}
    BY <1>1, <1>2
  <2>3. P[k] = {HLinkOfLine(l)}
    BY DEF FromEdges
  <2> HIDE DEF v, P
  <2>4. CASE l[1] = l[2]
    <3>1. f[1..k] = v
      BY <2>1, <2>2, <2>4, AddLineType
    <3>2. Gathered(v.hlinks, lines, P, k)
      BY <2>1, <2>2, <2>4, GatheredMore
    <3> QED BY <2>1, <3>1, <3>2
  <2>5. CASE l[1] # l[2]
    <3> DEFINE w == AddTSLine(v, l)
               x == HLinkOfLine(l)
    <3>1. /\ w \in Graphs /\ w.layers = v.layers /\ w.nodes = v.nodes
          /\ w.hlinks = Append(v.hlinks, x) /\ x \in HLink
      BY <2>1, <2>2, <2>5, TSLine
    <3>2. f[1..k] = w
      BY <2>2 DEF AddLine
    <3>3. x \in P[k]
      BY <2>3
    <3> HIDE DEF w, x
    <3>4. Gathered(Append(v.hlinks, x), lines, P, k)
      BY <2>1, <2>2, <2>5, <3>1, <3>3, GatheredMore
    <3> QED BY <2>1, <3>1, <3>2, <3>4
  <2> QED BY <2>4, <2>5
<1> HIDE DEF R
<1>5. R(f[1..n], n)
  <2> DEFINE N == {k \in Nat : k <= n => R(f[1..k], k)}
  <2>1. 0 \in N
    BY <1>3
  <2>2. ASSUME NEW k \in Nat, k \in N PROVE k + 1 \in N
    <3> SUFFICES ASSUME k + 1 <= n PROVE R(f[1..(k + 1)], k + 1)
      OBVIOUS
    <3>1. k + 1 \in 1..n /\ (k + 1) - 1 = k /\ R(f[1..k], k)
      BY <1>1, <2>2
    <3>2. R(f[1..((k + 1) - 1)], (k + 1) - 1)
      BY <3>1
    <3> QED BY <1>4, <3>1, <3>2
  <2>3. \A k \in Nat : k \in N => k + 1 \in N
    BY <2>2
  <2>4. Nat \subseteq N
    <3> HIDE DEF N
    <3> QED BY <2>1, <2>3, Induction
  <2>5. n \in N /\ n <= n
    BY <1>1, <2>4
  <2> QED BY <2>5
<1> QED BY <1>2, <1>5 DEF R

\* And of the lines of a SNAP file, between the nodes of a graph
FromLines(nodes, lines) ==
  [j \in 1..Len(lines) |-> {x \in HLink : Joins(nodes, x, lines[j])}]

\* The numbers on the lines up to the k-th that are kept
Numbers(lines, k) == UNION {{lines[j][1], lines[j][2]} : j \in Kept(lines, k)}

LEMMA StillJoins ==
  ASSUME NEW nodes, NEW more, Grown(nodes, more), NEW lines, NEW k, k <= Len(lines), k \in Nat,
         Len(lines) \in Nat
  PROVE  \A j \in Kept(lines, k) : FromLines(nodes, lines)[j] \subseteq FromLines(more, lines)[j]
<1> SUFFICES ASSUME NEW j \in Kept(lines, k) PROVE FromLines(nodes, lines)[j] \subseteq FromLines(more, lines)[j]
  OBVIOUS
<1>1. j \in 1..Len(lines)
  BY DEF Kept
<1>2. /\ FromLines(nodes, lines)[j] = {x \in HLink : Joins(nodes, x, lines[j])}
      /\ FromLines(more, lines)[j] = {x \in HLink : Joins(more, x, lines[j])}
  BY <1>1 DEF FromLines
<1>3. \A x : Joins(nodes, x, lines[j]) => Joins(more, x, lines[j])
  BY DEF Joins, Grown
<1> QED BY <1>2, <1>3

LEMMA LinesJoined ==
  ASSUME NEW g \in Graphs, g.hlinks = << >>, g.nodes = << >>, NEW lines, GoodLines(lines)
  PROVE  LET u == LinesAdded("snap", g, lines)
         IN  /\ u \in Graphs /\ u.layers = g.layers
             /\ Labels(u.nodes) = Numbers(lines, Len(lines))
             /\ Distinct(u.nodes) /\ OneValue(u.nodes)
             /\ Gathered(u.hlinks, lines, FromLines(u.nodes, lines), Len(lines))
<1> DEFINE n == Len(lines)
           R(u, k) == /\ u \in Graphs /\ u.layers = g.layers
                      /\ Labels(u.nodes) = Numbers(lines, k)
                      /\ Distinct(u.nodes) /\ OneValue(u.nodes)
                      /\ Gathered(u.hlinks, lines, FromLines(u.nodes, lines), k)
<1>1. n \in Nat /\ lines \in Seq(Seq(Nat)) /\ \A k \in 1..n : IsLink(lines[k])
  BY LenProperties DEF GoodLines
<1>2. PICK f : /\ f[1..0] = g /\ f[1..n] = LinesAdded("snap", g, lines)
               /\ \A k \in 0..n : f[1..k] \in Graphs
               /\ \A k \in 1..n : f[1..k] = AddLine("snap", f[1..(k - 1)], lines[k])
  <2>1. \E f : Line(f, "snap", g, lines)
    BY LineFold
  <2> QED BY <2>1 DEF Line
<1>3. R(f[1..0], 0)
  <2>1. DOMAIN g.nodes = {}
    BY LenProperties
  <2>2. Labels(g.nodes) = {} /\ Distinct(g.nodes) /\ OneValue(g.nodes)
    BY <2>1 DEF Labels, Distinct, OneValue
  <2>3. Numbers(lines, 0) = {}
    BY KeptNone DEF Numbers
  <2> QED BY <1>2, <2>2, <2>3, KeptNone
<1>4. ASSUME NEW k \in 1..n, R(f[1..(k - 1)], k - 1) PROVE R(f[1..k], k)
  <2> DEFINE v == f[1..(k - 1)]
             l == lines[k]
  <2>1. /\ v \in Graphs /\ v.layers = g.layers
        /\ Labels(v.nodes) = Numbers(lines, k - 1)
        /\ Distinct(v.nodes) /\ OneValue(v.nodes)
        /\ Gathered(v.hlinks, lines, FromLines(v.nodes, lines), k - 1)
    BY <1>4
  <2>2. IsLink(l) /\ f[1..k] = AddLine("snap", v, l) /\ k \in Nat \ {0} /\ k - 1 \in Nat /\ k - 1 <= n
    <3>1. k \in 1..n /\ IsLink(l)
      BY <1>1
    <3>2. f[1..k] = AddLine("snap", v, l)
      BY <1>2
    <3> HIDE DEF R, v, l, n
    <3> QED BY <1>1, <3>1, <3>2
  <2> HIDE DEF v
  <2>4. CASE l[1] = l[2]
    <3>1. f[1..k] = v
      BY <2>1, <2>2, <2>4, AddLineType
    <3>2. Kept(lines, k) = Kept(lines, k - 1)
      BY <2>2, <2>4, KeptMore
    <3>3. Numbers(lines, k) = Numbers(lines, k - 1)
      BY <3>2 DEF Numbers
    <3> DEFINE P == FromLines(v.nodes, lines)
    <3>4. \A j \in Kept(lines, k - 1) : P[j] \subseteq P[j]
      OBVIOUS
    <3> HIDE DEF P
    <3>5. Gathered(v.hlinks, lines, P, k - 1) => Gathered(v.hlinks, lines, P, k)
      BY <2>2, <2>4, <3>4, GatheredMore
    <3> QED BY <2>1, <3>1, <3>3, <3>5 DEF P
  <2>5. CASE l[1] # l[2]
    <3> DEFINE w == AddSnapEdge(v, l)
    <3>1. /\ w \in Graphs /\ w.layers = v.layers
          /\ MoreNodes(v.nodes, w.nodes, {l[1], l[2]})
          /\ \E x \in HLink : w.hlinks = Append(v.hlinks, x) /\ Joins(w.nodes, x, l)
      BY <2>1, <2>2, <2>5, SnapLine
    <3>2. f[1..k] = w
      BY <2>2 DEF AddLine
    <3> HIDE DEF w
    <3>3. PICK x \in HLink : w.hlinks = Append(v.hlinks, x) /\ Joins(w.nodes, x, l)
      BY <3>1
    <3> DEFINE P == FromLines(v.nodes, lines)
               Q == FromLines(w.nodes, lines)
    <3>4. \A j \in Kept(lines, k - 1) : P[j] \subseteq Q[j]
      <4>1. Grown(v.nodes, w.nodes)
        BY <3>1 DEF MoreNodes
      <4> QED BY <1>1, <2>2, <4>1, StillJoins
    <3>5. x \in Q[k]
      BY <3>3 DEF FromLines
    <3>6. Gathered(v.hlinks, lines, P, k - 1)
      BY <2>1
    <3> HIDE DEF P, Q
    <3>7. Gathered(Append(v.hlinks, x), lines, Q, k)
      BY <2>2, <2>5, <3>3, <3>4, <3>5, <3>6, GatheredMore
    <3>8. Kept(lines, k) = Kept(lines, k - 1) \union {k}
      BY <2>2, <2>5, KeptMore
    <3>9. Numbers(lines, k) = Numbers(lines, k - 1) \union {l[1], l[2]}
      BY <3>8 DEF Numbers
    <3>10. Labels(w.nodes) = Numbers(lines, k) /\ Distinct(w.nodes) /\ OneValue(w.nodes)
      BY <2>1, <3>1, <3>9 DEF MoreNodes
    <3> QED BY <2>1, <3>1, <3>2, <3>3, <3>7, <3>10 DEF Q
  <2> QED BY <2>4, <2>5
<1> HIDE DEF R
<1>5. R(f[1..n], n)
  <2> DEFINE N == {k \in Nat : k <= n => R(f[1..k], k)}
  <2>1. 0 \in N
    BY <1>3
  <2>2. ASSUME NEW k \in Nat, k \in N PROVE k + 1 \in N
    <3> SUFFICES ASSUME k + 1 <= n PROVE R(f[1..(k + 1)], k + 1)
      OBVIOUS
    <3>1. k + 1 \in 1..n /\ (k + 1) - 1 = k /\ R(f[1..k], k)
      BY <1>1, <2>2
    <3>2. R(f[1..((k + 1) - 1)], (k + 1) - 1)
      BY <3>1
    <3> QED BY <1>4, <3>1, <3>2
  <2>3. \A k \in Nat : k \in N => k + 1 \in N
    BY <2>2
  <2>4. Nat \subseteq N
    <3> HIDE DEF N
    <3> QED BY <2>1, <2>3, Induction
  <2>5. n \in N /\ n <= n
    BY <1>1, <2>4
  <2> QED BY <2>5
<1> QED BY <1>2, <1>5 DEF R

LEMMA GoodRead ==
  ASSUME NEW file \in Seq(Seq(Nat))
  PROVE  GoodLines(Read(file, 2))
<1>1. Read(file, 2) \in Seq(Seq(Nat))
  BY LinksAre
<1>2. \A j \in 1..Len(Read(file, 2)) :
        Len(Read(file, 2)[j]) >= 2 /\ Read(file, 2)[j][1] \in Nat /\ Read(file, 2)[j][2] \in Nat
  BY LinksAre
<1> QED BY <1>1, <1>2 DEF GoodLines, IsLink

\* HLinks h are those of the file, in order, each one that P allows
InOrderOf(h, file, P) ==
  /\ h \in Seq(HLink) /\ Len(h) = Cardinality(Links(file))
  /\ \A j \in Links(file) : /\ h[Cardinality({i \in Links(file) : i <= j})] \in P[j]
                            /\ file[j] = Read(file, 2)[j] /\ j \in 1..Len(Read(file, 2))
  /\ \A i \in DOMAIN h : \E j \in Links(file) : h[i] \in P[j]

\* HLinks gathered from all lines are
LEMMA LinksGathered ==
  ASSUME NEW file \in Seq(Seq(Nat)), NEW h, NEW P,
         Gathered(h, Read(file, 2), P, Len(Read(file, 2)))
  PROVE  InOrderOf(h, file, P)
<1> DEFINE r == Read(file, 2)
           m == Len(r)
<1>1. /\ Links(file) = Kept(r, m)
      /\ \A j \in Links(file) : file[j] = r[j] /\ j \in 1..m /\ {i \in Links(file) : i <= j} = Kept(r, j)
  BY LinksAre
<1>2. Gathered(h, r, P, m)
  OBVIOUS
<1> HIDE DEF r, m
<1>3. /\ h \in Seq(HLink) /\ Len(h) = Cardinality(Kept(r, m))
      /\ \A j \in Kept(r, m) : h[Cardinality(Kept(r, j))] \in P[j]
      /\ \A i \in DOMAIN h : \E j \in Kept(r, m) : h[i] \in P[j]
  BY <1>2 DEF Gathered, Count
<1>4. \A j \in Links(file) : h[Cardinality({i \in Links(file) : i <= j})] \in P[j]
  BY <1>1, <1>3
<1> QED BY <1>1, <1>3, <1>4 DEF r, m, InOrderOf

---------------------------------------------------------------------------
(* What the importers make of a file *)

GoodTable(file) ==
  /\ file \in {NoFile} \union NodeTable
  /\ file # NoFile => \A k \in DOMAIN file.lines :
       file.lines[k] = << >> \/ Len(file.lines[k]) \in 2..(file.size + 1)

TSLinks(g, file) == HLinksAre(g, file, LAMBDA line : <<line[1] + 1, line[2] + 1>>)

LEMMA LineSplit ==
  ASSUME NEW S, NEW line \in Seq(S), Len(line) >= 1
  PROVE  /\ Head(line) \in S /\ Tail(line) \in Seq(S) /\ Len(Tail(line)) = Len(line) - 1
         /\ <<Head(line)>> \o Tail(line) = line
<1> DEFINE n == Len(line)
           t == Tail(line)
           u == <<Head(line)>> \o t
<1>1. n \in Nat /\ line # << >>
  BY LenProperties, EmptySeq
<1>2. /\ Head(line) \in S /\ t \in Seq(S) /\ Len(t) = n - 1
      /\ \A i \in 1..(n - 1) : t[i] = line[i + 1]
  BY <1>1, HeadTailProperties
<1>3. <<Head(line)>> \in Seq(S) /\ Len(<<Head(line)>>) = 1 /\ <<Head(line)>>[1] = line[1]
  BY <1>2
<1> DEFINE o == <<Head(line)>>
<1> HIDE DEF t, o
<1>4. u = o \o t /\ o \in Seq(S) /\ Len(o) = 1 /\ o[1] = line[1]
  BY <1>3 DEF o
<1> HIDE DEF u, n
<1>5. u \in Seq(S) /\ Len(u) = n
      /\ \A i \in 1..n : u[i] = IF i <= 1 THEN o[i] ELSE t[i - 1]
  <2>1. /\ o \o t \in Seq(S) /\ Len(o \o t) = Len(o) + Len(t)
        /\ \A i \in 1..(Len(o) + Len(t)) : (o \o t)[i] = IF i <= Len(o) THEN o[i] ELSE t[i - Len(o)]
    <3>1. o \in Seq(S) /\ t \in Seq(S)
      BY <1>2, <1>4
    <3>2. o \o t \in Seq(S) /\ Len(o \o t) = Len(o) + Len(t)
      BY ONLY <3>1, ConcatProperties
    <3>3. \A i \in 1..(Len(o) + Len(t)) : (o \o t)[i] = IF i <= Len(o) THEN o[i] ELSE t[i - Len(o)]
      BY ONLY <3>1, ConcatProperties
    <3> QED BY <3>2, <3>3
  <2>2. Len(o) + Len(t) = n
    BY <1>1, <1>2, <1>4
  <2> QED BY <1>4, <2>1, <2>2
<1>6. \A i \in 1..n : u[i] = line[i]
  <2> SUFFICES ASSUME NEW i \in 1..n PROVE u[i] = line[i]
    OBVIOUS
  <2>1. CASE i = 1
    BY <1>4, <1>5, <2>1
  <2>2. CASE i # 1
    <3>1. i - 1 \in 1..(n - 1) /\ (i - 1) + 1 = i /\ ~(i <= 1)
      BY <1>1, <2>2
    <3>2. t[i - 1] = line[(i - 1) + 1]
      BY <1>2, <3>1
    <3> QED BY <1>5, <3>1, <3>2
  <2> QED BY <2>1, <2>2
<1>7. u = line
  BY <1>5, <1>6, SeqEqual DEF n
<1> QED BY <1>2, <1>7 DEF u, t, n

LEMMA NodesRead ==
  ASSUME NEW file \in NodeTable, file # NoFile, GoodTable(file)
  PROVE  LET r == ImportTSNodes(file)
         IN  /\ r.returns = TRUE /\ GraphOK(r.graph) /\ r.graph.hlinks = << >>
             /\ SignalsAre(r.graph, file)
<1> DEFINE L == file.lines
           R == Read(L, 1)
           m == Len(R)
           node(k) == [label |-> Head(L[k]), signal |-> Tail(L[k])]
           N == [k \in DOMAIN R |-> node(k)]
           g == [layers |-> file.size, hlinks |-> << >>, nodes |-> N]
           rows == {k \in DOMAIN L : \A i \in 1..k : L[i] # << >>}
<1>1. ImportTSNodes(file) = [returns |-> TRUE, graph |-> g]
  BY DEF ImportTSNodes
<1>2. L \in Seq(Seq(Token)) /\ file.size \in Nat
  BY DEF NodeTable
<1>3. /\ R \in Seq(Seq(Token)) /\ m <= Len(L)
      /\ \A j \in 1..m : Len(L[j]) >= 1
  <2> HIDE DEF L
  <2> QED BY <1>2, ReadIs
<1>4. {k \in DOMAIN L : \A i \in 1..k : Len(L[i]) >= 1} = 1..m
  <2> HIDE DEF L
  <2> QED BY <1>2, Rows
<1>5. DOMAIN R = 1..m /\ m \in Nat /\ DOMAIN L = 1..Len(L) /\ Len(L) \in Nat
  <2> HIDE DEF L, R
  <2> QED BY <1>2, <1>3, LenProperties DEF m
<1>6. ASSUME NEW k \in DOMAIN L PROVE L[k] \in Seq(Token) /\ (L[k] # << >> <=> Len(L[k]) >= 1)
  <2>1. L[k] \in Seq(Token)
    <3> HIDE DEF L
    <3> QED BY <1>2, ElementOfSeq
  <2> QED BY <2>1, LenProperties, EmptySeq
<1>7. rows = 1..m
  <2>1. \A k \in DOMAIN L : (\A i \in 1..k : L[i] # << >>) <=> (\A i \in 1..k : Len(L[i]) >= 1)
    <3>1. \A k \in DOMAIN L : \A i \in 1..k : i \in DOMAIN L
      BY <1>5
    <3> QED BY <1>6, <3>1
  <2> QED BY <1>4, <2>1
<1>8. ASSUME NEW k \in 1..m
      PROVE  /\ Head(L[k]) \in Token /\ Tail(L[k]) \in Seq(Token)
             /\ Len(Tail(L[k])) <= file.size /\ <<Head(L[k])>> \o Tail(L[k]) = L[k]
  <2>1. k \in DOMAIN L
    BY <1>3, <1>5
  <2>2. L[k] \in Seq(Token) /\ Len(L[k]) >= 1 /\ L[k] # << >>
    BY <1>3, <1>6, <2>1
  <2>3. Len(L[k]) \in 2..(file.size + 1)
    BY <2>1, <2>2 DEF GoodTable
  <2>4. /\ Head(L[k]) \in Token /\ Tail(L[k]) \in Seq(Token) /\ Len(Tail(L[k])) = Len(L[k]) - 1
        /\ <<Head(L[k])>> \o Tail(L[k]) = L[k]
    <3> DEFINE line == L[k]
    <3>1. line \in Seq(Token) /\ Len(line) >= 1
      BY <2>2
    <3> HIDE DEF line
    <3>2. /\ Head(line) \in Token /\ Tail(line) \in Seq(Token) /\ Len(Tail(line)) = Len(line) - 1
          /\ <<Head(line)>> \o Tail(line) = line
      BY <3>1, LineSplit
    <3> QED BY <3>2 DEF line
  <2>5. Len(Tail(L[k])) <= file.size
    BY <1>2, <2>3, <2>4
  <2> QED BY <2>4, <2>5
<1> DEFINE v == file.size
<1> HIDE DEF L, R, m
<1>9. N \in Seq(Node) /\ Len(N) = m /\ DOMAIN N = 1..m
      /\ \A k \in 1..m : N[k].label = Head(L[k]) /\ N[k].signal = Tail(L[k])
  <2>1. \A k \in 1..m : node(k) \in Node
    BY <1>8 DEF Node
  <2>2. N \in [1..m -> Node]
    BY <1>5, <2>1
  <2>3. N \in Seq(Node)
    BY <1>5, <2>2
  <2>4. DOMAIN N = 1..m
    BY <1>5
  <2>5. Len(N) = m
    <3> HIDE DEF N
    <3> QED BY <1>5, <2>3, <2>4
  <2>6. \A k \in 1..m : N[k] = node(k)
    BY <1>5
  <2> QED BY <2>3, <2>4, <2>5, <2>6
<1> HIDE DEF N
<1>10. g.layers = v /\ g.nodes = N /\ g.hlinks = << >>
  OBVIOUS
<1>11. g \in Graphs
  <2>1. << >> \in Seq(HLink)
    BY EmptySeq
  <2> QED BY <1>2, <1>9, <2>1 DEF Graphs
<1> HIDE DEF g
<1>12. GraphOK(g)
  <2>1. DOMAIN g.hlinks = {}
    BY <1>10
  <2>2. \A k \in DOMAIN g.nodes : Len(g.nodes[k].signal) <= g.layers
    BY <1>8, <1>9, <1>10
  <2> QED BY <1>11, <2>1, <2>2 DEF GraphOK
<1>13. SignalsAre(g, file)
  <2>1. Cardinality(1..m) = m
    BY <1>5, FS_Interval
  <2>2. \A k \in 1..m : <<g.nodes[k].label>> \o g.nodes[k].signal = L[k]
    BY <1>8, <1>9, <1>10
  <2>3. SignalsAre(g, file) <=>
          /\ g.layers = v /\ Len(g.nodes) = Cardinality(rows)
          /\ \A k \in rows : <<g.nodes[k].label>> \o g.nodes[k].signal = L[k]
    BY DEF SignalsAre, L
  <2> HIDE DEF rows
  <2> QED BY <1>7, <1>9, <1>10, <2>1, <2>2, <2>3
<1> QED BY <1>1, <1>10, <1>12, <1>13

\* What may be given for a file of lines of numbers
LineFile == {NoFile} \union Seq(Seq(Nat))

LEMMA NoFileOpens ==
  ASSUME NEW file \in LineFile, file # NoFile
  PROVE  file \in Seq(Seq(Nat))
BY DEF LineFile

\* When both files can be read the graph is theirs, and whenever the importer
\* returns it is a graph
LEMMA TimeSeriesRead ==
  ASSUME NEW nodes, GoodTable(nodes), NEW edges \in LineFile,
         FromTimeSeries(nodes, edges).returns \in BOOLEAN
  PROVE  LET r == FromTimeSeries(nodes, edges)
         IN  /\ GraphOK(r.graph)
             /\ r.returns = TRUE => SignalsAre(r.graph, nodes) /\ TSLinks(r.graph, edges)
<1> DEFINE r == FromTimeSeries(nodes, edges)
           read == ImportTSNodes(nodes)
<1>0. GraphOK(NoGraph)
  <2>1. << >> \in Seq(Node) /\ << >> \in Seq(HLink) /\ DOMAIN << >> = {}
    BY EmptySeq
  <2> QED BY <2>1 DEF NoGraph, GraphOK, Graphs
<1>1. CASE nodes = NoFile
  <2>1. r = [returns |-> FALSE, graph |-> NoGraph]
    BY <1>1 DEF FromTimeSeries, ImportTSNodes
  <2> QED BY <1>0, <2>1
<1>2. CASE nodes # NoFile
  <2> DEFINE g == read.graph
             lines == Read(edges, 2)
             m == Len(lines)
             u == LinesAdded("ts", g, lines)
             known(line) == {line[1], line[2]} \subseteq 0..(Len(g.nodes) - 1)
             Known == \A i \in DOMAIN lines : lines[i][1] # lines[i][2] => known(lines[i])
  <2>1. nodes \in NodeTable
    BY <1>2 DEF GoodTable
  <2>2. read.returns = TRUE /\ GraphOK(g) /\ g.hlinks = << >> /\ SignalsAre(g, nodes)
    BY <1>2, <2>1, NodesRead
  <2>3. r = ImportTSEdges(g, edges)
    BY <2>2 DEF FromTimeSeries
  <2>u. u = FoldLeft(AddTSLine, g, lines)
    BY DEF LinesAdded
  <2>4. r = IF edges = NoFile \/ g.nodes = << >>
            THEN [returns |-> FALSE, graph |-> g]
            ELSE IF Known THEN [returns |-> TRUE, graph |-> u]
            ELSE [returns |-> Throws, graph |-> g]
    BY <2>3, <2>u DEF ImportTSEdges
  <2> HIDE DEF read, g, r, u, Known
  <2>5. CASE edges = NoFile \/ g.nodes = << >>
    <3>1. r.returns = FALSE /\ r.graph = g
      BY <2>4, <2>5
    <3> QED BY <2>2, <3>1 DEF r
  <2>6. CASE ~(edges = NoFile \/ g.nodes = << >>)
    <3>1. edges \in Seq(Seq(Nat))
      BY <2>6, NoFileOpens
    <3>2. Known /\ r.returns = TRUE /\ r.graph = u
      <4>1. CASE Known
        BY <2>4, <2>6, <4>1
      <4>2. CASE ~Known
        <5>1. r.returns = Throws
          BY <2>4, <2>6, <4>2
        <5> QED BY <5>1, ResultsAssumption DEF r
      <4> QED BY <4>1, <4>2
    <3>3. GoodLines(lines)
      BY <3>1, GoodRead
    <3> HIDE DEF lines, m
    <3>4. /\ u \in Graphs /\ u.layers = g.layers /\ u.nodes = g.nodes
          /\ Gathered(u.hlinks, lines, FromEdges(lines), m)
      BY <2>2, <3>3, EdgesAdded DEF u, GraphOK, m
    <3>5. /\ u.hlinks \in Seq(HLink) /\ Len(u.hlinks) = Cardinality(Links(edges))
          /\ \A j \in Links(edges) : /\ u.hlinks[Cardinality({i \in Links(edges) : i <= j})] \in FromEdges(lines)[j]
                                     /\ edges[j] = lines[j] /\ j \in 1..m
          /\ \A i \in DOMAIN u.hlinks : \E j \in Links(edges) : u.hlinks[i] \in FromEdges(lines)[j]
      <4> DEFINE P == FromEdges(lines)
                 h == u.hlinks
      <4>1. Gathered(h, Read(edges, 2), P, Len(Read(edges, 2)))
        BY <3>4 DEF lines, m
      <4> HIDE DEF P, h
      <4>2. InOrderOf(h, edges, P)
        BY <3>1, <4>1, LinksGathered
      <4> QED BY <4>2 DEF InOrderOf, lines, m, P, h
    <3>6. \A j \in Links(edges) : FromEdges(lines)[j] = {HLinkOfLine(edges[j])}
      BY <3>5 DEF FromEdges, m
    <3>7. TSLinks(u, edges)
      <4>1. ASSUME NEW j \in Links(edges)
            PROVE  u.hlinks[Cardinality({i \in Links(edges) : i <= j})].ends = <<edges[j][1] + 1, edges[j][2] + 1>>
        <5>1. u.hlinks[Cardinality({i \in Links(edges) : i <= j})] = HLinkOfLine(edges[j])
          BY <3>5, <3>6
        <5> QED BY <5>1 DEF HLinkOfLine
      <4> QED BY <3>5, <4>1 DEF TSLinks, HLinksAre
    <3>8. SignalsAre(u, nodes)
      BY <2>2, <3>4 DEF SignalsAre
    <3>9. \A i \in DOMAIN u.hlinks : Between(u.nodes, u.hlinks[i])
      <4> SUFFICES ASSUME NEW i \in DOMAIN u.hlinks PROVE Between(u.nodes, u.hlinks[i])
        OBVIOUS
      <4>1. PICK j \in Links(edges) : u.hlinks[i] \in FromEdges(lines)[j]
        BY <3>5
      <4> DEFINE l == lines[j]
                 n == Len(g.nodes)
      <4>2. u.hlinks[i].ends = <<l[1] + 1, l[2] + 1>> /\ j \in 1..m /\ edges[j] = l
        <5>1. j \in 1..m /\ edges[j] = l
          BY <3>5
        <5>2. u.hlinks[i] = HLinkOfLine(l)
          BY <3>6, <4>1, <5>1
        <5> QED BY <5>1, <5>2 DEF HLinkOfLine
      <4>3. l[1] # l[2]
        BY <4>2 DEF Links
      <4>4. j \in DOMAIN lines /\ l[1] \in Nat /\ l[2] \in Nat
        BY <3>3, <4>2, LenProperties DEF GoodLines, IsLink, m
      <4>5. {l[1], l[2]} \subseteq 0..(n - 1)
        BY <3>2, <4>3, <4>4 DEF Known
      <4>6. n \in Nat /\ DOMAIN u.nodes = 1..n
        BY <2>2, <3>4, LenProperties DEF GraphOK, Graphs
      <4> HIDE DEF l, n
      <4>7. l[1] + 1 \in 1..n /\ l[2] + 1 \in 1..n /\ l[1] + 1 # l[2] + 1
        BY <4>3, <4>4, <4>5, <4>6
      <4> DEFINE x == u.hlinks[i]
      <4>8. x.ends[1] = l[1] + 1 /\ x.ends[2] = l[2] + 1
        BY <4>2
      <4> HIDE DEF x
      <4>9. {x.ends[1], x.ends[2]} \subseteq DOMAIN u.nodes /\ x.ends[1] # x.ends[2]
        BY <4>6, <4>7, <4>8
      <4> QED BY <4>9 DEF Between, x
    <3>10. GraphOK(u)
      BY <2>2, <3>4, <3>9 DEF GraphOK
    <3> QED BY <3>2, <3>7, <3>8, <3>10 DEF r
  <2> QED BY <2>5, <2>6
<1> QED BY <1>1, <1>2

LEMMA DistinctCount ==
  ASSUME NEW nodes \in Seq(Node), Distinct(nodes)
  PROVE  Cardinality(Labels(nodes)) = Len(nodes)
<1> DEFINE n == Len(nodes)
           D == 1..n
           T == Labels(nodes)
           f == [k \in D |-> nodes[k].label]
<1>1. n \in Nat /\ DOMAIN nodes = D
  BY LenProperties
<1>2. IsFiniteSet(D) /\ Cardinality(D) = n
  BY <1>1, FS_Interval
<1>3. f \in [D -> T] /\ \A k \in D : f[k] = nodes[k].label
  BY <1>1 DEF Labels
<1>4. \A t \in T : \E k \in D : f[k] = t
  BY <1>1, <1>3 DEF Labels
<1>5. \A k, l \in D : f[k] = f[l] => k = l
  BY <1>1, <1>3 DEF Distinct
<1> HIDE DEF f, D, T
<1>6. f \in Bijection(D, T)
  BY <1>3, <1>4, <1>5 DEF Bijection, Injection, Surjection, IsInjective
<1>7. ExistsBijection(D, T)
  BY <1>6 DEF ExistsBijection
<1>8. Cardinality(D) = Cardinality(T)
  BY <1>2, <1>7, FS_Bijection
<1> QED BY <1>2, <1>8 DEF T

LEMMA ReadAll ==
  ASSUME NEW S, NEW lines \in Seq(Seq(S)), NEW n \in Nat,
         \A j \in 1..Len(lines) : Len(lines[j]) >= n /\ Len(lines[j]) \in Nat
  PROVE  Read(lines, n) = lines
<1> DEFINE r == Read(lines, n)
           N == Len(lines)
           m == Len(r)
<1>1. /\ r \in Seq(Seq(S)) /\ m <= N
      /\ \A j \in 1..m : r[j] = lines[j] /\ Len(lines[j]) >= n
      /\ m < N => Len(lines[m + 1]) < n
  BY ReadIs
<1>2. m \in Nat /\ N \in Nat
  BY <1>1, LenProperties
<1>3. \A j \in 1..N : Len(lines[j]) >= n /\ Len(lines[j]) \in Nat
  OBVIOUS
<1> HIDE DEF r, m, N
<1>4. ~(m < N)
  <2> SUFFICES ASSUME m < N PROVE FALSE
    OBVIOUS
  <2>1. m + 1 \in 1..N
    BY <1>2
  <2> DEFINE l == Len(lines[m + 1])
  <2>2. l < n /\ l >= n /\ l \in Nat
    BY <1>1, <1>3, <2>1
  <2> HIDE DEF l
  <2> QED BY <2>2
<1>5. m = N
  BY <1>1, <1>2, <1>4
<1>6. r = lines
  <2>1. Len(r) = Len(lines) /\ \A j \in 1..Len(r) : r[j] = lines[j]
    BY <1>1, <1>5 DEF m, N
  <2> QED BY <1>1, <2>1, SeqEqual
<1> QED BY <1>6 DEF r

\* The graph made of edges
LEMMA EdgesJoined ==
  ASSUME NEW edges \in Seq(Seq(Nat)), Read(edges, 2) = edges
  PROVE  LET u == FoldLeft(AddSnapEdge, [NoGraph EXCEPT !.layers = 1], edges)
         IN  GraphOK(u) /\ SnapIs(u, edges)
<1> DEFINE g == [NoGraph EXCEPT !.layers = 1]
<1>0. g \in Graphs /\ g.layers = 1 /\ g.hlinks = << >> /\ g.nodes = << >>
  <2>1. << >> \in Seq(Node) /\ << >> \in Seq(HLink)
    BY EmptySeq
  <2> QED BY <2>1 DEF NoGraph, Graphs
<1> DEFINE lines == Read(edges, 2)
           m == Len(lines)
           u == LinesAdded("snap", g, lines)
           at(label) == CHOOSE k \in DOMAIN u.nodes : u.nodes[k].label = label
           numbers == UNION {{edges[j][1], edges[j][2]} : j \in Links(edges)}
<1>u. u = FoldLeft(AddSnapEdge, g, lines)
  BY DEF LinesAdded
<1>1. lines = edges
  OBVIOUS
<1>2. edges \in Seq(Seq(Nat))
  OBVIOUS
<1>3. GoodLines(lines)
  BY <1>2, GoodRead
<1>4. Links(edges) = Kept(lines, m)
  BY <1>2, LinksAre
<1> HIDE DEF g, u, lines, m
<1>5. /\ u \in Graphs /\ u.layers = 1
      /\ Labels(u.nodes) = Numbers(lines, m)
      /\ Distinct(u.nodes) /\ OneValue(u.nodes)
      /\ Gathered(u.hlinks, lines, FromLines(u.nodes, lines), m)
  BY <1>0, <1>3, LinesJoined DEF u, m
<1> DEFINE P == FromLines(u.nodes, lines)
<1>6. /\ u.hlinks \in Seq(HLink) /\ Len(u.hlinks) = Cardinality(Links(edges))
      /\ \A j \in Links(edges) : /\ u.hlinks[Cardinality({i \in Links(edges) : i <= j})] \in P[j]
                                /\ edges[j] = lines[j] /\ j \in 1..m
      /\ \A i \in DOMAIN u.hlinks : \E j \in Links(edges) : u.hlinks[i] \in P[j]
  <2> DEFINE h == u.hlinks
  <2>1. Gathered(h, Read(edges, 2), P, Len(Read(edges, 2)))
    BY <1>5 DEF lines, m
  <2> HIDE DEF P, h
  <2>2. InOrderOf(h, edges, P)
    BY <1>2, <2>1, LinksGathered
  <2> QED BY <2>2 DEF InOrderOf, lines, m, h
<1>7. \A j \in Links(edges) : P[j] = {x \in HLink : Joins(u.nodes, x, edges[j])}
  <2>1. \A j \in 1..m : P[j] = {x \in HLink : Joins(u.nodes, x, lines[j])}
    BY DEF FromLines, m
  <2>2. \A j \in Links(edges) : edges[j] = lines[j] /\ j \in 1..m
    <3> HIDE DEF P, m
    <3> QED BY <1>6
  <2> HIDE DEF P, m
  <2>3. ASSUME NEW j \in Links(edges) PROVE P[j] = {x \in HLink : Joins(u.nodes, x, edges[j])}
    <3>1. edges[j] = lines[j] /\ P[j] = {x \in HLink : Joins(u.nodes, x, lines[j])}
      BY <2>1, <2>2
    <3> QED BY ONLY <3>1
  <2> QED BY <2>3
<1>8. Labels(u.nodes) = numbers
  <2> DEFINE S == {{lines[j][1], lines[j][2]} : j \in Links(edges)}
             T == {{edges[j][1], edges[j][2]} : j \in Links(edges)}
  <2>1. Labels(u.nodes) = UNION S
    <3>1. Labels(u.nodes) = Numbers(lines, m)
      BY <1>5
    <3> QED BY ONLY <1>4, <3>1 DEF Numbers
  <2>2. S = T
    <3>1. \A j \in Links(edges) : edges[j] = lines[j]
      <4> HIDE DEF P, m
      <4> QED BY <1>6
    <3> QED BY ONLY <3>1
  <2> HIDE DEF S
  <2> QED BY <2>1, <2>2
<1>9. u.nodes \in Seq(Node)
  BY <1>5 DEF Graphs
<1>10. Len(u.nodes) = Cardinality(numbers)
  BY <1>5, <1>8, <1>9, DistinctCount
<1> HIDE DEF P
<1>11. \A k \in DOMAIN u.nodes : at(u.nodes[k].label) = k
  BY <1>5 DEF Distinct
<1>12. ASSUME NEW j \in Links(edges), NEW x \in P[j]
       PROVE  x.ends = <<at(edges[j][1]), at(edges[j][2])>> /\ Between(u.nodes, x)
  <2>1. Joins(u.nodes, x, edges[j])
    BY <1>7, <1>12
  <2>2. edges[j][1] # edges[j][2]
    BY DEF Links
  <2> DEFINE N == u.nodes
             e == x.ends
  <2>3. /\ e = <<e[1], e[2]>> /\ e[1] \in DOMAIN N /\ e[2] \in DOMAIN N
        /\ N[e[1]].label = edges[j][1] /\ N[e[2]].label = edges[j][2]
    BY <2>1 DEF Joins
  <2>4. e[1] = at(edges[j][1]) /\ e[2] = at(edges[j][2])
    <3> HIDE DEF at, e
    <3> QED BY <1>11, <2>3
  <2>5. e[1] # e[2]
    <3> HIDE DEF e, N
    <3> QED BY <2>2, <2>3
  <2>6. e = <<at(edges[j][1]), at(edges[j][2])>>
    <3> HIDE DEF at, e, N
    <3> QED BY <2>3, <2>4
  <2> QED BY <2>3, <2>5, <2>6 DEF Between
<1>13. HLinksAre(u, edges, LAMBDA edge : <<at(edge[1]), at(edge[2])>>)
  <2>1. \A j \in Links(edges) :
          u.hlinks[Cardinality({i \in Links(edges) : i <= j})].ends = <<at(edges[j][1]), at(edges[j][2])>>
    <3> HIDE DEF at
    <3> QED BY <1>6, <1>12
  <2> HIDE DEF at
  <2> QED BY <1>6, <2>1 DEF HLinksAre
<1>14. SnapIs(u, edges)
  <2>1. {u.nodes[k].label : k \in DOMAIN u.nodes} = numbers
    BY <1>8 DEF Labels
  <2> QED BY <1>10, <1>13, <2>1 DEF SnapIs, HLinksAre
<1>15. GraphOK(u)
  <2>1. ASSUME NEW k \in DOMAIN u.nodes PROVE Len(u.nodes[k].signal) <= u.layers
    <3>1. Len(u.nodes[k].signal) = 1 /\ u.layers = 1
      BY <1>5 DEF OneValue
    <3> QED BY <3>1
  <2>2. \A i \in DOMAIN u.hlinks : Between(u.nodes, u.hlinks[i])
    BY <1>6, <1>12
  <2> QED BY <1>5, <2>1, <2>2 DEF GraphOK
<1> QED BY <1>1, <1>14, <1>15, <1>u DEF g

---------------------------------------------------------------------------
(* The numbers of a SNAP file *)

SnapToken == Nat \union {Hash, Word}

\* What SelectInSeq returns, of the positions it may choose from
FirstOf(I) == IF I # {} THEN Min(I) ELSE 0

LEMMA FirstIs ==
  ASSUME NEW n \in Nat, NEW I \in SUBSET (1..n)
  PROVE  /\ FirstOf(I) = 0 <=> I = {}
         /\ I # {} => FirstOf(I) \in I /\ \A j \in 1..(FirstOf(I) - 1) : j \notin I
<1>1. CASE I = {}
  BY <1>1 DEF FirstOf
<1>2. CASE I # {}
  <2>1. Min(I) \in I /\ \A y \in I : Min(I) <= y
    BY <1>2, Extremes
  <2>2. FirstOf(I) = Min(I)
    BY <1>2 DEF FirstOf
  <2>3. FirstOf(I) \in 1..n /\ \A y \in I : y \in 1..n /\ FirstOf(I) <= y
    BY <2>1, <2>2
  <2>4. ASSUME NEW j \in 1..(FirstOf(I) - 1), j \in I PROVE FALSE
    <3>1. FirstOf(I) <= j
      BY <2>3, <2>4
    <3> QED BY <2>3, <3>1
  <2> QED BY <1>2, <2>1, <2>2, <2>3, <2>4
<1> QED BY <1>1, <1>2

LEMMA FlattenIs ==
  ASSUME NEW S, NEW s \in Seq(Seq(S))
  PROVE  /\ Len(s) \in Nat /\ s \in [1..Len(s) -> Seq(S)]
         /\ FlattenSeq(s) = Flat(s, Len(s)) /\ FlattenSeq(s) \in Seq(S)
<1> DEFINE n == Len(s)
<1>1. n \in Nat /\ s \in [1..n -> Seq(S)]
  BY LenProperties
<1>2. s = [i \in 1..n |-> s[i]]
  BY <1>1
<1> HIDE DEF n
<1>3. FlattenSeq(s) = Flat(s, n)
  BY <1>2 DEF Flat
<1>4. Flat(s, n) \in Seq(S)
  <2>1. n \in 0..n
    BY <1>1
  <2> QED BY <1>1, <2>1, FlatIs
<1> QED BY <1>1, <1>3, <1>4 DEF n

\* The lines that are no comments, and the first of them
NoComments(file) == {i \in 1..Len(file.lines) : ~IsComment(file.lines[i])}

LEMMA TokensAre ==
  ASSUME NEW file \in SnapFiles
  PROVE  LET lines == file.lines
             first == FirstOf(NoComments(file))
         IN  /\ lines \in Seq(Seq(SnapToken)) /\ Len(lines) \in Nat
             /\ Tokens(file) \in Seq(SnapToken)
             /\ Tokens(file) = IF first = 0 \/ (first = Len(lines) /\ ~file.ended) THEN << >>
                               ELSE FlattenSeq(SubSeq(lines, first, Len(lines)))
<1> DEFINE lines == file.lines
           I == NoComments(file)
           first == FirstOf(I)
           N == Len(lines)
<1>1. lines \in Seq(Seq(SnapToken)) /\ N \in Nat
  <2>1. lines \in Seq(Seq(SnapToken))
    BY DEF SnapFiles, SnapToken
  <2> QED BY <2>1, LenProperties
<1>2. Tokens(file) = IF first = 0 \/ (first = N /\ ~file.ended) THEN << >>
                     ELSE FlattenSeq(SubSeq(lines, first, N))
  BY DEF Tokens, SelectInSeq, FirstOf, NoComments
<1>3. I \in SUBSET (1..N)
  BY DEF NoComments
<1> HIDE DEF lines, I, N
<1>4. CASE first = 0
  <2>1. << >> \in Seq(SnapToken)
    BY EmptySeq
  <2> QED BY <1>1, <1>2, <1>4, <2>1 DEF lines, N, I
<1>5. CASE first # 0
  <2>1. first \in 1..N
    <3> HIDE DEF first
    <3>1. I # {} /\ first \in I
      BY <1>1, <1>3, <1>5, FirstIs DEF first
    <3> QED BY <1>3, <3>1
  <2> HIDE DEF first
  <2> DEFINE s == SubSeq(lines, first, N)
  <2>2. s \in Seq(Seq(SnapToken))
    <3>1. \A i \in first..N : lines[i] \in Seq(SnapToken)
      BY <1>1, <2>1, ElementOfSeq DEF N
    <3> QED BY <1>1, <2>1, SubSeqProperties DEF N
  <2> HIDE DEF s
  <2>3. FlattenSeq(s) \in Seq(SnapToken) /\ << >> \in Seq(SnapToken)
    BY <2>2, FlattenIs, EmptySeq
  <2> QED BY <1>1, <1>2, <2>3 DEF lines, N, I, first, s
<1> QED BY <1>4, <1>5

NoNumbers(file) == {i \in 1..Len(Tokens(file)) : Tokens(file)[i] \notin Nat}

\* How many tokens are read for numbers
CountOf(file) ==
  IF FirstOf(NoNumbers(file)) = 0 THEN Len(Tokens(file)) ELSE FirstOf(NoNumbers(file)) - 1

LEMMA EdgesRead ==
  ASSUME NEW file \in SnapFiles
  PROVE  LET count == CountOf(file)
             t == Tokens(file)
         IN  /\ count \in 0..Len(t) /\ \A i \in 1..count : t[i] \in Nat
             /\ SnapEdges(file) = [k \in 1..(count \div 2) |-> <<t[2 * k - 1], t[2 * k]>>]
<1> DEFINE t == Tokens(file)
           n == Len(t)
           I == NoNumbers(file)
           count == CountOf(file)
<1>1. SnapEdges(file) = [k \in 1..(count \div 2) |-> <<t[2 * k - 1], t[2 * k]>>]
  BY DEF SnapEdges, SelectInSeq, FirstOf, NoNumbers, CountOf
<1>2. n \in Nat
  BY TokensAre, LenProperties
<1>3. I = {i \in 1..n : t[i] \notin Nat}
  BY DEF NoNumbers
<1>4. count = IF FirstOf(I) = 0 THEN n ELSE FirstOf(I) - 1
  BY DEF CountOf
<1> HIDE DEF t, n, I, count
<1>5. CASE I = {}
  <2>1. count = n
    BY <1>2, <1>4, <1>5 DEF FirstOf
  <2> QED BY <1>1, <1>2, <1>3, <1>5, <2>1 DEF t, n, count
<1>6. CASE I # {}
  <2>1. I \in SUBSET (1..n)
    BY <1>3
  <2>2. FirstOf(I) \in I /\ FirstOf(I) # 0 /\ \A j \in 1..(FirstOf(I) - 1) : j \notin I
    BY <1>2, <1>6, <2>1, FirstIs
  <2> DEFINE f == FirstOf(I)
  <2>3. f \in 1..n /\ count = f - 1 /\ \A j \in 1..(f - 1) : j \notin I
    BY <1>4, <2>1, <2>2
  <2> HIDE DEF f
  <2>4. count \in 0..n /\ \A i \in 1..count : i \in 1..n /\ i \notin I
    BY <1>2, <2>3
  <2>5. \A i \in 1..count : t[i] \in Nat
    BY <1>3, <2>4
  <2> QED BY <1>1, <2>4, <2>5 DEF t, n, count
<1> QED BY <1>5, <1>6

LEMMA EdgesType ==
  ASSUME NEW file \in SnapFiles
  PROVE  SnapEdges(file) \in Seq(Seq(Nat)) /\ Read(SnapEdges(file), 2) = SnapEdges(file)
<1> DEFINE e == SnapEdges(file)
           count == CountOf(file)
           m == count \div 2
           t == Tokens(file)
<1>1. /\ count \in 0..Len(t) /\ \A i \in 1..count : t[i] \in Nat
      /\ e = [k \in 1..m |-> <<t[2 * k - 1], t[2 * k]>>]
  BY EdgesRead
<1>2. count \in Nat
  <2>1. Len(t) \in Nat
    BY TokensAre, LenProperties
  <2> HIDE DEF t, count
  <2> QED BY <1>1, <2>1
<1> HIDE DEF e, count, t
<1>3. m \in Nat /\ \A k \in 1..m : 2 * k - 1 \in 1..count /\ 2 * k \in 1..count
  BY <1>2
<1> HIDE DEF m
<1>4. ASSUME NEW k \in 1..m
      PROVE  e[k] = <<t[2 * k - 1], t[2 * k]>> /\ e[k] \in Seq(Nat) /\ Len(e[k]) = 2
  <2>1. t[2 * k - 1] \in Nat /\ t[2 * k] \in Nat
    BY <1>1, <1>3
  <2>2. e[k] = <<t[2 * k - 1], t[2 * k]>>
    BY <1>1
  <2> QED BY <2>1, <2>2
<1>5. e \in [1..m -> Seq(Nat)]
  BY <1>1, <1>4
<1>6. e \in Seq(Seq(Nat)) /\ Len(e) = m
  <2>1. e \in Seq(Seq(Nat)) /\ DOMAIN e = 1..m
    BY <1>3, <1>5
  <2> QED BY <1>3, <2>1, LenProperties
<1>7. \A j \in 1..Len(e) : Len(e[j]) >= 2 /\ Len(e[j]) \in Nat
  <2>1. ASSUME NEW j \in 1..Len(e) PROVE Len(e[j]) = 2
    BY <1>4, <1>6
  <2>2. ASSUME NEW l, l = 2 PROVE l >= 2 /\ l \in Nat
    BY <2>2
  <2> QED BY <2>1, <2>2
<1>8. Read(e, 2) = e
  BY <1>6, <1>7, ReadAll
<1> QED BY <1>6, <1>8 DEF e

\* The numbers of lines that are pairs, one after the other
PairsTo(f, s, k) ==
  /\ Len(f) = 2 * k
  /\ \A i \in 1..k : f[2 * i - 1] = s[i][1] /\ f[2 * i] = s[i][2]

LEMMA PairAfter ==
  ASSUME NEW S, NEW k \in Nat, NEW f \in Seq(S), NEW s, s[k + 1] \in Seq(S), Len(s[k + 1]) = 2,
         PairsTo(f, s, k)
  PROVE  PairsTo(f \o s[k + 1], s, k + 1)
<1> DEFINE p == s[k + 1]
           h == f \o p
<1>1. p \in Seq(S) /\ Len(p) = 2 /\ Len(f) = 2 * k
  BY DEF PairsTo
<1> HIDE DEF p
<1>2. Len(h) = Len(f) + Len(p)
  BY <1>1, ConcatProperties
<1>3. \A i \in 1..(Len(f) + Len(p)) : h[i] = IF i <= Len(f) THEN f[i] ELSE p[i - Len(f)]
  BY <1>1, ConcatProperties
<1> HIDE DEF h
<1>4. Len(h) = 2 * (k + 1) /\ \A i \in 1..(2 * k + 2) : h[i] = IF i <= 2 * k THEN f[i] ELSE p[i - 2 * k]
  BY <1>1, <1>2, <1>3
<1>5. ASSUME NEW i \in 1..(k + 1) PROVE h[2 * i - 1] = s[i][1] /\ h[2 * i] = s[i][2]
  <2>1. 2 * i - 1 \in 1..(2 * k + 2) /\ 2 * i \in 1..(2 * k + 2)
    OBVIOUS
  <2>2. CASE i <= k
    <3>1. i \in 1..k /\ 2 * i - 1 <= 2 * k /\ 2 * i <= 2 * k
      BY <2>2
    <3>2. f[2 * i - 1] = s[i][1] /\ f[2 * i] = s[i][2]
      BY <3>1 DEF PairsTo
    <3> QED BY <1>4, <2>1, <3>1, <3>2
  <2>3. CASE i = k + 1
    <3>1. /\ ~(2 * i - 1 <= 2 * k) /\ ~(2 * i <= 2 * k)
          /\ (2 * i - 1) - 2 * k = 1 /\ 2 * i - 2 * k = 2
      BY <2>3
    <3>2. h[2 * i - 1] = p[(2 * i - 1) - 2 * k] /\ h[2 * i] = p[2 * i - 2 * k]
      BY <1>4, <2>1, <3>1
    <3> QED BY <2>3, <3>1, <3>2 DEF p
  <2> QED BY <2>2, <2>3
<1> QED BY <1>4, <1>5 DEF PairsTo, h, p

LEMMA PairsFlat ==
  ASSUME NEW S, NEW s \in Seq(Seq(S)), \A i \in 1..Len(s) : Len(s[i]) = 2
  PROVE  PairsTo(FlattenSeq(s), s, Len(s))
<1> DEFINE n == Len(s)
<1>1. n \in Nat /\ s \in [1..n -> Seq(S)] /\ FlattenSeq(s) = Flat(s, n)
  BY FlattenIs
<1>2. \A i \in 1..n : Len(s[i]) = 2
  OBVIOUS
<1> HIDE DEF n
<1>3. /\ Flat(s, 0) = << >>
      /\ \A k \in 0..n : Flat(s, k) \in Seq(S)
      /\ \A k \in 1..n : Flat(s, k) = Flat(s, k - 1) \o s[k]
  BY <1>1, FlatIs
<1> DEFINE N == {k \in Nat : k <= n => PairsTo(Flat(s, k), s, k)}
<1>4. 0 \in N
  <2>1. Len(<< >>) = 2 * 0
    OBVIOUS
  <2> QED BY <1>3, <2>1 DEF PairsTo
<1>5. ASSUME NEW k \in Nat, k \in N PROVE k + 1 \in N
  <2> SUFFICES ASSUME k + 1 <= n PROVE PairsTo(Flat(s, k + 1), s, k + 1)
    OBVIOUS
  <2>1. k \in 0..n /\ k + 1 \in 1..n /\ (k + 1) - 1 = k /\ PairsTo(Flat(s, k), s, k)
    BY <1>1, <1>5
  <2>2. Flat(s, k) \in Seq(S) /\ Flat(s, k + 1) = Flat(s, k) \o s[k + 1]
    BY <1>3, <2>1
  <2>3. s[k + 1] \in Seq(S) /\ Len(s[k + 1]) = 2
    BY <1>1, <1>2, <2>1
  <2> QED BY <2>1, <2>2, <2>3, PairAfter
<1>6. Nat \subseteq N
  <2>1. \A k \in Nat : k \in N => k + 1 \in N
    BY <1>5
  <2> HIDE DEF N
  <2> QED BY <1>4, <2>1, Induction
<1>7. PairsTo(Flat(s, n), s, n)
  BY <1>1, <1>6
<1> QED BY <1>1, <1>7 DEF n

\* The pairs read of a well-formed file are its lines behind the comments
LEMMA WellFormedEdges ==
  ASSUME NEW file \in SnapFiles, NEW n \in 0..Len(file.lines), WellFormed(file, n)
  PROVE  SnapEdges(file) = SubSeq(file.lines, n + 1, Len(file.lines))
<1> DEFINE lines == file.lines
           N == Len(lines)
           I == NoComments(file)
           first == FirstOf(I)
           s == SubSeq(lines, n + 1, N)
           t == Tokens(file)
           count == CountOf(file)
<1>1. /\ lines \in Seq(Seq(SnapToken)) /\ N \in Nat
      /\ t = IF first = 0 \/ (first = N /\ ~file.ended) THEN << >>
             ELSE FlattenSeq(SubSeq(lines, first, N))
  BY TokensAre
<1>2. /\ n \in 0..N /\ \A i \in 1..n : IsComment(lines[i])
      /\ \A i \in (n + 1)..N : lines[i] \in Nat \X Nat
      /\ file.ended \/ n + 1 # N
  BY DEF WellFormed
<1>3. I = {i \in 1..N : ~IsComment(lines[i])}
  BY DEF NoComments
<1>4. /\ count \in 0..Len(t) /\ \A i \in 1..count : t[i] \in Nat
      /\ SnapEdges(file) = [k \in 1..(count \div 2) |-> <<t[2 * k - 1], t[2 * k]>>]
  BY EdgesRead
<1>5. count = IF FirstOf(NoNumbers(file)) = 0 THEN Len(t) ELSE FirstOf(NoNumbers(file)) - 1
  BY DEF CountOf
<1>6. NoNumbers(file) = {i \in 1..Len(t) : t[i] \notin Nat}
  BY DEF NoNumbers
<1> HIDE DEF lines, N, I, t, count
<1>7. ASSUME NEW i \in (n + 1)..N PROVE ~IsComment(lines[i])
  <2>1. lines[i] \in Nat \X Nat
    BY <1>2
  <2>2. lines[i][1] \in Nat
    BY <2>1
  <2> QED BY <2>2, ResultsAssumption DEF IsComment
<1>8. I = (n + 1)..N
  <2>1. (n + 1)..N \subseteq 1..N /\ \A i \in 1..N : i \in 1..n \/ i \in (n + 1)..N
    BY <1>1, <1>2
  <2> QED BY <1>2, <1>3, <1>7, <2>1
<1>9. CASE n = N
  <2>1. I = {} /\ first = 0
    BY <1>1, <1>8, <1>9 DEF FirstOf
  <2>2. t = << >> /\ Len(t) = 0
    BY <1>1, <2>1
  <2>3. count = 0
    BY <1>4, <2>2
  <2>4. SnapEdges(file) = << >>
    <3>1. count \div 2 = 0
      BY <2>3
    <3>2. [k \in 1..0 |-> <<t[2 * k - 1], t[2 * k]>>] = << >>
      OBVIOUS
    <3> QED BY <1>4, <3>1, <3>2
  <2>5. s = << >>
    BY <1>1, <1>9, SubSeqEmpty
  <2> QED BY <2>4, <2>5 DEF lines, N
<1>10. CASE n # N
  <2> DEFINE m == N - n
  <2>1. n + 1 \in 1..N /\ m \in Nat /\ N - (n + 1) + 1 = m
    BY <1>1, <1>2, <1>10
  <2>2. first = n + 1
    <3>1. I \in SUBSET (1..N) /\ n + 1 \in I
      BY <1>1, <1>8, <2>1
    <3>2. first \in I /\ \A j \in 1..(first - 1) : j \notin I
      BY <1>1, <3>1, FirstIs
    <3>3. first \in (n + 1)..N /\ ~(n + 1 \in 1..(first - 1))
      BY <1>8, <3>1, <3>2
    <3> HIDE DEF first
    <3> QED BY <1>1, <2>1, <3>3
  <2> HIDE DEF first
  <2>3. t = FlattenSeq(s)
    <3>1. first # 0 /\ ~(first = N /\ ~file.ended)
      BY <1>1, <1>2, <2>1, <2>2
    <3> QED BY <1>1, <2>2, <3>1
  <2> HIDE DEF m
  <2>4. s \in Seq(Seq(SnapToken)) /\ Len(s) = m /\ \A i \in 1..m : s[i] = lines[n + i]
    <3>1. \A i \in (n + 1)..N : lines[i] \in Seq(SnapToken)
      BY <1>1, <2>1, ElementOfSeq DEF N
    <3>2. /\ s \in Seq(Seq(SnapToken))
          /\ Len(s) = IF n + 1 <= N THEN N - (n + 1) + 1 ELSE 0
          /\ \A i \in 1..(N - (n + 1) + 1) : s[i] = lines[(n + 1) + i - 1]
      BY <1>1, <2>1, <3>1, SubSeqProperties DEF N
    <3> HIDE DEF s
    <3>3. Len(s) = m /\ \A i \in 1..m : s[i] = lines[(n + 1) + i - 1]
      <4>1. n + 1 <= N
        BY <1>1, <2>1
      <4> QED BY <2>1, <3>2, <4>1
    <3>4. \A i \in 1..m : (n + 1) + i - 1 = n + i
      BY <2>1
    <3> QED BY <3>2, <3>3, <3>4
  <2> HIDE DEF s
  <2>5. \A i \in 1..m : s[i] \in Nat \X Nat /\ Len(s[i]) = 2
    <3>1. \A i \in 1..m : n + i \in (n + 1)..N
      BY <1>1, <2>1 DEF m
    <3>2. \A i \in 1..m : s[i] \in Nat \X Nat
      BY <1>2, <2>4, <3>1
    <3>3. \A p \in Nat \X Nat : Len(p) = 2
      OBVIOUS
    <3> QED BY <3>2, <3>3
  <2>6. PairsTo(t, s, m)
    BY <2>3, <2>4, <2>5, PairsFlat
  <2>7. Len(t) = 2 * m /\ \A i \in 1..m : t[2 * i - 1] = s[i][1] /\ t[2 * i] = s[i][2]
    BY <2>6 DEF PairsTo
  <2>8. ASSUME NEW j \in 1..(2 * m) PROVE t[j] \in Nat
    <3>1. \A i \in 1..m : t[2 * i - 1] \in Nat /\ t[2 * i] \in Nat
      BY <2>5, <2>7
    <3>2. PICK i \in 1..m : j = 2 * i - 1 \/ j = 2 * i
      <4> DEFINE h == (j + 1) \div 2
      <4>1. h \in 1..m /\ (j = 2 * h - 1 \/ j = 2 * h)
        BY <2>1
      <4> QED BY <4>1
    <3> QED BY <3>1, <3>2
  <2>9. count = 2 * m
    <3>1. NoNumbers(file) = {}
      BY <1>6, <2>7, <2>8
    <3> QED BY <1>5, <2>7, <3>1 DEF FirstOf
  <2>10. count \div 2 = m
    BY <2>1, <2>9
  <2>11. SnapEdges(file) = [k \in 1..m |-> <<s[k][1], s[k][2]>>]
    BY <1>4, <2>7, <2>10
  <2>12. s = [k \in 1..m |-> <<s[k][1], s[k][2]>>]
    <3>1. \A k \in 1..m : s[k] = <<s[k][1], s[k][2]>>
      BY <2>5
    <3>2. s = [k \in 1..m |-> s[k]]
      BY <2>4, LenProperties
    <3> QED BY <3>1, <3>2
  <2>13. SnapEdges(file) = s
    BY <2>11, <2>12
  <2> QED BY <2>13 DEF s, lines, N
<1> QED BY <1>9, <1>10

\* What may be given for a SNAP file
SnapArg == {NoFile} \union SnapFiles

LEMMA SnapRead ==
  ASSUME NEW file \in SnapArg
  PROVE  LET r == FromSnapFormat(file)
         IN  /\ r.returns \in BOOLEAN /\ GraphOK(r.graph)
             /\ file # NoFile => SnapIs(r.graph, SnapEdges(file))
<1> DEFINE r == FromSnapFormat(file)
           g == [NoGraph EXCEPT !.layers = 1]
<1>1. CASE file = NoFile
  <2>1. r = [returns |-> FALSE, graph |-> g]
    BY <1>1 DEF FromSnapFormat
  <2>2. g \in Graphs /\ g.layers = 1 /\ g.hlinks = << >> /\ g.nodes = << >>
    <3>1. << >> \in Seq(Node) /\ << >> \in Seq(HLink)
      BY EmptySeq
    <3> QED BY <3>1 DEF NoGraph, Graphs
  <2> HIDE DEF g
  <2>3. GraphOK(g)
    <3>1. DOMAIN << >> = {}
      BY EmptySeq
    <3> QED BY <2>2, <3>1 DEF GraphOK
  <2> QED BY <1>1, <2>1, <2>3
<1>2. CASE file # NoFile
  <2> DEFINE e == SnapEdges(file)
             u == FoldLeft(AddSnapEdge, g, e)
  <2>1. r = [returns |-> TRUE, graph |-> u]
    BY <1>2 DEF FromSnapFormat
  <2>2. file \in SnapFiles
    BY <1>2 DEF SnapArg
  <2>3. e \in Seq(Seq(Nat)) /\ Read(e, 2) = e
    BY <2>2, EdgesType
  <2> HIDE DEF e
  <2>4. GraphOK(u) /\ SnapIs(u, e)
    BY <2>3, EdgesJoined
  <2> HIDE DEF u, r
  <2>5. r.returns = TRUE /\ r.graph = u
    BY <2>1
  <2> QED BY <2>4, <2>5 DEF r, e
<1> QED BY <1>1, <1>2

---------------------------------------------------------------------------
(* What is exported is read again *)

\* A line of a node file, made of a label and values
LEMMA LineMade ==
  ASSUME NEW S, NEW x \in S, NEW s \in Seq(S)
  PROVE  LET line == <<x>> \o s
         IN  /\ line \in Seq(S) /\ Len(line) = Len(s) + 1
             /\ Head(line) = x /\ Tail(line) = s
<1> DEFINE o == <<x>>
           line == o \o s
           n == Len(s)
           t == Tail(line)
<1>1. o \in Seq(S) /\ Len(o) = 1 /\ o[1] = x
  OBVIOUS
<1> HIDE DEF o
<1>2. line \in Seq(S) /\ Len(line) = Len(o) + Len(s)
  BY <1>1, ConcatProperties
<1>3. \A i \in 1..(Len(o) + Len(s)) : line[i] = IF i <= Len(o) THEN o[i] ELSE s[i - Len(o)]
  BY ONLY <1>1, s \in Seq(S), ConcatProperties
<1>4. n \in Nat /\ Len(line) = n + 1
  BY <1>1, <1>2, LenProperties
<1> HIDE DEF n, line
<1>5. line[1] = x /\ \A i \in 2..(n + 1) : line[i] = s[i - 1]
  <2>1. \A i \in 1..(n + 1) : line[i] = IF i <= 1 THEN o[i] ELSE s[i - 1]
    BY <1>1, <1>3, <1>4 DEF n
  <2>2. 1 \in 1..(n + 1)
    BY <1>4
  <2> QED BY <1>1, <1>4, <2>1, <2>2
<1>6. line # << >>
  BY <1>2, <1>4, EmptySeq
<1>7. Head(line) = x /\ t \in Seq(S) /\ Len(t) = n /\ \A i \in 1..n : t[i] = line[i + 1]
  BY <1>2, <1>4, <1>5, <1>6, HeadTailProperties
<1> HIDE DEF t
<1>8. \A i \in 1..n : t[i] = s[i]
  <2> SUFFICES ASSUME NEW i \in 1..n PROVE t[i] = s[i]
    OBVIOUS
  <2>1. i + 1 \in 2..(n + 1) /\ (i + 1) - 1 = i
    BY <1>4
  <2>2. line[i + 1] = s[(i + 1) - 1]
    BY <1>5, <2>1
  <2> QED BY <1>7, <2>1, <2>2
<1>9. t = s
  <2>1. Len(t) = Len(s) /\ \A i \in 1..Len(t) : t[i] = s[i]
    BY <1>7, <1>8 DEF n
  <2> QED BY <1>7, <2>1, SeqEqual
<1>10. line = <<x>> \o s
  BY DEF line, o
<1> QED BY <1>2, <1>4, <1>7, <1>9, <1>10 DEF n, t

\* The values written for a node: the last is another one
Values(signal, n, k) == [l \in 1..n |-> signal[IF l = n THEN k ELSE l]]

LEMMA ValuesAre ==
  ASSUME NEW S, NEW signal \in Seq(S), NEW n \in Nat, Len(signal) = n, NEW k \in 1..n
  PROVE  LET v == Values(signal, n, k)
         IN  v \in Seq(S) /\ Len(v) = n /\ Front(v) = Front(signal)
<1> DEFINE v == Values(signal, n, k)
<1>1. \A i \in 1..n : signal[i] \in S
  BY ElementOfSeq
<1>2. v \in [1..n -> S] /\ \A l \in 1..n : v[l] = signal[IF l = n THEN k ELSE l]
  BY <1>1 DEF Values
<1> HIDE DEF v
<1>3. v \in Seq(S) /\ Len(v) = n
  <2>1. v \in Seq(S) /\ DOMAIN v = 1..n
    BY <1>2
  <2> QED BY <2>1, LenProperties
<1> DEFINE a == Front(v)
           b == Front(signal)
<1>4. /\ a \in Seq(S) /\ Len(a) = n - 1 /\ \A i \in 1..(n - 1) : a[i] = v[i]
      /\ b \in Seq(S) /\ Len(b) = n - 1 /\ \A i \in 1..(n - 1) : b[i] = signal[i]
  <2>1. n - 1 \in Nat /\ 1..(n - 1) \subseteq 1..n
    OBVIOUS
  <2>2. a = SubSeq(v, 1, n - 1) /\ b = SubSeq(signal, 1, n - 1)
    BY <1>3 DEF Front
  <2>3. /\ SubSeq(v, 1, n - 1) \in Seq(S) /\ Len(SubSeq(v, 1, n - 1)) = n - 1
        /\ \A i \in 1..(n - 1) : SubSeq(v, 1, n - 1)[i] = v[i]
    BY <1>2, <1>3, <2>1
  <2>4. /\ SubSeq(signal, 1, n - 1) \in Seq(S) /\ Len(SubSeq(signal, 1, n - 1)) = n - 1
        /\ \A i \in 1..(n - 1) : SubSeq(signal, 1, n - 1)[i] = signal[i]
    BY <1>1, <2>1
  <2> HIDE DEF a, b
  <2> QED BY <2>2, <2>3, <2>4
<1> HIDE DEF a, b
<1>5. \A i \in 1..(n - 1) : a[i] = b[i]
  BY <1>2, <1>4
<1>6. a = b
  <2>1. Len(a) = Len(b) /\ \A i \in 1..Len(a) : a[i] = b[i]
    BY <1>4, <1>5
  <2> QED BY <1>4, <2>1, SeqEqual
<1> QED BY <1>3, <1>6 DEF a, b, v

\* What is written of these nodes and layers
NodesWritten(nodes, n) ==
  IF nodes = << >> THEN [returns |-> FALSE, file |-> NoFile]
  ELSE IF \E k \in DOMAIN nodes : k > n \/ Len(nodes[k].signal) < n
  THEN [returns |-> Throws, file |-> NoFile]
  ELSE [returns |-> TRUE,
        file |-> [size |-> n,
                  lines |-> [k \in DOMAIN nodes |-> <<nodes[k].label>> \o Values(nodes[k].signal, n, k)]]]

LEMMA WrittenIs == \A g : WriteTSNodes(g) = NodesWritten(g.nodes, g.layers)
BY DEF WriteTSNodes, NodesWritten, Values

\* What it takes for r to be g, but for the HLinks, when the nodes are read
\* again that were exported with n layers
NodesAgain(g, n, r) ==
  /\ r.returns = TRUE /\ GraphOK(r.graph) /\ r.graph.hlinks = << >>
  /\ n = g.layers /\ r.graph.layers = n
  /\ g.nodes # << >> /\ Len(r.graph.nodes) = Len(g.nodes)
  /\ \A k \in DOMAIN g.nodes :
       /\ r.graph.nodes[k].label = g.nodes[k].label
       /\ Front(r.graph.nodes[k].signal) = Front(g.nodes[k].signal)

LEMMA NodesReadAgain ==
  ASSUME NEW g, GraphOK(g), NEW n \in Nat, n >= g.layers,
         WriteTSNodes([g EXCEPT !.layers = n]).returns = TRUE
  PROVE  NodesAgain(g, n, ImportTSNodes(WriteTSNodes([g EXCEPT !.layers = n]).file))
<1> DEFINE N == g.nodes
           m == Len(N)
           line(k) == <<N[k].label>> \o Values(N[k].signal, n, k)
           lines == [k \in DOMAIN N |-> line(k)]
           file == [size |-> n, lines |-> lines]
           w == WriteTSNodes([g EXCEPT !.layers = n])
           bad == \E k \in DOMAIN N : k > n \/ Len(N[k].signal) < n
<1>1. /\ g \in Graphs /\ N \in Seq(Node) /\ m \in Nat /\ DOMAIN N = 1..m /\ g.layers \in Nat
      /\ \A k \in 1..m : Len(N[k].signal) <= g.layers
  BY LenProperties DEF GraphOK, Graphs
<1>2. \A k \in 1..m : N[k] \in Node /\ N[k].label \in Token /\ N[k].signal \in Seq(Token)
  <2>1. \A k \in 1..m : N[k] \in Node
    <3> HIDE DEF N
    <3> QED BY <1>1, ElementOfSeq
  <2> QED BY <2>1 DEF Node
<1>3. w = IF N = << >> THEN [returns |-> FALSE, file |-> NoFile]
          ELSE IF bad THEN [returns |-> Throws, file |-> NoFile]
          ELSE [returns |-> TRUE, file |-> file]
  <2>1. [g EXCEPT !.layers = n].nodes = N /\ [g EXCEPT !.layers = n].layers = n
    BY <1>1 DEF Graphs
  <2> DEFINE h == [g EXCEPT !.layers = n]
  <2> HIDE DEF h, N
  <2>2. h.nodes = N /\ h.layers = n
    BY <2>1 DEF h
  <2>3. w = NodesWritten(N, n)
    BY <2>2, WrittenIs DEF h
  <2> HIDE DEF w
  <2> QED BY <2>3 DEF NodesWritten
<1>4. w.returns = TRUE
  OBVIOUS
<1> HIDE DEF w, file, bad
<1>5. N # << >> /\ ~bad /\ w.file = file
  <2>1. Throws # TRUE
    BY ResultsAssumption
  <2>2. CASE N = << >>
    BY <1>3, <1>4, <2>2
  <2>3. CASE N # << >> /\ bad
    BY <1>3, <1>4, <2>1, <2>3
  <2>4. CASE N # << >> /\ ~bad
    BY <1>3, <2>4
  <2> QED BY <2>2, <2>3, <2>4
<1>6. \A k \in 1..m : k <= n /\ Len(N[k].signal) = n
  <2> SUFFICES ASSUME NEW k \in 1..m PROVE k <= n /\ Len(N[k].signal) = n
    OBVIOUS
  <2> DEFINE l == Len(N[k].signal)
  <2>1. ~(k > n) /\ ~(l < n) /\ l <= g.layers
    BY <1>1, <1>5 DEF bad
  <2>2. l \in Nat
    BY <1>2, LenProperties
  <2> HIDE DEF l
  <2>3. k <= n /\ l = n
    BY <1>1, <2>1, <2>2
  <2> QED BY <2>3 DEF l
<1>7. m # 0
  <2> HIDE DEF N
  <2> QED BY <1>1, <1>5, EmptySeq DEF m
<1>8. n = g.layers /\ n >= 1
  <2>1. 1 \in 1..m
    BY <1>1, <1>7
  <2>2. Len(N[1].signal) = n /\ Len(N[1].signal) <= g.layers /\ 1 <= n
    BY <1>1, <1>6, <2>1
  <2> DEFINE l == Len(N[1].signal)
  <2>3. l = n /\ l <= g.layers /\ 1 <= n
    BY <2>2
  <2> HIDE DEF l
  <2> QED BY <1>1, <2>3
<1> DEFINE V(k) == Values(N[k].signal, n, k)
<1>9. ASSUME NEW k \in 1..m
      PROVE  /\ V(k) \in Seq(Token) /\ Len(V(k)) = n /\ Front(V(k)) = Front(N[k].signal)
             /\ line(k) \in Seq(Token) /\ Len(line(k)) = n + 1
             /\ Head(line(k)) = N[k].label /\ Tail(line(k)) = V(k)
  <2> DEFINE s == N[k].signal
             x == N[k].label
             v == Values(s, n, k)
             ll == <<x>> \o v
  <2>1. s \in Seq(Token) /\ Len(s) = n /\ k \in 1..n /\ x \in Token
    BY <1>1, <1>2, <1>6
  <2> HIDE DEF s, x
  <2>2. v \in Seq(Token) /\ Len(v) = n /\ Front(v) = Front(s)
    BY <2>1, ValuesAre
  <2> HIDE DEF v
  <2>3. ll \in Seq(Token) /\ Len(ll) = n + 1 /\ Head(ll) = x /\ Tail(ll) = v
    BY <2>1, <2>2, LineMade
  <2>4. V(k) = v /\ line(k) = ll
    BY DEF s, x, v
  <2> HIDE DEF V, line, ll
  <2> QED BY <2>2, <2>3, <2>4 DEF s, x
<1> HIDE DEF V
<1>10. /\ lines \in Seq(Seq(Token)) /\ Len(lines) = m /\ DOMAIN lines = 1..m
       /\ \A k \in 1..m : lines[k] = line(k)
  <2>0. DOMAIN lines = 1..m /\ \A k \in 1..m : lines[k] = line(k)
    <3> HIDE DEF line, m, N
    <3> QED BY <1>1 DEF N
  <2>1. lines \in [1..m -> Seq(Token)] /\ \A k \in 1..m : lines[k] = line(k)
    <3>1. \A k \in 1..m : lines[k] \in Seq(Token)
      <4> HIDE DEF line, lines, m, N
      <4> QED BY <1>9, <2>0
    <3>2. lines = [k \in 1..m |-> lines[k]]
      <4> HIDE DEF line, m
      <4> QED BY <2>0
    <3> HIDE DEF lines, line, m
    <3> QED BY <2>0, <3>1, <3>2
  <2> HIDE DEF lines, m
  <2>2. lines \in Seq(Seq(Token)) /\ DOMAIN lines = 1..m
    BY <1>1, <2>1
  <2> QED BY <1>1, <2>1, <2>2, LenProperties
<1> HIDE DEF lines, line, N
<1>11. file \in NodeTable /\ file # NoFile /\ file.size = n /\ file.lines = lines
  <2>1. file \in NodeTable /\ file.size = n /\ file.lines = lines
    BY <1>8, <1>10 DEF NodeTable, file
  <2> QED BY <2>1, ResultsAssumption
<1>12. GoodTable(file)
  <2>1. \A k \in DOMAIN file.lines : Len(file.lines[k]) \in 2..(file.size + 1)
    BY <1>8, <1>9, <1>10, <1>11
  <2> QED BY <1>11, <2>1 DEF GoodTable
<1>13. Read(lines, 1) = lines
  <2>1. \A j \in 1..Len(lines) : Len(lines[j]) >= 1 /\ Len(lines[j]) \in Nat
    BY <1>9, <1>10
  <2> QED BY <1>10, <2>1, ReadAll
<1> DEFINE r == ImportTSNodes(file)
<1>14. r.returns = TRUE /\ GraphOK(r.graph) /\ r.graph.hlinks = << >>
  <2> HIDE DEF r
  <2> QED BY <1>11, <1>12, NodesRead DEF r
<1>15. /\ r.graph.layers = n
       /\ r.graph.nodes = [k \in 1..m |-> [label |-> Head(lines[k]), signal |-> Tail(lines[k])]]
  BY <1>10, <1>11, <1>13 DEF ImportTSNodes
<1> HIDE DEF r
<1>16. \A k \in 1..m : /\ r.graph.nodes[k].label = N[k].label
                       /\ Front(r.graph.nodes[k].signal) = Front(N[k].signal)
  <2> SUFFICES ASSUME NEW k \in 1..m
               PROVE  /\ r.graph.nodes[k].label = N[k].label
                      /\ Front(r.graph.nodes[k].signal) = Front(N[k].signal)
    OBVIOUS
  <2>1. lines[k] = line(k) /\ Head(line(k)) = N[k].label /\ Tail(line(k)) = V(k)
        /\ Front(V(k)) = Front(N[k].signal)
    BY <1>9, <1>10
  <2>2. r.graph.nodes[k].label = Head(lines[k]) /\ r.graph.nodes[k].signal = Tail(lines[k])
    BY <1>15
  <2> QED BY <2>1, <2>2
<1>17. Len(r.graph.nodes) = m
  <2>1. r.graph.nodes \in Seq(Node) /\ DOMAIN r.graph.nodes = 1..m
    BY <1>14, <1>15 DEF GraphOK, Graphs
  <2> QED BY <1>1, <2>1, LenProperties
<1>18. NodesAgain(g, n, r)
  BY <1>1, <1>5, <1>8, <1>14, <1>15, <1>16, <1>17 DEF N, m, NodesAgain
<1> QED BY <1>5, <1>18 DEF r, w

\* The lines written for HLinks
EdgesWritten(hlinks) ==
  [i \in DOMAIN hlinks |-> <<hlinks[i].ends[1] - 1, hlinks[i].ends[2] - 1, hlinks[i].weight>>]

LEMMA KeptAll ==
  ASSUME NEW r, NEW n \in Nat, \A j \in 1..n : r[j][1] # r[j][2]
  PROVE  \A j \in 1..n : j \in Kept(r, n) /\ Count(r, j) = j
<1>1. \A j \in 0..n : Kept(r, j) = 1..j
  BY DEF Kept
<1>2. \A j \in 0..n : Cardinality(1..j) = j
  BY FS_Interval
<1> QED BY <1>1, <1>2 DEF Count

\* Every link has its line, and the line gives the link again
LEMMA LinksReadAgain ==
  ASSUME NEW hlinks \in Seq(HLink), NEW m \in Nat, NEW g \in Graphs, g.hlinks = << >>,
         \A i \in DOMAIN hlinks : /\ {hlinks[i].ends[1], hlinks[i].ends[2]} \subseteq 1..m
                                  /\ hlinks[i].ends[1] # hlinks[i].ends[2]
  PROVE  LET lines == EdgesWritten(hlinks)
         IN  /\ lines \in Seq(Seq(Nat)) /\ Read(lines, 2) = lines /\ DOMAIN lines = DOMAIN hlinks
             /\ \A i \in DOMAIN lines : {lines[i][1], lines[i][2]} \subseteq 0..(m - 1)
             /\ LinesAdded("ts", g, lines) = [g EXCEPT !.hlinks = hlinks]
<1> DEFINE lines == EdgesWritten(hlinks)
           n == Len(hlinks)
<1>1. n \in Nat /\ DOMAIN hlinks = 1..n /\ \A i \in 1..n : hlinks[i] \in HLink
  BY LenProperties, ElementOfSeq
<1>2. ASSUME NEW i \in 1..n
      PROVE  LET line == <<hlinks[i].ends[1] - 1, hlinks[i].ends[2] - 1, hlinks[i].weight>>
             IN  /\ line \in Seq(Nat) /\ Len(line) = 3 /\ line[1] # line[2]
                 /\ {line[1], line[2]} \subseteq 0..(m - 1)
                 /\ HLinkOfLine(line) = hlinks[i]
  <2> DEFINE x == hlinks[i]
             e1 == x.ends[1]
             e2 == x.ends[2]
             line == <<e1 - 1, e2 - 1, x.weight>>
  <2>1. x \in HLink /\ e1 \in 1..m /\ e2 \in 1..m /\ e1 # e2
    BY <1>1
  <2>2. x = [ends |-> <<e1, e2>>, weight |-> DefaultWeight]
    BY <2>1 DEF HLink
  <2>3. x.weight = 1
    BY <2>1 DEF HLink, DefaultWeight
  <2> HIDE DEF x, e1, e2
  <2>4. e1 - 1 \in 0..(m - 1) /\ e2 - 1 \in 0..(m - 1) /\ e1 - 1 # e2 - 1 /\ (e1 - 1) + 1 = e1 /\ (e2 - 1) + 1 = e2
    BY <2>1
  <2> DEFINE a == e1 - 1
             b == e2 - 1
  <2>5. line = <<a, b, 1>> /\ a \in Nat /\ b \in Nat
    BY <2>3, <2>4
  <2>6. a + 1 = e1 /\ b + 1 = e2 /\ a # b /\ {a, b} \subseteq 0..(m - 1)
    BY <2>4
  <2> HIDE DEF line, a, b
  <2>7. line \in Seq(Nat) /\ Len(line) = 3 /\ line[1] = a /\ line[2] = b
    BY <2>5
  <2>8. HLinkOfLine(line) = x
    BY <2>2, <2>6, <2>7 DEF HLinkOfLine
  <2> QED BY <2>6, <2>7, <2>8 DEF line, e1, e2, x
<1>3. ASSUME NEW i \in 1..n
      PROVE  /\ lines[i] \in Seq(Nat) /\ Len(lines[i]) = 3 /\ lines[i][1] # lines[i][2]
             /\ {lines[i][1], lines[i][2]} \subseteq 0..(m - 1)
             /\ HLinkOfLine(lines[i]) = hlinks[i]
  <2>1. lines[i] = <<hlinks[i].ends[1] - 1, hlinks[i].ends[2] - 1, hlinks[i].weight>>
    BY <1>1 DEF EdgesWritten
  <2> HIDE DEF lines
  <2> QED BY <1>2, <2>1
<1>4. lines \in Seq(Seq(Nat)) /\ DOMAIN lines = 1..n /\ Len(lines) = n
  <2>1. DOMAIN lines = 1..n /\ lines = [i \in 1..n |-> lines[i]]
    BY <1>1 DEF EdgesWritten
  <2> HIDE DEF lines
  <2>2. lines \in [1..n -> Seq(Nat)]
    BY <1>3, <2>1
  <2>3. lines \in Seq(Seq(Nat))
    <3>1. n \in Nat
      BY <1>1
    <3> HIDE DEF n
    <3> QED BY <2>2, <3>1
  <2> QED BY <1>1, <2>1, <2>3, LenProperties
<1> HIDE DEF lines
<1>5. Read(lines, 2) = lines
  <2>1. \A j \in 1..Len(lines) : Len(lines[j]) >= 2 /\ Len(lines[j]) \in Nat
    BY <1>3, <1>4
  <2> QED BY <1>4, <2>1, ReadAll
<1>6. GoodLines(lines)
  <2>1. GoodLines(Read(lines, 2))
    BY <1>4, GoodRead
  <2> QED BY <1>5, <2>1
<1> DEFINE u == LinesAdded("ts", g, lines)
<1>7. /\ u \in Graphs /\ u.layers = g.layers /\ u.nodes = g.nodes
      /\ Gathered(u.hlinks, lines, FromEdges(lines), n)
  <2>1. /\ u \in Graphs /\ u.layers = g.layers /\ u.nodes = g.nodes
        /\ Gathered(u.hlinks, lines, FromEdges(lines), Len(lines))
    <3> HIDE DEF u
    <3> QED BY <1>6, EdgesAdded DEF u
  <2> QED BY <1>4, <2>1
<1> HIDE DEF u
<1>8. \A j \in 1..n : j \in Kept(lines, n) /\ Count(lines, j) = j
  <2>1. \A j \in 1..n : lines[j][1] # lines[j][2]
    BY <1>3
  <2> QED BY <1>1, <2>1, KeptAll
<1>9. u.hlinks = hlinks
  <2> DEFINE h == u.hlinks
  <2>1. h \in Seq(HLink) /\ Len(h) = Count(lines, n) /\ \A j \in Kept(lines, n) : h[Count(lines, j)] \in FromEdges(lines)[j]
    BY <1>7 DEF Gathered
  <2>2. Count(lines, n) = n
    <3>1. CASE n = 0
      <4>1. Kept(lines, 0) = {}
        BY KeptNone
      <4> QED BY <3>1, <4>1, FS_EmptySet DEF Count
    <3>2. CASE n # 0
      BY <1>1, <1>8, <3>2
    <3> QED BY <3>1, <3>2
  <2>3. \A j \in 1..n : FromEdges(lines)[j] = {hlinks[j]}
    BY <1>3, <1>4 DEF FromEdges
  <2> HIDE DEF h
  <2>4. \A j \in 1..n : h[j] = hlinks[j]
    BY <1>8, <2>1, <2>3
  <2>5. Len(h) = Len(hlinks) /\ \A j \in 1..Len(h) : h[j] = hlinks[j]
    BY <2>1, <2>2, <2>4
  <2> HIDE DEF n
  <2>6. h = hlinks
    BY <2>1, <2>5, SeqEqual
  <2> QED BY <2>6 DEF h
<1>10. u = [g EXCEPT !.hlinks = hlinks]
  BY <1>7, <1>9 DEF Graphs
<1> QED BY <1>1, <1>3, <1>4, <1>5, <1>10 DEF u, lines

LEMMA EdgesAre ==
  \A g : WriteTSEdges(g) = IF g.hlinks = << >> THEN [returns |-> Throws, file |-> NoFile]
                           ELSE [returns |-> TRUE, file |-> EdgesWritten(g.hlinks)]
BY DEF WriteTSEdges, EdgesWritten

LEMMA EdgesImported ==
  ASSUME NEW g, NEW file, file # NoFile, g.nodes # << >>,
         \A i \in DOMAIN Read(file, 2) :
           {Read(file, 2)[i][1], Read(file, 2)[i][2]} \subseteq 0..(Len(g.nodes) - 1)
  PROVE  ImportTSEdges(g, file) = [returns |-> TRUE, graph |-> LinesAdded("ts", g, Read(file, 2))]
<1> DEFINE lines == Read(file, 2)
           u == LinesAdded("ts", g, lines)
<1>1. u = FoldLeft(AddTSLine, g, lines)
  BY DEF LinesAdded
<1> DEFINE known(line) == {line[1], line[2]} \subseteq 0..(Len(g.nodes) - 1)
           Known == \A i \in DOMAIN lines : lines[i][1] # lines[i][2] => known(lines[i])
<1>2. ImportTSEdges(g, file) =
        IF file = NoFile \/ g.nodes = << >> THEN [returns |-> FALSE, graph |-> g]
        ELSE IF Known THEN [returns |-> TRUE, graph |-> u] ELSE [returns |-> Throws, graph |-> g]
  BY <1>1 DEF ImportTSEdges
<1>3. Known
  OBVIOUS
<1> HIDE DEF Known, u
<1> QED BY <1>2, <1>3 DEF u

\* What is exported of g with n layers, if it can be
LEMMA ExportedAgain ==
  ASSUME NEW g, GraphOK(g), NEW n \in Nat, n >= g.layers,
         ToTimeSeries([g EXCEPT !.layers = n]).returns = TRUE
  PROVE  LET e == ToTimeSeries([g EXCEPT !.layers = n])
             r == FromTimeSeries(e.nodes, e.edges)
         IN  /\ r.returns = TRUE /\ r.graph \in Graphs
             /\ r.graph.layers = g.layers /\ r.graph.hlinks = g.hlinks
             /\ Len(r.graph.nodes) = Len(g.nodes)
             /\ \A k \in DOMAIN g.nodes :
                  /\ r.graph.nodes[k].label = g.nodes[k].label
                  /\ Front(r.graph.nodes[k].signal) = Front(g.nodes[k].signal)
<1> DEFINE w == [g EXCEPT !.layers = n]
           e == ToTimeSeries(w)
           nodes == WriteTSNodes(w)
           edges == WriteTSEdges(w)
           f == nodes.file
           lines == EdgesWritten(g.hlinks)
           read == ImportTSNodes(f)
           h == read.graph
           r == FromTimeSeries(e.nodes, e.edges)
<1>1. e = [returns |-> IF nodes.returns = TRUE THEN edges.returns ELSE nodes.returns,
           nodes |-> nodes.file, edges |-> edges.file]
  BY DEF ToTimeSeries
<1>2. g \in Graphs /\ w.hlinks = g.hlinks
  BY DEF GraphOK, Graphs
<1>3. edges = IF g.hlinks = << >> THEN [returns |-> Throws, file |-> NoFile]
              ELSE [returns |-> TRUE, file |-> lines]
  <2> HIDE DEF lines, w
  <2> QED BY <1>2, EdgesAre DEF lines
<1>4. e.returns = TRUE
  OBVIOUS
<1> HIDE DEF e, edges, lines
<1>5. nodes.returns = TRUE /\ edges.returns = TRUE /\ e.nodes = f /\ e.edges = edges.file
  <2> HIDE DEF nodes
  <2> QED BY <1>1, <1>4
<1>6. g.hlinks # << >> /\ edges.file = lines
  BY <1>3, <1>5, ResultsAssumption
<1>7. /\ read.returns = TRUE /\ GraphOK(h) /\ h.hlinks = << >>
      /\ n = g.layers /\ h.layers = n
      /\ g.nodes # << >> /\ Len(h.nodes) = Len(g.nodes)
      /\ \A k \in DOMAIN g.nodes :
           /\ h.nodes[k].label = g.nodes[k].label
           /\ Front(h.nodes[k].signal) = Front(g.nodes[k].signal)
  <2>1. WriteTSNodes([g EXCEPT !.layers = n]).returns = TRUE
    BY <1>5
  <2>2. NodesAgain(g, n, ImportTSNodes(WriteTSNodes([g EXCEPT !.layers = n]).file))
    BY <2>1, NodesReadAgain
  <2>3. NodesAgain(g, n, read)
    BY <2>2
  <2> HIDE DEF read
  <2> QED BY <2>3 DEF NodesAgain
<1> HIDE DEF w, nodes, f
<1>8. r = ImportTSEdges(h, lines)
  <2>1. r = FromTimeSeries(f, lines)
    BY <1>5, <1>6
  <2> QED BY <1>7, <2>1 DEF FromTimeSeries
<1> HIDE DEF r, read, h
<1> DEFINE m == Len(g.nodes)
<1>9. m \in Nat /\ DOMAIN g.nodes = 1..m /\ m # 0
  BY <1>2, <1>7, LenProperties, EmptySeq DEF Graphs
<1>10. h.nodes # << >> /\ h \in Graphs
  <2>1. h \in Graphs /\ h.nodes \in Seq(Node) /\ Len(h.nodes) = m
    BY <1>7 DEF GraphOK, Graphs
  <2> QED BY <1>9, <2>1, EmptySeq
<1>11. /\ lines \in Seq(Seq(Nat)) /\ Read(lines, 2) = lines
       /\ \A i \in DOMAIN lines : {lines[i][1], lines[i][2]} \subseteq 0..(m - 1)
       /\ LinesAdded("ts", h, lines) = [h EXCEPT !.hlinks = g.hlinks]
  <2> DEFINE hlinks == g.hlinks
  <2>1. hlinks \in Seq(HLink)
    BY <1>2 DEF Graphs
  <2>2. \A i \in DOMAIN hlinks : /\ {hlinks[i].ends[1], hlinks[i].ends[2]} \subseteq 1..m
                                 /\ hlinks[i].ends[1] # hlinks[i].ends[2]
    BY <1>9 DEF GraphOK, Between
  <2> HIDE DEF m, hlinks
  <2> QED BY <1>7, <1>9, <1>10, <2>1, <2>2, LinksReadAgain DEF lines, hlinks
<1>12. lines # NoFile
  BY <1>11, ResultsAssumption
<1> DEFINE u == [h EXCEPT !.hlinks = g.hlinks]
<1>13. r = [returns |-> TRUE, graph |-> u]
  <2> HIDE DEF u, m
  <2>1. LinesAdded("ts", h, Read(lines, 2)) = u
    BY <1>11 DEF u
  <2>2. \A i \in DOMAIN Read(lines, 2) :
          {Read(lines, 2)[i][1], Read(lines, 2)[i][2]} \subseteq 0..(Len(h.nodes) - 1)
    BY <1>7, <1>11 DEF m
  <2>3. ImportTSEdges(h, lines) = [returns |-> TRUE, graph |-> LinesAdded("ts", h, Read(lines, 2))]
    BY <1>10, <1>12, <2>2, EdgesImported
  <2> QED BY <1>8, <2>1, <2>3
<1>14. u \in Graphs /\ u.layers = h.layers /\ u.nodes = h.nodes /\ u.hlinks = g.hlinks
  BY <1>2, <1>10 DEF Graphs
<1> HIDE DEF u
<1>15. r.returns = TRUE /\ r.graph = u
  BY <1>13
<1> QED BY <1>7, <1>14, <1>15 DEF r, e, w

---------------------------------------------------------------------------
(* The databases *)

DbOK(db) == GraphOK(db.graph) /\ db.written \in Seq(Nat) /\ Len(db.written) = db.graph.layers

Typed ==
  /\ session \in BOOLEAN /\ tx \in BOOLEAN /\ ok \in BOOLEAN
  /\ pc \in Ended \union {"opened", "running", "writing", "coarsening", "ran"}
  /\ left \in 0..MaxIterations /\ layer \in Nat /\ launches \in 0..MaxLaunches
  /\ pc = "idle" => disk = NoDatabase /\ work = NoDatabase /\ tool.name = "ts_export"
  /\ pc # "idle" => tool \in Parser \union Other /\ DbOK(disk) /\ DbOK(work)
  /\ pc \in {"running", "writing", "ran"} /\ tool.name = "ts_filter" => left > 0

LEMMA EmptyOK == DbOK(Empty)
<1>1. << >> \in Seq(Node) /\ << >> \in Seq(HLink) /\ << >> \in Seq(Nat) /\ DOMAIN << >> = {} /\ Len(<< >>) = 0
  BY EmptySeq
<1>2. NoGraph \in Graphs /\ NoGraph.nodes = << >> /\ NoGraph.hlinks = << >> /\ NoGraph.layers = 0
  BY <1>1 DEF NoGraph, Graphs
<1>3. GraphOK(NoGraph)
  BY <1>1, <1>2 DEF GraphOK
<1>4. Empty.graph = NoGraph /\ Empty.written = << >>
  BY DEF Empty
<1> QED BY <1>1, <1>2, <1>3, <1>4 DEF DbOK

\* The arguments of a tool
LEMMA Arguments ==
  /\ \A t \in Parser : /\ t.name = "ts_parser" => GoodTable(t.nodes) /\ t.edges \in LineFile
                       /\ t.name = "snap_parser" => t.file \in SnapArg
                       /\ t.name \in {"ts_parser", "snap_parser"}
  /\ \A t \in Other : /\ t.name = "ts_filter" => t.numIt \in 0..MaxIterations
                      /\ t.name = "coarsener" => t.plan \in Seq(Parts)
                      /\ t.name \in {"ts_filter", "coarsener", "ts_export"}
<1>1. \A file \in NodeFile : GoodTable(file)
  BY FilesAssumption DEF GoodTable
<1>2. EdgeFile \subseteq LineFile /\ SnapFile \subseteq SnapArg
  BY FilesAssumption DEF LineFile, SnapArg
<1>3. \A t \in Parser : /\ t.name = "ts_parser" => t.nodes \in NodeFile /\ t.edges \in EdgeFile
                        /\ t.name = "snap_parser" => t.file \in SnapFile
                        /\ t.name \in {"ts_parser", "snap_parser"}
  BY DEF Parser
<1>4. \A t \in Other : /\ t.name = "ts_filter" => t.numIt \in 0..MaxIterations
                       /\ t.name = "coarsener" => t.plan \in Plan
                       /\ t.name \in {"ts_filter", "coarsener", "ts_export"}
  BY DEF Other
<1> QED BY <1>1, <1>2, <1>3, <1>4, PlanAssumption

\* What an importer returns is a graph
LEMMA ImportGives ==
  ASSUME Typed, TSParserImport \/ SnapParserImport
  PROVE  \E r : Imported(r) /\ GraphOK(r.graph)
<1>1. pc = "running" /\ tool \in Parser \union Other
  BY DEF Typed, TSParserImport, SnapParserImport
<1>2. CASE TSParserImport
  <2> DEFINE r == FromTimeSeries(tool.nodes, tool.edges)
  <2>1. tool.name = "ts_parser" /\ Imported(r)
    BY <1>2 DEF TSParserImport
  <2>2. GoodTable(tool.nodes) /\ tool.edges \in LineFile
    BY <1>1, <2>1, Arguments
  <2>3. r.returns \in BOOLEAN
    BY <2>1 DEF Imported
  <2>4. GraphOK(r.graph)
    BY <2>2, <2>3, TimeSeriesRead
  <2> HIDE DEF r
  <2> QED BY <2>1, <2>4
<1>3. CASE SnapParserImport
  <2> DEFINE r == FromSnapFormat(tool.file)
  <2>1. tool.name = "snap_parser" /\ Imported(r)
    BY <1>3 DEF SnapParserImport
  <2>2. tool.file \in SnapArg
    BY <1>1, <2>1, Arguments
  <2>3. GraphOK(r.graph)
    BY <2>2, SnapRead
  <2> HIDE DEF r
  <2> QED BY <2>1, <2>3
<1> QED BY <1>2, <1>3

LEMMA ImportTyped ==
  ASSUME IInv, Open, Typed, TSParserImport \/ SnapParserImport
  PROVE  Typed'
<1>1. PICK r : Imported(r) /\ GraphOK(r.graph)
  BY ImportGives
<1> DEFINE written == [l \in 1..r.graph.layers |-> 0]
<1>2. /\ r.returns \in BOOLEAN /\ ok' = r.returns /\ pc' = "ran"
      /\ work' = [work EXCEPT !.graph = r.graph, !.written = written]
      /\ UNCHANGED <<disk, session, tx, tool, left, layer, launches>>
  BY <1>1 DEF Imported, rest
<1>3. pc = "running" /\ tool.name \in {"ts_parser", "snap_parser"}
  BY DEF TSParserImport, SnapParserImport
<1>4. r.graph.layers \in Nat
  BY <1>1 DEF GraphOK, Graphs
<1>5. written \in Seq(Nat) /\ Len(written) = r.graph.layers
  <2> DEFINE n == r.graph.layers
  <2>1. written \in [1..n -> Nat]
    OBVIOUS
  <2> HIDE DEF n, written
  <2>2. written \in Seq(Nat) /\ DOMAIN written = 1..n
    BY <1>4, <2>1 DEF n
  <2> QED BY <1>4, <2>2, LenProperties DEF n
<1> HIDE DEF written
<1>6. work'.graph = r.graph /\ work'.written = written
  <2>1. {"graph", "coarse", "written"} \subseteq DOMAIN work
    BY <1>3, WorkHas DEF Running, Ended
  <2> QED BY <1>2, <2>1
<1>7. DbOK(work')
  BY <1>1, <1>5, <1>6 DEF DbOK
<1> QED BY <1>2, <1>3, <1>7 DEF Typed, Ended

LEMMA LaunchTyped ==
  ASSUME Typed, NEW t \in Parser \union Other, Launch(t)
  PROVE  Typed'
<1>1. DbOK(disk') /\ work' = disk' /\ tool' = t /\ session' = TRUE /\ pc' = "opened" /\ ok' = TRUE
      /\ layer' = 0 /\ tx' = tx
  BY EmptyOK DEF Launch, Typed
<1>2. left' \in 0..MaxIterations
  <2>1. CASE t.name = "ts_filter"
    <3>1. t \in Other
      BY <2>1, Arguments
    <3> QED BY <2>1, <3>1, Arguments DEF Launch
  <2>2. CASE t.name # "ts_filter"
    BY <2>2, BoundsAssumption DEF Launch
  <2> QED BY <2>1, <2>2
<1>3. launches' \in 0..MaxLaunches
  BY BoundsAssumption DEF Launch, Typed
<1> QED BY <1>1, <1>2, <1>3 DEF Typed, Ended

LEMMA WriteTyped ==
  ASSUME IInv, Typed, FilterWrite
  PROVE  Typed'
<1>1. /\ pc = "writing" /\ layer' = layer + 1
      /\ work' = [work EXCEPT !.written[layer + 1] = @ + 1]
      /\ UNCHANGED <<disk, session, tx, tool, pc, ok, left, launches>>
  BY DEF FilterWrite
<1> DEFINE w == work.written
           v == [w EXCEPT ![layer + 1] = @ + 1]
<1>2. work'.graph = work.graph /\ work'.written = v
  <2>1. {"graph", "coarse", "written"} \subseteq DOMAIN work
    BY <1>1, WorkHas DEF Running, Ended
  <2> QED BY <1>1, <2>1
<1>3. w \in Seq(Nat) /\ GraphOK(work.graph) /\ Len(w) = work.graph.layers
  BY <1>1 DEF Typed, DbOK
<1> HIDE DEF w
<1>4. v \in Seq(Nat) /\ Len(v) = Len(w)
  <2> DEFINE n == Len(w)
  <2>1. n \in Nat /\ w \in [1..n -> Nat] /\ DOMAIN w = 1..n
    BY <1>3, LenProperties
  <2>2. v \in [1..n -> Nat] /\ DOMAIN v = 1..n
    <3> HIDE DEF n
    <3>1. \A i \in 1..n : v[i] = IF i = layer + 1 THEN w[i] + 1 ELSE w[i]
      BY <2>1
    <3>2. \A i \in 1..n : v[i] \in Nat
      <4> HIDE DEF v
      <4> QED BY <2>1, <3>1
    <3>3. DOMAIN v = 1..n /\ v = [i \in 1..n |-> v[i]]
      BY <2>1
    <3> QED BY <3>2, <3>3
  <2> HIDE DEF n, v
  <2>3. v \in Seq(Nat)
    BY <2>1, <2>2
  <2> QED BY <2>1, <2>2, <2>3, LenProperties DEF n
<1> HIDE DEF v
<1>5. DbOK(work')
  BY <1>2, <1>3, <1>4 DEF DbOK
<1>6. layer' \in Nat
  BY <1>1 DEF Typed
<1> QED BY <1>1, <1>5, <1>6 DEF Typed

LEMMA ParseTyped ==
  ASSUME Typed, CoarsenerParse
  PROVE  Typed'
<1> DEFINE parsed == FromRawString(tool.plan)
<1>1. /\ tool.name = "coarsener" /\ pc = "opened" /\ ok' = parsed.ok /\ tx' = parsed.ok /\ session' = parsed.ok
      /\ pc' = IF parsed.ok THEN "running" ELSE "failure"
      /\ UNCHANGED <<disk, work, tool, left, layer, launches>>
  BY DEF CoarsenerParse
<1>2. tool.plan \in Seq(Parts)
  BY <1>1, Arguments DEF Typed
<1>3. parsed.ok \in BOOLEAN
  BY <1>2, ParserRight DEF States
<1> HIDE DEF parsed
<1> QED BY <1>1, <1>3 DEF Typed, Ended

\* The graph and what was written stay, or both databases are one of the two
LEMMA SameGraph ==
  ASSUME Typed, pc # "idle", pc' # "idle", tool' = tool, layer' = layer \/ layer' = 0, launches' = launches,
         pc' \in Ended \union {"opened", "running", "writing", "coarsening", "ran"},
         session' \in BOOLEAN, tx' \in BOOLEAN, ok' \in BOOLEAN, left' \in 0..MaxIterations,
         disk' = disk \/ disk' = work,
         \/ work' = disk
         \/ work'.graph = work.graph /\ work'.written = work.written,
         pc' \in {"running", "writing", "ran"} /\ tool.name = "ts_filter" => left' > 0
  PROVE  Typed'
<1>1. DbOK(disk) /\ DbOK(work) /\ tool \in Parser \union Other
  BY DEF Typed
<1>2. DbOK(disk') /\ DbOK(work')
  BY <1>1 DEF DbOK
<1>3. layer' \in Nat /\ launches' \in 0..MaxLaunches
  BY DEF Typed
<1> QED BY <1>1, <1>2, <1>3 DEF Typed

LEMMA CoarseOnly ==
  ASSUME IInv, RunStep \/ StepDone
  PROVE  work'.graph = work.graph /\ work'.written = work.written
<1>1. {"graph", "coarse", "written"} \subseteq DOMAIN work
  BY WorkHas DEF RunStep, StepDone, Running, Ended
<1>2. CASE RunStep
  BY <1>1, <1>2 DEF RunStep
<1>3. CASE StepDone
  BY <1>1, <1>3 DEF StepDone
<1> QED BY <1>2, <1>3

LEMMA NextTyped == IInv /\ Open /\ Typed /\ [Next]_vars => Typed'
<1> SUFFICES ASSUME IInv, Open, Typed, [Next]_vars PROVE Typed'
  OBVIOUS
<1>t. /\ session \in BOOLEAN /\ tx \in BOOLEAN /\ ok \in BOOLEAN /\ left \in 0..MaxIterations
      /\ pc \in {"running", "writing", "ran"} /\ tool.name = "ts_filter" => left > 0
  BY DEF Typed
<1>1. CASE \E t \in Parser \union Other : Launch(t)
  BY <1>1, LaunchTyped
<1>2. CASE Begin("ts_parser") \/ Begin("snap_parser") \/ FilterBegin
  BY <1>2, <1>t, SameGraph DEF Begin, FilterBegin, rest
<1>3. CASE TSParserImport \/ SnapParserImport
  BY <1>3, ImportTyped
<1>4. CASE TSParserCommit \/ SnapParserCommit \/ CoarsenerCommit
  BY <1>4, <1>t, SameGraph DEF TSParserCommit, SnapParserCommit, CoarsenerCommit, Commit, Exit, Ended
<1>5. CASE FilterCommit
  <2>1. left' \in 0..MaxIterations
    <3>1. left > 0
      BY <1>5, <1>t DEF FilterCommit, Commit
    <3>2. left - 1 \in 0..MaxIterations
      BY <1>t, <3>1, BoundsAssumption
    <3> QED BY <1>5, <1>t, <3>2 DEF FilterCommit
  <2> QED BY <1>5, <1>t, <2>1, SameGraph DEF FilterCommit, Commit, Exit, Ended
<1>6. CASE FilterUnknown \/ FilterExec \/ FilterDone \/ FilterEnd
  BY <1>6, <1>t, SameGraph DEF FilterUnknown, FilterExec, FilterDone, FilterEnd, Exit, rest, Ended
<1>7. CASE FilterWrite
  BY <1>7, WriteTyped
<1>8. CASE CoarsenerParse
  BY <1>8, ParseTyped
<1>9. CASE RunStep \/ StepDone
  <2>1. work'.graph = work.graph /\ work'.written = work.written
    BY <1>9, CoarseOnly
  <2>2. tool.name = "coarsener"
    BY <1>9 DEF RunStep, StepDone, Open
  <2> QED BY <1>9, <1>t, <2>1, <2>2, SameGraph DEF RunStep, StepDone, rest, Ended
<1>10. CASE StepFails
  <2>1. tool.name = "coarsener"
    BY <1>10 DEF StepFails, Open
  <2> QED BY <1>10, <1>t, <2>1, SameGraph DEF StepFails, Ended
<1>11. CASE Export
  BY <1>11, <1>t, SameGraph DEF Export, Exit, Ended
<1>12. CASE Die
  <2>1. pc # "idle"
    BY <1>12 DEF Die, Running, Ended
  <2> QED BY <1>12, <1>t, <2>1, SameGraph DEF Die, Exit, Ended
<1>13. CASE UNCHANGED vars
  BY <1>13 DEF vars, rest, Typed
<1> QED
  BY <1>1, <1>2, <1>3, <1>4, <1>5, <1>6, <1>7, <1>8, <1>9, <1>10, <1>11, <1>12, <1>13 DEF Next, Step

LEMMA InitTyped == Init => Typed
<1>1. 0 \in 0..MaxIterations /\ 0 \in 0..MaxLaunches /\ 0 \in Nat
  BY BoundsAssumption
<1>2. Init => /\ disk = NoDatabase /\ work = NoDatabase /\ session = FALSE /\ tx = FALSE /\ ok = TRUE
              /\ tool.name = "ts_export" /\ pc = "idle" /\ left = 0 /\ layer = 0 /\ launches = 0
  BY DEF Init
<1> QED BY <1>1, <1>2 DEF Typed, Ended

LEMMA TypedIsTypeOK == Typed => TypeOK
<1> SUFFICES ASSUME Typed PROVE TypeOK
  OBVIOUS
<1>1. \A db : DbOK(db) => DatabaseOK(db)
  BY DEF DbOK, GraphOK, Between, DatabaseOK
<1>2. \A db \in {disk, work} : db = NoDatabase \/ DatabaseOK(db)
  BY <1>1 DEF Typed
<1> QED BY <1>2 DEF Typed, TypeOK, Running, Ended

\* Every HLink in the database joins two nodes that are in it, and no node has
\* a longer signal than there are layers, whatever the files and the tools.
THEOREM TypeCorrect == Spec => []TypeOK
<1>1. Init => IInv /\ Open /\ Typed
  BY InitIInv, InitOpen, InitTyped
<1>2. IInv /\ Open /\ Typed /\ [Next]_vars => IInv' /\ Open' /\ Typed'
  BY NextIInv, NextOpen, NextTyped
<1>3. Spec => [](IInv /\ Open /\ Typed)
  BY <1>1, <1>2, PTL DEF Spec
<1> QED BY <1>3, TypedIsTypeOK, PTL

---------------------------------------------------------------------------
(* What the parsers and ts_export have done *)

Returned(r) == r.returns \in BOOLEAN /\ ok = r.returns /\ work.graph = r.graph

AsRead ==
  /\ pc \in {"ran", "success"} /\ tool.name = "ts_parser" =>
       Returned(FromTimeSeries(tool.nodes, tool.edges))
  /\ pc = "success" /\ tool.name = "ts_parser" => ok
  /\ pc \in {"ran", "success"} /\ tool.name = "snap_parser" => Returned(FromSnapFormat(tool.file))

Exported ==
  pc = "success" /\ tool.name = "ts_export" =>
    /\ exported = ToTimeSeries([work.graph EXCEPT !.layers = LayerCount(work)])
    /\ exported.returns = TRUE

LEMMA ImportedReturned ==
  ASSUME NEW r, IInv, pc = "running", Imported(r)
  PROVE  r.returns \in BOOLEAN /\ ok' = r.returns /\ work'.graph = r.graph /\ tool' = tool /\ pc' = "ran"
<1>1. {"graph", "coarse", "written"} \subseteq DOMAIN work
  BY WorkHas DEF Running, Ended
<1> QED BY <1>1 DEF Imported

LEMMA NextAsRead == IInv /\ Open /\ AsRead /\ [Next]_vars => AsRead'
<1> SUFFICES ASSUME IInv, Open, AsRead, [Next]_vars PROVE AsRead'
  OBVIOUS
<1>1. CASE \E t \in Parser \union Other : Launch(t)
  BY <1>1 DEF Launch, AsRead
<1>2. CASE Begin("ts_parser") \/ Begin("snap_parser") \/ FilterBegin
  BY <1>2 DEF Begin, FilterBegin, AsRead
<1>3. CASE TSParserImport
  <2> DEFINE r == FromTimeSeries(tool.nodes, tool.edges)
  <2>1. tool.name = "ts_parser" /\ pc = "running" /\ Imported(r)
    BY <1>3 DEF TSParserImport
  <2> HIDE DEF r
  <2>2. r.returns \in BOOLEAN /\ ok' = r.returns /\ work'.graph = r.graph /\ tool' = tool /\ pc' = "ran"
    BY <2>1, ImportedReturned
  <2>3. r = FromTimeSeries(tool'.nodes, tool'.edges)
    BY <2>2 DEF r
  <2> QED BY <2>1, <2>2, <2>3 DEF AsRead, Returned
<1>4. CASE SnapParserImport
  <2> DEFINE r == FromSnapFormat(tool.file)
  <2>1. tool.name = "snap_parser" /\ pc = "running" /\ Imported(r)
    BY <1>4 DEF SnapParserImport
  <2> HIDE DEF r
  <2>2. r.returns \in BOOLEAN /\ ok' = r.returns /\ work'.graph = r.graph /\ tool' = tool /\ pc' = "ran"
    BY <2>1, ImportedReturned
  <2>3. r = FromSnapFormat(tool'.file)
    BY <2>2 DEF r
  <2> QED BY <2>1, <2>2, <2>3 DEF AsRead, Returned
<1>5. CASE TSParserCommit \/ SnapParserCommit
  BY <1>5 DEF TSParserCommit, SnapParserCommit, Commit, Exit, AsRead, Returned
<1>6. CASE FilterUnknown \/ FilterExec \/ FilterWrite \/ FilterDone \/ FilterCommit \/ FilterEnd
  BY <1>6 DEF FilterUnknown, FilterExec, FilterWrite, FilterDone, FilterCommit, FilterEnd, Commit, AsRead
<1>7. CASE CoarsenerParse \/ RunStep \/ StepDone \/ StepFails \/ CoarsenerCommit
  BY <1>7 DEF CoarsenerParse, RunStep, StepDone, StepFails, CoarsenerCommit, Commit, Open, AsRead
<1>8. CASE Export
  BY <1>8 DEF Export, AsRead
<1>9. CASE Die
  BY <1>9 DEF Die, Exit, AsRead
<1>10. CASE UNCHANGED vars
  BY <1>10 DEF vars, rest, AsRead, Returned
<1> QED
  BY <1>1, <1>2, <1>3, <1>4, <1>5, <1>6, <1>7, <1>8, <1>9, <1>10 DEF Next, Step

LEMMA NextExported == Open /\ Exported /\ [Next]_vars => Exported'
<1> SUFFICES ASSUME Open, Exported, [Next]_vars PROVE Exported'
  OBVIOUS
<1>1. CASE \E t \in Parser \union Other : Launch(t)
  BY <1>1 DEF Launch, Exported
<1>2. CASE Begin("ts_parser") \/ Begin("snap_parser") \/ FilterBegin
  BY <1>2 DEF Begin, FilterBegin, Exported
<1>3. CASE TSParserImport \/ SnapParserImport
  BY <1>3 DEF TSParserImport, SnapParserImport, Imported, Exported
<1>4. CASE TSParserCommit \/ SnapParserCommit \/ FilterCommit \/ CoarsenerCommit
  BY <1>4 DEF TSParserCommit, SnapParserCommit, FilterCommit, CoarsenerCommit, Commit, Exported
<1>5. CASE FilterUnknown \/ FilterExec \/ FilterWrite \/ FilterDone \/ FilterEnd
  BY <1>5 DEF FilterUnknown, FilterExec, FilterWrite, FilterDone, FilterEnd, Exported
<1>6. CASE CoarsenerParse \/ RunStep \/ StepDone \/ StepFails
  BY <1>6 DEF CoarsenerParse, RunStep, StepDone, StepFails, Open, Exported
<1>7. CASE Export
  <2> DEFINE e == ToTimeSeries([work.graph EXCEPT !.layers = LayerCount(work)])
  <2>1. exported' = e /\ e.returns \in BOOLEAN /\ work' = work /\ pc' = IF e.returns THEN "success" ELSE "failure"
    BY <1>7 DEF Export, Exit
  <2>2. e = ToTimeSeries([work'.graph EXCEPT !.layers = LayerCount(work')])
    BY <2>1
  <2> HIDE DEF e
  <2> QED BY <2>1, <2>2 DEF Exported
<1>8. CASE Die
  BY <1>8 DEF Die, Exit, Exported
<1>9. CASE UNCHANGED vars
  BY <1>9 DEF vars, rest, Exported
<1> QED BY <1>1, <1>2, <1>3, <1>4, <1>5, <1>6, <1>7, <1>8, <1>9 DEF Next, Step

LEMMA ReadIsWritten == Open /\ Typed /\ AsRead => ImportedAsWritten
<1> SUFFICES ASSUME Open, Typed, AsRead, pc = "success" PROVE ImportedAsWritten
  BY DEF ImportedAsWritten, HLinksAre
<1>1. disk = work /\ tool \in Parser \union Other
  BY DEF Open, Typed
<1>2. ASSUME tool.name = "ts_parser"
      PROVE  SignalsAre(disk.graph, tool.nodes) /\ TSLinks(disk.graph, tool.edges)
  <2> DEFINE r == FromTimeSeries(tool.nodes, tool.edges)
  <2>1. r.returns \in BOOLEAN /\ r.returns = TRUE /\ work.graph = r.graph
    BY <1>2 DEF AsRead, Returned
  <2>2. GoodTable(tool.nodes) /\ tool.edges \in LineFile
    BY <1>1, <1>2, Arguments
  <2>3. SignalsAre(r.graph, tool.nodes) /\ TSLinks(r.graph, tool.edges)
    BY <2>1, <2>2, TimeSeriesRead
  <2> HIDE DEF r
  <2> QED BY <1>1, <2>1, <2>3
<1>3. ASSUME tool.name = "snap_parser", tool.file # NoFile
      PROVE  /\ SnapIs(disk.graph, SnapEdges(tool.file))
             /\ \A n \in 0..Len(tool.file.lines) : WellFormed(tool.file, n) =>
                  SnapIs(disk.graph, SubSeq(tool.file.lines, n + 1, Len(tool.file.lines)))
  <2> DEFINE r == FromSnapFormat(tool.file)
  <2>1. work.graph = r.graph
    BY <1>3 DEF AsRead, Returned
  <2>2. tool.file \in SnapArg
    BY <1>1, <1>3, Arguments
  <2>3. SnapIs(r.graph, SnapEdges(tool.file)) /\ tool.file \in SnapFiles
    BY <1>3, <2>2, SnapRead DEF SnapArg
  <2> HIDE DEF r
  <2>4. SnapIs(disk.graph, SnapEdges(tool.file))
    BY <1>1, <2>1, <2>3
  <2> DEFINE file == tool.file
  <2>5. file \in SnapFiles
    BY <2>3
  <2> HIDE DEF file
  <2>6. \A n \in 0..Len(file.lines) :
          WellFormed(file, n) => SnapEdges(file) = SubSeq(file.lines, n + 1, Len(file.lines))
    BY <2>5, WellFormedEdges
  <2> QED BY <2>4, <2>6 DEF file
<1> QED BY <1>2, <1>3 DEF ImportedAsWritten, TSLinks, HLinksAre

LEMMA ExportedImports == Open /\ Typed /\ Stacked /\ Exported => ExportImports
<1> SUFFICES ASSUME Open, Typed, Stacked, Exported, tool.name = "ts_export", pc = "success" PROVE ExportImports
  BY DEF ExportImports
<1> DEFINE h == disk.graph
           n == LayerCount(work)
           e == ToTimeSeries([h EXCEPT !.layers = n])
           r == FromTimeSeries(exported.nodes, exported.edges)
           g == r.graph
<1>1. disk = work /\ GraphOK(h)
  BY DEF Open, Typed, DbOK
<1>2. n \in Nat /\ n >= h.layers
  <2>1. h.layers \in Nat /\ Len(work.coarse) \in Nat
    BY <1>1, LenProperties DEF GraphOK, Graphs, Stacked
  <2> QED BY <1>1, <2>1 DEF LayerCount
<1>3. exported = e /\ e.returns = TRUE
  BY <1>1 DEF Exported
<1> HIDE DEF n, e, h
<1>4. r = FromTimeSeries(e.nodes, e.edges)
  BY <1>3
<1>5. /\ r.returns = TRUE /\ g \in Graphs
      /\ g.layers = h.layers /\ g.hlinks = h.hlinks
      /\ Len(g.nodes) = Len(h.nodes)
      /\ \A k \in DOMAIN h.nodes :
           /\ g.nodes[k].label = h.nodes[k].label
           /\ Front(g.nodes[k].signal) = Front(h.nodes[k].signal)
  <2> HIDE DEF r
  <2> QED BY <1>1, <1>2, <1>3, <1>4, ExportedAgain DEF e
<1>6. h \in Graphs
  BY <1>1 DEF GraphOK
<1> HIDE DEF r
<1>7. [g EXCEPT !.nodes = << >>] = [h EXCEPT !.nodes = << >>]
  BY <1>5, <1>6 DEF Graphs
<1>8. DOMAIN g.nodes = DOMAIN h.nodes
  BY <1>5, <1>6, LenProperties DEF Graphs
<1> QED BY <1>5, <1>7, <1>8 DEF ExportImports, r, h

\* What a parser has committed is the graph of its files: a node for every
\* line or number, and the HLinks in the order of the lines.
THEOREM ImportedRight == Spec => []ImportedAsWritten
<1>1. Init => IInv /\ Open /\ Typed /\ AsRead
  BY InitIInv, InitOpen, InitTyped DEF Init, AsRead
<1>2. IInv /\ Open /\ Typed /\ AsRead /\ [Next]_vars => IInv' /\ Open' /\ Typed' /\ AsRead'
  BY NextIInv, NextOpen, NextTyped, NextAsRead
<1>3. Spec => [](IInv /\ Open /\ Typed /\ AsRead)
  BY <1>1, <1>2, PTL DEF Spec
<1> QED BY <1>3, ReadIsWritten, PTL

\* What ts_export has written imports to the same graph, but for the last value
\* of every signal.
THEOREM ExportsImport == Spec => []ExportImports
<1>1. Init => IInv /\ Open /\ Typed /\ Stacked /\ Exported
  BY InitIInv, InitOpen, InitTyped, InitStacked DEF Init, Exported
<1>2. IInv /\ Open /\ Typed /\ Stacked /\ Exported /\ [Next]_vars =>
        IInv' /\ Open' /\ Typed' /\ Stacked' /\ Exported'
  BY NextIInv, NextOpen, NextTyped, NextStacked, NextExported
<1>3. Spec => [](IInv /\ Open /\ Typed /\ Stacked /\ Exported)
  BY <1>1, <1>2, PTL DEF Spec
<1> QED BY <1>3, ExportedImports, PTL
=============================================================================
