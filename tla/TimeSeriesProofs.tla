-------------------------- MODULE TimeSeriesProofs --------------------------
(***************************************************************************)
(* The positions and the slice of a TimeSeries after any sequence of       *)
(* calls, for series of any length, any radius and any scroll.             *)
(*                                                                         *)
(* Every method but the two that may change nothing ends in clamp, so the  *)
(* slice is always the one that clamp computes for the current position:   *)
(* that is the inductive invariant.  shrink calls pop_front and pop_back   *)
(* in loops; what n calls leave is given in closed form and shown to       *)
(* satisfy the recursive equation, which has one solution only.            *)
(***************************************************************************)
EXTENDS TimeSeriesCalls, SequenceTheorems, WellFoundedInduction, TLAPS

Fields == [data : Seq(Values), cur : Nat, start : Nat, finish : Nat,
           radius : Nat, dir : Directions]

\* Series with the position at a value or at the end
Series == {t \in Fields : t.cur <= Len(t.data)}

\* The slice that clamp computes
Clamped(t) ==
  /\ t.start = IF t.dir = "future" THEN t.cur
               ELSE IF t.cur < t.radius THEN 0 ELSE t.cur - t.radius
  /\ t.finish = LET d == IF t.dir = "past" THEN 1 ELSE t.radius + 1
                IN IF t.cur + d > Len(t.data) THEN Len(t.data) ELSE t.cur + d

\* The inductive invariant
IInv == ts \in Series /\ Clamped(ts)

LEMMA SeriesHas ==
  ASSUME NEW t \in Series
  PROVE  /\ t.data \in Seq(Values) /\ Len(t.data) \in Nat
         /\ t.cur \in Nat /\ t.start \in Nat /\ t.finish \in Nat /\ t.radius \in Nat
         /\ t.cur <= Len(t.data) /\ t.dir \in Directions
         /\ t = [data |-> t.data, cur |-> t.cur, start |-> t.start, finish |-> t.finish,
                 radius |-> t.radius, dir |-> t.dir]
<1>1. t \in Fields /\ t.cur <= Len(t.data)
  BY DEF Series
<1>2. t.data \in Seq(Values)
  BY <1>1 DEF Fields
<1>3. Len(t.data) \in Nat
  BY <1>2, LenProperties
<1> QED BY <1>1, <1>2, <1>3 DEF Fields

\* A series is what its data, position, radius and direction make of it
LEMMA ClampedEqual ==
  ASSUME NEW s \in Series, NEW t \in Series, Clamped(s), Clamped(t),
         s.data = t.data, s.cur = t.cur, s.radius = t.radius, s.dir = t.dir
  PROVE  s = t
<1>1. s.start = t.start /\ s.finish = t.finish
  BY DEF Clamped
<1>2. /\ s = [data |-> s.data, cur |-> s.cur, start |-> s.start, finish |-> s.finish,
              radius |-> s.radius, dir |-> s.dir]
      /\ t = [data |-> t.data, cur |-> t.cur, start |-> t.start, finish |-> t.finish,
              radius |-> t.radius, dir |-> t.dir]
  BY SeriesHas
<1> QED BY <1>1, <1>2

LEMMA ClampIs ==
  ASSUME NEW t \in Series
  PROVE  /\ Clamp(t) \in Series /\ Clamped(Clamp(t))
         /\ Clamp(t).data = t.data /\ Clamp(t).cur = t.cur
         /\ Clamp(t).radius = t.radius /\ Clamp(t).dir = t.dir
<1> DEFINE s == IF t.dir = "future" THEN t.cur ELSE MoveIt(t.cur, Len(t.data), -t.radius)
           f == MoveIt(t.cur, Len(t.data), IF t.dir = "past" THEN 1 ELSE t.radius + 1)
           c == [t EXCEPT !.start = s, !.finish = f]
<1>1. Clamp(t) = c
  BY DEF Clamp
<1>2. s = IF t.dir = "future" THEN t.cur
          ELSE IF t.cur < t.radius THEN 0 ELSE t.cur - t.radius
  BY SeriesHas DEF MoveIt
<1>3. f = LET d == IF t.dir = "past" THEN 1 ELSE t.radius + 1
          IN IF t.cur + d > Len(t.data) THEN Len(t.data) ELSE t.cur + d
  BY SeriesHas DEF MoveIt
<1>4. s \in Nat /\ f \in Nat
  BY <1>2, <1>3, SeriesHas
<1> HIDE DEF s, f
<1>5. /\ c \in Fields
      /\ c.data = t.data /\ c.cur = t.cur /\ c.radius = t.radius /\ c.dir = t.dir
      /\ c.start = s /\ c.finish = f
  BY <1>4 DEF Series, Fields
<1> HIDE DEF c
<1>6. c \in Series
  BY <1>5, SeriesHas DEF Series
<1>7. Clamped(c)
  BY <1>2, <1>3, <1>5 DEF Clamped
<1> QED BY <1>1, <1>5, <1>6, <1>7

\* u is the series with data d and position c, its slice clamped
Is(u, t, d, c) ==
  /\ u \in Series /\ Clamped(u)
  /\ u.data = d /\ u.cur = c /\ u.radius = t.radius /\ u.dir = t.dir

LEMMA IsUnique ==
  ASSUME NEW t, NEW d, NEW c, NEW u, Is(u, t, d, c), NEW v, Is(v, t, d, c)
  PROVE  u = v
BY ClampedEqual DEF Is

LEMMA WithData ==
  ASSUME NEW t \in Fields, NEW d \in Seq(Values)
  PROVE  LET u == [t EXCEPT !.data = d]
         IN  /\ u \in Fields /\ u.data = d /\ u.cur = t.cur
             /\ u.radius = t.radius /\ u.dir = t.dir
BY DEF Fields

LEMMA WithPosition ==
  ASSUME NEW t \in Fields, NEW c \in Nat
  PROVE  LET u == [t EXCEPT !.cur = c]
         IN  /\ u \in Fields /\ u.data = t.data /\ u.cur = c
             /\ u.radius = t.radius /\ u.dir = t.dir
BY DEF Fields

LEMMA MoveAllIs ==
  ASSUME NEW t \in Fields, NEW delta \in Int,
         MoveIt(t.cur, Len(t.data), delta) \in 0..Len(t.data)
  PROVE  Is(MoveAll(t, delta), t, t.data, MoveIt(t.cur, Len(t.data), delta))
<1> DEFINE c == MoveIt(t.cur, Len(t.data), delta)
           u == [t EXCEPT !.cur = c]
<1>1. Len(t.data) \in Nat
  BY LenProperties DEF Fields
<1>2. c \in Nat /\ c <= Len(t.data)
  BY <1>1
<1> HIDE DEF c
<1>3. /\ u \in Fields /\ u.data = t.data /\ u.cur = c
      /\ u.radius = t.radius /\ u.dir = t.dir
  BY <1>2, WithPosition
<1>4. MoveAll(t, delta) = Clamp(u)
  BY DEF MoveAll, c
<1> HIDE DEF u
<1>5. u \in Series
  BY <1>2, <1>3 DEF Series
<1>6. Is(Clamp(u), t, t.data, c)
  BY <1>3, <1>5, ClampIs DEF Is
<1> QED BY <1>4, <1>6 DEF c

LEMMA ClampDataIs ==
  ASSUME NEW t \in Fields, NEW d \in Seq(Values), t.cur <= Len(d)
  PROVE  Is(Clamp([t EXCEPT !.data = d]), t, d, t.cur)
<1> DEFINE u == [t EXCEPT !.data = d]
<1>1. /\ u \in Fields /\ u.data = d /\ u.cur = t.cur
      /\ u.radius = t.radius /\ u.dir = t.dir
  BY WithData
<1> HIDE DEF u
<1>2. u \in Series
  BY <1>1 DEF Series
<1> QED BY <1>1, <1>2, ClampIs DEF Is, u

LEMMA MoveDataIs ==
  ASSUME NEW t \in Fields, NEW d \in Seq(Values), NEW delta \in Int,
         MoveIt(t.cur, Len(d), delta) \in 0..Len(d)
  PROVE  Is(MoveAll([t EXCEPT !.data = d], delta), t, d, MoveIt(t.cur, Len(d), delta))
<1> DEFINE u == [t EXCEPT !.data = d]
<1>1. /\ u \in Fields /\ u.data = d /\ u.cur = t.cur
      /\ u.radius = t.radius /\ u.dir = t.dir
  BY WithData
<1> HIDE DEF u
<1>2. Is(MoveAll(u, delta), u, u.data, MoveIt(u.cur, Len(u.data), delta))
  BY <1>1, MoveAllIs
<1> QED BY <1>1, <1>2 DEF Is, u

---------------------------------------------------------------------------
(* The methods *)

LEMMA PopFrontIs ==
  ASSUME NEW t \in Series, t.data # << >>
  PROVE  Is(PopFront(t), t, Tail(t.data), IF t.cur = 0 THEN 0 ELSE t.cur - 1)
<1>1. t \in Fields /\ t.data \in Seq(Values) /\ t.cur \in Nat /\ t.cur <= Len(t.data)
  BY SeriesHas DEF Series
<1>2. Tail(t.data) \in Seq(Values) /\ Len(Tail(t.data)) = Len(t.data) - 1
      /\ Len(t.data) \in Nat \ {0}
  BY <1>1, HeadTailProperties, EmptySeq
<1> DEFINE d == Tail(t.data)
           n == Len(d)
<1> HIDE DEF d
<1>3. MoveIt(t.cur, n, -1) = IF t.cur = 0 THEN 0 ELSE t.cur - 1
  BY <1>1 DEF MoveIt
<1>4. MoveIt(t.cur, n, -1) \in 0..n
  BY <1>1, <1>2, <1>3 DEF d
<1>5. Is(MoveAll([t EXCEPT !.data = d], -1), t, d, MoveIt(t.cur, Len(d), -1))
  <2>1. d \in Seq(Values) /\ -1 \in Int
    BY <1>2 DEF d
  <2> QED BY <1>1, <1>4, <2>1, MoveDataIs
<1> QED BY <1>3, <1>5 DEF PopFront, d

LEMMA PopBackIs ==
  ASSUME NEW t \in Series, t.cur < Len(t.data)
  PROVE  Is(PopBack(t), t, SubSeq(t.data, 1, Len(t.data) - 1),
            IF t.cur < Len(t.data) - 1 THEN t.cur ELSE IF t.cur = 0 THEN 0 ELSE t.cur - 1)
<1>1. t \in Fields /\ t.data \in Seq(Values) /\ t.cur \in Nat /\ Len(t.data) \in Nat
  BY SeriesHas DEF Series
<1> DEFINE d == SubSeq(t.data, 1, Len(t.data) - 1)
<1>2. d \in Seq(Values) /\ Len(d) = Len(t.data) - 1
  <2>1. \A i \in 1..(Len(t.data) - 1) : t.data[i] \in Values
    BY <1>1, ElementOfSeq
  <2>2. Len(t.data) - 1 \in Int /\ 1 \in Int
    BY <1>1
  <2>3. d \in Seq(Values) /\ Len(d) = IF 1 <= Len(t.data) - 1 THEN Len(t.data) - 1 - 1 + 1 ELSE 0
    BY ONLY <2>1, <2>2, SubSeqProperties
  <2> QED BY <1>1, <2>3
<1> HIDE DEF d
<1> DEFINE u == [t EXCEPT !.data = d]
<1>3. u.data = d
  BY <1>1, <1>2, WithData
<1>4. PopBack(t) = IF t.cur = Len(d) THEN MoveAll(u, -1) ELSE Clamp(u)
  BY <1>3 DEF PopBack, d
<1>5. CASE t.cur = Len(d)
  <2>1. MoveIt(t.cur, Len(d), -1) = IF t.cur = 0 THEN 0 ELSE t.cur - 1
    BY <1>1 DEF MoveIt
  <2>2. MoveIt(t.cur, Len(d), -1) \in 0..Len(d)
    <3>1. Len(d) \in Nat
      BY <1>1, <1>5
    <3>2. (IF t.cur = 0 THEN 0 ELSE t.cur - 1) \in 0..t.cur
      BY <1>1
    <3> QED BY <1>5, <2>1, <3>2
  <2>3. Is(MoveAll(u, -1), t, d, MoveIt(t.cur, Len(d), -1))
    BY <1>1, <1>2, <2>2, MoveDataIs
  <2> QED BY <1>2, <1>4, <1>5, <2>1, <2>3 DEF d
<1>6. CASE t.cur # Len(d)
  <2>1. t.cur < Len(d)
    BY <1>1, <1>2, <1>6
  <2>2. Is(Clamp(u), t, d, t.cur)
    BY <1>1, <1>2, <2>1, ClampDataIs
  <2> QED BY <1>2, <1>4, <1>6, <2>1, <2>2 DEF d
<1> QED BY <1>5, <1>6

LEMMA PushBackIs ==
  ASSUME NEW t \in Series, NEW v \in Values
  PROVE  Is(PushBack(t, v), t, Append(t.data, v), t.cur)
<1>1. t \in Fields /\ t.data \in Seq(Values) /\ t.cur \in Nat /\ t.cur <= Len(t.data)
  BY SeriesHas DEF Series
<1> DEFINE d == Append(t.data, v)
<1>2. d \in Seq(Values) /\ Len(d) = Len(t.data) + 1
  BY <1>1, AppendProperties
<1> HIDE DEF d
<1>3. t.cur <= Len(d)
  BY <1>1, <1>2, LenProperties
<1>4. Is(Clamp([t EXCEPT !.data = d]), t, d, t.cur)
  BY <1>1, <1>2, <1>3, ClampDataIs
<1> QED BY <1>4 DEF PushBack, d

LEMMA PushFrontIs ==
  ASSUME NEW t \in Series, NEW v \in Values
  PROVE  Is(PushFront(t, v), t, <<v>> \o t.data, t.cur + 1)
<1>1. /\ t \in Fields /\ t.data \in Seq(Values) /\ t.cur \in Nat /\ Len(t.data) \in Nat
      /\ t.cur <= Len(t.data)
  BY SeriesHas DEF Series
<1> DEFINE d == <<v>> \o t.data
<1>2. d \in Seq(Values) /\ Len(d) = Len(t.data) + 1
  <2>1. <<v>> \in Seq(Values) /\ Len(<<v>>) = 1
    OBVIOUS
  <2>2. d \in Seq(Values) /\ Len(d) = Len(<<v>>) + Len(t.data)
    BY ONLY <1>1, <2>1, ConcatProperties
  <2> QED BY <1>1, <2>1, <2>2
<1> HIDE DEF d
<1>3. MoveIt(t.cur, Len(d), 1) = t.cur + 1 /\ t.cur + 1 \in 0..Len(d)
  BY <1>1, <1>2 DEF MoveIt
<1>4. Is(MoveAll([t EXCEPT !.data = d], 1), t, d, t.cur + 1)
  BY <1>1, <1>2, <1>3, MoveDataIs
<1> QED BY <1>4 DEF PushFront, d

---------------------------------------------------------------------------
(* shrink *)

\* Induction over a set in place of a predicate
LEMMA Induction ==
  ASSUME NEW S, 0 \in S, \A n \in Nat : n \in S => n + 1 \in S
  PROVE  Nat \subseteq S
<1> DEFINE R == OpToRel(<, Nat)
<1>1. \A x, y \in Nat : x < y => <<x, y>> \in R
  BY DEF OpToRel
<1>2. IsWellFoundedOn(R, Nat)
  BY NatLessThanWellFounded
<1> HIDE DEF R
<1>3. SUFFICES ASSUME Nat \ S # {} PROVE FALSE
  OBVIOUS
<1>4. PICK x \in Nat \ S : \A y \in Nat \ S : ~ (<<y, x>> \in R)
  BY <1>2, <1>3, WFMin
<1>5. x # 0 /\ x - 1 \in Nat /\ x - 1 < x
  OBVIOUS
<1>6. x - 1 \notin S
  <2>1. x - 1 \in S => (x - 1) + 1 \in S
    BY <1>5
  <2>2. (x - 1) + 1 = x
    BY <1>4
  <2> QED BY <1>4, <2>1, <2>2
<1>7. x - 1 \in Nat \ S /\ <<x - 1, x>> \in R
  BY <1>1, <1>5, <1>6
<1> QED BY <1>4, <1>7

\* after is what n steps make of t
IsFronts(after, t, n) ==
  after = [k \in 0..n |-> IF k = 0 THEN t ELSE PopFront(after[k - 1])]
IsBacks(after, t, n) ==
  after = [k \in 0..n |-> IF k = 0 THEN t ELSE PopBack(after[k - 1])]

LEMMA FrontsUnique ==
  ASSUME NEW t, NEW n \in Nat, NEW f, IsFronts(f, t, n), NEW g, IsFronts(g, t, n)
  PROVE  f[n] = g[n]
<1> DEFINE S == {k \in Nat : k <= n => f[k] = g[k]}
<1>1. 0 \in S
  BY DEF IsFronts
<1>2. ASSUME NEW k \in Nat, k \in S PROVE k + 1 \in S
  <2>1. SUFFICES ASSUME k + 1 <= n PROVE f[k + 1] = g[k + 1]
    OBVIOUS
  <2>2. k + 1 \in 0..n /\ k + 1 # 0 /\ (k + 1) - 1 = k /\ k <= n
    BY <2>1
  <2>3. f[k] = g[k]
    BY <1>2, <2>2
  <2>4. f[k + 1] = PopFront(f[k]) /\ g[k + 1] = PopFront(g[k])
    BY <2>2 DEF IsFronts
  <2> QED BY <2>3, <2>4
<1>3. n \in S
  <2> HIDE DEF S
  <2> QED BY <1>1, <1>2, Induction
<1> QED BY <1>3

LEMMA BacksUnique ==
  ASSUME NEW t, NEW n \in Nat, NEW f, IsBacks(f, t, n), NEW g, IsBacks(g, t, n)
  PROVE  f[n] = g[n]
<1> DEFINE S == {k \in Nat : k <= n => f[k] = g[k]}
<1>1. 0 \in S
  BY DEF IsBacks
<1>2. ASSUME NEW k \in Nat, k \in S PROVE k + 1 \in S
  <2>1. SUFFICES ASSUME k + 1 <= n PROVE f[k + 1] = g[k + 1]
    OBVIOUS
  <2>2. k + 1 \in 0..n /\ k + 1 # 0 /\ (k + 1) - 1 = k /\ k <= n
    BY <2>1
  <2>3. f[k] = g[k]
    BY <1>2, <2>2
  <2>4. f[k + 1] = PopBack(f[k]) /\ g[k + 1] = PopBack(g[k])
    BY <2>2 DEF IsBacks
  <2> QED BY <2>3, <2>4
<1>3. n \in S
  <2> HIDE DEF S
  <2> QED BY <1>1, <1>2, Induction
<1> QED BY <1>3

LEMMA FrontsAre ==
  ASSUME NEW t, NEW n \in Nat, NEW f, IsFronts(f, t, n)
  PROVE  PopFronts(t, n) = f[n]
<1> DEFINE after == CHOOSE g : IsFronts(g, t, n)
<1>1. IsFronts(after, t, n)
  BY Zenon
<1>2. PopFronts(t, n) = after[n]
  BY DEF PopFronts, IsFronts
<1> HIDE DEF after
<1> QED BY <1>1, <1>2, FrontsUnique

LEMMA BacksAre ==
  ASSUME NEW t, NEW n \in Nat, NEW f, IsBacks(f, t, n)
  PROVE  PopBacks(t, n) = f[n]
<1> DEFINE after == CHOOSE g : IsBacks(g, t, n)
<1>1. IsBacks(after, t, n)
  BY Zenon
<1>2. PopBacks(t, n) = after[n]
  BY DEF PopBacks, IsBacks
<1> HIDE DEF after
<1> QED BY <1>1, <1>2, BacksUnique

Made(t, d, c) == Clamp([t EXCEPT !.data = d, !.cur = c])

LEMMA MadeIs ==
  ASSUME NEW t \in Fields, NEW d \in Seq(Values), NEW c \in 0..Len(d)
  PROVE  Is(Made(t, d, c), t, d, c)
<1> DEFINE u == [t EXCEPT !.data = d, !.cur = c]
<1>1. /\ u \in Fields /\ u.data = d /\ u.cur = c
      /\ u.radius = t.radius /\ u.dir = t.dir
  <2>1. c \in Nat
    BY LenProperties
  <2> QED BY <2>1 DEF Fields
<1>2. u \in Series
  <2>1. Len(d) \in Nat
    BY LenProperties
  <2> HIDE DEF u
  <2> QED BY <1>1, <2>1 DEF Series
<1> HIDE DEF u
<1> QED BY <1>1, <1>2, ClampIs DEF Is, Made, u

\* n calls of pop_front, the position behind the values dropped
LEMMA PopFrontsAre ==
  ASSUME NEW t \in Series, Clamped(t), NEW n \in 0..t.cur
  PROVE  Is(PopFronts(t, n), t, SubSeq(t.data, n + 1, Len(t.data)), t.cur - n)
<1> DEFINE L == Len(t.data)
           d(k) == SubSeq(t.data, k + 1, L)
           F == [k \in 0..n |-> Made(t, d(k), t.cur - k)]
<1>1. t \in Fields /\ t.data \in Seq(Values) /\ t.cur \in Nat /\ L \in Nat /\ t.cur <= L /\ n \in Nat
  BY SeriesHas DEF Series
<1>2. ASSUME NEW k \in 0..n
      PROVE  d(k) \in Seq(Values) /\ Len(d(k)) = L - k /\ t.cur - k \in 0..Len(d(k))
  <2>1. k + 1 \in Int /\ L \in Int
    BY <1>1
  <2>2. \A i \in (k + 1)..L : t.data[i] \in Values
    <3>1. \A i \in (k + 1)..L : i \in 1..L
      BY <1>1
    <3> QED BY <1>1, <3>1, ElementOfSeq
  <2>3. d(k) \in Seq(Values) /\ Len(d(k)) = IF k + 1 <= L THEN L - (k + 1) + 1 ELSE 0
    BY ONLY <2>1, <2>2, SubSeqProperties
  <2>4. Len(d(k)) = L - k
    BY <1>1, <2>3
  <2>5. t.cur - k \in 0..(L - k)
    BY <1>1
  <2> QED BY <2>3, <2>4, <2>5
<1> HIDE DEF d
<1>3. ASSUME NEW k \in 0..n PROVE Is(F[k], t, d(k), t.cur - k)
  <2>1. Is(Made(t, d(k), t.cur - k), t, d(k), t.cur - k)
    BY <1>1, <1>2, MadeIs
  <2> QED BY <2>1
<1>4. F[0] = t
  <2>1. 0 \in 0..n /\ t.cur - 0 = t.cur
    BY <1>1
  <2>2. d(0) = t.data
    <3>1. 0 + 1 = 1
      OBVIOUS
    <3> QED BY <1>1, <3>1, SubSeqFull DEF d
  <2>3. Is(F[0], t, t.data, t.cur)
    BY <1>3, <2>1, <2>2
  <2>4. Is(t, t, t.data, t.cur)
    BY DEF Is
  <2> HIDE DEF F
  <2> QED BY <2>3, <2>4, IsUnique
<1>5. ASSUME NEW k \in 0..n, k # 0 PROVE F[k] = PopFront(F[k - 1])
  <2>1. k - 1 \in 0..n /\ (k - 1) + 1 = k /\ k \in 1..L /\ L \in k..L
    BY <1>1, <1>5
  <2>2. Is(F[k - 1], t, d(k - 1), t.cur - (k - 1))
    BY <1>3, <2>1
  <2>3. Is(F[k], t, d(k), t.cur - k)
    BY <1>3
  <2>4. Tail(d(k - 1)) = d(k)
    BY <1>1, <2>1, HeadTailOfSubSeq DEF d
  <2>5. d(k - 1) # << >>
    <3>1. \A j \in 0..n : Len(d(j)) = L - j
      BY <1>2
    <3>2. Len(d(k - 1)) = L - (k - 1)
      BY <2>1, <3>1
    <3>3. L - (k - 1) # 0
      BY <1>1, <2>1
    <3> QED BY <3>2, <3>3, EmptySeq
  <2>6. t.cur - (k - 1) # 0 /\ (t.cur - (k - 1)) - 1 = t.cur - k
    BY <1>1, <1>5
  <2> HIDE DEF F
  <2>7. Is(PopFront(F[k - 1]), F[k - 1], d(k), t.cur - k)
    BY <2>2, <2>4, <2>5, <2>6, PopFrontIs DEF Is
  <2>8. Is(PopFront(F[k - 1]), t, d(k), t.cur - k)
    BY <2>2, <2>7 DEF Is
  <2> QED BY <2>3, <2>8, IsUnique
<1>6. IsFronts(F, t, n)
  <2>1. F = [k \in 0..n |-> F[k]]
    OBVIOUS
  <2>2. \A k \in 0..n : F[k] = IF k = 0 THEN t ELSE PopFront(F[k - 1])
    <3> HIDE DEF F
    <3> QED BY <1>4, <1>5
  <2> HIDE DEF F
  <2> QED BY <2>1, <2>2 DEF IsFronts
<1>7. PopFronts(t, n) = F[n]
  <2> HIDE DEF F
  <2> QED BY <1>1, <1>6, FrontsAre
<1>8. n \in 0..n
  BY <1>1
<1> QED BY <1>3, <1>7, <1>8 DEF d

\* n calls of pop_back that do not reach the position
LEMMA PopBacksAre ==
  ASSUME NEW t \in Series, Clamped(t), NEW n \in Nat, n = 0 \/ t.cur < Len(t.data) - n
  PROVE  Is(PopBacks(t, n), t, SubSeq(t.data, 1, Len(t.data) - n), t.cur)
<1> DEFINE L == Len(t.data)
           d(k) == SubSeq(t.data, 1, L - k)
           F == [k \in 0..n |-> Made(t, d(k), t.cur)]
<1>1. t \in Fields /\ t.data \in Seq(Values) /\ t.cur \in Nat /\ L \in Nat /\ t.cur <= L
  BY SeriesHas DEF Series
<1>2. \A k \in 0..n : d(k) \in Seq(Values) /\ Len(d(k)) = L - k /\ t.cur \in 0..(L - k)
  <2> SUFFICES ASSUME NEW k \in 0..n
               PROVE  d(k) \in Seq(Values) /\ Len(d(k)) = L - k /\ t.cur \in 0..(L - k)
    BY Zenon
  <2>1. 1 \in Int /\ L - k \in Int /\ k >= 0 /\ L - k >= 0
    BY <1>1
  <2>2. \A i \in 1..(L - k) : t.data[i] \in Values
    <3>1. \A i \in 1..(L - k) : i \in 1..L
      BY <1>1
    <3> QED BY <1>1, <3>1, ElementOfSeq
  <2>3. d(k) \in Seq(Values) /\ Len(d(k)) = IF 1 <= L - k THEN L - k - 1 + 1 ELSE 0
    BY ONLY <2>1, <2>2, SubSeqProperties
  <2>4. Len(d(k)) = L - k
    BY <2>1, <2>3
  <2>5. t.cur \in 0..(L - k)
    BY <1>1
  <2> QED BY <2>3, <2>4, <2>5
<1> HIDE DEF d
<1>3. \A k \in 0..n : Is(F[k], t, d(k), t.cur)
  <2> SUFFICES ASSUME NEW k \in 0..n PROVE Is(F[k], t, d(k), t.cur)
    BY Zenon
  <2>1. d(k) \in Seq(Values) /\ t.cur \in 0..Len(d(k))
    BY <1>2
  <2>2. Is(Made(t, d(k), t.cur), t, d(k), t.cur)
    BY <1>1, <2>1, MadeIs
  <2> QED BY <2>2
<1>4. F[0] = t
  <2>1. 0 \in 0..n
    OBVIOUS
  <2>2. d(0) = t.data
    <3>1. L - 0 = L
      BY <1>1
    <3> QED BY <1>1, <3>1, SubSeqFull DEF d
  <2>3. Is(F[0], t, t.data, t.cur)
    BY <1>3, <2>1, <2>2
  <2>4. Is(t, t, t.data, t.cur)
    BY DEF Is
  <2> HIDE DEF F
  <2> QED BY <2>3, <2>4, IsUnique
<1>5. ASSUME NEW k \in 0..n, k # 0 PROVE F[k] = PopBack(F[k - 1])
  <2>1. k - 1 \in 0..n /\ t.cur < L - k /\ k <= L
    BY <1>1, <1>5
  <2>2. Is(F[k - 1], t, d(k - 1), t.cur) /\ Len(d(k - 1)) = L - (k - 1)
    BY <1>2, <1>3, <2>1
  <2>3. Is(F[k], t, d(k), t.cur)
    BY <1>3
  <2>4. L - (k - 1) - 1 = L - k /\ t.cur < L - (k - 1)
    BY <1>1, <2>1
  <2>5. SubSeq(d(k - 1), 1, L - k) = d(k)
    <3>1. 1 \in 1..L /\ L - (k - 1) \in 1..L /\ 1 \in 1..((L - (k - 1)) - 1 + 1)
          /\ L - k \in 1..((L - (k - 1)) - 1 + 1)
      BY <1>1, <1>5, <2>1
    <3>2. SubSeq(SubSeq(t.data, 1, L - (k - 1)), 1, L - k)
            = SubSeq(t.data, 1 + 1 - 1, 1 + (L - k) - 1)
      BY ONLY <1>1, <3>1, SubSeqOfSubSeq
    <3>3. 1 + 1 - 1 = 1 /\ 1 + (L - k) - 1 = L - k
      BY <1>1
    <3> QED BY <3>2, <3>3 DEF d
  <2> HIDE DEF F
  <2>6. Is(PopBack(F[k - 1]), F[k - 1], d(k), t.cur)
    <3> DEFINE u == F[k - 1]
    <3>1. u \in Series /\ u.data = d(k - 1) /\ Len(u.data) = L - (k - 1) /\ u.cur = t.cur
      BY <2>2 DEF Is
    <3> HIDE DEF u
    <3>2. u.cur < Len(u.data) /\ u.cur < Len(u.data) - 1
      BY <2>1, <2>4, <3>1
    <3>3. Is(PopBack(u), u, SubSeq(u.data, 1, Len(u.data) - 1), u.cur)
      BY <3>1, <3>2, PopBackIs
    <3>4. SubSeq(u.data, 1, Len(u.data) - 1) = d(k)
      BY <2>4, <2>5, <3>1
    <3> QED BY <3>1, <3>3, <3>4 DEF u
  <2>7. Is(PopBack(F[k - 1]), t, d(k), t.cur)
    BY <2>2, <2>6 DEF Is
  <2> QED BY <2>3, <2>7, IsUnique
<1>6. IsBacks(F, t, n)
  <2>1. F = [k \in 0..n |-> F[k]]
    OBVIOUS
  <2>2. \A k \in 0..n : F[k] = IF k = 0 THEN t ELSE PopBack(F[k - 1])
    <3> HIDE DEF F
    <3> QED BY <1>4, <1>5
  <2> HIDE DEF F
  <2> QED BY <2>1, <2>2 DEF IsBacks
<1>7. PopBacks(t, n) = F[n]
  <2> HIDE DEF F
  <2> QED BY <1>6, BacksAre
<1>8. n \in 0..n
  OBVIOUS
<1> QED BY <1>3, <1>7, <1>8 DEF d

\* The slice in figures: its bounds are in order, and the position is in it
\* unless it is at the end of the data
LEMMA SliceBounds ==
  ASSUME NEW t \in Series, Clamped(t)
  PROVE  /\ t.start <= t.cur /\ t.cur <= t.finish /\ t.finish <= Len(t.data)
         /\ t.finish < Len(t.data) => t.cur < t.finish
BY SeriesHas DEF Clamped

\* What shrink leaves: the data of the slice, all of it in the slice
LEMMA ShrinkIs ==
  ASSUME NEW t \in Series, Clamped(t)
  PROVE  /\ Is(Shrink(t), t, Slice(t), t.cur - t.start)
         /\ Shrink(t).start = 0 /\ Shrink(t).finish = Len(Slice(t))
         /\ Slice(t) \in Seq(Values) /\ Len(Slice(t)) = t.finish - t.start
<1> DEFINE L == Len(t.data)
           e == SubSeq(t.data, t.start + 1, L)
           u == PopFronts(t, t.start)
           n == Len(u.data) - u.finish
           v == PopBacks(u, n)
<1>1. /\ t.data \in Seq(Values) /\ L \in Nat /\ t.cur \in Nat /\ t.start \in Nat
      /\ t.finish \in Nat /\ t.radius \in Nat
      /\ t.start <= t.cur /\ t.cur <= t.finish /\ t.finish <= L
      /\ t.finish < L => t.cur < t.finish
  BY SeriesHas, SliceBounds
<1>2. \A i \in 1..L : t.data[i] \in Values
  BY <1>1, ElementOfSeq
<1>3. e \in Seq(Values) /\ Len(e) = L - t.start
  <2>1. t.start + 1 \in Int /\ L \in Int /\ \A i \in (t.start + 1)..L : t.data[i] \in Values
    BY <1>1, <1>2
  <2>2. e \in Seq(Values) /\ Len(e) = IF t.start + 1 <= L THEN L - (t.start + 1) + 1 ELSE 0
    BY ONLY <2>1, SubSeqProperties
  <2> QED BY <1>1, <2>2, SMTT(30)
<1>4. Slice(t) \in Seq(Values) /\ Len(Slice(t)) = t.finish - t.start
  <2>1. t.start + 1 \in Int /\ t.finish \in Int
        /\ \A i \in (t.start + 1)..t.finish : t.data[i] \in Values
    BY <1>1, <1>2
  <2> DEFINE s == SubSeq(t.data, t.start + 1, t.finish)
  <2>2. s \in Seq(Values)
        /\ Len(s) = IF t.start + 1 <= t.finish THEN t.finish - (t.start + 1) + 1 ELSE 0
    BY ONLY <2>1, SubSeqProperties
  <2> HIDE DEF s
  <2>3. Len(s) = t.finish - t.start
    BY <1>1, <2>2
  <2> QED BY <2>2, <2>3 DEF Slice, s
<1>5. Is(u, t, e, t.cur - t.start)
  <2>1. t.start \in 0..t.cur
    BY <1>1
  <2> QED BY <2>1, PopFrontsAre
<1> HIDE DEF u, e
<1>6. u \in Series /\ Clamped(u) /\ u.data = e /\ u.cur = t.cur - t.start
      /\ u.radius = t.radius /\ u.dir = t.dir
  BY <1>5 DEF Is
<1> DEFINE d == IF t.dir = "past" THEN 1 ELSE t.radius + 1
<1>14. d \in Nat /\ t.finish = IF t.cur + d > L THEN L ELSE t.cur + d
  BY <1>1 DEF Clamped
<1>7. u.finish = t.finish - t.start
  <2>1. u.finish = IF (t.cur - t.start) + d > Len(e) THEN Len(e) ELSE (t.cur - t.start) + d
    BY <1>6 DEF Clamped
  <2> HIDE DEF d
  <2> QED BY <1>1, <1>3, <1>14, <2>1, SMTT(30)
<1>8. n = L - t.finish /\ n \in Nat /\ Len(e) - n = t.finish - t.start
  <2>1. n = (L - t.start) - (t.finish - t.start)
    BY <1>3, <1>6, <1>7
  <2> HIDE DEF n
  <2> QED BY <1>1, <1>3, <2>1, SMTT(30)
<1>9. Is(v, u, SubSeq(e, 1, t.finish - t.start), t.cur - t.start)
  <2>1. n = 0 \/ u.cur < Len(u.data) - n
    BY <1>1, <1>3, <1>6, <1>8, SMTT(30)
  <2> HIDE DEF n
  <2>2. Is(v, u, SubSeq(u.data, 1, Len(u.data) - n), u.cur)
    BY <1>6, <1>8, <2>1, PopBacksAre
  <2> QED BY <1>6, <1>8, <2>2
<1>10. SubSeq(e, 1, t.finish - t.start) = Slice(t)
  <2>1. CASE t.finish = L
    <3>1. SubSeq(e, 1, Len(e)) = e
      BY <1>3, SubSeqFull
    <3> QED BY <1>3, <2>1, <3>1 DEF Slice, e
  <2>2. CASE t.finish # L
    <3>1. t.start + 1 \in 1..L /\ t.finish - t.start \in 1..(L - (t.start + 1) + 1)
      BY <1>1, <2>2, SMTT(30)
    <3>2. ASSUME NEW a \in 1..L, NEW m \in 1..(L - a + 1)
          PROVE  SubSeq(SubSeq(t.data, a, L), 1, m) = SubSeq(t.data, a, a + m - 1)
      <4>1. L \in 1..L /\ 1 \in 1..(L - a + 1) /\ a + 1 - 1 = a
        BY <1>1
      <4>2. SubSeq(SubSeq(t.data, a, L), 1, m) = SubSeq(t.data, a + 1 - 1, a + m - 1)
        BY ONLY <1>1, <3>2, <4>1, SubSeqOfSubSeq
      <4> QED BY <4>1, <4>2
    <3>3. (t.start + 1) + (t.finish - t.start) - 1 = t.finish
      BY <1>1
    <3>4. SubSeq(SubSeq(t.data, t.start + 1, L), 1, t.finish - t.start)
            = SubSeq(t.data, t.start + 1, (t.start + 1) + (t.finish - t.start) - 1)
      BY <3>1, <3>2
    <3> QED BY <3>3, <3>4 DEF Slice, e
  <2> QED BY <2>1, <2>2
<1>11. Shrink(t) = v
  BY DEF Shrink, u
<1> HIDE DEF v, n
<1>12. Is(v, t, Slice(t), t.cur - t.start)
  BY <1>6, <1>9, <1>10 DEF Is
<1>13. v.start = 0 /\ v.finish = Len(Slice(t))
  <2>1. /\ v.start = IF t.dir = "future" THEN t.cur - t.start
                     ELSE IF t.cur - t.start < t.radius THEN 0 ELSE t.cur - t.start - t.radius
        /\ v.finish = IF (t.cur - t.start) + d > t.finish - t.start THEN t.finish - t.start
                       ELSE (t.cur - t.start) + d
    BY <1>4, <1>12 DEF Is, Clamped
  <2>2. t.start = IF t.dir = "future" THEN t.cur
                  ELSE IF t.cur < t.radius THEN 0 ELSE t.cur - t.radius
    BY DEF Clamped
  <2>3. v.start = 0
    BY <1>1, <2>1, <2>2
  <2>4. v.finish = t.finish - t.start
    <3> HIDE DEF d
    <3> QED BY <1>1, <1>14, <2>1
  <2> QED BY <1>4, <2>3, <2>4
<1> QED BY <1>4, <1>11, <1>12, <1>13

---------------------------------------------------------------------------
(* The invariant *)

LEMMA IsIInv ==
  ASSUME NEW t, NEW d, NEW c, Is(ts', t, d, c)
  PROVE  IInv'
BY DEF Is, IInv, Series, Fields, Clamped

LEMMA InitIInv == Init => IInv
<1> SUFFICES ASSUME NEW r \in 0..MaxRadius, NEW d \in Directions, ts = TimeSeriesOf(<< >>, r, d)
             PROVE  IInv
  BY DEF Init
<1> DEFINE t == [data |-> << >>, cur |-> 0, start |-> 0, finish |-> 0, radius |-> r, dir |-> d]
<1>1. t \in Fields /\ t.cur = 0 /\ t.data = << >>
  <2>1. r \in Nat /\ << >> \in Seq(Values)
    BY CallsAssumption
  <2> QED BY <2>1 DEF Fields
<1>2. t \in Series
  <2>1. Len(<< >>) = 0
    OBVIOUS
  <2> HIDE DEF t
  <2> QED BY <1>1, <2>1 DEF Series
<1>3. ts = Clamp(t)
  BY DEF TimeSeriesOf
<1> HIDE DEF t
<1> QED BY <1>2, <1>3, ClampIs DEF IInv

LEMMA StepIInv == IInv /\ [Next]_ts => IInv'
<1> SUFFICES ASSUME IInv, [Next]_ts PROVE IInv'
  OBVIOUS
<1>1. /\ ts \in Series /\ Clamped(ts) /\ ts \in Fields
      /\ ts.data \in Seq(Values) /\ Len(ts.data) \in Nat /\ ts.cur \in Nat
      /\ ts.cur <= Len(ts.data) /\ ts.radius \in Nat
  BY SeriesHas DEF IInv, Series
<1>2. Is(ts, ts, ts.data, ts.cur)
  BY <1>1 DEF Is
<1>3. CASE CallScroll
  <2>1. PICK delta \in -MaxScroll..MaxScroll : ts' = Scroll(ts, delta)
    BY <1>3 DEF CallScroll
  <2>2. delta \in Int
    BY <2>1, CallsAssumption
  <2>3. MoveIt(ts.cur, Len(ts.data), delta) \in 0..Len(ts.data)
    BY <1>1, <2>2 DEF MoveIt
  <2>4. Is(MoveAll(ts, delta), ts, ts.data, MoveIt(ts.cur, Len(ts.data), delta))
    BY <1>1, <2>2, <2>3, MoveAllIs
  <2> QED BY <2>1, <2>4, IsIInv DEF Scroll
<1>4. CASE CallSetRadius
  <2>1. PICK r \in 0..MaxRadius : ts' = SetRadius(ts, r)
    BY <1>4 DEF CallSetRadius
  <2> DEFINE u == [ts EXCEPT !.radius = r]
  <2>2. u \in Fields /\ u.data = ts.data /\ u.cur = ts.cur
    <3>1. r \in Nat
      BY <2>1, CallsAssumption
    <3> QED BY <1>1, <3>1 DEF Fields
  <2> HIDE DEF u
  <2>3. u \in Series
    BY <1>1, <2>2 DEF Series
  <2>4. Is(Clamp(u), u, u.data, u.cur)
    BY <2>3, ClampIs DEF Is
  <2>5. ts' = ts \/ ts' = Clamp(u)
    BY <2>1 DEF SetRadius, u
  <2> QED BY <1>2, <2>4, <2>5, IsIInv
<1>5. CASE CallSetDirection
  <2>1. PICK d \in Directions : ts' = SetDirection(ts, d)
    BY <1>5 DEF CallSetDirection
  <2> DEFINE u == [ts EXCEPT !.dir = d]
  <2>2. u \in Fields /\ u.data = ts.data /\ u.cur = ts.cur
    BY <1>1 DEF Fields
  <2> HIDE DEF u
  <2>3. u \in Series
    BY <1>1, <2>2 DEF Series
  <2>4. Is(Clamp(u), u, u.data, u.cur)
    BY <2>3, ClampIs DEF Is
  <2>5. ts' = ts \/ ts' = Clamp(u)
    BY <2>1 DEF SetDirection, u
  <2> QED BY <1>2, <2>4, <2>5, IsIInv
<1>6. CASE CallReset
  <2>1. CASE ts' = ResetSlice(ts)
    <3> DEFINE u == [ts EXCEPT !.cur = 0]
    <3>1. u \in Fields /\ u.data = ts.data /\ u.cur = 0
      BY <1>1, WithPosition
    <3> HIDE DEF u
    <3>2. u \in Series
      BY <1>1, <3>1 DEF Series
    <3>3. Is(Clamp(u), u, u.data, u.cur)
      BY <3>2, ClampIs DEF Is
    <3> QED BY <2>1, <3>3, IsIInv DEF ResetSlice, u
  <2>2. CASE ts' = Clear(ts)
    <3>1. << >> \in Seq(Values) /\ 0 \in 0..Len(<< >>)
      OBVIOUS
    <3>2. Is(Made(ts, << >>, 0), ts, << >>, 0)
      BY <1>1, <3>1, MadeIs
    <3>3. Clear(ts) = Made(ts, << >>, 0)
      BY DEF Clear, Made
    <3> QED BY <2>2, <3>2, <3>3, IsIInv
  <2> QED BY <1>6, <2>1, <2>2 DEF CallReset
<1>7. CASE CallPush
  <2>1. PICK v \in Values : ts' = PushBack(ts, v) \/ ts' = PushFront(ts, v)
    BY <1>7 DEF CallPush
  <2>2. Is(PushBack(ts, v), ts, Append(ts.data, v), ts.cur)
    BY <1>1, PushBackIs
  <2>3. Is(PushFront(ts, v), ts, <<v>> \o ts.data, ts.cur + 1)
    BY <1>1, PushFrontIs
  <2> QED BY <2>1, <2>2, <2>3, IsIInv
<1>8. CASE CallPopFront
  BY <1>1, <1>8, PopFrontIs, IsIInv DEF CallPopFront
<1>9. CASE CallPopBack
  BY <1>1, <1>9, PopBackIs, IsIInv DEF CallPopBack
<1>10. CASE CallShrink
  BY <1>1, <1>10, ShrinkIs, IsIInv DEF CallShrink
<1>11. CASE UNCHANGED ts
  BY <1>2, <1>11, IsIInv
<1> QED
  BY <1>3, <1>4, <1>5, <1>6, <1>7, <1>8, <1>9, <1>10, <1>11 DEF Next

LEMMA AlwaysIInv == Spec => []IInv
BY InitIInv, StepIInv, PTL DEF Spec

---------------------------------------------------------------------------
\* After any calls of push, pop, scroll, shrink and the setters, but pop_back
\* with the position at the end (CallPopBack), the slice and the position are
\* within the data and in order.
THEOREM AlwaysInBounds == Spec => []SliceInBounds
<1>1. IInv => SliceInBounds
  BY SliceBounds, SeriesHas DEF IInv, SliceInBounds
<1> QED BY <1>1, AlwaysIInv, PTL

\* And the slice holds exactly the values within the radius of the position,
\* on the sides that the direction names.
THEOREM AlwaysReach == Spec => []SliceIsReach
<1>1. IInv => SliceIsReach
  BY SeriesHas, SMTT(30) DEF IInv, SliceIsReach, Clamped, Directions
<1> QED BY <1>1, AlwaysIInv, PTL

\* shrink, in whatever state it is called, leaves the values of the slice,
\* all of them in the slice, and the position at the value it was at.
THEOREM ShrinkIsSlice == Spec => []ShrinkKeepsSlice
<1>1. ASSUME IInv PROVE ShrinkKeepsSlice
  <2> DEFINE s == Shrink(ts)
  <2>1. /\ Is(s, ts, Slice(ts), ts.cur - ts.start) /\ s.start = 0 /\ s.finish = Len(Slice(ts))
        /\ Slice(ts) \in Seq(Values) /\ Len(Slice(ts)) = ts.finish - ts.start
    BY <1>1, ShrinkIs DEF IInv
  <2> HIDE DEF s
  <2>2. s.data = Slice(ts) /\ s.cur = ts.cur - ts.start
    BY <2>1 DEF Is
  <2>3. Slice(s) = Slice(ts)
    <3>1. SubSeq(Slice(ts), 1, Len(Slice(ts))) = Slice(ts)
      BY <2>1, SubSeqFull
    <3>2. Slice(s) = SubSeq(Slice(ts), 0 + 1, Len(Slice(ts)))
      BY <2>1, <2>2 DEF Slice
    <3> QED BY <3>1, <3>2
  <2>4. ASSUME ts.cur < Len(ts.data) PROVE s.data[s.cur + 1] = ts.data[ts.cur + 1]
    <3>1. /\ ts.data \in Seq(Values) /\ Len(ts.data) \in Nat
          /\ ts.cur \in Nat /\ ts.start \in Nat /\ ts.finish \in Nat
          /\ ts.start <= ts.cur /\ ts.cur < ts.finish /\ ts.finish <= Len(ts.data)
      BY <1>1, <2>4, SeriesHas, SliceBounds DEF IInv, Clamped
    <3>2. ASSUME NEW a \in Int, NEW b \in Int, NEW i \in 1..(b - a + 1),
                 \A j \in a..b : ts.data[j] \in Values
          PROVE  SubSeq(ts.data, a, b)[i] = ts.data[a + i - 1]
      BY ONLY <3>2, SubSeqProperties
    <3>3. /\ ts.start + 1 \in Int /\ ts.finish \in Int
          /\ (ts.cur - ts.start) + 1 \in 1..(ts.finish - (ts.start + 1) + 1)
          /\ (ts.start + 1) + ((ts.cur - ts.start) + 1) - 1 = ts.cur + 1
      BY <3>1, SMTT(30)
    <3>4. \A j \in (ts.start + 1)..ts.finish : ts.data[j] \in Values
      <4>1. \A j \in (ts.start + 1)..ts.finish : j \in 1..Len(ts.data)
        BY <3>1
      <4> QED BY <3>1, <4>1, ElementOfSeq
    <3>5. Slice(ts)[(ts.cur - ts.start) + 1] = ts.data[ts.cur + 1]
      BY <3>2, <3>3, <3>4 DEF Slice
    <3> QED BY <2>2, <3>5
  <2> QED BY <2>2, <2>3, <2>4 DEF ShrinkKeepsSlice, s
<1>2. IInv => ShrinkKeepsSlice
  BY <1>1
<1> QED BY <1>2, AlwaysIInv, PTL

\* push and pop at either end leave the position at the value it is at.
THEOREM AlwaysFollows == Spec => []CurrentFollowsItsValue
<1>1. ASSUME IInv, ts.cur < Len(ts.data)
      PROVE  /\ \A v \in Values : /\ CurrentValue(PushBack(ts, v)) = CurrentValue(ts)
                                  /\ CurrentValue(PushFront(ts, v)) = CurrentValue(ts)
             /\ ts.cur > 0 => CurrentValue(PopFront(ts)) = CurrentValue(ts)
             /\ Len(ts.data) > 1 =>
                  CurrentValue(PopBack(ts)) =
                    IF ts.cur = Len(ts.data) - 1 THEN ts.data[Len(ts.data) - 1] ELSE CurrentValue(ts)
  <2> DEFINE d == ts.data
             L == Len(d)
             c == ts.cur
  <2>1. ts \in Series /\ d \in Seq(Values) /\ L \in Nat /\ c \in Nat /\ c < L
    BY <1>1, SeriesHas DEF IInv
  <2>3. CurrentValue(ts) = d[c + 1]
    BY DEF CurrentValue
  <2>4. ASSUME NEW v \in Values PROVE CurrentValue(PushBack(ts, v)) = CurrentValue(ts)
    <3>1. Append(d, v)[c + 1] = d[c + 1]
      <4>1. c + 1 \in 1..L
        BY <2>1
      <4> HIDE DEF c
      <4> QED BY <2>1, <4>1, AppendProperties
    <3>2. Is(PushBack(ts, v), ts, Append(d, v), c)
      BY <2>1, PushBackIs
    <3> QED BY <2>3, <3>1, <3>2 DEF Is, CurrentValue
  <2>5. ASSUME NEW v \in Values PROVE CurrentValue(PushFront(ts, v)) = CurrentValue(ts)
    <3>1. (<<v>> \o d)[(c + 1) + 1] = d[c + 1]
      <4>1. <<v>> \in Seq(Values) /\ Len(<<v>>) = 1
        OBVIOUS
      <4>2. \A i \in 1..(Len(<<v>>) + L) :
              (<<v>> \o d)[i] = IF i <= Len(<<v>>) THEN <<v>>[i] ELSE d[i - Len(<<v>>)]
        BY ONLY <2>1, <4>1, ConcatProperties
      <4>3. (c + 1) + 1 \in 1..(1 + L) /\ ~((c + 1) + 1 <= 1) /\ ((c + 1) + 1) - 1 = c + 1
        BY <2>1
      <4> QED BY <4>1, <4>2, <4>3
    <3>2. Is(PushFront(ts, v), ts, <<v>> \o d, c + 1)
      BY <2>1, PushFrontIs
    <3> QED BY <2>3, <3>1, <3>2 DEF Is, CurrentValue
  <2>6. ASSUME c > 0 PROVE CurrentValue(PopFront(ts)) = CurrentValue(ts)
    <3>1. d # << >>
      BY <2>1, EmptySeq
    <3>2. Is(PopFront(ts), ts, Tail(d), c - 1)
      BY <2>1, <2>6, <3>1, PopFrontIs
    <3>3. Tail(d)[(c - 1) + 1] = d[((c - 1) + 1) + 1]
      <4>1. Len(Tail(d)) = L - 1 /\ \A i \in 1..Len(Tail(d)) : Tail(d)[i] = d[i + 1]
        BY <2>1, <3>1, HeadTailProperties
      <4>2. (c - 1) + 1 \in 1..(L - 1)
        BY <2>1, <2>6
      <4> QED BY <4>1, <4>2
    <3>4. ((c - 1) + 1) + 1 = c + 1
      BY <2>1
    <3> QED BY <2>3, <3>2, <3>3, <3>4 DEF Is, CurrentValue
  <2>7. ASSUME L > 1
        PROVE  CurrentValue(PopBack(ts)) = IF c = L - 1 THEN d[L - 1] ELSE CurrentValue(ts)
    <3> DEFINE k == IF c < L - 1 THEN c ELSE IF c = 0 THEN 0 ELSE c - 1
    <3>1. Is(PopBack(ts), ts, SubSeq(d, 1, L - 1), k)
      BY <2>1, PopBackIs
    <3>2. \A i \in 1..(L - 1) : SubSeq(d, 1, L - 1)[i] = d[i]
      <4>1. 1 \in Int /\ L - 1 \in Int /\ \A j \in 1..(L - 1) : d[j] \in Values
        <5>1. \A j \in 1..(L - 1) : j \in 1..L
          BY <2>1
        <5> QED BY <2>1, <5>1, ElementOfSeq
      <4>2. \A i \in 1..((L - 1) - 1 + 1) : SubSeq(d, 1, L - 1)[i] = d[1 + i - 1]
        BY ONLY <4>1, SubSeqProperties
      <4>3. (L - 1) - 1 + 1 = L - 1 /\ \A i \in 1..(L - 1) : 1 + i - 1 = i
        BY <2>1
      <4> QED BY <4>2, <4>3
    <3>3. k + 1 \in 1..(L - 1) /\ k + 1 = IF c = L - 1 THEN L - 1 ELSE c + 1
      BY <2>1, <2>7
    <3> HIDE DEF k
    <3>4. CurrentValue(PopBack(ts)) = SubSeq(d, 1, L - 1)[k + 1]
      BY <3>1 DEF Is, CurrentValue
    <3> QED BY <2>3, <3>2, <3>3, <3>4
  <2> QED BY <2>4, <2>5, <2>6, <2>7
<1>2. IInv => CurrentFollowsItsValue
  BY <1>1 DEF CurrentFollowsItsValue
<1> QED BY <1>2, AlwaysIInv, PTL
=============================================================================
