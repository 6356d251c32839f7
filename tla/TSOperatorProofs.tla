-------------------------- MODULE TSOperatorProofs --------------------------
(***************************************************************************)
(* Proof that a run of TSOperator writes all of its values or none, that   *)
(* it and its cache keep their types, and that on tall stacks the cache    *)
(* has the right window for every layer, for every graph, window and       *)
(* number of layers and runs.                                              *)
(***************************************************************************)
EXTENDS TSOperator, SequenceTheorems, TLAPS

\* What is filtered and not written yet: all of the layers below the one the
\* run is at, and of that one the nodes no longer to do.
BufferIsProgress ==
  /\ phase = "filtering" =>
       /\ layer \in Layers /\ todo \subseteq Filtered
       /\ buffer = ((1..(layer - 1)) \X Filtered) \union ({layer} \X (Filtered \ todo))
  /\ phase = "committing" => buffer = Layers \X Filtered

RunTypes ==
  /\ count \in Nat \ {0} /\ runs \in Nat /\ excluded \subseteq Node
  /\ stored = [l \in Layers |-> [v \in Node |-> stored[l][v]]]
  /\ phase \in {"idle", "filtering", "committing", "done", "threw"}

IInv == RunTypes /\ BufferIsProgress /\ AllOrNothing

LEMMA InitIInv == Init => IInv
<1> SUFFICES ASSUME Init PROVE IInv
  OBVIOUS
<1>1. count \in Nat \ {0}
  BY OperatorAssumption DEF Init
<1>2. \A l \in Layers, v \in Node : stored[l][v] = 0
  BY DEF Init
<1>3. RunTypes
  BY <1>1, <1>2 DEF Init, RunTypes
<1>4. AllOrNothing
  BY <1>2 DEF Init, AllOrNothing
<1> QED BY <1>3, <1>4 DEF Init, IInv, BufferIsProgress

LEMMA StartKeeps ==
  ASSUME IInv, Start
  PROVE  IInv'
<1>1. Layers' = Layers /\ Filtered' = Filtered /\ 1 \in Layers
  BY DEF IInv, RunTypes, Start, settings, Layers, Filtered
<1>2. RunTypes'
  BY <1>1 DEF IInv, RunTypes, Start, settings
<1>3. BufferIsProgress'
  <2>1. (1..0) \X Filtered = {} /\ {1} \X (Filtered \ Filtered) = {}
    OBVIOUS
  <2> QED BY <1>1, <2>1 DEF BufferIsProgress, Start
<1>4. AllOrNothing'
  BY <1>1 DEF IInv, RunTypes, AllOrNothing, Start, settings
<1> QED BY <1>2, <1>3, <1>4 DEF IInv

LEMMA ComputeKeeps ==
  ASSUME IInv, NEW v \in Node, Compute(v)
  PROVE  IInv'
<1>1. Layers' = Layers /\ Filtered' = Filtered
  BY DEF Compute, settings, Layers, Filtered
<1>2. phase = "filtering" /\ v \in todo /\ phase' \in {"filtering", "threw"}
  BY DEF Compute
<1>3. RunTypes'
  BY <1>1, <1>2 DEF IInv, RunTypes, Compute, settings
<1>4. BufferIsProgress'
  <2>1. CASE phase' = "threw"
    BY <2>1 DEF BufferIsProgress
  <2>2. CASE phase' = "filtering"
    <3>1. buffer' = buffer \union {<<layer, v>>} /\ todo' = todo \ {v} /\ layer' = layer
      BY <1>2, <2>2 DEF Compute
    <3>2. {layer} \X (Filtered \ todo') = ({layer} \X (Filtered \ todo)) \union {<<layer, v>>}
      BY <1>2, <3>1 DEF IInv, BufferIsProgress
    <3> QED BY <1>1, <1>2, <2>2, <3>1, <3>2 DEF IInv, BufferIsProgress
  <2> QED BY <1>2, <2>1, <2>2
<1>5. AllOrNothing'
  BY <1>1, <1>2 DEF IInv, RunTypes, AllOrNothing, Compute, settings
<1> QED BY <1>3, <1>4, <1>5 DEF IInv

LEMMA NextLayerKeeps ==
  ASSUME IInv, NextLayer
  PROVE  IInv'
<1>1. Layers' = Layers /\ Filtered' = Filtered
  BY DEF NextLayer, settings, Layers, Filtered
<1>2. phase = "filtering" /\ todo = {} /\ phase' \in {"filtering", "committing"}
  BY DEF NextLayer
<1>3. layer \in Nat /\ 1 <= layer /\ layer <= count /\ count \in Nat
  BY <1>2 DEF IInv, BufferIsProgress, RunTypes, Layers
<1>4. buffer' = (1..layer) \X Filtered
  <2>1. buffer' = buffer
    BY DEF NextLayer
  <2>2. 1..layer = (1..(layer - 1)) \union {layer}
    BY <1>3
  <2> QED BY <1>2, <2>1, <2>2 DEF IInv, BufferIsProgress
<1>5. RunTypes'
  BY <1>1, <1>2 DEF IInv, RunTypes, NextLayer, settings
<1>6. BufferIsProgress'
  <2>1. CASE layer < count
    <3>1. phase' = "filtering" /\ layer' = layer + 1 /\ todo' = Filtered
      BY <1>2, <2>1 DEF NextLayer
    <3>2. layer' \in Layers /\ layer' - 1 = layer
      BY <1>3, <2>1, <3>1 DEF Layers
    <3>3. {layer'} \X (Filtered \ todo') = {}
      BY <3>1
    <3> QED BY <1>1, <1>4, <3>1, <3>2, <3>3 DEF BufferIsProgress
  <2>2. CASE ~(layer < count)
    <3>1. phase' = "committing"
      BY <2>2 DEF NextLayer
    <3>2. 1..layer = Layers
      BY <1>3, <2>2 DEF Layers
    <3> QED BY <1>1, <1>4, <3>1, <3>2 DEF BufferIsProgress
  <2> QED BY <2>1, <2>2
<1>7. AllOrNothing'
  BY <1>1, <1>2 DEF IInv, RunTypes, AllOrNothing, NextLayer, settings
<1> QED BY <1>5, <1>6, <1>7 DEF IInv

LEMMA PostExecKeeps ==
  ASSUME IInv, PostExec
  PROVE  IInv'
<1>1. Layers' = Layers /\ Filtered' = Filtered /\ excluded' = excluded /\ runs' = runs
  BY DEF PostExec, settings, Layers, Filtered
<1>2. buffer = Layers \X Filtered /\ phase' = "done"
  BY DEF IInv, BufferIsProgress, PostExec
<1>3. \A l \in Layers, v \in Node :
        stored'[l][v] = IF v \in excluded THEN 0 ELSE runs
  BY <1>2 DEF IInv, AllOrNothing, PostExec, Filtered
<1>4. stored' = [l \in Layers |-> [v \in Node |-> stored'[l][v]]]
  BY DEF PostExec
<1>5. RunTypes'
  BY <1>1, <1>2, <1>4 DEF IInv, RunTypes, PostExec, settings
<1>6. BufferIsProgress'
  BY <1>2 DEF BufferIsProgress
<1>7. AllOrNothing'
  BY <1>1, <1>2, <1>3 DEF AllOrNothing
<1> QED BY <1>5, <1>6, <1>7 DEF IInv

LEMMA IInvKept == IInv /\ [Next]_vars => IInv'
<1> SUFFICES ASSUME IInv, [Next]_vars PROVE IInv'
  OBVIOUS
<1>1. CASE UNCHANGED vars
  BY <1>1 DEF IInv, RunTypes, BufferIsProgress, AllOrNothing, vars, settings, Layers, Filtered
<1> QED BY <1>1, StartKeeps, ComputeKeeps, NextLayerKeeps, PostExecKeeps DEF Next

\* However runs follow each other, and wherever one throws, the stored values
\* are all from the same number of runs, and excluded nodes keep theirs.
THEOREM EveryRunAllOrNothing == Spec => []AllOrNothing
<1>1. IInv /\ [Next]_vars => IInv'
  BY IInvKept
<1>2. IInv => AllOrNothing
  BY DEF IInv
<1> QED BY <1>1, <1>2, InitIInv, PTL DEF Spec
---------------------------------------------------------------------------
(* Types *)

\* The window of a layer ends in the stack
LEMMA UpperInStack ==
  ASSUME TypeOK, NEW l \in Layers
  PROVE  GetLayerBounds(l)[2] \in Layers
<1>1. l \in Nat /\ count \in Nat /\ radius \in Nat /\ l <= count /\ 1 <= l
  BY OperatorAssumption DEF TypeOK, Layers
<1>2. Upper(l) \in Layers
  BY <1>1 DEF Upper, Layers
<1> QED BY <1>2 DEF GetLayerBounds

LEMMA StartTypes ==
  ASSUME TypeOK, Start
  PROVE  TypeOK'
<1>1. Layers' = Layers /\ Filtered' = Filtered
  BY DEF Start, settings, Layers, Filtered
<1>2. count \in Nat /\ 1 <= count /\ base \in 1..count /\ runs + 1 \in 0..MaxRuns
  BY OperatorAssumption DEF TypeOK, Start, Layers
<1>3. runs' \in 0..MaxRuns /\ layer' \in 0..count /\ active' \in 0..count /\ upper' \in 0..count
  BY <1>2 DEF Start
<1> QED BY <1>1, <1>3 DEF TypeOK, Start, settings

LEMMA ComputeTypes ==
  ASSUME TypeOK, IInv, NEW v \in Node, Compute(v)
  PROVE  TypeOK'
<1>1. Layers' = Layers /\ Filtered' = Filtered
  BY DEF Compute, settings, Layers, Filtered
<1>2. v \in Filtered /\ Reads(v) \subseteq Filtered /\ layer \in Layers
  BY DEF TypeOK, IInv, BufferIsProgress, Compute, Reads, Filtered
<1>3. DOMAIN cache' \subseteq Filtered
  BY <1>2 DEF TypeOK, Compute, GetAll
<1>4. phase' \in {"filtering", "threw"} /\ todo' \subseteq Filtered
  BY DEF TypeOK, Compute
<1>5. buffer' = buffer \/ buffer' = buffer \union {<<layer, v>>}
  BY DEF Compute
<1>6. buffer' \subseteq Layers \X Filtered
  BY <1>2, <1>5 DEF TypeOK
<1> QED BY <1>1, <1>3, <1>4, <1>6 DEF TypeOK, Compute, settings

LEMMA NextLayerTypes ==
  ASSUME TypeOK, IInv, NextLayer
  PROVE  TypeOK'
<1>1. Layers' = Layers /\ Filtered' = Filtered
  BY DEF NextLayer, settings, Layers, Filtered
<1>2. layer \in 1..count /\ count \in Nat /\ active \in 0..count
  BY OperatorAssumption DEF TypeOK, IInv, BufferIsProgress, NextLayer, Layers
<1>3. DOMAIN cache' = DOMAIN cache
  BY DEF NextLayer, ScrollUp
<1>4. active' \in 0..count /\ upper' \in 0..count
  <2>1. CASE active = count
    BY <1>2, <2>1 DEF NextLayer, ScrollUp, TypeOK
  <2>2. CASE active # count
    <3>1. active + 1 \in Layers
      BY <1>2, <2>2 DEF Layers
    <3>2. GetLayerBounds(active + 1)[2] \in 0..count
      BY <1>2, <3>1, UpperInStack DEF Layers
    <3>3. active' = active + 1 /\ (upper' = upper \/ upper' = GetLayerBounds(active + 1)[2])
      BY <2>2 DEF NextLayer, ScrollUp
    <3> QED BY <1>2, <3>1, <3>2, <3>3 DEF TypeOK, Layers
  <2> QED BY <2>1, <2>2
<1>5. layer' \in 0..count /\ todo' \subseteq Filtered /\ phase' \in {"filtering", "committing"}
  BY <1>2 DEF NextLayer, TypeOK
<1>6. UNCHANGED <<settings, stored, buffer, runs>>
  BY DEF NextLayer
<1> QED BY <1>1, <1>3, <1>4, <1>5, <1>6 DEF TypeOK, settings

LEMMA PostExecTypes ==
  ASSUME TypeOK, PostExec
  PROVE  TypeOK'
<1>1. Layers' = Layers /\ Filtered' = Filtered
  BY DEF PostExec, settings, Layers, Filtered
<1>2. stored' \in [Layers -> [Node -> 0..MaxRuns]]
  BY DEF TypeOK, PostExec
<1> QED BY <1>1, <1>2 DEF TypeOK, PostExec, settings, cacheVars

\* Excluded nodes are neither cached nor filtered, whatever the graph and the
\* window, and the layers of the cache and the loop are layers of the stack.
THEOREM TypeCorrect == Spec => []TypeOK
<1>1. Init => TypeOK
  <2> SUFFICES ASSUME Init PROVE TypeOK
    OBVIOUS
  <2>1. count \in Nat /\ 0 \in 0..count /\ 0 \in 0..MaxRuns /\ base \in Layers
    BY OperatorAssumption DEF Init
  <2>2. stored \in [Layers -> [Node -> 0..MaxRuns]]
    BY <2>1 DEF Init
  <2> QED BY <2>1, <2>2 DEF Init, TypeOK
<1>2. IInv /\ [Next]_vars => IInv'
  BY IInvKept
<1>3. TypeOK /\ IInv /\ [Next]_vars => TypeOK'
  <2> SUFFICES ASSUME TypeOK, IInv, [Next]_vars PROVE TypeOK'
    OBVIOUS
  <2>1. CASE UNCHANGED vars
    BY <2>1 DEF TypeOK, vars, settings, cacheVars, Layers, Filtered
  <2> QED BY <2>1, StartTypes, ComputeTypes, NextLayerTypes, PostExecTypes DEF Next
<1> QED BY <1>1, <1>2, <1>3, InitIInv, PTL DEF Spec
---------------------------------------------------------------------------
(* The cache follows the run *)

\* What TimeSeriesProofs shows of the methods of a series holds for any series,
\* whatever the variable of TimeSeriesCalls is
CONSTANT AnySeries

Calls == INSTANCE TimeSeriesProofs
  WITH Values <- Nat \X Nat, MaxSize <- 0, MaxScroll <- 0, ts <- AnySeries

LEMMA CallsAre == Calls!CallsAssumption
BY OperatorAssumption DEF Calls!CallsAssumption

\* The methods are the same there and here
LEMMA SameMethods ==
  /\ \A t : Calls!Shrink(t) = Shrink(t)
  /\ \A t, delta : Calls!Scroll(t, delta) = Scroll(t, delta)
  /\ \A t, v : Calls!PushBack(t, v) = PushBack(t, v)
  /\ \A d, r, e : Calls!TimeSeriesOf(d, r, e) = TimeSeriesOf(d, r, e)
  /\ \A t : Calls!Slice(t) = Slice(t)
<1> USE DEF Calls!Clamp, Clamp, Calls!MoveIt, MoveIt, Calls!MoveAll, MoveAll
<1>1. \A t : Calls!Shrink(t) = Shrink(t)
  BY DEF Calls!Shrink, Shrink, Calls!PopFronts, PopFronts, Calls!PopFront, PopFront,
         Calls!PopBacks, PopBacks, Calls!PopBack, PopBack
<1>2. \A t, delta : Calls!Scroll(t, delta) = Scroll(t, delta)
  BY DEF Calls!Scroll, Scroll
<1>3. \A t, v : Calls!PushBack(t, v) = PushBack(t, v)
  BY DEF Calls!PushBack, PushBack
<1>4. \A d, r, e : Calls!TimeSeriesOf(d, r, e) = TimeSeriesOf(d, r, e)
  BY DEF Calls!TimeSeriesOf, TimeSeriesOf
<1>5. \A t : Calls!Slice(t) = Slice(t)
  BY DEF Calls!Slice, Slice
<1> QED BY <1>1, <1>2, <1>3, <1>4, <1>5

Setting == [radius |-> radius, dir |-> dir]

\* The series t holds the window of node v around layer l, placed at l
IsWindow(t, v, l) ==
  Calls!Is(t, Setting, Signal(v, Lower(l), Upper(l)), l - Lower(l))

HoldsWindows == \A v \in DOMAIN cache : IsWindow(cache[v], v, layer)

\* Loaded at the first layer, when all nodes are, and scrolled with the run
CacheFollows ==
  TallStack /\ phase \in {"filtering", "threw"} =>
    /\ layer \in Layers /\ active = layer
    /\ layer = 1 => upper = 0 /\ Filtered \ todo \subseteq DOMAIN cache
    /\ layer # 1 => upper = Upper(layer) /\ DOMAIN cache = Filtered
    /\ HoldsWindows

LEMMA Figures ==
  ASSUME TypeOK
  PROVE  /\ count \in Nat \ {0} /\ radius \in Nat /\ Layers = 1..count
         /\ dir \in {"past", "future", "both"}
BY OperatorAssumption DEF TypeOK, Layers, Directions

LEMMA WindowBounds ==
  ASSUME TypeOK, NEW l \in Layers
  PROVE  /\ l \in Nat /\ Lower(l) \in 1..l /\ Upper(l) \in l..count
         /\ dir = "future" => Lower(l) = l
         /\ dir # "future" => l - Lower(l) <= radius
         /\ dir = "past" => Upper(l) = l
         /\ dir # "past" => Upper(l) <= l + radius
BY Figures DEF Lower, Upper

\* From a layer to the next
LEMMA NextBounds ==
  ASSUME TypeOK, NEW l \in Layers, l < count
  PROVE  /\ l + 1 \in Layers /\ Lower(l) <= Lower(l + 1)
         /\ Upper(l + 1) \in {Upper(l), Upper(l) + 1}
         /\ dir = "future" => Lower(l + 1) = Lower(l) + 1
         /\ dir # "future" =>
              Lower(l + 1) - Lower(l) =
                IF (l + 1) - Lower(l) < radius THEN 0 ELSE (l + 1) - Lower(l) - radius
         /\ dir = "past" => Upper(l + 1) = l + 1
         /\ dir # "past" => Upper(l + 1) <= (l + 1) + radius
         /\ TallStack /\ l = 1 => Upper(2) = Upper(1) + 1
BY Figures DEF Lower, Upper, TallStack

LEMMA SignalIs ==
  ASSUME TypeOK, NEW v \in Node, NEW low \in Layers, NEW high \in Layers
  PROVE  /\ Signal(v, low, high) \in Seq(Nat \X Nat)
         /\ low <= high => Len(Signal(v, low, high)) = high - low + 1
         /\ \A i \in 1..(high - low + 1) : Signal(v, low, high)[i] = Value(low + i - 1, v)
<1>1. high - low + 1 \in Int /\ low \in Nat /\ high \in Nat
  BY Figures
<1>2. \A i \in 1..(high - low + 1) : Value(low + i - 1, v) \in Nat \X Nat
  <2> SUFFICES ASSUME NEW i \in 1..(high - low + 1) PROVE Value(low + i - 1, v) \in Nat \X Nat
    OBVIOUS
  <2>1. low + i - 1 \in Layers
    BY Figures
  <2>2. \A m \in Layers : stored[m][v] \in Nat /\ m \in Nat
    <3>1. \A m \in Layers : stored[m][v] \in 0..MaxRuns
      BY DEF TypeOK
    <3>2. \A m \in Layers : m \in Nat
      BY Figures
    <3> QED BY <3>1, <3>2, OperatorAssumption
  <2> QED BY <2>1, <2>2 DEF Value
<1> QED
  BY <1>1, <1>2 DEF Signal

\* The upper part of a signal is a signal, and so is one with the next value
LEMMA SignalPart ==
  ASSUME TypeOK, NEW v \in Node, NEW low \in Layers, NEW high \in Layers, low <= high,
         NEW m \in Layers, low <= m, m <= high
  PROVE  SubSeq(Signal(v, low, high), m - low + 1, high - low + 1) = Signal(v, m, high)
<1> DEFINE s == Signal(v, low, high)
           a == m - low + 1
           b == high - low + 1
           e == SubSeq(s, a, b)
           V == Nat \X Nat
<1>1. low \in Nat /\ high \in Nat /\ m \in Nat /\ a \in Int /\ b \in Int
  BY Figures
<1>2. s \in Seq(V) /\ Len(s) = b /\ \A i \in 1..b : s[i] = Value(low + i - 1, v)
  BY SignalIs
<1>3. /\ Signal(v, m, high) \in Seq(V) /\ Len(Signal(v, m, high)) = high - m + 1
      /\ \A i \in 1..(high - m + 1) : Signal(v, m, high)[i] = Value(m + i - 1, v)
  BY SignalIs
<1>4. \A i \in a..b : s[i] \in V /\ i \in 1..b
  <2>1. \A i \in a..b : i \in 1..b
    BY <1>1
  <2> HIDE DEF s, V, a, b
  <2> QED BY <1>2, <2>1, ElementOfSeq
<1>5. /\ e \in Seq(V) /\ Len(e) = IF a <= b THEN b - a + 1 ELSE 0
      /\ \A i \in 1..(b - a + 1) : e[i] = s[a + i - 1]
  <2> HIDE DEF s, V, a, b
  <2> QED BY <1>1, <1>4, SubSeqProperties
<1>6. b - a + 1 = high - m + 1 /\ a <= b
  BY <1>1
<1>7. \A i \in 1..(high - m + 1) : e[i] = Signal(v, m, high)[i]
  <2> SUFFICES ASSUME NEW i \in 1..(high - m + 1) PROVE e[i] = Value(m + i - 1, v)
    BY <1>3
  <2>1. a + i - 1 \in 1..b /\ low + (a + i - 1) - 1 = m + i - 1
    BY <1>1
  <2> HIDE DEF s, V, a, b, e
  <2>2. e[i] = s[a + i - 1]
    BY <1>5, <1>6
  <2> QED BY <1>2, <2>1, <2>2
<1>8. Len(e) = Len(Signal(v, m, high))
  BY <1>3, <1>5, <1>6
<1>9. \A i \in 1..Len(e) : e[i] = Signal(v, m, high)[i]
  BY <1>3, <1>7, <1>8
<1> HIDE DEF e, V
<1>10. e = Signal(v, m, high)
  BY <1>3, <1>5, <1>8, <1>9, SeqEqual
<1> QED BY <1>10 DEF e

LEMMA SignalMore ==
  ASSUME TypeOK, NEW v \in Node, NEW low \in Layers, NEW high \in Layers, low <= high,
         high + 1 \in Layers
  PROVE  /\ Append(Signal(v, low, high), Value(high + 1, v)) = Signal(v, low, high + 1)
         /\ Value(high + 1, v) \in Nat \X Nat
<1> DEFINE s == Signal(v, low, high)
           t == Signal(v, low, high + 1)
           x == Value(high + 1, v)
           e == Append(s, x)
           V == Nat \X Nat
           n == high - low + 1
<1>1. low \in Nat /\ high \in Nat /\ n \in Nat
  BY Figures
<1>2. s \in Seq(V) /\ Len(s) = n /\ \A i \in 1..n : s[i] = Value(low + i - 1, v)
  BY SignalIs
<1>3. /\ t \in Seq(V) /\ Len(t) = n + 1
      /\ \A i \in 1..(n + 1) : t[i] = Value(low + i - 1, v)
  <2>1. low <= high + 1 /\ (high + 1) - low + 1 = n + 1
    BY <1>1
  <2> HIDE DEF n
  <2> QED BY <2>1, SignalIs
<1>4. x \in V
  <2>1. n + 1 \in 1..Len(t)
    BY <1>1, <1>3
  <2>2. t[n + 1] = Value(low + (n + 1) - 1, v) /\ low + (n + 1) - 1 = high + 1
    BY <1>1, <1>3
  <2> HIDE DEF t, V, n
  <2> QED BY <1>3, <2>1, <2>2, ElementOfSeq
<1>5. /\ e \in Seq(V) /\ Len(e) = Len(s) + 1
      /\ \A i \in 1..Len(s) : e[i] = s[i]
      /\ e[Len(s) + 1] = x
  <2> HIDE DEF s, V, x
  <2> QED BY <1>2, <1>4, AppendProperties
<1>6. \A i \in 1..(n + 1) : e[i] = t[i]
  <2> SUFFICES ASSUME NEW i \in 1..(n + 1) PROVE e[i] = t[i]
    OBVIOUS
  <2> HIDE DEF e, s, t
  <2>1. CASE i = n + 1
    <3>1. low + (n + 1) - 1 = high + 1
      BY <1>1
    <3> QED BY <1>2, <1>3, <1>5, <2>1, <3>1
  <2>2. CASE i # n + 1
    <3>1. i \in 1..n
      BY <1>1, <2>2
    <3> HIDE DEF n
    <3> QED BY <1>2, <1>3, <1>5, <3>1
  <2> QED BY <2>1, <2>2
<1> HIDE DEF e, s, t, V, n
<1>7. e = t
  BY <1>2, <1>3, <1>5, <1>6, SeqEqual
<1> QED BY <1>4, <1>7 DEF e, s, t, x, V

\* A series loaded at the first layer
LEMMA LoadIs ==
  ASSUME TypeOK, NEW v \in Node, 1 \in Layers
  PROVE  IsWindow(GetSignal(v, 1), v, 1)
<1> DEFINE d == Signal(v, Lower(1), Upper(1))
           t == [data |-> d, cur |-> 0, start |-> 0, finish |-> 0, radius |-> radius, dir |-> dir]
<1>1. /\ Lower(1) = 1 /\ Upper(1) \in Layers /\ radius \in Nat /\ dir \in Calls!Directions
  BY Figures, WindowBounds DEF Calls!Directions
<1>2. d \in Seq(Nat \X Nat)
  BY <1>1, SignalIs
<1> HIDE DEF d
<1>3. t \in Calls!Fields /\ t.data = d /\ t.cur = 0 /\ t.radius = radius /\ t.dir = dir
  BY <1>1, <1>2 DEF Calls!Fields
<1> HIDE DEF t
<1>4. t \in Calls!Series
  <2>1. Len(d) \in Nat
    BY <1>2, LenProperties
  <2> QED BY <1>3, <2>1 DEF Calls!Series
<1>5. Calls!Is(Calls!Clamp(t), Setting, d, 0)
  BY <1>3, <1>4, CallsAre, Calls!ClampIs DEF Calls!Is, Setting
<1>6. GetSignal(v, 1) = Calls!Clamp(t)
  <2>1. GetSignal(v, 1) = TimeSeriesOf(d, radius, dir)
    BY DEF GetSignal, GetLayerBounds, d
  <2>2. Calls!TimeSeriesOf(d, radius, dir) = Calls!Clamp(t)
    BY DEF Calls!TimeSeriesOf, t
  <2> QED BY <2>1, <2>2, SameMethods
<1>7. 1 - Lower(1) = 0
  BY <1>1
<1> QED BY <1>5, <1>6, <1>7 DEF IsWindow, d

\* The value of the next layer is added
LEMMA PushIs ==
  ASSUME TypeOK, NEW v \in Node, NEW l \in Layers, NEW t, IsWindow(t, v, l),
         Upper(l) + 1 \in Layers
  PROVE  Calls!Is(PushBack(t, Value(Upper(l) + 1, v)), Setting,
                  Signal(v, Lower(l), Upper(l) + 1), l - Lower(l))
<1>1. Lower(l) \in Layers /\ Upper(l) \in Layers /\ Lower(l) <= Upper(l)
  BY Figures, WindowBounds
<1> DEFINE x == Value(Upper(l) + 1, v)
<1>2. /\ Append(Signal(v, Lower(l), Upper(l)), x) = Signal(v, Lower(l), Upper(l) + 1)
      /\ x \in Nat \X Nat
  BY <1>1, SignalMore
<1> HIDE DEF x
<1>3. t \in Calls!Series /\ t.data = Signal(v, Lower(l), Upper(l)) /\ t.cur = l - Lower(l)
      /\ t.radius = radius /\ t.dir = dir
  BY DEF IsWindow, Calls!Is, Setting
<1>4. Calls!Is(Calls!PushBack(t, x), t, Append(t.data, x), t.cur)
  BY <1>2, <1>3, CallsAre, Calls!PushBackIs
<1>5. Calls!Is(PushBack(t, x), Setting, Append(t.data, x), t.cur)
  BY <1>3, <1>4, SameMethods DEF Calls!Is, Setting
<1> QED BY <1>2, <1>3, <1>5 DEF x

\* A series that reaches up to the window of the next layer, scrolled there
\* and shrunk, is that window
LEMMA ScrolledIs ==
  ASSUME TypeOK, NEW v \in Node, NEW l \in Layers, l < count, NEW t,
         Calls!Is(t, Setting, Signal(v, Lower(l), Upper(l + 1)), l - Lower(l))
  PROVE  IsWindow(ScrolledUp(t), v, l + 1)
<1> DEFINE low == Lower(l)
           m == Lower(l + 1)
           high == Upper(l + 1)
           d == Signal(v, low, high)
           u == Calls!Scroll(t, 1)
<1>1. /\ l + 1 \in Layers /\ low \in Layers /\ m \in Layers /\ high \in Layers
      /\ low <= l /\ m <= l + 1 /\ low <= m /\ l + 1 <= high /\ m <= high
      /\ l \in Nat /\ low \in Nat /\ m \in Nat /\ high \in Nat /\ radius \in Nat
      /\ low <= high
  <2>1. l + 1 \in Layers /\ low <= m
    BY NextBounds
  <2>2. l \in Nat /\ low \in 1..l
    BY WindowBounds
  <2>3. m \in 1..(l + 1) /\ high \in (l + 1)..count
    BY <2>1, WindowBounds
  <2> HIDE DEF low, m, high
  <2> QED BY <2>1, <2>2, <2>3, Figures
<1>2. /\ dir = "future" => m - low = (l + 1) - low
      /\ dir # "future" =>
           m - low = IF (l + 1) - low < radius THEN 0 ELSE (l + 1) - low - radius
  BY <1>1, WindowBounds, NextBounds
<1>3. /\ dir = "past" => high = l + 1
      /\ dir # "past" => high <= (l + 1) + radius
  BY NextBounds
<1> HIDE DEF low, m, high
<1>4. d \in Seq(Nat \X Nat) /\ Len(d) = high - low + 1
  BY <1>1, SignalIs
<1>5. /\ t \in Calls!Series /\ t.data = d /\ t.cur = l - low /\ t.radius = radius /\ t.dir = dir
  BY DEF Calls!Is, Setting, low, high
<1> HIDE DEF d
<1>6. Calls!Is(u, t, d, (l + 1) - low)
  <2>1. Calls!MoveIt(t.cur, Len(t.data), 1) = (l + 1) - low /\ (l + 1) - low \in 0..Len(t.data)
    <3>1. t.cur = l - low /\ Len(t.data) = high - low + 1
      BY <1>4, <1>5
    <3>2. (l - low) + 1 = (l + 1) - low /\ (l + 1) - low \in 0..(high - low + 1)
      BY <1>1
    <3> QED BY <1>1, <3>1, <3>2 DEF Calls!MoveIt
  <2>2. t \in Calls!Fields
    BY <1>5 DEF Calls!Series
  <2>3. Calls!Is(Calls!MoveAll(t, 1), t, t.data, Calls!MoveIt(t.cur, Len(t.data), 1))
    BY <2>1, <2>2, CallsAre, Calls!MoveAllIs
  <2> QED BY <1>5, <2>1, <2>3 DEF Calls!Scroll
<1> HIDE DEF u
<1>7. /\ u \in Calls!Series /\ Calls!Clamped(u) /\ u.data = d /\ u.cur = (l + 1) - low
      /\ u.radius = radius /\ u.dir = dir
  BY <1>5, <1>6 DEF Calls!Is
<1>8. u.start = m - low /\ u.finish = high - low + 1
  <2>1. u.start = IF dir = "future" THEN (l + 1) - low
                  ELSE IF (l + 1) - low < radius THEN 0 ELSE (l + 1) - low - radius
    BY <1>7 DEF Calls!Clamped
  <2>2. u.finish = LET r == IF dir = "past" THEN 1 ELSE radius + 1
                   IN IF (l + 1) - low + r > high - low + 1 THEN high - low + 1
                      ELSE (l + 1) - low + r
    BY <1>4, <1>7 DEF Calls!Clamped
  <2>3. u.start = m - low
    BY <1>2, <2>1
  <2>4. u.finish = high - low + 1
    BY <1>1, <1>3, <2>2, SMTT(30)
  <2> QED BY <2>3, <2>4
<1>9. Calls!Slice(u) = Signal(v, m, high)
  <2>1. SubSeq(Signal(v, low, high), m - low + 1, high - low + 1) = Signal(v, m, high)
    BY <1>1, SignalPart
  <2> QED BY <1>7, <1>8, <2>1 DEF Calls!Slice, d
<1>10. Calls!Is(Calls!Shrink(u), u, Calls!Slice(u), u.cur - u.start)
  BY <1>7, CallsAre, Calls!ShrinkIs
<1>11. u.cur - u.start = (l + 1) - m
  BY <1>1, <1>7, <1>8
<1>12. Calls!Is(Calls!Shrink(u), Setting, Signal(v, m, high), (l + 1) - m)
  BY <1>7, <1>9, <1>10, <1>11 DEF Calls!Is, Setting
<1>13. ScrolledUp(t) = Calls!Shrink(u)
  BY SameMethods DEF ScrolledUp, u
<1> QED BY <1>12, <1>13 DEF IsWindow, m, high

\* All the data of such a series are in its slice
LEMMA WindowSlice ==
  ASSUME TypeOK, NEW v \in Node, NEW l \in Layers, NEW t, IsWindow(t, v, l)
  PROVE  Slice(t) = Signal(v, Lower(l), Upper(l))
<1> DEFINE d == Signal(v, Lower(l), Upper(l))
<1>1. /\ l \in Nat /\ Lower(l) \in Layers /\ Upper(l) \in Layers /\ radius \in Nat
      /\ Lower(l) \in Nat /\ Upper(l) \in Nat
      /\ Lower(l) <= l /\ l <= Upper(l)
      /\ dir = "future" => Lower(l) = l
      /\ dir # "future" => l - Lower(l) <= radius
      /\ dir = "past" => Upper(l) = l
      /\ dir # "past" => Upper(l) <= l + radius
  BY Figures, WindowBounds
<1>2. d \in Seq(Nat \X Nat) /\ Len(d) = Upper(l) - Lower(l) + 1
  <2>1. Lower(l) <= Upper(l)
    BY <1>1
  <2> QED BY <1>1, <2>1, SignalIs
<1> HIDE DEF d
<1>3. /\ Calls!Clamped(t) /\ t.data = d /\ t.cur = l - Lower(l)
      /\ t.radius = radius /\ t.dir = dir
  BY DEF IsWindow, Calls!Is, Setting, d
<1>4. t.start = 0
  <2>1. t.start = IF dir = "future" THEN l - Lower(l)
                  ELSE IF l - Lower(l) < radius THEN 0 ELSE l - Lower(l) - radius
    BY <1>3 DEF Calls!Clamped
  <2> QED BY <1>1, <2>1
<1>5. t.finish = Len(d)
  <2> DEFINE r == IF dir = "past" THEN 1 ELSE radius + 1
  <2>1. t.finish = IF l - Lower(l) + r > Len(d) THEN Len(d) ELSE l - Lower(l) + r
    BY <1>3 DEF Calls!Clamped
  <2>2. r \in Nat /\ l - Lower(l) + r >= Upper(l) - Lower(l) + 1
    BY <1>1
  <2>3. Len(d) \in Nat /\ l - Lower(l) + r >= Len(d) /\ l - Lower(l) \in Nat
    <3>1. l - Lower(l) \in Nat
      BY <1>1
    <3>2. Len(d) \in Nat /\ l - Lower(l) + r >= Len(d)
      <4> HIDE DEF r
      <4> QED BY <1>2, <2>2, LenProperties
    <3> QED BY <3>1, <3>2
  <2> HIDE DEF r
  <2> QED BY <2>1, <2>2, <2>3
<1>6. SubSeq(d, 1, Len(d)) = d
  BY <1>2, SubSeqFull
<1>7. Slice(t) = SubSeq(d, 0 + 1, Len(d))
  BY <1>3, <1>4, <1>5 DEF Slice
<1> QED BY <1>6, <1>7 DEF d

\* A step that leaves the stack and its values alone leaves the windows alone
LEMMA SameWindows ==
  ASSUME UNCHANGED <<settings, stored>>
  PROVE  /\ TallStack' = TallStack /\ Layers' = Layers /\ Filtered' = Filtered
         /\ Upper(layer)' = Upper(layer')
         /\ (\A v \in DOMAIN cache' : IsWindow(cache'[v], v, layer')) => HoldsWindows'
<1>1. /\ count' = count /\ base' = base /\ radius' = radius /\ dir' = dir
      /\ excluded' = excluded /\ stored' = stored
  BY DEF settings
<1>2. TallStack' = TallStack /\ Layers' = Layers /\ Filtered' = Filtered
  BY <1>1 DEF TallStack, Layers, Filtered
<1>3. Upper(layer)' = Upper(layer') /\ Lower(layer)' = Lower(layer')
  BY <1>1 DEF Upper, Lower
<1>4. (\A v \in DOMAIN cache' : IsWindow(cache'[v], v, layer')) => HoldsWindows'
  BY <1>1 DEF HoldsWindows, IsWindow, Setting, Signal, Value, Upper, Lower
<1> QED BY <1>2, <1>3, <1>4

LEMMA StartFollows ==
  ASSUME TypeOK, Start
  PROVE  CacheFollows'
<1> SUFFICES ASSUME TallStack'
             PROVE  /\ layer' \in Layers' /\ active' = layer'
                    /\ layer' = 1 /\ upper' = 0
                    /\ Filtered' \ todo' = {} /\ HoldsWindows'
  BY DEF CacheFollows
<1>1. base = 1 /\ layer' = 1 /\ active' = base /\ upper' = 0 /\ todo' = Filtered
      /\ cache' = << >>
  BY SameWindows DEF Start, TallStack
<1>2. 1 \in Layers /\ Layers' = Layers /\ Filtered' = Filtered
  BY <1>1, SameWindows DEF Start, TypeOK
<1>3. DOMAIN cache' = {}
  BY <1>1
<1>4. HoldsWindows'
  BY <1>3 DEF HoldsWindows
<1> QED BY <1>1, <1>2, <1>4

LEMMA ComputeFollows ==
  ASSUME TypeOK, CacheFollows, NEW v \in Node, Compute(v)
  PROVE  CacheFollows'
<1> SUFFICES ASSUME TallStack'
             PROVE  CacheFollows'
  BY DEF CacheFollows
<1>1. UNCHANGED <<settings, stored>>
  BY DEF Compute
<1>2. /\ phase = "filtering" /\ TallStack /\ v \in todo /\ cache' = GetAll(Reads(v))
      /\ layer' = layer /\ active' = active /\ upper' = upper /\ todo \ {v} \subseteq todo'
  BY <1>1, SameWindows DEF Compute
<1>3. /\ layer \in Layers /\ active = layer
      /\ layer = 1 => upper = 0 /\ Filtered \ todo \subseteq DOMAIN cache
      /\ layer # 1 => upper = Upper(layer) /\ DOMAIN cache = Filtered
      /\ \A n \in DOMAIN cache : IsWindow(cache[n], n, layer)
  BY <1>2 DEF CacheFollows, HoldsWindows
<1>4. Reads(v) \subseteq Filtered /\ v \in Reads(v) /\ Filtered \subseteq Node
  BY <1>2 DEF Reads, TypeOK, Filtered
<1>5. /\ DOMAIN cache' = DOMAIN cache \union Reads(v)
      /\ \A n \in DOMAIN cache' :
           cache'[n] = IF n \in DOMAIN cache THEN cache[n] ELSE GetSignal(n, active)
  BY <1>2 DEF GetAll
<1>6. ASSUME NEW n \in DOMAIN cache'
      PROVE  IsWindow(cache'[n], n, layer)
  <2>1. CASE n \in DOMAIN cache
    BY <1>3, <1>5, <2>1
  <2>2. CASE n \notin DOMAIN cache
    <3>1. n \in Filtered /\ layer = 1 /\ n \in Node
      BY <1>3, <1>4, <1>5, <2>2
    <3>2. cache'[n] = GetSignal(n, 1)
      BY <1>3, <1>5, <2>2, <3>1
    <3>3. IsWindow(GetSignal(n, 1), n, 1)
      BY <1>3, <3>1, LoadIs
    <3> QED BY <3>1, <3>2, <3>3
  <2> QED BY <2>1, <2>2
<1>7. \A n \in DOMAIN cache' : IsWindow(cache'[n], n, layer)
  BY <1>6
<1>8. /\ Layers' = Layers /\ Filtered' = Filtered /\ Upper(layer)' = Upper(layer)
      /\ HoldsWindows'
  BY <1>1, <1>2, <1>7, SameWindows
<1>9. layer = 1 => Filtered \ todo' \subseteq DOMAIN cache'
  BY <1>2, <1>3, <1>4, <1>5
<1>10. layer # 1 => DOMAIN cache' = Filtered
  BY <1>3, <1>4, <1>5
<1> QED BY <1>2, <1>3, <1>8, <1>9, <1>10 DEF CacheFollows

LEMMA NextLayerFollows ==
  ASSUME TypeOK, CacheFollows, NextLayer
  PROVE  CacheFollows'
<1> SUFFICES ASSUME TallStack', phase' \in {"filtering", "threw"}
             PROVE  CacheFollows'
  BY DEF CacheFollows
<1>1. UNCHANGED <<settings, stored>> /\ ScrollUp
  BY DEF NextLayer
<1>2. /\ TallStack /\ phase = "filtering" /\ todo = {}
      /\ layer < count /\ layer' = layer + 1 /\ todo' = Filtered
  BY <1>1, SameWindows DEF NextLayer
<1>3. /\ layer \in Layers /\ active = layer
      /\ layer = 1 => upper = 0 /\ Filtered \subseteq DOMAIN cache
      /\ layer # 1 => upper = Upper(layer) /\ DOMAIN cache = Filtered
      /\ \A n \in DOMAIN cache : IsWindow(cache[n], n, layer)
  BY <1>2 DEF CacheFollows, HoldsWindows
<1>4. DOMAIN cache = Filtered /\ Filtered \subseteq Node
  BY <1>3 DEF TypeOK, Filtered
<1> DEFINE high == Upper(layer + 1)
<1>5. /\ layer \in Nat /\ layer \in 1..count /\ count \in Nat
      /\ layer + 1 \in Layers /\ layer + 1 # 1
      /\ high \in Layers /\ high \in Nat /\ Upper(layer) \in Nat
      /\ high \in {Upper(layer), Upper(layer) + 1}
      /\ layer = 1 => high = Upper(layer) + 1
  <2>1. layer + 1 \in Layers /\ layer \in 1..count /\ layer \in Nat /\ count \in Nat
    BY <1>2, <1>3, Figures, NextBounds
  <2>2. high \in (layer + 1)..count /\ Upper(layer) \in layer..count
    BY <1>3, <2>1, WindowBounds
  <2>3. high \in {Upper(layer), Upper(layer) + 1}
    BY <1>2, <1>3, NextBounds
  <2>4. layer = 1 => high = Upper(layer) + 1
    <3>1. ASSUME layer = 1 PROVE high = Upper(layer) + 1
      <4>1. Upper(2) = Upper(1) + 1
        BY <1>2, <1>3, <3>1, NextBounds
      <4>2. layer + 1 = 2
        BY <3>1
      <4> QED BY <3>1, <4>1, <4>2
    <3> QED BY <3>1
  <2>5. high \in Layers /\ high \in Nat /\ Upper(layer) \in Nat /\ layer + 1 # 1
    BY <2>1, <2>2, Figures
  <2> QED BY <2>1, <2>3, <2>4, <2>5
<1> HIDE DEF high
<1>6. active # count /\ GetLayerBounds(active + 1)[2] = high
  BY <1>2, <1>3, <1>5 DEF GetLayerBounds, high
<1>7. /\ active' = layer + 1 /\ upper' = high /\ DOMAIN cache' = Filtered
      /\ \A n \in Filtered : IsWindow(cache'[n], n, layer + 1)
  <2>1. CASE high = upper
    <3>1. /\ cache' = [n \in DOMAIN cache |-> ScrolledUp(cache[n])]
          /\ active' = active + 1 /\ upper' = upper
      BY <1>1, <1>6, <2>1 DEF ScrollUp
    <3>2. layer # 1 /\ high = Upper(layer)
      BY <1>3, <1>5, <2>1
    <3>3. ASSUME NEW n \in Filtered PROVE IsWindow(ScrolledUp(cache[n]), n, layer + 1)
      <4>1. IsWindow(cache[n], n, layer) /\ n \in Node
        BY <1>3, <1>4
      <4>2. Calls!Is(cache[n], Setting, Signal(n, Lower(layer), Upper(layer + 1)), layer - Lower(layer))
        BY <3>2, <4>1 DEF IsWindow, high
      <4> QED BY <1>2, <1>3, <4>1, <4>2, ScrolledIs
    <3>4. \A n \in Filtered : IsWindow(ScrolledUp(cache[n]), n, layer + 1)
      BY <3>3
    <3> QED BY <1>3, <1>4, <2>1, <3>1, <3>4
  <2>2. CASE high # upper
    <3>1. /\ cache' = [n \in DOMAIN cache |-> ScrolledUp(PushBack(cache[n], Value(high, n)))]
          /\ active' = active + 1 /\ upper' = high
      BY <1>1, <1>6, <2>2 DEF ScrollUp
    <3>2. high = Upper(layer) + 1
      BY <1>3, <1>5, <2>2
    <3>3. ASSUME NEW n \in Filtered
          PROVE  IsWindow(ScrolledUp(PushBack(cache[n], Value(high, n))), n, layer + 1)
      <4>1. IsWindow(cache[n], n, layer) /\ n \in Node
        BY <1>3, <1>4
      <4>2. Upper(layer) + 1 \in Layers
        BY <1>5, <3>2
      <4>3. Calls!Is(PushBack(cache[n], Value(Upper(layer) + 1, n)), Setting,
                     Signal(n, Lower(layer), Upper(layer) + 1), layer - Lower(layer))
        BY <1>3, <4>1, <4>2, PushIs
      <4>4. Calls!Is(PushBack(cache[n], Value(high, n)), Setting,
                     Signal(n, Lower(layer), Upper(layer + 1)), layer - Lower(layer))
        BY <3>2, <4>3 DEF high
      <4> QED BY <1>2, <1>3, <4>1, <4>4, ScrolledIs
    <3>4. \A n \in Filtered : IsWindow(ScrolledUp(PushBack(cache[n], Value(high, n))), n, layer + 1)
      BY <3>3
    <3> QED BY <1>3, <1>4, <3>1, <3>4
  <2> QED BY <2>1, <2>2
<1>8. HoldsWindows' /\ Layers' = Layers /\ Filtered' = Filtered /\ Upper(layer)' = high
  BY <1>1, <1>2, <1>7, SameWindows DEF high
<1> QED BY <1>2, <1>5, <1>7, <1>8 DEF CacheFollows

LEMMA CacheFollowsKept == TypeOK /\ CacheFollows /\ [Next]_vars => CacheFollows'
<1> SUFFICES ASSUME TypeOK, CacheFollows, [Next]_vars PROVE CacheFollows'
  OBVIOUS
<1>1. CASE PostExec
  BY <1>1 DEF PostExec, CacheFollows
<1>2. CASE UNCHANGED vars
  <2>1. /\ UNCHANGED <<settings, stored>> /\ layer' = layer /\ todo' = todo
        /\ cache' = cache /\ active' = active /\ upper' = upper /\ phase' = phase
    BY <1>2 DEF vars, cacheVars
  <2> QED BY <2>1, SameWindows DEF CacheFollows, HoldsWindows
<1> QED
  BY <1>1, <1>2, StartFollows, ComputeFollows, NextLayerFollows DEF Next

\* On a stack with the base layer at the bottom and more layers than the window
\* reaches up, the slice of every cached node is the window of the layer that
\* the run is at, for every number of layers, radius and direction; a run never
\* reads the value of a layer outside the window.
THEOREM CacheIsWindow == Spec => []TallStacksFilterRight
<1>1. Init => CacheFollows
  BY DEF Init, CacheFollows
<1>2. TypeOK /\ CacheFollows => TallStacksFilterRight
  <2> SUFFICES ASSUME TypeOK, CacheFollows, TallStack, phase \in {"filtering", "threw"},
                      NEW v \in DOMAIN cache
               PROVE  Slice(cache[v]) = WindowValues(v)
    BY DEF TallStacksFilterRight, SlicesAreWindows
  <2>1. layer \in Layers /\ v \in Node /\ IsWindow(cache[v], v, layer)
    BY DEF CacheFollows, HoldsWindows, TypeOK, Filtered
  <2>2. Slice(cache[v]) = Signal(v, Lower(layer), Upper(layer))
    BY <2>1, WindowSlice
  <2> QED BY <2>2 DEF WindowValues, GetLayerBounds
<1> QED BY <1>1, <1>2, CacheFollowsKept, TypeCorrect, PTL DEF Spec
=============================================================================
