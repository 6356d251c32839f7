----------------------------- MODULE TSOperator -----------------------------
(***************************************************************************)
(* Runs of TSOperator (operator/TSOperator.cpp) with its TSCache and a     *)
(* TimeVertexMeanFilter.  A run goes through all layers from the bottom    *)
(* up and computes, for every node and layer, a new value from the values  *)
(* that the node and its neighbours have in the layers around (the time    *)
(* window); the new values are kept in a buffer and written when all have  *)
(* been computed.  The values come from the cache, a series per node that  *)
(* is loaded once and scrolled one layer up with the run.                  *)
(*                                                                         *)
(* A value is named by what the properties ask of it, the layer it belongs *)
(* to and how many runs have written it; the mean itself and the weights   *)
(* of the window are left out.  Layers are numbered from the bottom.       *)
(***************************************************************************)
EXTENDS TimeSeries, FiniteSets

CONSTANTS Node,      \* nodes of the base layer, all with an OLink to every layer
          MaxLayers, \* bound: layers
          MaxRadius, \* bound: time window radius
          BaseLayers,\* positions the base layer may have
          MaxRuns    \* bound: runs of the operator

ASSUME OperatorAssumption ==
  /\ Node \subseteq Nat /\ IsFiniteSet(Node)
  /\ MaxLayers \in Nat /\ MaxRadius \in Nat /\ MaxRuns \in Nat
  /\ BaseLayers \subseteq Nat \ {0}

VARIABLES count,     \* number of layers
          base,      \* the base layer
          radius, dir, \* of the filter
          neighbors, \* Outgoing HLink neighbours of each node
          excluded,  \* nodes the filter leaves out
          stored,    \* stored[l][v]: runs that wrote the OLink of l and v
          cache,     \* the series of each cached node
          active,    \* m_activeLayer of the cache
          upper,     \* its m_upperBoundLayer, 0 when invalid
          phase,
          layer,     \* the layer being filtered
          todo,      \* its nodes still to filter
          buffer,    \* pairs <<layer, node>> filtered and not written
          runs

settings == <<count, base, radius, dir, neighbors, excluded>>
cacheVars == <<cache, active, upper>>
vars == <<settings, stored, cacheVars, phase, layer, todo, buffer, runs>>

Layers == 1..count
Filtered == Node \ excluded

\* Excluded nodes are neither cached nor filtered, and the cache's layers and
\* the layer of the loop stay in the stack, or are not set.
TypeOK ==
  /\ count \in 1..MaxLayers /\ base \in Layers
  /\ radius \in 0..MaxRadius /\ dir \in Directions
  /\ neighbors \in [Node -> SUBSET Node] /\ excluded \subseteq Node
  /\ stored \in [Layers -> [Node -> 0..MaxRuns]]
  /\ DOMAIN cache \subseteq Filtered
  /\ active \in 0..count /\ upper \in 0..count
  /\ phase \in {"idle", "filtering", "committing", "done", "threw"}
  /\ layer \in 0..count /\ todo \subseteq Filtered
  /\ buffer \subseteq Layers \X Filtered
  /\ runs \in 0..MaxRuns

---------------------------------------------------------------------------
(* The window and the cache *)

\* The lowest and the highest layer of the window around layer l
Lower(l) == IF dir = "future" THEN l ELSE IF l > radius THEN l - radius ELSE 1
Upper(l) == IF dir = "past" THEN l ELSE IF l + radius > count THEN count ELSE l + radius
GetLayerBounds(l) == <<Lower(l), Upper(l)>>

Value(l, v) == <<l, stored[l][v]>>
Signal(v, low, high) == [i \in 1..(high - low + 1) |-> Value(low + i - 1, v)]

\* The series starts at the lowest layer of the window, whatever l is
GetSignal(v, l) ==
  TimeSeriesOf(Signal(v, GetLayerBounds(l)[1], GetLayerBounds(l)[2]), radius, dir)

\* TSCache::get for each node of S: missing series are loaded
GetAll(S) ==
  [v \in DOMAIN cache \union S |-> IF v \in DOMAIN cache THEN cache[v] ELSE GetSignal(v, active)]

ScrolledUp(ts) == Shrink(Scroll(ts, 1))

\* Variant: the layer of the cache never reaches the top
ScrollUpBelowTop ==
  IF active + 1 >= count
  THEN /\ cache' = [v \in DOMAIN cache |-> ScrolledUp(cache[v])]
       /\ UNCHANGED <<active, upper>>
  ELSE /\ active' = active + 1
       /\ upper' = GetLayerBounds(active + 1)[2]
       /\ cache' = [v \in DOMAIN cache |->
                      ScrolledUp(PushBack(cache[v], Value(upper', v)))]
ScrollUp ==
  LET high == GetLayerBounds(active + 1)[2]
  IN  IF active = count \/ high = upper
      THEN /\ cache' = [v \in DOMAIN cache |-> ScrolledUp(cache[v])]
           /\ active' = IF active = count THEN active ELSE active + 1
           /\ UNCHANGED upper
      ELSE /\ active' = active + 1
           /\ upper' = high
           /\ cache' = [v \in DOMAIN cache |-> ScrolledUp(PushBack(cache[v], Value(high, v)))]

---------------------------------------------------------------------------
\* exec begins; the cache starts at the base layer, the filtering at the bottom
Start ==
  /\ phase \in {"idle", "done"} /\ runs < MaxRuns
  /\ cache' = << >> /\ active' = base /\ upper' = 0
  /\ phase' = "filtering" /\ layer' = 1 /\ todo' = Filtered /\ buffer' = {}
  /\ runs' = runs + 1
  /\ UNCHANGED <<settings, stored>>

\* computeTWCoeffs: as many coefficients as the window has layers
Coefficients(l) == GetLayerBounds(l)[2] - GetLayerBounds(l)[1] + 1

\* computeNodeSelfWeight and computeNodeWeight walk a slice and the
\* coefficients side by side: m_coeffs.at throws if the slice is longer
OutOfCoefficients(series, l) == Len(Slice(series)) > Coefficients(l)

Reads(v) == {v} \union (neighbors[v] \ excluded)

\* Variant: the new value is written at once
ComputeUnbuffered(v) ==
  /\ phase = "filtering" /\ v \in todo /\ \A n \in todo : v <= n
  /\ cache' = GetAll(Reads(v))
  /\ stored' = [stored EXCEPT ![layer][v] = runs]
  /\ buffer' = buffer \union {<<layer, v>>}
  /\ todo' = todo \ {v}
  /\ UNCHANGED <<settings, active, upper, phase, layer, runs>>

\* TimeVertexMeanFilter::compute of the next node; an exception ends the program
Compute(v) ==
  /\ phase = "filtering" /\ v \in todo /\ \A n \in todo : v <= n
  /\ cache' = GetAll(Reads(v))
  /\ IF \E n \in Reads(v) : OutOfCoefficients(cache'[n], layer)
     THEN phase' = "threw" /\ UNCHANGED <<buffer, todo>>
     ELSE /\ buffer' = buffer \union {<<layer, v>>}
          /\ todo' = todo \ {v}
          /\ UNCHANGED phase
  /\ UNCHANGED <<settings, stored, active, upper, layer, runs>>

NextLayer ==
  /\ phase = "filtering" /\ todo = {}
  /\ ScrollUp
  /\ IF layer < count
     THEN layer' = layer + 1 /\ todo' = Filtered /\ UNCHANGED phase
     ELSE phase' = "committing" /\ UNCHANGED <<layer, todo>>
  /\ UNCHANGED <<settings, stored, buffer, runs>>

\* Variant: the values of the last layer are not written
PostExecShort ==
  /\ phase = "committing"
  /\ stored' = [l \in Layers |-> [v \in Node |->
                  IF <<l, v>> \in buffer /\ l < count THEN runs ELSE stored[l][v]]]
  /\ phase' = "done"
  /\ UNCHANGED <<settings, cacheVars, layer, todo, buffer, runs>>

PostExec ==
  /\ phase = "committing"
  /\ stored' = [l \in Layers |-> [v \in Node |->
                  IF <<l, v>> \in buffer THEN runs ELSE stored[l][v]]]
  /\ phase' = "done"
  /\ UNCHANGED <<settings, cacheVars, layer, todo, buffer, runs>>

Init ==
  /\ count \in 1..MaxLayers /\ base \in BaseLayers \intersect Layers
  /\ radius \in 0..MaxRadius /\ dir \in Directions
  /\ neighbors \in {f \in [Node -> SUBSET Node] : \A v \in Node : v \notin f[v]}
  /\ excluded \in SUBSET Node
  /\ stored = [l \in Layers |-> [v \in Node |-> 0]]
  /\ cache = << >> /\ active = 0 /\ upper = 0
  /\ phase = "idle" /\ layer = 0 /\ todo = {} /\ buffer = {} /\ runs = 0

Next == Start \/ (\E v \in Node : Compute(v)) \/ NextLayer \/ PostExec

Spec == Init /\ [][Next]_vars

---------------------------------------------------------------------------
(* Properties *)

WindowValues(v) == Signal(v, GetLayerBounds(layer)[1], GetLayerBounds(layer)[2])

\* The slices the filter reads are exactly the window of the layer it filters
\* and hold values from before this run.
SlicesAreWindows ==
  phase \in {"filtering", "threw"} =>
    \A v \in DOMAIN cache : Slice(cache[v]) = WindowValues(v)

\* The stacks for which the cache keeps that promise: the base layer at the
\* bottom and, where the window reaches up, more layers than it.
TallStack ==
  /\ base = 1
  /\ dir = "past" \/ radius = 0 \/ count = 1 \/ count > radius + 1

\* On such a stack the filter reads the window of the layer, from below the
\* bottom to the top, although the cache drops, adds and scrolls on its own;
\* so no slice has more values than there are coefficients, and no run throws.
TallStacksFilterRight == TallStack => SlicesAreWindows

\* The cache follows the run up from the base layer at the bottom of any stack
\* ("Move to next layer, all the entries are modified accordingly").
ShortStacksFilterRight == base = 1 => SlicesAreWindows

\* The same of stacks tall enough, wherever the base layer is.
AnyBaseFiltersRight ==
  dir = "past" \/ radius = 0 \/ count = 1 \/ count > radius + 1 => SlicesAreWindows

\* A run filters every value of the nodes not excluded once, or none: until it
\* is done, and when it throws, the values are those of the run before.
AllOrNothing ==
  \A l \in Layers, v \in Node :
    stored[l][v] = IF v \in excluded THEN 0
                   ELSE IF phase \in {"idle", "done"} THEN runs ELSE runs - 1
=============================================================================
