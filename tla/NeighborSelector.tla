-------------------------- MODULE NeighborSelector --------------------------
(***************************************************************************)
(* The selectors of the coarsener (operator/selector): which node to merge *)
(* into next, and which of its neighbours.  Every node of the layer waits  *)
(* in a priority queue with a score that is computed once and then only    *)
(* updated for the nodes a merge is thought to have changed.               *)
(*                                                                         *)
(* HeavyHLinkSelector scores a node by its heaviest HLink and merges the   *)
(* other end of it; XSelector scores it by a quotient of weights around    *)
(* it and merges all of its neighbours.  With memory, a node that has been *)
(* merged into is flagged: it leaves the queue and its neighbours no       *)
(* longer count it.                                                        *)
(*                                                                         *)
(* Scores are exact here where the code has doubles.  The queue is a       *)
(* multimap: nodes with equal scores leave it in the order they entered.   *)
(***************************************************************************)
EXTENDS CoarseLayer

CONSTANTS Selector,   \* "heavy" (HeavyHLinkSelector) or "x" (XSelector)
          Memory,     \* what callers of setHasMemory pass
          NoNode      \* Objects::InvalidOID

ASSUME SelectorAssumption == Selector \in {"heavy", "x"} /\ Memory \subseteq BOOLEAN
ASSUME NoNodeAssumption == NoNode \notin Node

VARIABLES hasMemory,
          scores,        \* score of each node in the queue, a fraction
          older,         \* pairs of queued nodes, the first pushed earlier
          root,          \* the node selected last
          flagged,       \* nodes selected earlier, with memory
          curNeighbors,  \* the neighbours to merge into root
          nodesToUpdate  \* nodes whose score the next call will update

selectorVars == <<hasMemory, scores, older, root, flagged, curNeighbors, nodesToUpdate>>

\* Fractions <<numerator, denominator>> with a positive denominator
Less(p, q) == p[1] * q[2] < q[1] * p[2]

SelectorTypeOK ==
  /\ hasMemory \in BOOLEAN
  /\ scores \in [DOMAIN scores -> Nat \X (Nat \ {0})]
  /\ DOMAIN scores \subseteq Node
  /\ older \subseteq (DOMAIN scores) \X (DOMAIN scores)
  /\ root \in Node \union {NoNode}
  /\ flagged \subseteq Node
  /\ curNeighbors \subseteq Node
  /\ nodesToUpdate \subseteq Node

---------------------------------------------------------------------------
(* Scores *)

GetNeighbors(v, flags) == HNeighbors(v) \ flags
GetNeighborsOfSet(S, flags) == UNION {HNeighbors(v) : v \in S} \ flags

LinkWeights(E) == SumFunctionOnSet(link, E)

\* The neighbour at the end of the heaviest HLink, the highest id if several
BestEndpoint(v, flags) ==
  CHOOSE n \in GetNeighbors(v, flags) :
    \A m \in GetNeighbors(v, flags) \ {n} :
      \/ link[{v, m}] < link[{v, n}]
      \/ link[{v, m}] = link[{v, n}] /\ m < n

HeavyScore(v, flags) ==
  IF GetNeighbors(v, flags) = {} THEN <<0, 1>>
  ELSE <<link[{v, BestEndpoint(v, flags)}], 1>>

\* HLinks from a neighbour of v to v or another neighbour, and to any other
InEdges(v, flags) ==
  LET near == GetNeighbors(v, flags)
  IN  HLinks \intersect {{s, t} : s \in near, t \in (near \union {v}) \ flags}
OutEdges(v, flags) ==
  LET near == GetNeighbors(v, flags)
  IN  HLinks \intersect {{s, t} : s \in near, t \in nodes \ (near \union {v} \union flags)}

\* rootCentralityScore / (gravityScore * twoHopHubAffinityScore)
XScore(v, flags) ==
  LET near == GetNeighbors(v, flags)
      traversed == LinkWeights({{v, n} : n \in near})
      inner == IF InEdges(v, flags) = {} THEN 1 ELSE LinkWeights(InEdges(v, flags))
      hops == Cardinality(OutEdges(v, flags))
      gravity == SumFunctionOnSet(weight, near \union {v})
  IN  <<traversed, inner * gravity * (IF hops = 0 THEN 1 ELSE hops)>>

CalcScore(v, flags) ==
  IF Selector = "heavy" THEN HeavyScore(v, flags) ELSE XScore(v, flags)

---------------------------------------------------------------------------
(* The queue *)

Put(q, v, s) == [n \in DOMAIN q \union {v} |-> IF n = v THEN s ELSE q[n]]
Without(q, S) == Restrict(q, DOMAIN q \ S)

\* The nodes of S are pushed, in the order of their ids, onto a queue of the
\* nodes Q: each leaves its old place
PushedAfter(order, Q, S) ==
  {p \in order : p[1] \notin S /\ p[2] \notin S}
    \union ((Q \ S) \X S)
    \union {p \in S \X S : p[1] < p[2]}

\* The node with the highest score, the oldest if several
Front(q, order) ==
  CHOOSE v \in DOMAIN q :
    \A n \in DOMAIN q \ {v} :
      Less(q[n], q[v]) \/ (~Less(q[v], q[n]) /\ <<v, n>> \in order)

ResetSelection ==
  /\ scores' = << >> /\ older' = {}
  /\ root' = NoNode
  /\ flagged' = {}
  /\ curNeighbors' = {}
  /\ nodesToUpdate' = {}
  /\ UNCHANGED hasMemory

\* On an empty layer the front of an empty queue is read: root may be anything
RankNodes ==
  /\ scores' = [v \in nodes |-> CalcScore(v, {})]
  /\ older' = PushedAfter({}, {}, nodes)
  /\ IF nodes = {} THEN root' \in Node \union {NoNode} ELSE root' = Front(scores', older')
  /\ flagged' = {}
  /\ curNeighbors' = {}
  /\ nodesToUpdate' = {}
  /\ UNCHANGED hasMemory

\* updateScores: root has been merged into since it was scored
ScoresWithRoot ==
  IF hasMemory THEN scores ELSE Put(scores, root, CalcScore(root, flagged))
OrderWithRoot ==
  IF hasMemory THEN older ELSE PushedAfter(older, DOMAIN scores, {root})

\* HeavyHLinkSelector::updateScores fails on a node that has no link to root
\* or is not in the queue
UpdateScoresFails ==
  /\ Selector = "heavy"
  /\ \E v \in nodesToUpdate \ {root} :
       {root, v} \notin HLinks \/ v \notin DOMAIN ScoresWithRoot

\* HeavyHLinkSelector only raises scores
Rescored ==
  IF Selector = "x" THEN nodesToUpdate
  ELSE {v \in nodesToUpdate \ {root} : Less(ScoresWithRoot[v], <<link[{root, v}], 1>>)}
NewScore(v) == IF Selector = "x" THEN CalcScore(v, flagged) ELSE <<link[{root, v}], 1>>

\* Variant: the scores of other nodes are left as they are
RootScoreOnly == ScoresWithRoot
UpdatedScores ==
  [v \in DOMAIN ScoresWithRoot \union Rescored |->
     IF v \in Rescored THEN NewScore(v) ELSE ScoresWithRoot[v]]
UpdatedOrder == PushedAfter(OrderWithRoot, DOMAIN ScoresWithRoot, Rescored)

NodesToMerge(v, flags) ==
  IF Selector = "x" \/ GetNeighbors(v, flags) = {} THEN GetNeighbors(v, flags)
  ELSE {BestEndpoint(v, flags)}

\* XSelector updates all nodes two hops from the root, the root among them
XNodesToUpdate(merged, flags) == GetNeighborsOfSet(merged, flags) \ merged

\* Variant: all neighbours of the root are updated
AllOfRoot(v, merged, flags) == GetNeighbors(v, flags)
\* Variant: the merged nodes are updated too
AllTwoHops(v, merged, flags) == GetNeighborsOfSet(merged, flags)
\* HeavyHLinkSelector leaves the set alone when there is nothing to merge
NodesToUpdate(v, merged, flags) ==
  IF Selector = "x" THEN XNodesToUpdate(merged, flags)
  ELSE IF merged = {} THEN nodesToUpdate
  ELSE GetNeighbors(v, flags) \intersect GetNeighborsOfSet(merged, flags)

\* Variant: the root leaves the queue without memory too
EraseBoth(q, v, merged) == Without(q, merged \union {v})
\* Variant: the root stays in the queue, with memory too
EraseMerged(q, v, merged) == Without(q, merged)
\* Variant: nothing leaves the queue but the root
EraseRoot(q, v, merged) == IF hasMemory THEN Without(q, {v}) ELSE q
DelNodesToMergeFromQueue(q, v, merged) ==
  Without(q, merged \union (IF hasMemory THEN {v} ELSE {}))

NextIsInvalid == DOMAIN scores = {} \/ UpdateScoresFails

\* NeighborSelector::next when it succeeds
SelectNext ==
  /\ ~NextIsInvalid
  /\ flagged' = IF hasMemory THEN flagged \union {root} ELSE flagged
  /\ root' = Front(UpdatedScores, UpdatedOrder)
  /\ curNeighbors' = NodesToMerge(root', flagged')
  /\ nodesToUpdate' = NodesToUpdate(root', curNeighbors', flagged')
  /\ scores' = DelNodesToMergeFromQueue(UpdatedScores, root', curNeighbors')
  /\ older' = UpdatedOrder \intersect ((DOMAIN scores') \X (DOMAIN scores'))
  /\ UNCHANGED hasMemory
=============================================================================
