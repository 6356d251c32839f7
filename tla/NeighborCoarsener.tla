------------------------- MODULE NeighborCoarsener -------------------------
(***************************************************************************)
(* Runs of NeighborCoarsener (operator/coarsener/NeighborCoarsener.cpp)    *)
(* with AdditiveNeighborMerger: mirror the top layer, rank the nodes of    *)
(* the copy, then select a node and merge its chosen neighbours into it,   *)
(* over and over, until enough nodes have gone.  Each run coarsens the     *)
(* layer that the run before it left on top.                               *)
(*                                                                         *)
(* The program has one thread; its steps here are those between which the  *)
(* graph is left half changed, or after which it may return early.         *)
(***************************************************************************)
EXTENDS NeighborSelector

CONSTANTS Percent,    \* reduction factors, in percent
          BaseCount,  \* possible numbers of nodes of the base layer
          MaxRuns     \* bound: runs explored

ASSUME RunsAssumption ==
  Percent \subseteq 0..100 /\ BaseCount \subseteq Nat /\ MaxRuns \in Nat

VARIABLES phase,      \* where the run is
          baseCount,  \* nodes of the base layer
          requested,  \* computeMergeCount of this run
          mergeCount, \* nodes still to merge
          target,     \* the Node object returned by next: its id
          total,      \* the weight AdditiveNeighborMerger has summed up
          pending,    \* neighbours of target still to merge
          merged,     \* how many there were
          runs

runVars == <<phase, baseCount, requested, mergeCount, target, total, pending, merged, runs>>
vars == <<layerVars, selectorVars, runVars>>

Phases == {"idle", "mirrored", "looping", "exhausted", "merging", "done", "failed"}

TypeOK == /\ LayerTypeOK
          /\ SelectorTypeOK
          /\ phase \in Phases
          /\ baseCount \in Nat /\ requested \in Nat /\ mergeCount \in Int
          /\ target \in Node \union {NoNode}
          /\ total \in Nat /\ merged \in Nat
          /\ pending \subseteq Node
          /\ runs \in 0..MaxRuns

---------------------------------------------------------------------------
Largest(a, b) == IF a < b THEN b ELSE a
Smallest(S) == CHOOSE a \in S : \A b \in S : a <= b

ComputeMergeCount(n, percent) ==
  IF n < 2 THEN 0
  ELSE IF percent = 100 THEN n - 1
  ELSE IF percent = 0 THEN 1
  ELSE (percent * n) \div 100 + 1

\* run() is called when no run is under way
Idle == phase \in {"idle", "done", "failed"} /\ runs < MaxRuns

\* preExec: a layer with less than two nodes is not coarsened
PreExecFails ==
  /\ Idle /\ Cardinality(nodes) < 2
  /\ phase' = "failed"
  /\ runs' = runs + 1
  /\ UNCHANGED <<layerVars, selectorVars, baseCount, requested, mergeCount, target,
                 total, pending, merged>>

\* setHasMemory may have been called since the run before
PreExec(percent) ==
  /\ Idle /\ Cardinality(nodes) >= 2
  /\ MirrorTopLayer
  /\ requested' = ComputeMergeCount(baseCount, percent)
  /\ mergeCount' = requested'
  /\ phase' = "mirrored"
  /\ runs' = runs + 1
  /\ hasMemory' \in Memory
  /\ UNCHANGED <<scores, older, root, flagged, curNeighbors, nodesToUpdate, baseCount,
                 target, total, pending, merged>>

Rank ==
  /\ phase = "mirrored"
  /\ RankNodes
  /\ phase' = "looping"
  /\ UNCHANGED <<layerVars, baseCount, requested, mergeCount, target, total, pending,
                 merged, runs>>

\* The loop: next, then getNodesToMerge if there is a next node
Select ==
  /\ phase = "looping" /\ mergeCount > 0
  /\ SelectNext
  /\ target' = root'
  /\ total' = weight[target']
  /\ \/ /\ DOMAIN scores' # {}
        /\ phase' = "merging"
        /\ pending' = curNeighbors' /\ merged' = Cardinality(curNeighbors')
     \/ /\ DOMAIN scores' = {}
        /\ phase' = "exhausted"
        /\ UNCHANGED <<pending, merged>>
  /\ UNCHANGED <<layerVars, baseCount, requested, mergeCount, runs>>

\* next returns an invalid node
SelectFails ==
  /\ phase = "looping" /\ mergeCount > 0
  /\ NextIsInvalid
  /\ ResetSelection
  /\ phase' = "failed"
  /\ UNCHANGED <<layerVars, baseCount, requested, mergeCount, target, total, pending,
                 merged, runs>>

\* The queue is empty after next: the nodes are ranked again first
Rerank ==
  /\ phase = "exhausted"
  /\ RankNodes
  /\ pending' = curNeighbors' /\ merged' = Cardinality(curNeighbors')
  /\ phase' = "merging"
  /\ UNCHANGED <<layerVars, baseCount, requested, mergeCount, target, total, runs>>

MergeNeighbor ==
  /\ phase = "merging" /\ pending # {}
  /\ LET src == Smallest(pending)
     IN  /\ MergeNode(src, target)
         /\ total' = total + weight[src]
         /\ pending' = pending \ {src}
  /\ UNCHANGED <<selectorVars, phase, baseCount, requested, mergeCount, target, merged, runs>>

\* Variant: a selection without neighbours is not counted
FinishMergeUncounted ==
  /\ phase = "merging" /\ pending = {}
  /\ UpdateNode(target, total)
  /\ mergeCount' = mergeCount - merged
  /\ phase' = "looping"
  /\ UNCHANGED <<selectorVars, baseCount, requested, target, total, pending, merged, runs>>

\* Variant: the target counts as merged
FinishMergeCountsTarget ==
  /\ phase = "merging" /\ pending = {}
  /\ UpdateNode(target, total)
  /\ mergeCount' = mergeCount - (merged + 1)
  /\ phase' = "looping"
  /\ UNCHANGED <<selectorVars, baseCount, requested, target, total, pending, merged, runs>>

\* Variant: the weight is set on the Node object and not written to the graph
FinishMergeUnsaved ==
  /\ phase = "merging" /\ pending = {}
  /\ mergeCount' = mergeCount - Largest(1, merged)
  /\ phase' = "looping"
  /\ UNCHANGED <<layerVars, selectorVars, baseCount, requested, target, total, pending, merged, runs>>

\* The weight is only written after the last neighbour
FinishMerge ==
  /\ phase = "merging" /\ pending = {}
  /\ UpdateNode(target, total)
  /\ mergeCount' = mergeCount - Largest(1, merged)
  /\ phase' = "looping"
  /\ UNCHANGED <<selectorVars, baseCount, requested, target, total, pending, merged, runs>>

Finish ==
  /\ phase = "looping" /\ mergeCount <= 0
  /\ phase' = "done"
  /\ UNCHANGED <<layerVars, selectorVars, baseCount, requested, mergeCount, target, total,
                 pending, merged, runs>>

Init == /\ InitLayer
        /\ hasMemory = FALSE /\ scores = << >> /\ older = {} /\ root = NoNode
        /\ flagged = {} /\ curNeighbors = {} /\ nodesToUpdate = {}
        /\ phase = "idle" /\ baseCount \in BaseCount
        /\ requested = 0 /\ mergeCount = 0 /\ target = NoNode
        /\ total = 0 /\ pending = {} /\ merged = 0 /\ runs = 0

Run == \/ Rank \/ Select \/ SelectFails \/ Rerank
       \/ MergeNeighbor \/ FinishMerge \/ Finish

Next == PreExecFails \/ (\E percent \in Percent : PreExec(percent)) \/ Run

Spec == Init /\ [][Next]_vars

\* The steps of a run follow one another without waiting for anything;
\* nothing obliges the caller to start one.
FairSpec == Spec /\ WF_vars(Run)

---------------------------------------------------------------------------
(* Properties *)

Midway == phase = "merging"
Total(S, w) == SumFunctionOnSet(w, S)

\* Coarsening moves weight, it does not lose or create any: the nodes of the
\* new layer weigh what the nodes they stand for weigh (CoarsenerTest expects
\* 104 of 100 + 1 + 1 + 1 + 1).  While a merge is under way the sum is in the
\* merger, not yet in the graph.
WeightConserved ==
  below # {} =>
    Total(UNION DOMAIN belowLink, belowWeight) =
      IF Midway THEN total + Total(nodes \ {target}, weight) ELSE Total(nodes, weight)

\* The HLinks of the new layer are those of the layer below seen from the
\* parents: two nodes are linked when children of theirs are, by the sum of
\* the weights of those links, even in the middle of a merge.
LinksBetween(s, t) ==
  {e \in DOMAIN belowLink : \E a \in Children(s), b \in Children(t) : e = {a, b}}
HLinksAreSums ==
  below # {} =>
    \A s, t \in nodes : s # t =>
      LET between == LinksBetween(s, t)
      IN  IF between = {} THEN {s, t} \notin HLinks
          ELSE {s, t} \in HLinks /\ link[{s, t}] = SumFunctionOnSet(belowLink, between)

\* No node is queued, about to be merged, updated or returned once it has been
\* merged into another: everything the selector remembers across a merge is
\* still in the graph.
SelectorIsLive ==
  phase \in {"looping", "exhausted", "merging"} /\ nodes # {} =>
    /\ DOMAIN scores \subseteq nodes
    /\ nodesToUpdate \union pending \subseteq nodes
    /\ root \in nodes
    /\ phase # "looping" => target \in nodes \ pending

\* Without memory no node is ever forgotten: all nodes of the layer but those
\* about to be merged wait in the queue.
EveryNodeQueued ==
  ~hasMemory /\ phase \in {"looping", "merging"} => DOMAIN scores = nodes \ pending

\* Without memory, updating only the nodes with a link to both merged ones is
\* enough: when HeavyHLinkSelector picks a node, every score in its queue is
\* the weight of the heaviest HLink that node has now.
ScoresAreExact ==
  Selector = "heavy" /\ ~hasMemory /\ phase = "looping" /\ ~NextIsInvalid =>
    \A v \in DOMAIN UpdatedScores : UpdatedScores[v] = CalcScore(v, {})

\* With memory, next consumes the node it returns: no later selection of the
\* same ranking returns it again.
NeverSelectedTwice ==
  [][hasMemory /\ phase = "looping" /\ phase' \in {"merging", "exhausted"} /\ flagged # {}
       => root' \notin flagged \union {root}]_vars

\* Without memory a run of two linked nodes or more does not fail.
NoFailureWithoutMemory ==
  ~hasMemory => (phase = "failed" => nodes = {} \/ Cardinality(nodes) < 2)

\* A run without memory that succeeds has merged as many nodes as it computed,
\* unless no HLink was left to merge along.  (With memory a selection that
\* merges nothing counts for one.)
MergesAsRequested ==
  ~hasMemory /\ phase = "done" =>
    \/ Cardinality(UNION DOMAIN belowLink) - Cardinality(nodes) >= requested
    \/ HLinks = {}

\* HeavyHLinkSelector updates only common neighbours of the node it selected
\* and of the neighbour to merge into it ("Should update only common
\* neighbors between root and other endpoint"); the selected node itself, when
\* an earlier selection has left it among them, is skipped.
UpdatesOnlyTriangles ==
  Selector = "heavy" /\ phase = "merging" /\ pending = curNeighbors =>
    \A v \in nodesToUpdate \ {root}, n \in curNeighbors \union {root} : {n, v} \in HLinks

\* The nodes merged into the node returned by next are those chosen for it
\* (getNodesToMerge: "Get best neighbors for current selected node").
MergesWhatNextChose ==
  [][phase = "exhausted" /\ phase' = "merging" => pending' = curNeighbors]_vars

\* Every node of the layer below has a parent ("link each new supernode to
\* the previous one with a VLINK").
EveryNodeHasParent == \A c \in below : Parents(c) # {}

\* Every run returns.
RunsReturn == phase = "mirrored" ~> phase \in {"done", "failed"}

---------------------------------------------------------------------------
(* The refinement: the groups are the children of each node *)

Contracted == INSTANCE Contraction WITH
  nodes <- below,
  links <- DOMAIN belowLink,
  groups <- IF below = {} THEN {} ELSE {Children(t) : t \in nodes}

\* A run groups linked nodes of the layer below, and nothing else.
ImplementsContraction == Contracted!Spec
=============================================================================
