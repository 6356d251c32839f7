---------------------------- MODULE CoarseLayer ----------------------------
(***************************************************************************)
(* The top layer of the graph while it is coarsened, with the layer below  *)
(* it that it was mirrored from (dao/MLGDao.cpp), and what merging one of  *)
(* its nodes into another does to its links (AdditiveNeighborMerger).      *)
(*                                                                         *)
(* Horizontal links (HLinks) join two nodes of a layer and have a weight;  *)
(* a layer has at most one between two nodes and none from a node to       *)
(* itself.  Vertical links (VLinks) go from a node of the layer below to   *)
(* its parent in the top layer; their weights are left out.                *)
(***************************************************************************)
EXTENDS Integers, FiniteSets, Functions

CONSTANTS Node,       \* node ids; Sparksee enumerates nodes in id order
          NodeWeight, \* weights nodes have before the first run
          LinkWeight  \* weights HLinks have before the first run

ASSUME NodeAssumption == Node \subseteq Nat /\ IsFiniteSet(Node)
ASSUME WeightAssumption ==
  NodeWeight \subseteq Nat \ {0} /\ LinkWeight \subseteq Nat \ {0}

VARIABLES below,      \* nodes of the layer below
          belowLink,  \* weight of each of its HLinks, sets of two nodes
          belowWeight,\* weight of each of its nodes
          nodes,      \* nodes of the top layer; a mirrored node has the id
                      \*   of the node it mirrors
          link,       \* weight of each HLink of the top layer
          weight,     \* weight of each node of the top layer
          vlink       \* VLinks, pairs <<child, parent>>

layerVars == <<below, belowLink, belowWeight, nodes, link, weight, vlink>>

Pairs(S) == {e \in SUBSET S : Cardinality(e) = 2}

LayerTypeOK ==
  /\ below \subseteq Node /\ nodes \subseteq Node
  /\ belowLink \in [DOMAIN belowLink -> Nat \ {0}]
  /\ DOMAIN belowLink \subseteq Pairs(below)
  /\ belowWeight \in [below -> Nat \ {0}]
  /\ link \in [DOMAIN link -> Nat \ {0}]
  /\ DOMAIN link \subseteq Pairs(nodes)
  /\ weight \in [nodes -> Nat \ {0}]
  /\ vlink \subseteq below \X nodes

HLinks == DOMAIN link
HNeighbors(v) == {n \in nodes : {v, n} \in HLinks}
Children(t) == {c \in below : <<c, t>> \in vlink}
Parents(c) == {t \in nodes : <<c, t>> \in vlink}

---------------------------------------------------------------------------
(* A layer with nodes and HLinks, not coarsened yet *)
InitLayer ==
  /\ below = {} /\ belowLink = << >> /\ belowWeight = << >> /\ vlink = {}
  /\ nodes = Node
  /\ \E E \in SUBSET Pairs(Node) : link \in [E -> LinkWeight]
  /\ weight \in [Node -> NodeWeight]

\* A new top layer: the links of the old one are copied, and with them the
\* nodes at their ends
MirrorTopLayer ==
  /\ below' = nodes /\ belowLink' = link /\ belowWeight' = weight
  /\ nodes' = UNION HLinks
  /\ weight' = Restrict(weight, nodes')
  /\ vlink' = {<<v, v>> : v \in nodes'}
  /\ UNCHANGED link

\* Variant: only the children that target shares with src are handled
CopyCommonVLinks(src, target) == vlink
\* target becomes the parent of the children of src
HorizontalCopyVLinks(src, target) ==
  vlink \union {<<c, target>> : c \in Children(src)}

WeightOf(e) == IF e \in HLinks THEN link[e] ELSE 0

\* Variant: the weights of common links are not added, that of target stays
KeepHLinks(src, target) ==
  [e \in HLinks \union {{target, n} : n \in HNeighbors(src) \ {target}} |->
     IF e \in HLinks THEN link[e] ELSE WeightOf((e \ {target}) \union {src})]

\* target gets the links of src, but no link to itself; where both have a
\* link its weight is the sum
HorizontalCopyHLinks(src, target) ==
  [e \in HLinks \union {{target, n} : n \in HNeighbors(src) \ {target}} |->
     IF target \in e /\ src \notin e
     THEN WeightOf(e) + WeightOf((e \ {target}) \union {src})
     ELSE link[e]]

\* Variant: src is removed and its HLinks stay
MergeNodeDangling(src, target) ==
  /\ vlink' = {e \in HorizontalCopyVLinks(src, target) : e[2] # src}
  /\ link' = HorizontalCopyHLinks(src, target)
  /\ nodes' = nodes \ {src}
  /\ weight' = Restrict(weight, nodes')
  /\ UNCHANGED <<below, belowLink, belowWeight>>

\* One turn of the loop of AdditiveNeighborMerger::merge; dropping src drops
\* its links with it
MergeNode(src, target) ==
  /\ vlink' = {e \in HorizontalCopyVLinks(src, target) : e[2] # src}
  /\ link' = LET copied == HorizontalCopyHLinks(src, target)
             IN  Restrict(copied, {e \in DOMAIN copied : src \notin e})
  /\ nodes' = nodes \ {src}
  /\ weight' = Restrict(weight, nodes')
  /\ UNCHANGED <<below, belowLink, belowWeight>>

UpdateNode(t, w) ==
  /\ weight' = [weight EXCEPT ![t] = w]
  /\ UNCHANGED <<below, belowLink, belowWeight, nodes, link, vlink>>
=============================================================================
