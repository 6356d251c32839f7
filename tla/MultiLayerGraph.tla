-------------------------- MODULE MultiLayerGraph --------------------------
(***************************************************************************)
(* The multi-layer graph (dao/MLGDao.cpp): nodes owned by layers through   *)
(* OLinks, HLinks between nodes of a layer and VLinks from a node to its   *)
(* parent one layer up.  The layers themselves are the stack of module     *)
(* LayerStack, which module LayerDao implements; here layers and nodes     *)
(* change together: dropping a layer drops the nodes it owns, and dropping *)
(* a node drops its links.  Nothing in the database ties the three kinds   *)
(* of links to the order of the layers: only the checks made here, and     *)
(* the order of the calls, do.                                             *)
(*                                                                         *)
(* Weights are left out (module CoarseLayer adds them up), and an id may   *)
(* be given again: no caller is modelled that keeps one.                   *)
(***************************************************************************)
EXTENDS Naturals, Sequences

CONSTANTS LayerId,    \* ids of layers
          Node        \* ids of nodes

VARIABLES stack,      \* the layers, bottom first
          base,       \* position of the base layer
          nodes,      \* nodes in the graph
          owns,       \* OLinks, pairs <<layer, node>>
          hlinks,     \* HLinks, sets of two nodes
          vlinks      \* VLinks, pairs <<child, parent>>

layerVars == <<stack, base>>
graphVars == <<nodes, owns, hlinks, vlinks>>
vars == <<stack, base, nodes, owns, hlinks, vlinks>>

Layers == INSTANCE LayerStack

Contents == {stack[i] : i \in DOMAIN stack}
Pairs(S) == {e \in SUBSET S : \E a, b \in e : a # b /\ e = {a, b}}

\* Links join what is in the graph: layers and nodes, or two nodes.
TypeOK == /\ Layers!TypeOK
          /\ nodes \subseteq Node
          /\ owns \subseteq Contents \X nodes
          /\ hlinks \subseteq Pairs(nodes)
          /\ vlinks \subseteq nodes \X nodes

---------------------------------------------------------------------------
(* Lookups *)

Owners(n) == {l \in Contents : <<l, n>> \in owns}
NodesOf(l) == {n \in nodes : <<l, n>> \in owns}
HLinksOf(l) == {e \in hlinks : e \cap NodesOf(l) # {}}
HNeighbors(n) == {m \in nodes : {n, m} \in hlinks}
ParentsOf(n) == {p \in nodes : <<n, p>> \in vlinks}
ChildrenOf(n) == {c \in nodes : <<c, n>> \in vlinks}

\* getLayerIdForNode gives no layer for a node that none or several own:
\* the empty set stands for Objects::InvalidOID
LayerOf(n) == {l \in Owners(n) : Owners(n) = {l}}

\* l is the layer right below m
RightBelow(l, m) ==
  \E i \in 1..(Len(stack) - 1) : l = stack[i] /\ m = stack[i + 1]

Affiliated(l, m) == RightBelow(l, m) \/ RightBelow(m, l)

Unlinked(n) == /\ \A e \in hlinks : n \notin e
               /\ \A e \in vlinks : n # e[1] /\ n # e[2]

---------------------------------------------------------------------------
(* Layers, with the nodes they own *)

AddLayer(l) ==
  /\ Layers!AddBase(l) \/ Layers!AddTop(l) \/ Layers!AddBottom(l)
  /\ UNCHANGED graphVars

\* Dropping nodes drops the links they are an end of
Drop(gone) ==
  /\ nodes' = nodes \ gone
  /\ owns' = {e \in owns : e[2] \notin gone}
  /\ hlinks' = {e \in hlinks : e \cap gone = {}}
  /\ vlinks' = {e \in vlinks : e[1] \notin gone /\ e[2] \notin gone}

\* Variant: only the layer is dropped, its OLinks with it
RemoveLayersOnly ==
  /\ \/ Layers!RemoveTop \/ Layers!RemoveBottom
     \/ Layers!RemoveBase \/ Layers!RemoveAllButBase
  /\ owns' = {e \in owns : e[1] \in Contents'}
  /\ UNCHANGED <<nodes, hlinks, vlinks>>

\* removeTopLayer, removeBottomLayer, removeBaseLayer, removeAllButBaseLayer:
\* a node goes with the first layer that owns it, whoever else owns it
RemoveLayers ==
  /\ \/ Layers!RemoveTop \/ Layers!RemoveBottom
     \/ Layers!RemoveBase \/ Layers!RemoveAllButBase
  /\ Drop(UNION {NodesOf(l) : l \in Contents \ Contents'})

SetAsBaseLayer(i) == Layers!SetBase(i) /\ UNCHANGED graphVars

---------------------------------------------------------------------------
(* Nodes and links *)

\* Variant: the layer is not looked up first
AddNodeToAnyLayer(l, n) ==
  /\ n \notin nodes
  /\ nodes' = nodes \union {n}
  /\ owns' = owns \union {<<l, n>>}
  /\ UNCHANGED <<layerVars, hlinks, vlinks>>

AddNodeToLayer(l, n) ==
  /\ l \in Contents
  /\ n \notin nodes
  /\ nodes' = nodes \union {n}
  /\ owns' = owns \union {<<l, n>>}
  /\ UNCHANGED <<layerVars, hlinks, vlinks>>

AddOLink(l, n) ==
  /\ l \in Contents
  /\ owns' = owns \union {<<l, n>>}
  /\ UNCHANGED <<layerVars, nodes, hlinks, vlinks>>

\* Also of the last layer that owns the node, which stays in the graph
RemoveOLink(l, n) ==
  /\ <<l, n>> \in owns
  /\ owns' = owns \ {<<l, n>>}
  /\ UNCHANGED <<layerVars, nodes, hlinks, vlinks>>

\* The check that both nodes are on one layer is commented out; addEdge
\* refuses an edge from a node to itself
AddHLink(a, b) ==
  /\ a # b
  /\ hlinks' = hlinks \union {{a, b}}
  /\ UNCHANGED <<layerVars, nodes, owns, vlinks>>

\* Variant: the layers are not compared
AddVLinkAnywhere(c, p) ==
  /\ c # p
  /\ vlinks' = vlinks \union {<<c, p>>}
  /\ UNCHANGED <<layerVars, nodes, owns, hlinks>>

AddVLink(c, p) ==
  /\ \E l \in LayerOf(c), m \in LayerOf(p) : Affiliated(l, m)
  /\ vlinks' = vlinks \union {<<c, p>>}
  /\ UNCHANGED <<layerVars, nodes, owns, hlinks>>

RemoveNode(n) == Drop({n}) /\ UNCHANGED layerVars

RemoveLink(H, V) ==
  /\ hlinks' = hlinks \ H
  /\ vlinks' = vlinks \ V
  /\ UNCHANGED <<layerVars, nodes, owns>>

---------------------------------------------------------------------------
(* Mirrors *)

Injections(S, T) == {f \in [S -> T] : \A a, b \in S : f[a] = f[b] => a = b}

\* Each HLink of layer prev is copied to the new layer l, and each node at
\* one of its ends gets one new node there, named by twin
Mirror(prev, l, up) ==
  LET old == HLinksOf(prev)
  IN \E twin \in Injections(UNION old, Node \ nodes) :
       LET new == {twin[n] : n \in UNION old} IN
       /\ nodes' = nodes \union new
       /\ owns' = owns \union {<<l, n>> : n \in new}
       /\ hlinks' = hlinks \union {{twin[n] : n \in e} : e \in old}
       /\ vlinks' = vlinks \union {IF up THEN <<n, twin[n]>> ELSE <<twin[n], n>> :
                                     n \in UNION old}

MirrorTopLayer(l) == /\ Layers!AddTop(l)
                     /\ Mirror(stack[Len(stack)], l, TRUE)

MirrorBottomLayer(l) == /\ Layers!AddBottom(l)
                        /\ Mirror(stack[1], l, FALSE)

---------------------------------------------------------------------------
(* Copies of links from one node to another *)

\* Variant: the layers of the two nodes are not compared
AnyTwoNodes(source, target) == source # target

\* The check of horizontalCopyLinks: two nodes with no layer of their own
\* pass it as well
OnSameLayer(source, target) ==
  source # target /\ LayerOf(source) = LayerOf(target)

HorizontalCopyHLinks(source, target) ==
  /\ OnSameLayer(source, target)
  /\ hlinks' = hlinks \union
               {{target, n} : n \in HNeighbors(source) \ {target}}
  /\ UNCHANGED <<layerVars, nodes, owns, vlinks>>

HorizontalCopyVLinks(source, target) ==
  /\ OnSameLayer(source, target)
  /\ vlinks' = vlinks
       \union {<<target, p>> : p \in ParentsOf(source) \ {target}}
       \union {<<c, target>> : c \in ChildrenOf(source) \ {target}}
  /\ UNCHANGED <<layerVars, nodes, owns, hlinks>>

Kin(n, up) == IF up THEN ParentsOf(n) ELSE ChildrenOf(n)

CheckAffiliation(source, target, up) == target \in Kin(source, up)

\* The HLinks of source, from its kin's point of view one layer up or down.
\* The copy stops at the first neighbour without kin, whichever the order
\* makes it, and what was copied before stays
VerticalCopyHLinks(source, target, up) ==
  /\ CheckAffiliation(source, target, up)
  /\ LET able == {n \in HNeighbors(source) : Kin(n, up) # {}}
     IN \E done \in (IF able = HNeighbors(source) THEN {able} ELSE SUBSET able) :
          hlinks' = hlinks \union
            {e \in {{target, k} : k \in UNION {Kin(n, up) : n \in done}} :
               e # {target}}
  /\ UNCHANGED <<layerVars, nodes, owns, vlinks>>

---------------------------------------------------------------------------
Init == Layers!Init /\ nodes = {} /\ owns = {} /\ hlinks = {} /\ vlinks = {}

(* What the code leaves to its callers *)

\* The ends of a new HLink belong to the same layers
SameOwners(a, b) == Owners(a) = Owners(b)
\* A node is shared by several layers, or no longer, before it has links
MayShare(n) == Unlinked(n)
\* A new VLink goes up, which the check for affiliated layers does not ask
ChildFirst(c, p) ==
  \A l \in LayerOf(c), m \in LayerOf(p) : ~RightBelow(m, l)
\* The check of a copy between shared nodes passes whoever owns them
OneLayerEach(a, b) == LayerOf(a) # {} \/ LayerOf(b) # {} \/ SameOwners(a, b)
\* Vertical copies are for graphs whose nodes are not shared
NoneShared == \A n \in nodes : LayerOf(n) = Owners(n)

Next ==
  \/ \E l \in LayerId : \/ AddLayer(l)
                        \/ MirrorTopLayer(l)
                        \/ MirrorBottomLayer(l)
                        \/ \E n \in Node : AddNodeToLayer(l, n)
                        \/ \E n \in nodes : \/ MayShare(n) /\ AddOLink(l, n)
                                            \/ MayShare(n) /\ RemoveOLink(l, n)
  \/ RemoveLayers
  \/ \E i \in DOMAIN stack : SetAsBaseLayer(i)
  \/ \E a, b \in nodes :
       \/ SameOwners(a, b) /\ AddHLink(a, b)
       \/ ChildFirst(a, b) /\ AddVLink(a, b)
       \/ OneLayerEach(a, b) /\ HorizontalCopyHLinks(a, b)
       \/ OneLayerEach(a, b) /\ HorizontalCopyVLinks(a, b)
       \/ \E up \in BOOLEAN : NoneShared /\ VerticalCopyHLinks(a, b, up)
  \/ \E n \in nodes : RemoveNode(n)
  \/ \E e \in hlinks : RemoveLink({e}, {})
  \/ \E e \in vlinks : RemoveLink({}, {e})

Spec == Init /\ [][Next]_vars

---------------------------------------------------------------------------
(* Properties *)

\* HLinks stay within a layer, though addHLink does not check it: copies in
\* a layer and between layers, and mirrors, make none that crosses layers.
HLinksWithinLayer ==
  \A e \in hlinks : \A a, b \in e : SameOwners(a, b)

\* A VLink goes from a node to one exactly one layer up, after layers were
\* added and removed at both ends, nodes shared, links mirrored and copied.
VLinksGoUpOne ==
  \A e \in vlinks : \E l \in Owners(e[1]), m \in Owners(e[2]) : RightBelow(l, m)

\* A step puts n in the graph without a layer, or leaves it there without one
Orphans(n) == Owners(n)' = {} /\ (n \in nodes => Owners(n) # {})

\* A node that no layer owns is found by its id only.  removeOLink makes such
\* nodes, of which its caller knows; nothing else does: no layer takes its
\* OLinks along and leaves a node of its own, mirrored or shared, behind.
OrphansByRemoveOLinkOnly ==
  [][\A n \in nodes' : Orphans(n) => \E l \in LayerId : RemoveOLink(l, n)]_vars
=============================================================================
