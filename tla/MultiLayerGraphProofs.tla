----------------------- MODULE MultiLayerGraphProofs -----------------------
(***************************************************************************)
(* Theorems about the multi-layer graph, for any number of layers, nodes   *)
(* and links.                                                              *)
(***************************************************************************)
EXTENDS MultiLayerGraph, SequenceTheorems, TLAPS

---------------------------------------------------------------------------
(* The stack *)

\* No layer is in the stack twice, and one of the layers is the base
StackOK == /\ stack \in Seq(LayerId)
           /\ \A i, j \in 1..Len(stack) : stack[i] = stack[j] => i = j
           /\ base \in 0..Len(stack)
           /\ stack # <<>> => base # 0

\* The layers that both the old and the new stack have keep their order
KeepsOrder == \A l, m \in Contents \cap Contents' : RightBelow(l, m) => RightBelow(l, m)'

\* What the operations on layers do to the stack
LEMMA AddBaseStack ==
  ASSUME StackOK, NEW l \in LayerId, Layers!AddBase(l)
  PROVE  StackOK' /\ KeepsOrder /\ Contents \subseteq Contents' /\ l \in Contents' /\ l \notin Contents
BY DEF StackOK, Layers!AddBase, KeepsOrder, Contents, RightBelow

LEMMA AddTopStack ==
  ASSUME StackOK, NEW l \in LayerId, Layers!AddTop(l)
  PROVE  /\ StackOK' /\ KeepsOrder /\ Contents \subseteq Contents'
         /\ l \in Contents' /\ l \notin Contents
         /\ stack[Len(stack)] \in Contents
         /\ \A t : t = stack[Len(stack)] => RightBelow(t, l)'
<1>1. /\ Len(stack) \in Nat \ {0} /\ Len(stack') = Len(stack) + 1
      /\ stack' \in Seq(LayerId) /\ stack'[Len(stack) + 1] = l
      /\ \A i \in 1..Len(stack) : stack'[i] = stack[i]
  BY DEF StackOK, Layers!AddTop
<1>2. \A i \in 1..Len(stack) : stack[i] # l
  BY DEF Layers!AddTop, Layers!Contents
<1>3. StackOK'
  BY <1>1, <1>2 DEF StackOK, Layers!AddTop
<1>4. KeepsOrder
  BY <1>1 DEF StackOK, KeepsOrder, RightBelow
<1>5. \A t : t = stack[Len(stack)] => RightBelow(t, l)'
  <2>1. Len(stack) \in 1..(Len(stack') - 1) /\ stack[Len(stack)] = stack'[Len(stack)]
    BY <1>1
  <2> QED BY <1>1, <2>1 DEF RightBelow
<1> QED BY <1>1, <1>2, <1>3, <1>4, <1>5 DEF Contents

LEMMA AddBottomStack ==
  ASSUME StackOK, NEW l \in LayerId, Layers!AddBottom(l)
  PROVE  /\ StackOK' /\ KeepsOrder /\ Contents \subseteq Contents'
         /\ l \in Contents' /\ l \notin Contents
         /\ stack[1] \in Contents
         /\ \A b : b = stack[1] => RightBelow(l, b)'
<1>1. /\ Len(stack) \in Nat \ {0} /\ Len(stack') = Len(stack) + 1
      /\ stack' \in Seq(LayerId) /\ stack'[1] = l
      /\ \A i \in 1..Len(stack) : stack'[i + 1] = stack[i]
  BY DEF StackOK, Layers!AddBottom
<1>2. \A i \in 1..Len(stack) : stack[i] # l
  BY DEF Layers!AddBottom, Layers!Contents
<1>3. \A i \in 2..Len(stack') : i - 1 \in 1..Len(stack) /\ stack'[i] = stack[i - 1]
  BY <1>1
<1>4. StackOK'
  <2>1. \A i, j \in 1..Len(stack') : stack'[i] = stack'[j] => i = j
    <3> SUFFICES ASSUME NEW i \in 1..Len(stack'), NEW j \in 1..Len(stack'), stack'[i] = stack'[j]
                 PROVE  i = j
      OBVIOUS
    <3>1. CASE i = 1 \/ j = 1
      BY <3>1, <1>1, <1>2, <1>3
    <3>2. CASE i # 1 /\ j # 1
      <4>1. /\ i - 1 \in 1..Len(stack) /\ stack'[i] = stack[i - 1]
            /\ j - 1 \in 1..Len(stack) /\ stack'[j] = stack[j - 1]
        BY <3>2, <1>1, <1>3
      <4>2. i - 1 = j - 1
        BY <4>1 DEF StackOK
      <4> QED BY <4>2, <1>1
    <3> QED BY <3>1, <3>2
  <2> QED BY <1>1, <2>1 DEF StackOK, Layers!AddBottom
<1>5. KeepsOrder
  <2> SUFFICES ASSUME NEW l1 \in Contents \cap Contents', NEW l2 \in Contents \cap Contents',
                      NEW i \in 1..(Len(stack) - 1), l1 = stack[i], l2 = stack[i + 1]
               PROVE  RightBelow(l1, l2)'
    BY DEF KeepsOrder, RightBelow
  <2>1. /\ i + 1 \in 1..(Len(stack') - 1)
        /\ stack'[i + 1] = stack[i] /\ stack'[(i + 1) + 1] = stack[i + 1]
    BY <1>1
  <2> QED BY <2>1 DEF RightBelow
<1>6. \A b : b = stack[1] => RightBelow(l, b)'
  <2>1. 1 \in 1..(Len(stack') - 1) /\ stack'[1 + 1] = stack[1]
    BY <1>1
  <2> QED BY <1>1, <2>1 DEF RightBelow
<1>7. stack[1] \in Contents /\ l \notin Contents /\ l \in Contents'
  BY <1>1, <1>2 DEF Contents
<1>8. Contents \subseteq Contents'
  <2> SUFFICES ASSUME NEW i \in 1..Len(stack) PROVE stack[i] \in Contents'
    BY <1>1 DEF Contents
  <2>1. i + 1 \in DOMAIN stack' /\ stack'[i + 1] = stack[i]
    BY <1>1
  <2> QED BY <2>1 DEF Contents
<1> QED BY <1>4, <1>5, <1>6, <1>7, <1>8

\* Removing layers
LEMMA RemoveStack ==
  ASSUME StackOK,
         Layers!RemoveTop \/ Layers!RemoveBottom \/ Layers!RemoveBase \/ Layers!RemoveAllButBase
  PROVE  StackOK' /\ KeepsOrder /\ Contents' \subseteq Contents
<1>1. CASE Layers!RemoveTop
  <2>1. /\ Len(stack) \in Nat \ {0} /\ Len(stack') = Len(stack) - 1 /\ stack' \in Seq(LayerId)
        /\ \A i \in 1..Len(stack) - 1 : stack'[i] = stack[i]
    BY <1>1 DEF StackOK, Layers!RemoveTop
  <2>2. StackOK'
    BY <1>1, <2>1 DEF StackOK, Layers!RemoveTop
  <2>3. Contents' \subseteq Contents
    BY <2>1 DEF Contents
  <2>4. KeepsOrder
    <3> SUFFICES ASSUME NEW l1 \in Contents \cap Contents', NEW l2 \in Contents \cap Contents',
                        NEW i \in 1..(Len(stack) - 1), l1 = stack[i], l2 = stack[i + 1]
                 PROVE  RightBelow(l1, l2)'
      BY DEF KeepsOrder, RightBelow
    <3>1. PICK j \in 1..Len(stack) - 1 : stack[j] = stack[i + 1]
      BY <2>1 DEF Contents
    <3>2. i + 1 \in 1..Len(stack')
      BY <3>1, <2>1 DEF StackOK
    <3>3. i \in 1..(Len(stack') - 1) /\ stack'[i] = stack[i] /\ stack'[i + 1] = stack[i + 1]
      BY <3>2, <2>1
    <3> QED BY <3>3 DEF RightBelow
  <2> QED BY <2>2, <2>3, <2>4
<1>2. CASE Layers!RemoveBottom
  <2>1. /\ Len(stack) \in Nat \ {0} /\ Len(stack') = Len(stack) - 1 /\ stack' \in Seq(LayerId)
        /\ \A i \in 1..Len(stack) - 1 : stack'[i] = stack[i + 1]
    BY <1>2 DEF StackOK, Layers!RemoveBottom
  <2>2. StackOK'
    BY <1>2, <2>1 DEF StackOK, Layers!RemoveBottom
  <2>3. Contents' \subseteq Contents
    BY <2>1 DEF Contents
  <2>4. KeepsOrder
    <3> SUFFICES ASSUME NEW l1 \in Contents \cap Contents', NEW l2 \in Contents \cap Contents',
                        NEW i \in 1..(Len(stack) - 1), l1 = stack[i], l2 = stack[i + 1]
                 PROVE  RightBelow(l1, l2)'
      BY DEF KeepsOrder, RightBelow
    <3>1. PICK j \in 1..Len(stack) - 1 : stack[j + 1] = stack[i]
      BY <2>1 DEF Contents
    <3>2. i = j + 1
      BY <3>1, <2>1 DEF StackOK
    <3>3. i - 1 \in 1..(Len(stack') - 1) /\ stack'[i - 1] = stack[i] /\ stack'[(i - 1) + 1] = stack[i + 1]
      BY <3>1, <3>2, <2>1
    <3> QED BY <3>3 DEF RightBelow
  <2> QED BY <2>2, <2>3, <2>4
<1>3. CASE Layers!RemoveBase
  BY <1>3 DEF StackOK, Layers!RemoveBase, KeepsOrder, Contents
<1>4. CASE Layers!RemoveAllButBase
  <2>1. /\ base \in 1..Len(stack) /\ Len(stack') = 1 /\ stack' \in Seq(LayerId) /\ stack'[1] = stack[base]
    BY <1>4 DEF StackOK, Layers!RemoveAllButBase
  <2>2. StackOK'
    BY <1>4, <2>1 DEF StackOK, Layers!RemoveAllButBase
  <2>3. Contents' = {stack[base]} /\ stack[base] \in Contents
    BY <2>1 DEF Contents
  <2>4. KeepsOrder
    <3> SUFFICES ASSUME NEW l1 \in Contents \cap Contents', NEW l2 \in Contents \cap Contents',
                        NEW i \in 1..(Len(stack) - 1), l1 = stack[i], l2 = stack[i + 1]
                 PROVE  RightBelow(l1, l2)'
      BY DEF KeepsOrder, RightBelow
    <3>1. i \in 1..Len(stack) /\ i + 1 \in 1..Len(stack) /\ stack[i] = stack[i + 1]
      BY <2>3 DEF StackOK
    <3> QED BY <3>1 DEF StackOK
  <2> QED BY <2>2, <2>3, <2>4
<1> QED BY <1>1, <1>2, <1>3, <1>4

---------------------------------------------------------------------------
(* Nodes and links *)

IInv == /\ StackOK
        /\ TypeOK
        /\ HLinksWithinLayer
        /\ VLinksGoUpOne

\* What every step but removeOLink does besides: it orphans no node
NoOrphans == \A n \in nodes' : ~Orphans(n)

\* Two nodes have the same owners when the same OLinks lead to them
LEMMA SameOLinks ==
  ASSUME TypeOK, NEW a, NEW b
  PROVE  SameOwners(a, b) <=> \A l : <<l, a>> \in owns <=> <<l, b>> \in owns
BY DEF TypeOK, SameOwners, Owners

\* VLinks in terms of OLinks
LEMMA OLinksOfVLinks ==
  ASSUME TypeOK
  PROVE  VLinksGoUpOne <=>
           \A e \in vlinks : \E l, m : /\ <<l, e[1]>> \in owns /\ <<m, e[2]>> \in owns
                                      /\ RightBelow(l, m)
BY DEF TypeOK, VLinksGoUpOne, Owners

\* A node's only layer
LEMMA OnlyLayer ==
  ASSUME TypeOK, NEW n, NEW l \in LayerOf(n)
  PROVE  <<l, n>> \in owns /\ \A m : <<m, n>> \in owns => m = l
BY DEF TypeOK, LayerOf, Owners

\* Layers have one layer right below and one right above
LEMMA OneNeighbour ==
  ASSUME StackOK, NEW l, NEW m, NEW k
  PROVE  /\ RightBelow(l, m) /\ RightBelow(l, k) => m = k
         /\ RightBelow(m, l) /\ RightBelow(k, l) => m = k
<1>1. ASSUME RightBelow(l, m), RightBelow(l, k) PROVE m = k
  <2>1. PICK i \in 1..(Len(stack) - 1) : l = stack[i] /\ m = stack[i + 1]
    BY <1>1 DEF RightBelow
  <2>2. PICK j \in 1..(Len(stack) - 1) : l = stack[j] /\ k = stack[j + 1]
    BY <1>1 DEF RightBelow
  <2>3. i \in 1..Len(stack) /\ j \in 1..Len(stack)
    BY DEF StackOK
  <2>4. i = j
    BY <2>1, <2>2, <2>3 DEF StackOK
  <2> QED BY <2>1, <2>2, <2>4
<1>2. ASSUME RightBelow(m, l), RightBelow(k, l) PROVE m = k
  <2>1. PICK i \in 1..(Len(stack) - 1) : m = stack[i] /\ l = stack[i + 1]
    BY <1>2 DEF RightBelow
  <2>2. PICK j \in 1..(Len(stack) - 1) : k = stack[j] /\ l = stack[j + 1]
    BY <1>2 DEF RightBelow
  <2>3. i + 1 \in 1..Len(stack) /\ j + 1 \in 1..Len(stack)
    BY DEF StackOK
  <2>4. i + 1 = j + 1
    BY <2>1, <2>2, <2>3 DEF StackOK
  <2>5. i = j
    BY <2>4
  <2> QED BY <2>1, <2>2, <2>5
<1> QED BY <1>1, <1>2

\* No graph at first
LEMMA InitIInv == Init => IInv
BY DEF Init, Layers!Init, IInv, StackOK, TypeOK, Layers!TypeOK, Contents,
       HLinksWithinLayer, VLinksGoUpOne

\* A layer more, with no change of nodes and links
LEMMA MoreLayers ==
  ASSUME IInv, StackOK', KeepsOrder, Contents \subseteq Contents', UNCHANGED graphVars
  PROVE  IInv' /\ NoOrphans
<1>1. TypeOK'
  BY DEF IInv, TypeOK, StackOK, Layers!TypeOK, graphVars
<1>2. HLinksWithinLayer'
  <2> SUFFICES ASSUME NEW e \in hlinks, NEW a \in e, NEW b \in e PROVE SameOwners(a, b)'
    BY DEF HLinksWithinLayer, graphVars
  <2>1. \A l : <<l, a>> \in owns <=> <<l, b>> \in owns
    BY SameOLinks DEF IInv, HLinksWithinLayer
  <2> QED BY <2>1 DEF SameOwners, Owners, graphVars
<1>3. VLinksGoUpOne'
  <2> SUFFICES ASSUME NEW e \in vlinks
               PROVE  \E l \in Owners(e[1])', m \in Owners(e[2])' : RightBelow(l, m)'
    BY DEF VLinksGoUpOne, graphVars
  <2>1. PICK l \in Owners(e[1]), m \in Owners(e[2]) : RightBelow(l, m)
    BY DEF IInv, VLinksGoUpOne
  <2>2. RightBelow(l, m)'
    BY <2>1 DEF KeepsOrder, Owners
  <2> QED BY <2>1, <2>2 DEF Owners, graphVars
<1>4. NoOrphans
  BY DEF NoOrphans, Orphans, Owners, graphVars
<1> QED BY <1>1, <1>2, <1>3, <1>4 DEF IInv

\* Nodes dropped, and with them all the nodes of any layer that goes
LEMMA Drops ==
  ASSUME IInv, StackOK', KeepsOrder, Contents' \subseteq Contents,
         NEW gone \in SUBSET Node, Drop(gone),
         \A e \in owns : e[1] \notin Contents' => e[2] \in gone
  PROVE  IInv' /\ NoOrphans
<1>1. TypeOK'
  BY DEF IInv, TypeOK, StackOK, Layers!TypeOK, Drop, Pairs
<1>2. \A n \in nodes' : Owners(n)' = Owners(n)
  BY DEF IInv, TypeOK, Owners, Drop
<1>3. HLinksWithinLayer'
  BY <1>1, <1>2 DEF IInv, HLinksWithinLayer, SameOwners, Drop, TypeOK, Pairs
<1>4. VLinksGoUpOne'
  <2> SUFFICES ASSUME NEW e \in vlinks'
               PROVE  \E l \in Owners(e[1])', m \in Owners(e[2])' : RightBelow(l, m)'
    BY DEF VLinksGoUpOne
  <2>1. e \in vlinks /\ e[1] \in nodes' /\ e[2] \in nodes'
    BY <1>1 DEF Drop, TypeOK
  <2>2. PICK l \in Owners(e[1]), m \in Owners(e[2]) : RightBelow(l, m)
    BY <2>1 DEF IInv, VLinksGoUpOne
  <2>3. l \in Owners(e[1])' /\ m \in Owners(e[2])'
    BY <1>2, <2>1, <2>2
  <2>4. RightBelow(l, m)'
    BY <2>2, <2>3 DEF KeepsOrder, Owners
  <2> QED BY <2>3, <2>4
<1>5. NoOrphans
  BY <1>2 DEF NoOrphans, Orphans, Drop
<1> QED BY <1>1, <1>3, <1>4, <1>5 DEF IInv

\* Operations on nodes and links leave the stack alone
LEMMA SameStack ==
  ASSUME StackOK, UNCHANGED layerVars
  PROVE  /\ StackOK'
         /\ Contents' = Contents
         /\ \A l, m : RightBelow(l, m)' <=> RightBelow(l, m)
         /\ Layers!TypeOK' <=> Layers!TypeOK
BY DEF layerVars, StackOK, Contents, RightBelow, Layers!TypeOK

\* Links dropped
LEMMA RemoveLinkIInv ==
  ASSUME IInv, NEW H, NEW V, RemoveLink(H, V)
  PROVE  IInv' /\ NoOrphans
<1>1. UNCHANGED layerVars /\ nodes' = nodes /\ owns' = owns
  BY DEF RemoveLink
<1>2. /\ StackOK' /\ Contents' = Contents
      /\ \A l, m : RightBelow(l, m)' <=> RightBelow(l, m)
      /\ Layers!TypeOK' <=> Layers!TypeOK
  BY <1>1, SameStack DEF IInv
<1>3. \A n : Owners(n)' = Owners(n)
  BY <1>1, <1>2 DEF Owners
<1>4. TypeOK'
  BY <1>1, <1>2 DEF IInv, TypeOK, RemoveLink
<1>5. HLinksWithinLayer'
  BY <1>3 DEF IInv, HLinksWithinLayer, SameOwners, RemoveLink
<1>6. VLinksGoUpOne'
  BY <1>2, <1>3 DEF IInv, VLinksGoUpOne, RemoveLink
<1>7. NoOrphans
  BY <1>1, <1>3 DEF NoOrphans, Orphans
<1> QED BY <1>2, <1>4, <1>5, <1>6, <1>7 DEF IInv

\* Ownership changes for nodes without links only
LEMMA Ownership ==
  ASSUME IInv, UNCHANGED <<layerVars, hlinks, vlinks>>,
         nodes' \subseteq Node, nodes \subseteq nodes', owns' \subseteq Contents \X nodes',
         NEW n, Unlinked(n), \A e \in nodes' : e = n \/ e \in nodes,
         \A l, m : m # n => (<<l, m>> \in owns' <=> <<l, m>> \in owns)
  PROVE  /\ IInv'
         /\ \A m \in nodes' : m # n => ~Orphans(m)
         /\ (\E l : <<l, n>> \in owns') => Owners(n)' # {}
<1>1. /\ StackOK' /\ Contents' = Contents
      /\ \A l, m : RightBelow(l, m)' <=> RightBelow(l, m)
      /\ Layers!TypeOK' <=> Layers!TypeOK
  BY SameStack DEF IInv
<1>2. TypeOK'
  BY <1>1 DEF IInv, TypeOK, Pairs
<1>3. \A m : m # n => Owners(m)' = Owners(m)
  BY <1>1 DEF Owners
<1>4. HLinksWithinLayer'
  BY <1>3 DEF IInv, HLinksWithinLayer, SameOwners, Unlinked
<1>5. VLinksGoUpOne'
  BY <1>1, <1>3 DEF IInv, VLinksGoUpOne, Unlinked
<1>6. \A m \in nodes' : m # n => ~Orphans(m)
  BY <1>3 DEF Orphans
<1>7. (\E l : <<l, n>> \in owns') => Owners(n)' # {}
  BY <1>2 DEF TypeOK, Owners
<1> QED BY <1>1, <1>2, <1>4, <1>5, <1>6, <1>7 DEF IInv

LEMMA AddNodeIInv ==
  ASSUME IInv, NEW l \in LayerId, NEW n \in Node, AddNodeToLayer(l, n)
  PROVE  IInv' /\ NoOrphans
<1>1. Unlinked(n)
  BY DEF IInv, TypeOK, Pairs, AddNodeToLayer, Unlinked
<1>2. owns' \subseteq Contents \X nodes' /\ nodes' \subseteq Node /\ nodes \subseteq nodes'
  BY DEF IInv, TypeOK, AddNodeToLayer
<1>3. /\ UNCHANGED <<layerVars, hlinks, vlinks>>
      /\ \A e \in nodes' : e = n \/ e \in nodes
      /\ \A k, m : m # n => (<<k, m>> \in owns' <=> <<k, m>> \in owns)
      /\ \E k : <<k, n>> \in owns'
  BY DEF AddNodeToLayer
<1> QED BY <1>1, <1>2, <1>3, Ownership DEF NoOrphans, Orphans

LEMMA ShareIInv ==
  ASSUME IInv, NEW l \in LayerId, NEW n \in nodes, MayShare(n),
         AddOLink(l, n) \/ RemoveOLink(l, n)
  PROVE  IInv' /\ \A m \in nodes' : Orphans(m) => RemoveOLink(l, m)
<1>1. owns' \subseteq Contents \X nodes' /\ nodes' = nodes /\ nodes \subseteq Node
  BY DEF IInv, TypeOK, AddOLink, RemoveOLink
<1>2. /\ UNCHANGED <<layerVars, hlinks, vlinks>>
      /\ \A k, m : m # n => (<<k, m>> \in owns' <=> <<k, m>> \in owns)
  BY DEF AddOLink, RemoveOLink
<1>3. AddOLink(l, n) => \E k : <<k, n>> \in owns'
  BY DEF AddOLink
<1>4. /\ IInv'
      /\ \A m \in nodes' : m # n => ~Orphans(m)
      /\ (\E k : <<k, n>> \in owns') => Owners(n)' # {}
  BY <1>1, <1>2, Ownership DEF MayShare
<1>5. AddOLink(l, n) => ~Orphans(n)
  BY <1>3, <1>4 DEF Orphans
<1> QED BY <1>4, <1>5

\* New HLinks between nodes with the same owners
LEMMA MoreHLinks ==
  ASSUME IInv, UNCHANGED <<layerVars, nodes, owns, vlinks>>,
         \A e \in hlinks' \ hlinks :
           \E a, b \in nodes : a # b /\ e = {a, b} /\ SameOwners(a, b)
  PROVE  IInv' /\ NoOrphans
<1>1. /\ StackOK' /\ Contents' = Contents
      /\ \A l, m : RightBelow(l, m)' <=> RightBelow(l, m)
      /\ Layers!TypeOK' <=> Layers!TypeOK
  BY SameStack DEF IInv
<1>2. \A n : Owners(n)' = Owners(n)
  BY <1>1 DEF Owners
<1>3. hlinks' \subseteq Pairs(nodes)
  BY DEF IInv, TypeOK, Pairs
<1>4. TypeOK'
  BY <1>1, <1>3 DEF IInv, TypeOK
<1>5. HLinksWithinLayer'
  BY <1>2 DEF IInv, HLinksWithinLayer, SameOwners
<1>6. VLinksGoUpOne'
  BY <1>1, <1>2 DEF IInv, VLinksGoUpOne
<1>7. NoOrphans
  BY <1>2 DEF NoOrphans, Orphans
<1> QED BY <1>1, <1>4, <1>5, <1>6, <1>7 DEF IInv

\* New VLinks, each from a layer to the next
LEMMA MoreVLinks ==
  ASSUME IInv, UNCHANGED <<layerVars, nodes, owns, hlinks>>,
         \A e \in vlinks' \ vlinks :
           /\ e \in nodes \X nodes
           /\ \E l \in Owners(e[1]), m \in Owners(e[2]) : RightBelow(l, m)
  PROVE  IInv' /\ NoOrphans
<1>1. /\ StackOK' /\ Contents' = Contents
      /\ \A l, m : RightBelow(l, m)' <=> RightBelow(l, m)
      /\ Layers!TypeOK' <=> Layers!TypeOK
  BY SameStack DEF IInv
<1>2. \A n : Owners(n)' = Owners(n)
  BY <1>1 DEF Owners
<1>3. vlinks' \subseteq nodes \X nodes
  BY DEF IInv, TypeOK
<1>4. TypeOK'
  BY <1>1, <1>3 DEF IInv, TypeOK
<1>5. HLinksWithinLayer'
  BY <1>2 DEF IInv, HLinksWithinLayer, SameOwners
<1>6. VLinksGoUpOne'
  BY <1>1, <1>2 DEF IInv, VLinksGoUpOne
<1>7. NoOrphans
  BY <1>2 DEF NoOrphans, Orphans
<1> QED BY <1>1, <1>4, <1>5, <1>6, <1>7 DEF IInv

LEMMA AddVLinkIInv ==
  ASSUME IInv, NEW c \in nodes, NEW p \in nodes, ChildFirst(c, p), AddVLink(c, p)
  PROVE  IInv' /\ NoOrphans
<1>1. PICK l \in LayerOf(c), m \in LayerOf(p) : Affiliated(l, m)
  BY DEF AddVLink
<1>2. RightBelow(l, m)
  BY <1>1 DEF ChildFirst, Affiliated
<1>3. l \in Owners(c) /\ m \in Owners(p)
  BY DEF LayerOf
<1> QED BY <1>2, <1>3, MoreVLinks DEF AddVLink

\* A copy within a layer that passes the check is between nodes with the
\* same owners
LEMMA CheckedCopy ==
  ASSUME NEW a, NEW b, OnSameLayer(a, b), OneLayerEach(a, b)
  PROVE  SameOwners(a, b)
BY DEF OnSameLayer, OneLayerEach, LayerOf, SameOwners

LEMMA HorizontalHIInv ==
  ASSUME IInv, NEW a \in nodes, NEW b \in nodes, OneLayerEach(a, b),
         HorizontalCopyHLinks(a, b)
  PROVE  IInv' /\ NoOrphans
<1>1. SameOwners(a, b)
  BY CheckedCopy DEF HorizontalCopyHLinks
<1>2. \A n \in HNeighbors(a) : n \in nodes /\ SameOwners(b, n)
  BY <1>1 DEF HNeighbors, IInv, HLinksWithinLayer, SameOwners
<1> QED BY <1>2, MoreHLinks DEF HorizontalCopyHLinks

LEMMA HorizontalVIInv ==
  ASSUME IInv, NEW a \in nodes, NEW b \in nodes, OneLayerEach(a, b),
         HorizontalCopyVLinks(a, b)
  PROVE  IInv' /\ NoOrphans
<1>1. Owners(a) = Owners(b)
  BY CheckedCopy DEF HorizontalCopyVLinks, SameOwners
<1>2. \A p \in ParentsOf(a) : \E l \in Owners(b), m \in Owners(p) : RightBelow(l, m)
  BY <1>1 DEF ParentsOf, IInv, VLinksGoUpOne
<1>3. \A c \in ChildrenOf(a) : \E l \in Owners(c), m \in Owners(b) : RightBelow(l, m)
  BY <1>1 DEF ChildrenOf, IInv, VLinksGoUpOne
<1>4. ASSUME NEW e \in vlinks' \ vlinks
      PROVE  /\ e \in nodes \X nodes
             /\ \E l \in Owners(e[1]), m \in Owners(e[2]) : RightBelow(l, m)
  <2>1. CASE \E p \in ParentsOf(a) : e = <<b, p>>
    BY <2>1, <1>2 DEF ParentsOf
  <2>2. CASE \E c \in ChildrenOf(a) : e = <<c, b>>
    BY <2>2, <1>3 DEF ChildrenOf
  <2> QED BY <2>1, <2>2 DEF HorizontalCopyVLinks
<1> QED BY <1>4, MoreVLinks DEF HorizontalCopyVLinks

LEMMA VerticalIInv ==
  ASSUME IInv, NEW s \in nodes, NEW t \in nodes, NEW up \in BOOLEAN, NoneShared,
         VerticalCopyHLinks(s, t, up)
  PROVE  IInv' /\ NoOrphans
<1>1. \A n \in nodes : Owners(n) # {} => \E l : Owners(n) = {l}
  BY DEF NoneShared, LayerOf
<1>0. \A e \in vlinks : Owners(e[1]) # {} /\ Owners(e[2]) # {}
  BY DEF IInv, VLinksGoUpOne
<1>2. ASSUME NEW n \in HNeighbors(s), NEW k \in Kin(n, up)
      PROVE  k \in nodes /\ SameOwners(t, k)
  <2>1. n \in nodes /\ k \in nodes
    BY DEF HNeighbors, Kin, ParentsOf, ChildrenOf
  <2>2. Owners(n) = Owners(s)
    BY DEF HNeighbors, IInv, HLinksWithinLayer, SameOwners
  <2>7. /\ <<s, t>> \in vlinks \/ <<t, s>> \in vlinks
        /\ <<n, k>> \in vlinks \/ <<k, n>> \in vlinks
    BY DEF VerticalCopyHLinks, CheckAffiliation, Kin, ParentsOf, ChildrenOf
  <2>8. Owners(s) # {} /\ Owners(t) # {} /\ Owners(k) # {}
    BY <1>0, <2>7
  <2>3. PICK l : Owners(s) = {l} /\ Owners(n) = {l}
    BY <1>1, <2>2, <2>8
  <2>4. PICK m, q : Owners(t) = {m} /\ Owners(k) = {q}
    BY <1>1, <2>1, <2>8
  <2>5. CASE up
    <3>1. <<s, t>> \in vlinks /\ <<n, k>> \in vlinks
      BY <2>5 DEF VerticalCopyHLinks, CheckAffiliation, Kin, ParentsOf
    <3>2. RightBelow(l, m) /\ RightBelow(l, q)
      BY <3>1, <2>3, <2>4 DEF IInv, VLinksGoUpOne
    <3>3. m = q
      BY <3>2, OneNeighbour DEF IInv
    <3> QED BY <3>3, <2>1, <2>4 DEF SameOwners
  <2>6. CASE ~up
    <3>1. <<t, s>> \in vlinks /\ <<k, n>> \in vlinks
      BY <2>6 DEF VerticalCopyHLinks, CheckAffiliation, Kin, ChildrenOf
    <3>2. RightBelow(m, l) /\ RightBelow(q, l)
      BY <3>1, <2>3, <2>4 DEF IInv, VLinksGoUpOne
    <3>3. m = q
      BY <3>2, OneNeighbour DEF IInv
    <3> QED BY <3>3, <2>1, <2>4 DEF SameOwners
  <2> QED BY <2>5, <2>6
<1>3. ASSUME NEW e \in hlinks' \ hlinks
      PROVE  \E a, b \in nodes : a # b /\ e = {a, b} /\ SameOwners(a, b)
  <2>1. PICK n \in HNeighbors(s), k \in nodes : k \in Kin(n, up) /\ e = {t, k} /\ e # {t}
    <3>1. PICK done \in SUBSET HNeighbors(s) :
            hlinks' = hlinks \union
              {x \in {{t, k} : k \in UNION {Kin(n, up) : n \in done}} : x # {t}}
      BY DEF VerticalCopyHLinks
    <3>2. PICK k \in UNION {Kin(n, up) : n \in done} : e = {t, k} /\ e # {t}
      BY <3>1
    <3> QED BY <3>2 DEF Kin, ParentsOf, ChildrenOf
  <2> QED BY <2>1, <1>2
<1> QED BY <1>3, MoreHLinks DEF VerticalCopyHLinks

---------------------------------------------------------------------------
(* Mirrors *)

LEMMA MirrorIInv ==
  ASSUME IInv, StackOK', KeepsOrder, Contents \subseteq Contents',
         NEW prev \in Contents, NEW l \in Contents' \ Contents, NEW up \in BOOLEAN,
         IF up THEN RightBelow(prev, l)' ELSE RightBelow(l, prev)',
         Mirror(prev, l, up)
  PROVE  IInv' /\ NoOrphans
<1> DEFINE old == HLinksOf(prev)
           ends == UNION old
<1>1. PICK twin \in Injections(ends, Node \ nodes) :
        /\ nodes' = nodes \union {twin[n] : n \in ends}
        /\ owns' = owns \union {<<l, n>> : n \in {twin[n] : n \in ends}}
        /\ hlinks' = hlinks \union {{twin[n] : n \in e} : e \in old}
        /\ vlinks' = vlinks \union {IF up THEN <<n, twin[n]>> ELSE <<twin[n], n>> : n \in ends}
  BY DEF Mirror
<1>2. /\ ends \subseteq nodes
      /\ \A n \in ends : prev \in Owners(n)
  <2> SUFFICES ASSUME NEW e \in hlinks, e \cap NodesOf(prev) # {}, NEW n \in e
               PROVE  n \in nodes /\ prev \in Owners(n)
    BY DEF HLinksOf
  <2>1. n \in nodes
    BY DEF IInv, TypeOK, Pairs
  <2>2. PICK m \in e : m \in NodesOf(prev)
    OBVIOUS
  <2>3. SameOwners(n, m) /\ prev \in Owners(m)
    BY <2>2 DEF IInv, HLinksWithinLayer, NodesOf, Owners
  <2> QED BY <2>1, <2>3 DEF SameOwners
<1>3. /\ \A n \in ends : twin[n] \in Node \ nodes
      /\ \A a, b \in ends : twin[a] = twin[b] => a = b
  BY DEF Injections
<1>4. ASSUME NEW n \in ends PROVE Owners(twin[n])' = {l}
  <2>1. \A k : <<k, twin[n]>> \notin owns
    BY <1>3 DEF IInv, TypeOK
  <2>2. \A k : <<k, twin[n]>> \in owns' <=> k = l
    BY <1>1, <2>1
  <2> QED BY <2>2 DEF Owners
<1>5. ASSUME NEW n \in nodes PROVE Owners(n)' = Owners(n)
  <2>1. \A k : <<k, n>> \in owns' <=> <<k, n>> \in owns
    BY <1>1, <1>3
  <2>2. \A k : <<k, n>> \in owns => k \in Contents
    BY DEF IInv, TypeOK
  <2> QED BY <2>1, <2>2 DEF Owners
<1>6. ASSUME NEW e \in old
      PROVE  {twin[n] : n \in e} \in Pairs(nodes')
  <2>1. PICK a, b \in e : a # b /\ e = {a, b}
    BY DEF HLinksOf, IInv, TypeOK, Pairs
  <2>2. a \in ends /\ b \in ends
    OBVIOUS
  <2>3. twin[a] # twin[b] /\ {twin[n] : n \in e} = {twin[a], twin[b]}
    BY <2>1, <2>2, <1>3
  <2>4. twin[a] \in nodes' /\ twin[b] \in nodes'
    BY <1>1, <2>2
  <2> QED BY <2>3, <2>4 DEF Pairs
<1>7. TypeOK'
  <2>1. nodes' \subseteq Node
    BY <1>1, <1>3 DEF IInv, TypeOK
  <2>2. owns' \subseteq Contents' \X nodes'
    BY <1>1 DEF IInv, TypeOK
  <2>3. hlinks' \subseteq Pairs(nodes')
    <3>1. hlinks \subseteq Pairs(nodes')
      BY <1>1 DEF IInv, TypeOK, Pairs
    <3> QED BY <3>1, <1>1, <1>6
  <2>4. vlinks' \subseteq nodes' \X nodes'
    <3> SUFFICES ASSUME NEW e \in vlinks' PROVE e \in nodes' \X nodes'
      OBVIOUS
    <3>1. CASE e \in vlinks
      BY <3>1, <1>1 DEF IInv, TypeOK
    <3>2. CASE \E n \in ends : e = IF up THEN <<n, twin[n]>> ELSE <<twin[n], n>>
      <4>1. PICK n \in ends : e = IF up THEN <<n, twin[n]>> ELSE <<twin[n], n>>
        BY <3>2
      <4>2. n \in nodes' /\ twin[n] \in nodes'
        BY <1>1, <1>2
      <4> QED BY <4>1, <4>2
    <3> QED BY <3>1, <3>2, <1>1
  <2>5. Layers!TypeOK'
    BY DEF StackOK, Layers!TypeOK
  <2> QED BY <2>1, <2>2, <2>3, <2>4, <2>5 DEF TypeOK
<1>8. HLinksWithinLayer'
  <2> SUFFICES ASSUME NEW e \in hlinks', NEW a \in e, NEW b \in e PROVE SameOwners(a, b)'
    BY DEF HLinksWithinLayer
  <2>1. CASE e \in hlinks
    <3>1. a \in nodes /\ b \in nodes /\ Owners(a) = Owners(b)
      BY <2>1 DEF IInv, TypeOK, Pairs, HLinksWithinLayer, SameOwners
    <3> QED BY <3>1, <1>5 DEF SameOwners
  <2>2. CASE \E d \in old : e = {twin[n] : n \in d}
    <3>1. PICK d \in old : e = {twin[n] : n \in d}
      BY <2>2
    <3>2. PICK m, n \in d : a = twin[m] /\ b = twin[n]
      BY <3>1
    <3>3. m \in ends /\ n \in ends
      BY <3>2
    <3> QED BY <3>2, <3>3, <1>4 DEF SameOwners
  <2> QED BY <2>1, <2>2, <1>1
<1>9. VLinksGoUpOne'
  <2> SUFFICES ASSUME NEW e \in vlinks'
               PROVE  \E k \in Owners(e[1])', m \in Owners(e[2])' : RightBelow(k, m)'
    BY DEF VLinksGoUpOne
  <2>1. CASE e \in vlinks
    <3>1. e[1] \in nodes /\ e[2] \in nodes
      BY <2>1 DEF IInv, TypeOK
    <3>2. PICK k \in Owners(e[1]), m \in Owners(e[2]) : RightBelow(k, m)
      BY <2>1 DEF IInv, VLinksGoUpOne
    <3>3. RightBelow(k, m)'
      BY <3>2 DEF KeepsOrder, Owners
    <3> QED BY <3>1, <3>2, <3>3, <1>5
  <2>2. CASE \E n \in ends : e = IF up THEN <<n, twin[n]>> ELSE <<twin[n], n>>
    <3>1. PICK n \in ends : e = IF up THEN <<n, twin[n]>> ELSE <<twin[n], n>>
      BY <2>2
    <3>2. prev \in Owners(n)' /\ l \in Owners(twin[n])'
      BY <1>2, <1>4, <1>5
    <3>3. CASE up
      BY <3>1, <3>2, <3>3
    <3>4. CASE ~up
      BY <3>1, <3>2, <3>4
    <3> QED BY <3>3, <3>4
  <2> QED BY <2>1, <2>2, <1>1
<1>10. NoOrphans
  BY <1>1, <1>4, <1>5 DEF NoOrphans, Orphans
<1> QED BY <1>7, <1>8, <1>9, <1>10 DEF IInv

---------------------------------------------------------------------------
(* The theorems *)

LEMMA LayerSteps ==
  ASSUME IInv, NEW l \in LayerId, AddLayer(l) \/ MirrorTopLayer(l) \/ MirrorBottomLayer(l)
  PROVE  IInv' /\ NoOrphans
<1>1. CASE AddLayer(l)
  <2>1. StackOK' /\ KeepsOrder /\ Contents \subseteq Contents'
    BY <1>1, AddBaseStack, AddTopStack, AddBottomStack DEF AddLayer, IInv
  <2> QED BY <1>1, <2>1, MoreLayers DEF AddLayer
<1>2. CASE MirrorTopLayer(l)
  <2>1. /\ StackOK' /\ KeepsOrder /\ Contents \subseteq Contents'
        /\ l \in Contents' \ Contents /\ stack[Len(stack)] \in Contents
        /\ \A t : t = stack[Len(stack)] => RightBelow(t, l)'
    BY <1>2, AddTopStack DEF MirrorTopLayer, IInv
  <2>2. PICK prev \in Contents : prev = stack[Len(stack)]
    BY <2>1
  <2>3. Mirror(prev, l, TRUE) /\ RightBelow(prev, l)'
    BY <1>2, <2>1, <2>2 DEF MirrorTopLayer
  <2> QED BY <2>1, <2>3, MirrorIInv
<1>3. CASE MirrorBottomLayer(l)
  <2>1. /\ StackOK' /\ KeepsOrder /\ Contents \subseteq Contents'
        /\ l \in Contents' \ Contents /\ stack[1] \in Contents
        /\ \A b : b = stack[1] => RightBelow(l, b)'
    BY <1>3, AddBottomStack DEF MirrorBottomLayer, IInv
  <2>2. PICK prev \in Contents : prev = stack[1]
    BY <2>1
  <2>3. Mirror(prev, l, FALSE) /\ RightBelow(l, prev)'
    BY <1>3, <2>1, <2>2 DEF MirrorBottomLayer
  <2> QED BY <2>1, <2>3, MirrorIInv
<1> QED BY <1>1, <1>2, <1>3

LEMMA RemoveSteps ==
  ASSUME IInv, RemoveLayers
  PROVE  IInv' /\ NoOrphans
<1>1. StackOK' /\ KeepsOrder /\ Contents' \subseteq Contents
  BY RemoveStack DEF RemoveLayers, IInv
<1>2. PICK gone : gone = UNION {NodesOf(l) : l \in Contents \ Contents'}
  OBVIOUS
<1>3. Drop(gone) /\ gone \subseteq Node
  BY <1>2 DEF RemoveLayers, NodesOf, IInv, TypeOK
<1>4. \A e \in owns : e[1] \notin Contents' => e[2] \in gone
  BY <1>2 DEF NodesOf, IInv, TypeOK
<1> QED BY <1>1, <1>3, <1>4, Drops

LEMMA RemoveNodeIInv ==
  ASSUME IInv, NEW n \in nodes, RemoveNode(n)
  PROVE  IInv' /\ NoOrphans
<1>1. /\ StackOK' /\ Contents' = Contents
      /\ \A l, m : RightBelow(l, m)' <=> RightBelow(l, m)
  BY SameStack DEF IInv, RemoveNode
<1>2. KeepsOrder
  BY <1>1 DEF KeepsOrder
<1>3. {n} \in SUBSET Node /\ \A e \in owns : e[1] \in Contents'
  BY <1>1 DEF IInv, TypeOK
<1> QED BY <1>1, <1>2, <1>3, Drops DEF RemoveNode

LEMMA SetBaseIInv ==
  ASSUME IInv, NEW i \in DOMAIN stack, SetAsBaseLayer(i)
  PROVE  IInv' /\ NoOrphans
<1>1. StackOK' /\ Contents' = Contents /\ stack' = stack
  BY DEF IInv, StackOK, SetAsBaseLayer, Layers!SetBase, Contents
<1>2. KeepsOrder
  BY <1>1 DEF KeepsOrder, RightBelow
<1> QED BY <1>1, <1>2, MoreLayers DEF SetAsBaseLayer

LEMMA PairSteps ==
  ASSUME IInv, NEW a \in nodes, NEW b \in nodes,
         \/ SameOwners(a, b) /\ AddHLink(a, b)
         \/ ChildFirst(a, b) /\ AddVLink(a, b)
         \/ OneLayerEach(a, b) /\ HorizontalCopyHLinks(a, b)
         \/ OneLayerEach(a, b) /\ HorizontalCopyVLinks(a, b)
         \/ \E up \in BOOLEAN : NoneShared /\ VerticalCopyHLinks(a, b, up)
  PROVE  IInv' /\ NoOrphans
<1>1. CASE SameOwners(a, b) /\ AddHLink(a, b)
  BY <1>1, MoreHLinks DEF AddHLink
<1> QED BY <1>1, AddVLinkIInv, HorizontalHIInv, HorizontalVIInv, VerticalIInv

\* IInv is inductive
LEMMA StepIInv ==
  IInv /\ [Next]_vars => IInv' /\ \A n \in nodes' : Orphans(n) => \E l \in LayerId : RemoveOLink(l, n)
<1> DEFINE Good == IInv' /\ \A n \in nodes' : Orphans(n) => \E l \in LayerId : RemoveOLink(l, n)
<1> SUFFICES ASSUME IInv, [Next]_vars PROVE Good
  OBVIOUS
<1>0. IInv' /\ NoOrphans => Good
  BY DEF NoOrphans
<1>1. CASE UNCHANGED vars
  <2>1. UNCHANGED layerVars /\ UNCHANGED graphVars
    BY <1>1 DEF vars, layerVars, graphVars
  <2>2. StackOK' /\ Contents' = Contents /\ \A l, m : RightBelow(l, m)' <=> RightBelow(l, m)
    BY <2>1, SameStack DEF IInv
  <2>3. KeepsOrder
    BY <2>2 DEF KeepsOrder
  <2> QED BY <1>0, <2>1, <2>2, <2>3, MoreLayers
<1>2. ASSUME NEW l \in LayerId, AddLayer(l) \/ MirrorTopLayer(l) \/ MirrorBottomLayer(l)
      PROVE  Good
  BY <1>2, <1>0, LayerSteps
<1>3. ASSUME NEW l \in LayerId, NEW n \in Node, AddNodeToLayer(l, n) PROVE Good
  BY <1>3, <1>0, AddNodeIInv
<1>4. ASSUME NEW l \in LayerId, NEW n \in nodes, MayShare(n),
             AddOLink(l, n) \/ RemoveOLink(l, n)
      PROVE  Good
  BY <1>4, ShareIInv
<1>5. CASE RemoveLayers
  BY <1>5, <1>0, RemoveSteps
<1>6. ASSUME NEW i \in DOMAIN stack, SetAsBaseLayer(i) PROVE Good
  BY <1>6, <1>0, SetBaseIInv
<1>7. ASSUME NEW a \in nodes, NEW b \in nodes,
             \/ SameOwners(a, b) /\ AddHLink(a, b)
             \/ ChildFirst(a, b) /\ AddVLink(a, b)
             \/ OneLayerEach(a, b) /\ HorizontalCopyHLinks(a, b)
             \/ OneLayerEach(a, b) /\ HorizontalCopyVLinks(a, b)
             \/ \E up \in BOOLEAN : NoneShared /\ VerticalCopyHLinks(a, b, up)
      PROVE  Good
  BY <1>7, <1>0, PairSteps
<1>8. ASSUME NEW n \in nodes, RemoveNode(n) PROVE Good
  BY <1>8, <1>0, RemoveNodeIInv
<1>9. ASSUME NEW e, RemoveLink({e}, {}) \/ RemoveLink({}, {e}) PROVE Good
  BY <1>9, <1>0, RemoveLinkIInv
<1> QED BY <1>1, <1>2, <1>3, <1>4, <1>5, <1>6, <1>7, <1>8, <1>9 DEF Next

LEMMA Inductive == Spec => []IInv
<1>1. IInv /\ [Next]_vars => IInv'
  BY StepIInv
<1> QED BY InitIInv, <1>1, PTL DEF Spec

\* Links only ever join layers and nodes that are in the graph: whatever is
\* removed takes its links along.
THEOREM TypeCorrect == Spec => []TypeOK
<1>1. IInv => TypeOK
  BY DEF IInv
<1> QED BY <1>1, Inductive, PTL

\* HLinks never cross layers, although addHLink does not look at them, as
\* long as its callers do.
THEOREM WithinLayers == Spec => []HLinksWithinLayer
<1>1. IInv => HLinksWithinLayer
  BY DEF IInv
<1> QED BY <1>1, Inductive, PTL

\* Every VLink goes up exactly one layer, whatever happens to the stack.
THEOREM UpOneLayer == Spec => []VLinksGoUpOne
<1>1. IInv => VLinksGoUpOne
  BY DEF IInv
<1> QED BY <1>1, Inductive, PTL

\* Only removeOLink makes a node that no layer owns: a layer that goes takes
\* all its nodes with it, shared ones too, and every node that a mirror adds
\* has a layer.
THEOREM OrphansAreMadeKnowingly == Spec => OrphansByRemoveOLinkOnly
<1>1. IInv /\ [Next]_vars =>
        [\A n \in nodes' : Orphans(n) => \E l \in LayerId : RemoveOLink(l, n)]_vars
  BY StepIInv
<1> QED BY <1>1, Inductive, PTL DEF Spec, OrphansByRemoveOLinkOnly
=============================================================================
