---------------------------- MODULE Contraction ----------------------------
(***************************************************************************)
(* What coarsening a layer promises: the linked nodes of the layer are     *)
(* grouped, each alone at first, and groups only ever grow by joining two  *)
(* that a link of the layer connects.  So every group stays connected and  *)
(* every linked node stays in exactly one of them.  Module                 *)
(* NeighborCoarsener, the code's runs over nodes and links of a new top    *)
(* layer, is shown to implement this module.                               *)
(***************************************************************************)
EXTENDS FiniteSets

CONSTANT Node

VARIABLES nodes,      \* the nodes of the layer being coarsened
          links,      \* its links, sets of two nodes
          groups      \* the groups its linked nodes are in

vars == <<nodes, links, groups>>

Pairs(S) == {e \in SUBSET S : Cardinality(e) = 2}

Init == nodes = {} /\ links = {} /\ groups = {}

\* Coarsening of the next layer begins
Begin == /\ nodes' \subseteq Node
         /\ links' \subseteq Pairs(nodes')
         /\ groups' = {{v} : v \in UNION links'}

Contract(A, B) ==
  /\ A # B
  /\ \E a \in A, b \in B : {a, b} \in links
  /\ groups' = (groups \ {A, B}) \union {A \union B}
  /\ UNCHANGED <<nodes, links>>

Next == Begin \/ \E A, B \in groups : Contract(A, B)

Spec == Init /\ [][Next]_vars
=============================================================================
