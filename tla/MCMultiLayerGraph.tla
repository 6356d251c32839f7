------------------------- MODULE MCMultiLayerGraph -------------------------
(* A few layers and nodes.  No operation tells one id from another.        *)
EXTENDS MultiLayerGraph, TLC

Symmetry == Permutations(LayerId) \union Permutations(Node)
=============================================================================
