---------------------------- MODULE MCLayerDao ----------------------------
(* Layer operations on a small graph.  Layers and caller variables are     *)
(* interchangeable: no operation tells one id from another.                *)
EXTENDS LayerDao, TLC

Symmetry == Permutations(LayerId) \union Permutations(Handle)
=============================================================================
