------------------------ MODULE MCNeighborCoarsener ------------------------
(* Coarsening runs on layers of a few nodes                                *)
EXTENDS NeighborCoarsener
=============================================================================
