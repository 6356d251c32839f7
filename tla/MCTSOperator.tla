---------------------------- MODULE MCTSOperator ----------------------------
(* Filtering runs over a few layers and two nodes                          *)
EXTENDS TSOperator
=============================================================================
