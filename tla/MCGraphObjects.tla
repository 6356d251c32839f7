--------------------------- MODULE MCGraphObjects ---------------------------
(***************************************************************************)
(* Nodes and OLinks under two names, one the weight of each type at first; *)
(* each type may get another attribute or a new name for its weight.       *)
(***************************************************************************)
EXTENDS GraphObjects, TLC

MCWeightName == [t \in Type |-> IF t = "node" THEN "weight" ELSE "load"]

\* Nothing, values under one or both names, one value of a wrong type
MCData == {<< >>, "load" :> 1, ("load" :> 1 @@ "weight" :> Bad)}
=============================================================================
