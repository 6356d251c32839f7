--------------------------- MODULE PriorityQueue ---------------------------
(***************************************************************************)
(* What mutable_priority_queue promises (the comments at its head): every  *)
(* value has one priority, which may be changed, and the value in front is *)
(* one of the highest priority, of those the one that has been in its      *)
(* place longest.  Module NeighborSelector uses the queue in this form.    *)
(***************************************************************************)
EXTENDS Integers

CONSTANTS Value, Key

VARIABLES scores,   \* the priority of each value in the queue
          older     \* pairs of values, the first pushed earlier

vars == <<scores, older>>

IsFront(v) ==
  /\ v \in DOMAIN scores
  /\ \A n \in DOMAIN scores \ {v} :
       scores[n] < scores[v] \/ (scores[n] = scores[v] /\ <<v, n>> \in older)

OlderWithout(v) == {p \in older : p[1] # v /\ p[2] # v}

\* Also when v is there already, with this priority or another
Insert(v, k) ==
  /\ scores' = [n \in DOMAIN scores \union {v} |-> IF n = v THEN k ELSE scores[n]]
  /\ older' = OlderWithout(v) \union ((DOMAIN scores \ {v}) \X {v})

Erase(v) ==
  /\ scores' = [n \in DOMAIN scores \ {v} |-> scores[n]]
  /\ older' = OlderWithout(v)

Pop == \E v \in Value : IsFront(v) /\ Erase(v)

Clear == scores' = << >> /\ older' = {}

Init == scores = << >> /\ older = {}

Next == \/ \E v \in Value : Erase(v) \/ \E k \in Key : Insert(v, k)
        \/ Pop
        \/ Clear

Spec == Init /\ [][Next]_vars
=============================================================================
