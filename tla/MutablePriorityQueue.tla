------------------------ MODULE MutablePriorityQueue ------------------------
(***************************************************************************)
(* The queue of the selectors (utils/mutable_priority_queue.h): "two maps  *)
(* glued together", a multimap from keys to values, the highest key first, *)
(* and a map from values to keys by which an entry of the first is found   *)
(* again.  A multimap keeps entries of equal keys in the order they were   *)
(* inserted; at stands for that order, over all entries.                   *)
(*                                                                         *)
(* Keys are ordered, which a NaN among the scores would not be.            *)
(***************************************************************************)
EXTENDS Integers

CONSTANTS Value, Key

VARIABLES key2Val,   \* entries
          val2Key,   \* function from the values in the queue to their keys
          pushed     \* entries made so far

vars == <<key2Val, val2Key, pushed>>

Entry == [key : Key, val : Value, at : Nat]

\* The maps hold values and keys, and all entries were made before.
TypeOK ==
  /\ key2Val \subseteq Entry
  /\ val2Key \in [DOMAIN val2Key -> Key] /\ DOMAIN val2Key \subseteq Value
  /\ pushed \in Nat
  /\ \A e \in key2Val : e.at < pushed

---------------------------------------------------------------------------
\* _find(val2Key[v], v), in any order: there should be one at most
Find(v) == {e \in key2Val : e.key = val2Key[v] /\ e.val = v}

\* What erase(v) may leave of key2Val: what _find returns when it finds nothing
\* is the end, and to erase that may do anything
KeysErased(v) ==
  IF v \notin DOMAIN val2Key THEN {key2Val}
  ELSE IF Find(v) = {} THEN SUBSET Entry
  ELSE {key2Val \ {e} : e \in Find(v)}

Erase(v) ==
  /\ key2Val' \in KeysErased(v)
  /\ val2Key' = [n \in DOMAIN val2Key \ {v} |-> val2Key[n]]
  /\ UNCHANGED pushed

\* insert, and push and update, which call it: erase comes first
Insert(v, k) ==
  /\ \E rest \in KeysErased(v) :
       key2Val' = rest \union {[key |-> k, val |-> v, at |-> pushed]}
  /\ val2Key' = [n \in DOMAIN val2Key \union {v} |-> IF n = v THEN k ELSE val2Key[n]]
  /\ pushed' = pushed + 1

IsBegin(e) ==
  /\ e \in key2Val
  /\ \A f \in key2Val \ {e} : f.key < e.key \/ (f.key = e.key /\ e.at < f.at)

\* The entry in front; nobody pops an empty queue
Pop ==
  /\ \E e \in key2Val :
       /\ IsBegin(e)
       /\ key2Val' = key2Val \ {e}
       /\ val2Key' = [n \in DOMAIN val2Key \ {e.val} |-> val2Key[n]]
  /\ UNCHANGED pushed

Clear == key2Val' = {} /\ val2Key' = << >> /\ UNCHANGED pushed

Init == key2Val = {} /\ val2Key = << >> /\ pushed = 0

Next == \/ \E v \in Value : Erase(v) \/ \E k \in Key : Insert(v, k)
        \/ Pop
        \/ Clear

Spec == Init /\ [][Next]_vars

---------------------------------------------------------------------------
(* Properties *)

\* The two maps say the same: what one holds is an entry of the other, and no
\* value has two, however often it is pushed again with another key.
MapsAgree ==
  /\ \A e \in key2Val : e.val \in DOMAIN val2Key /\ val2Key[e.val] = e.key
  /\ \A v \in DOMAIN val2Key : \E e \in key2Val : e.val = v
  /\ \A e, f \in key2Val : e.val = f.val => e = f

\* erase never looks in vain for the entry of a value it has found the key of,
\* which would erase the end of the multimap.
EraseFinds == \A v \in DOMAIN val2Key : Find(v) # {}

\* The two maps are the queue of module PriorityQueue.
Older == {p \in Value \X Value : \E e, f \in key2Val : p = <<e.val, f.val>> /\ e.at < f.at}

Queue == INSTANCE PriorityQueue WITH scores <- val2Key, older <- Older

ImplementsQueue == Queue!Spec
=============================================================================
