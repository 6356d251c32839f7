---------------------------- MODULE LayerStack ----------------------------
(***************************************************************************)
(* What the layer operations of the multi-layer graph promise their        *)
(* callers: the layers form one stack, listed here from bottom to top, and *)
(* exactly one of them is the base layer as soon as there is one.  Layers  *)
(* come and go only at the two ends, and never the base layer while there  *)
(* is another one.  Module LayerDao, the code's operations over graph      *)
(* nodes and CHILD_OF edges, is shown to implement this module.            *)
(***************************************************************************)
EXTENDS Naturals, Sequences

CONSTANT LayerId      \* the identifiers layers may get

VARIABLES stack,      \* the layers, bottom first
          base        \* position of the base layer in stack, 0 when empty

vars == <<stack, base>>

Contents == {stack[i] : i \in DOMAIN stack}

TypeOK == /\ stack \in Seq(LayerId)
          /\ base \in 0..Len(stack)

Init == stack = <<>> /\ base = 0

AddBase(l) == /\ stack = <<>>
              /\ stack' = <<l>>
              /\ base' = 1

AddTop(l) == /\ stack # <<>>
             /\ l \notin Contents
             /\ stack' = Append(stack, l)
             /\ UNCHANGED base

AddBottom(l) == /\ stack # <<>>
                /\ l \notin Contents
                /\ stack' = <<l>> \o stack
                /\ base' = base + 1

RemoveTop == /\ base < Len(stack)
             /\ stack' = SubSeq(stack, 1, Len(stack) - 1)
             /\ UNCHANGED base

RemoveBottom == /\ base > 1
                /\ stack' = Tail(stack)
                /\ base' = base - 1

RemoveBase == /\ Len(stack) = 1
              /\ stack' = <<>>
              /\ base' = 0

RemoveAllButBase == /\ stack # <<>>
                    /\ stack' = <<stack[base]>>
                    /\ base' = 1

SetBase(i) == /\ base' = i
              /\ UNCHANGED stack

Next == \/ \E l \in LayerId : AddBase(l) \/ AddTop(l) \/ AddBottom(l)
        \/ RemoveTop \/ RemoveBottom \/ RemoveBase \/ RemoveAllButBase
        \/ \E i \in DOMAIN stack : SetBase(i)

Spec == Init /\ [][Next]_vars
=============================================================================
