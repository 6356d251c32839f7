--------------------- MODULE MutablePriorityQueueProofs ---------------------
(***************************************************************************)
(* For all values and keys: the two maps of mutable_priority_queue agree,  *)
(* erase finds what it looks for, and the queue implements PriorityQueue.  *)
(***************************************************************************)
EXTENDS MutablePriorityQueue, TLAPS

IInv == TypeOK /\ MapsAgree

\* While the maps agree, the entry of a value is found.
LEMMA Finds == MapsAgree => EraseFinds
<1> SUFFICES ASSUME MapsAgree, NEW v \in DOMAIN val2Key PROVE Find(v) # {}
  BY DEF EraseFinds
<1>1. PICK e \in key2Val : e.val = v BY DEF MapsAgree
<1>2. e \in Find(v) BY <1>1 DEF MapsAgree, Find
<1> QED BY <1>2

\* So erase leaves the other entries, and those only.
LEMMA ErasesOne ==
  ASSUME MapsAgree, NEW v \in Value
  PROVE  KeysErased(v) = {{e \in key2Val : e.val # v}}
<1>1. CASE v \notin DOMAIN val2Key
  <2>1. {e \in key2Val : e.val # v} = key2Val BY <1>1 DEF MapsAgree
  <2> QED BY <1>1, <2>1 DEF KeysErased
<1>2. CASE v \in DOMAIN val2Key
  <2>1. Find(v) # {} BY <1>2, Finds DEF EraseFinds
  <2>2. \A e \in Find(v) : key2Val \ {e} = {f \in key2Val : f.val # v}
    BY DEF MapsAgree, Find
  <2> QED BY <1>2, <2>1, <2>2 DEF KeysErased
<1> QED BY <1>1, <1>2

LEMMA EraseStep ==
  ASSUME MapsAgree, NEW v \in Value, Erase(v)
  PROVE  key2Val' = {e \in key2Val : e.val # v}
BY ErasesOne DEF Erase

LEMMA InsertStep ==
  ASSUME MapsAgree, NEW v \in Value, NEW k \in Key, Insert(v, k)
  PROVE  key2Val' = {e \in key2Val : e.val # v} \union {[key |-> k, val |-> v, at |-> pushed]}
BY ErasesOne DEF Insert

LEMMA PopStep ==
  ASSUME MapsAgree, NEW e \in key2Val, key2Val' = key2Val \ {e}
  PROVE  key2Val' = {f \in key2Val : f.val # e.val}
BY DEF MapsAgree

\* erase, and the erase in pop
LEMMA LessKeeps ==
  ASSUME IInv, NEW v \in Value,
         key2Val' = {e \in key2Val : e.val # v},
         val2Key' = [n \in DOMAIN val2Key \ {v} |-> val2Key[n]],
         pushed' = pushed
  PROVE  IInv'
<1>1. TypeOK' BY DEF IInv, TypeOK
<1>2. MapsAgree' BY DEF IInv, MapsAgree
<1> QED BY <1>1, <1>2 DEF IInv

LEMMA InsertKeeps ==
  ASSUME IInv, NEW v \in Value, NEW k \in Key, Insert(v, k)
  PROVE  IInv'
<1> DEFINE new == [key |-> k, val |-> v, at |-> pushed]
<1>0. key2Val' = {e \in key2Val : e.val # v} \union {new}
  BY InsertStep DEF IInv
<1>1. TypeOK'
  <2>1. new \in Entry /\ pushed \in Nat BY DEF Entry, IInv, TypeOK
  <2>2. key2Val' \subseteq Entry BY <1>0, <2>1 DEF IInv, TypeOK
  <2>3. \A e \in key2Val' : e.at < pushed'
    BY <1>0, <2>1 DEF IInv, TypeOK, Insert, Entry
  <2>4. /\ val2Key' \in [DOMAIN val2Key' -> Key] /\ DOMAIN val2Key' \subseteq Value
        /\ pushed' \in Nat
    BY <2>1 DEF IInv, TypeOK, Insert
  <2> QED BY <2>2, <2>3, <2>4 DEF TypeOK
<1>2. MapsAgree'
  <2>1. DOMAIN val2Key' = DOMAIN val2Key \union {v} BY DEF Insert
  <2>2. \A e \in key2Val' : e.val \in DOMAIN val2Key' /\ val2Key'[e.val] = e.key
    BY <1>0, <2>1 DEF IInv, MapsAgree, Insert
  <2>3. ASSUME NEW n \in DOMAIN val2Key' PROVE \E e \in key2Val' : e.val = n
    <3>1. CASE n = v
      <4>1. new \in key2Val' /\ new.val = v BY <1>0
      <4> QED BY <3>1, <4>1
    <3>2. CASE n # v
      <4>1. PICK e \in key2Val : e.val = n BY <2>1, <3>2 DEF IInv, MapsAgree
      <4> QED BY <1>0, <3>2, <4>1
    <3> QED BY <3>1, <3>2
  <2>4. \A e, f \in key2Val' : e.val = f.val => e = f
    BY <1>0 DEF IInv, MapsAgree
  <2> QED BY <2>2, <2>3, <2>4 DEF MapsAgree
<1> QED BY <1>1, <1>2 DEF IInv

LEMMA StepKeeps == IInv /\ [Next]_vars => IInv'
<1> SUFFICES ASSUME IInv, [Next]_vars PROVE IInv'
  OBVIOUS
<1>1. CASE \E v \in Value : Erase(v)
  <2> PICK v \in Value : Erase(v) BY <1>1
  <2> QED BY EraseStep, LessKeeps DEF IInv, Erase
<1>2. CASE \E v \in Value, k \in Key : Insert(v, k)
  BY <1>2, InsertKeeps
<1>3. CASE Pop
  <2> PICK e \in key2Val : /\ key2Val' = key2Val \ {e}
                           /\ val2Key' = [n \in DOMAIN val2Key \ {e.val} |-> val2Key[n]]
    BY <1>3 DEF Pop
  <2>1. e.val \in Value BY DEF IInv, TypeOK, Entry
  <2> QED BY <1>3, <2>1, PopStep, LessKeeps DEF IInv, Pop
<1>4. CASE Clear
  BY <1>4 DEF Clear, IInv, TypeOK, MapsAgree
<1>5. CASE UNCHANGED vars
  BY <1>5 DEF vars, IInv, TypeOK, MapsAgree
<1> QED BY <1>1, <1>2, <1>3, <1>4, <1>5 DEF Next

LEMMA Always == Spec => []IInv
<1>1. Init => IInv
  BY DEF Init, IInv, TypeOK, MapsAgree
<1> QED BY <1>1, StepKeeps, PTL DEF Spec

\* Whatever is inserted, updated, erased and popped, in any order, the two
\* maps hold the same entries.
THEOREM TwoMapsAgree == Spec => []MapsAgree
<1>1. IInv => MapsAgree BY DEF IInv
<1> QED BY <1>1, Always, PTL

\* erase never erases the end of the multimap.
THEOREM EraseIsDefined == Spec => []EraseFinds
<1>1. IInv => EraseFinds BY Finds DEF IInv
<1> QED BY <1>1, Always, PTL

---------------------------------------------------------------------------
(* The refinement *)

LEMMA LessIsErase ==
  ASSUME IInv, NEW v \in Value,
         key2Val' = {e \in key2Val : e.val # v},
         val2Key' = [n \in DOMAIN val2Key \ {v} |-> val2Key[n]]
  PROVE  Queue!Erase(v)
<1>1. Older' = {p \in Older : p[1] # v /\ p[2] # v}
  BY DEF Older
<1> QED BY <1>1 DEF Queue!Erase, Queue!OlderWithout

LEMMA InsertIsInsert ==
  ASSUME IInv, NEW v \in Value, NEW k \in Key, Insert(v, k)
  PROVE  Queue!Insert(v, k)
<1> DEFINE new == [key |-> k, val |-> v, at |-> pushed]
           kept == {e \in key2Val : e.val # v}
<1>0. key2Val' = kept \union {new} /\ new.val = v /\ new.at = pushed
  BY InsertStep DEF IInv
<1>1. \A e \in kept : /\ e.at < new.at /\ ~(new.at < e.at)
                      /\ e.val \in Value /\ e.val # v
  BY DEF IInv, TypeOK, Entry
<1>2. ~(new.at < new.at) BY DEF IInv, TypeOK
<1>3. \A p \in Value \X Value :
        p \in Older' <=> \/ \E e, f \in kept : p = <<e.val, f.val>> /\ e.at < f.at
                         \/ \E e \in kept : p = <<e.val, v>>
  BY <1>0, <1>1, <1>2 DEF Older
<1>4. \A p \in Value \X Value :
        p \in {q \in Older : q[1] # v /\ q[2] # v} <=>
          \E e, f \in kept : p = <<e.val, f.val>> /\ e.at < f.at
  BY DEF Older
<1>5. {e.val : e \in kept} = DOMAIN val2Key \ {v}
  BY DEF IInv, MapsAgree
<1>6. DOMAIN val2Key \subseteq Value BY DEF IInv, TypeOK
<1>7. \A p \in Value \X Value :
        p \in (DOMAIN val2Key \ {v}) \X {v} <=> \E e \in kept : p = <<e.val, v>>
  BY <1>5, <1>6
<1>8. Older' = Queue!OlderWithout(v) \union ((DOMAIN val2Key \ {v}) \X {v})
  <2>1. /\ Older' \subseteq Value \X Value
        /\ Older \subseteq Value \X Value
        /\ (DOMAIN val2Key \ {v}) \X {v} \subseteq Value \X Value
    BY <1>6 DEF Older
  <2> QED BY <2>1, <1>3, <1>4, <1>7 DEF Queue!OlderWithout
<1> QED BY <1>8 DEF Insert, Queue!Insert

\* The entry in front holds the value in front.
LEMMA BeginIsFront ==
  ASSUME IInv, NEW e \in key2Val, IsBegin(e)
  PROVE  Queue!IsFront(e.val)
<1>1. e.val \in DOMAIN val2Key /\ val2Key[e.val] = e.key
  BY DEF IInv, MapsAgree
<1>2. ASSUME NEW n \in DOMAIN val2Key \ {e.val}
      PROVE  \/ val2Key[n] < val2Key[e.val]
             \/ val2Key[n] = val2Key[e.val] /\ <<e.val, n>> \in Older
  <2>1. PICK f \in key2Val : f.val = n BY DEF IInv, MapsAgree
  <2>2. val2Key[n] = f.key BY <2>1 DEF IInv, MapsAgree
  <2>3. f.key < e.key \/ (f.key = e.key /\ e.at < f.at)
    BY <2>1 DEF IsBegin
  <2>4. e.at < f.at => <<e.val, n>> \in Older
    BY <2>1 DEF Older, IInv, TypeOK, Entry
  <2> QED BY <1>1, <2>2, <2>3, <2>4
<1> QED BY <1>1, <1>2 DEF Queue!IsFront

LEMMA StepImplements == IInv /\ [Next]_vars => [Queue!Next]_(Queue!vars)
<1> SUFFICES ASSUME IInv, [Next]_vars PROVE [Queue!Next]_(Queue!vars)
  OBVIOUS
<1>1. CASE \E v \in Value : Erase(v)
  <2> PICK v \in Value : Erase(v) BY <1>1
  <2>1. Queue!Erase(v) BY EraseStep, LessIsErase DEF IInv, Erase
  <2> QED BY <2>1 DEF Queue!Next
<1>2. CASE \E v \in Value, k \in Key : Insert(v, k)
  BY <1>2, InsertIsInsert DEF Queue!Next
<1>3. CASE Pop
  <2> PICK e \in key2Val : /\ IsBegin(e)
                           /\ key2Val' = key2Val \ {e}
                           /\ val2Key' = [n \in DOMAIN val2Key \ {e.val} |-> val2Key[n]]
    BY <1>3 DEF Pop
  <2>1. e.val \in Value BY DEF IInv, TypeOK, Entry
  <2>2. Queue!Erase(e.val) BY <2>1, PopStep, LessIsErase DEF IInv
  <2>3. Queue!IsFront(e.val) BY BeginIsFront
  <2> QED BY <2>1, <2>2, <2>3 DEF Queue!Next, Queue!Pop
<1>4. CASE Clear
  <2>1. Older' = {} BY <1>4 DEF Clear, Older
  <2> QED BY <1>4, <2>1 DEF Clear, Queue!Next, Queue!Clear
<1>5. CASE UNCHANGED vars
  BY <1>5 DEF vars, Queue!vars, Older
<1> QED BY <1>1, <1>2, <1>3, <1>4, <1>5 DEF Next

\* The two maps glued together are one queue in which every value has one
\* priority, and equal priorities leave in the order they came.
THEOREM Implements == Spec => ImplementsQueue
<1>1. Init => Queue!Init
  <2>1. Init => Older = {} BY DEF Init, Older
  <2> QED BY <2>1 DEF Init, Queue!Init
<1> QED BY <1>1, StepImplements, Always, PTL DEF Spec, Queue!Spec, ImplementsQueue
=============================================================================
