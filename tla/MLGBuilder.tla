----------------------------- MODULE MLGBuilder -----------------------------
(***************************************************************************)
(* The plan of MLGBuilder (MLGBuilder.cpp), as given to the coarsener:     *)
(* "Hs:0.1,0.2,0.4 Xm:0.5" asks for three steps of one coarsener and one   *)
(* of another, each with a reduction factor.  A plan is the sequence of    *)
(* its parts between blanks, a part a name and the factors split off it.   *)
(***************************************************************************)
EXTENDS Naturals, Sequences, SequencesExt

CONSTANTS NoNumber,   \* a factor that is none
          NoText      \* the empty string, as left of "," before the end

ASSUME TextsAssumption == NoNumber # NoText

CoarsenerName == {"Hs", "Hm", "Xs", "Xm"}

\* Any name, and what is split off it
Parts == [name : STRING, factors : Seq(Nat \union {NoText, NoNumber})]

---------------------------------------------------------------------------
\* Every error drops the steps read so far, and those queued before
Rejected == [ok |-> FALSE, fac |-> 0, steps |-> << >>]

\* Variant: the steps read so far are kept
AddFactorKeeping(state, name, f, count) ==
  IF ~state.ok \/ (f = NoText /\ count > 1) THEN state
  ELSE IF f \in {NoText, NoNumber} THEN [state EXCEPT !.ok = FALSE]
  ELSE IF f <= state.fac \/ name \notin CoarsenerName THEN [state EXCEPT !.ok = FALSE]
  ELSE [state EXCEPT !.fac = f, !.steps = Append(@, [name |-> name, fac |-> f])]

\* One of the factors of a part that has count of them; a factor must be
\* greater than the last one, whichever part that was in
AddFactor(state, name, f, count) ==
  IF ~state.ok \/ (f = NoText /\ count > 1) THEN state
  ELSE IF f \in {NoText, NoNumber} THEN Rejected
  ELSE IF f <= state.fac \/ name \notin CoarsenerName THEN Rejected
  ELSE [state EXCEPT !.fac = f, !.steps = Append(@, [name |-> name, fac |-> f])]

AddPart(state, part) ==
  LET add(s, f) == AddFactor(s, part.name, f, Len(part.factors))
  IN IF part.factors = << >> THEN Rejected ELSE FoldLeft(add, state, part.factors)

\* Of a builder without steps; the empty plan is an error as well
FromRawString(plan) ==
  IF plan = << >> THEN Rejected
  ELSE FoldLeft(AddPart, [ok |-> TRUE, fac |-> 0, steps |-> << >>], plan)

---------------------------------------------------------------------------
(* What the parser should accept, and what it should make of it *)

StepsOfPart(part) ==
  FlattenSeq([j \in DOMAIN part.factors |->
    IF part.factors[j] \in {NoText, NoNumber} THEN << >>
    ELSE <<[name |-> part.name, fac |-> part.factors[j]]>>])

StepsOf(plan) == FlattenSeq([i \in DOMAIN plan |-> StepsOfPart(plan[i])])

Growing(s) == \A j \in DOMAIN s : s[j].fac > IF j = 1 THEN 0 ELSE s[j - 1].fac

Acceptable(plan) ==
  /\ plan # << >>
  /\ \A i \in DOMAIN plan :
       /\ plan[i].factors \notin {<< >>, <<NoText>>}
       /\ \A j \in DOMAIN plan[i].factors : plan[i].factors[j] # NoNumber
       /\ StepsOfPart(plan[i]) # << >> => plan[i].name \in CoarsenerName
  /\ Growing(StepsOf(plan))
=============================================================================
