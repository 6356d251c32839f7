--------------------------- MODULE TimeSeriesCalls ---------------------------
(***************************************************************************)
(* A TimeSeries whose methods are called in any order: what its positions  *)
(* and slice are worth after a long sequence of calls.                     *)
(***************************************************************************)
EXTENDS TimeSeries, FiniteSets

CONSTANTS Values,
          MaxRadius,
          MaxSize,     \* bound: values in the series
          MaxScroll    \* bound: distance of one scroll

ASSUME CallsAssumption ==
  MaxRadius \in Nat /\ MaxSize \in Nat /\ MaxScroll \in Nat

VARIABLE ts

Init == \E r \in 0..MaxRadius, d \in Directions : ts = TimeSeriesOf(<< >>, r, d)

CallScroll == \E delta \in -MaxScroll..MaxScroll : ts' = Scroll(ts, delta)
CallSetRadius == \E r \in 0..MaxRadius : ts' = SetRadius(ts, r)
CallSetDirection == \E d \in Directions : ts' = SetDirection(ts, d)
CallReset == ts' = ResetSlice(ts) \/ ts' = Clear(ts)
CallPush == /\ Len(ts.data) < MaxSize
            /\ \E v \in Values : ts' = PushBack(ts, v) \/ ts' = PushFront(ts, v)
CallPopFront == ts.data # << >> /\ ts' = PopFront(ts)
\* Callers do not pop the last value while the position is at the end: the
\* code would leave the position behind the end.
CallPopBack == ts.cur < Len(ts.data) /\ ts' = PopBack(ts)
CallShrink == ts.finish <= Len(ts.data) /\ ts' = Shrink(ts)

Next == \/ CallScroll \/ CallSetRadius \/ CallSetDirection \/ CallReset
        \/ CallPush \/ CallPopFront \/ CallPopBack \/ CallShrink

Spec == Init /\ [][Next]_ts

---------------------------------------------------------------------------
\* The positions stay in order and within the data: clamp has adjusted the
\* slice after every call that changed the data ("Adjust slice after the
\* structure of the underlying has been modified"), but for pop_back with the
\* position at the end, which Next leaves out (CallPopBack).
SliceInBounds == 0 <= ts.start /\ ts.start <= ts.cur /\ ts.cur <= ts.finish /\ ts.finish <= Len(ts.data)

\* The slice reaches as far as the radius and the data allow: a value is in
\* it exactly when it is close enough to the current one, on the right side.
SliceIsReach ==
  \A i \in 0..(Len(ts.data) - 1) :
    (ts.start <= i /\ i < ts.finish) <=>
      /\ i - ts.cur <= ts.radius /\ ts.cur - i <= ts.radius
      /\ i < ts.cur => ts.dir # "future"
      /\ i > ts.cur => ts.dir # "past"

\* shrink drops all values but those of the slice, the slice stays the same
\* and so does the current value.
ShrinkKeepsSlice ==
  LET shrunk == Shrink(ts)
  IN  /\ shrunk.data = Slice(ts) /\ Slice(shrunk) = Slice(ts)
      /\ ts.cur < Len(ts.data) => shrunk.data[shrunk.cur + 1] = ts.data[ts.cur + 1]

\* Adding or dropping values at either end keeps the position on the value it
\* is at, and when that is the last one and dropped, on the last one left.
CurrentValue(t) == t.data[t.cur + 1]
CurrentFollowsItsValue ==
  ts.cur < Len(ts.data) =>
    /\ \A v \in Values : /\ CurrentValue(PushBack(ts, v)) = CurrentValue(ts)
                        /\ CurrentValue(PushFront(ts, v)) = CurrentValue(ts)
    /\ ts.cur > 0 => CurrentValue(PopFront(ts)) = CurrentValue(ts)
    /\ Len(ts.data) > 1 =>
         CurrentValue(PopBack(ts)) =
           IF ts.cur = Len(ts.data) - 1 THEN ts.data[Len(ts.data) - 1] ELSE CurrentValue(ts)
=============================================================================
