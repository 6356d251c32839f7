----------------------------- MODULE TimeSeries -----------------------------
(***************************************************************************)
(* The methods of TimeSeries (model/TimeSeries.h): the values of a node    *)
(* over consecutive layers in a deque, a current position, and the slice   *)
(* of the values within a radius of it, on one side or on both.            *)
(*                                                                         *)
(* A series is a record; positions are indices as in the code, 0 for the   *)
(* first value and Len(data) for the end.  Each method is an operator from *)
(* the series before the call to the series after it.                      *)
(***************************************************************************)
EXTENDS Integers, Sequences

Directions == {"past", "future", "both"}

\* The values from sliceBegin to sliceEnd
Slice(ts) == SubSeq(ts.data, ts.start + 1, ts.finish)

MoveIt(index, size, delta) ==
  IF delta > 0
  THEN IF index + delta > size THEN size ELSE index + delta
  ELSE IF index + delta < 0 THEN 0 ELSE index + delta

\* Variant: the slice ends before the last value of its radius
ClampShort(ts) ==
  [ts EXCEPT !.start = IF ts.dir = "future" THEN ts.cur
                       ELSE MoveIt(ts.cur, Len(ts.data), -ts.radius),
             !.finish = MoveIt(ts.cur, Len(ts.data), IF ts.dir = "past" THEN 1 ELSE ts.radius)]
Clamp(ts) ==
  [ts EXCEPT !.start = IF ts.dir = "future" THEN ts.cur
                       ELSE MoveIt(ts.cur, Len(ts.data), -ts.radius),
             !.finish = MoveIt(ts.cur, Len(ts.data),
                               IF ts.dir = "past" THEN 1 ELSE ts.radius + 1)]

MoveAll(ts, delta) ==
  Clamp([ts EXCEPT !.cur = MoveIt(ts.cur, Len(ts.data), delta)])

TimeSeriesOf(data, radius, dir) ==
  Clamp([data |-> data, cur |-> 0, start |-> 0, finish |-> 0, radius |-> radius, dir |-> dir])

Scroll(ts, delta) == MoveAll(ts, delta)

\* A call that changes nothing does not clamp
SetRadius(ts, r) == IF ts.radius = r THEN ts ELSE Clamp([ts EXCEPT !.radius = r])
SetDirection(ts, d) == IF ts.dir = d THEN ts ELSE Clamp([ts EXCEPT !.dir = d])

ResetSlice(ts) == Clamp([ts EXCEPT !.cur = 0])
Clear(ts) == Clamp([ts EXCEPT !.data = << >>, !.cur = 0])

PushBack(ts, v) == Clamp([ts EXCEPT !.data = Append(ts.data, v)])
PushFront(ts, v) == MoveAll([ts EXCEPT !.data = <<v>> \o ts.data], 1)

\* Variant: the current position does not follow its value
PopFrontInPlace(ts) == Clamp([ts EXCEPT !.data = Tail(ts.data)])
PopFront(ts) == MoveAll([ts EXCEPT !.data = Tail(ts.data)], -1)

\* Variant: the current position always moves
PopBackMoving(ts) == MoveAll([ts EXCEPT !.data = SubSeq(ts.data, 1, Len(ts.data) - 1)], -1)
PopBack(ts) ==
  LET popped == [ts EXCEPT !.data = SubSeq(ts.data, 1, Len(ts.data) - 1)]
  IN  IF ts.cur = Len(popped.data) THEN MoveAll(popped, -1) ELSE Clamp(popped)

PopFronts(ts, n) ==
  LET after[k \in 0..n] == IF k = 0 THEN ts ELSE PopFront(after[k - 1]) IN after[n]
PopBacks(ts, n) ==
  LET after[k \in 0..n] == IF k = 0 THEN ts ELSE PopBack(after[k - 1]) IN after[n]

\* Variant: what lies behind the slice is counted before the front is dropped
ShrinkCountedFirst(ts) ==
  LET behind == Len(ts.data) - ts.start - ts.finish
  IN  PopBacks(PopFronts(ts, ts.start), IF behind > 0 THEN behind ELSE 0)
\* Of a series whose slice ends within the data
Shrink(ts) ==
  LET dropped == PopFronts(ts, ts.start)
      behind == Len(dropped.data) - dropped.finish
  IN  PopBacks(dropped, behind)
=============================================================================
