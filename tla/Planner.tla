------------------------------- MODULE Planner -------------------------------
(***************************************************************************)
(* How the backend turns a request for a stretch of time into child runs,  *)
(* one per business day.  Instants are ticks of UTC.  A business day is    *)
(* DayLength ticks long and its midnight lies Offset ticks ahead of UTC    *)
(* midnight, as in Asia/Ho_Chi_Minh; zones whose clocks change are outside *)
(* the model (see the README).                                             *)
(***************************************************************************)
EXTENDS Integers, Sequences

CONSTANTS DayLength,  \* ticks of a day
          Offset      \* how far the business clock is ahead of UTC

ASSUME ClockConstants == /\ DayLength \in Nat \ {0}
                         /\ Offset \in 0..(DayLength - 1)

BusinessDay(t) == (t + Offset) \div DayLength
UtcDay(t) == t \div DayLength
DayStart(day) == day * DayLength - Offset

Historical(day, now) == day < BusinessDay(now)

Eligibility(day, full, now) ==
  IF full THEN "official_full_day"
  ELSE IF Historical(day, now) THEN "not_publishable_old_partial"
  ELSE "provisional_current_day_partial"

(* The window of the business day a cursor is in, cut to the request.      *)
WindowAt(cursor, end) ==
  LET day == BusinessDay(cursor)
      next == DayStart(day) + DayLength
  IN [day |-> day,
      start |-> IF cursor > DayStart(day) THEN cursor ELSE DayStart(day),
      end |-> IF end < next THEN end ELSE next]

EndsAtMidnight(w) == w.end = DayStart(w.day) + DayLength    \* mutant: the start is not compared

IsFullDay(w) == w.start = DayStart(w.day) /\ w.end = DayStart(w.day) + DayLength

ChildRun(cursor, end, now) ==
  LET w == WindowAt(cursor, end)
  IN [day |-> w.day, start |-> w.start, end |-> w.end, full |-> IsFullDay(w),
      eligibility |-> Eligibility(w.day, IsFullDay(w), now)]

(* splitRequestedWindowByTargetDate: walk a cursor from day to day.  An    *)
(* empty or reversed request is refused, here the empty plan.              *)
SplitByTargetDate(start, end, now) ==
  LET plan[cursor \in start..end] ==
        IF cursor = end THEN <<>>
        ELSE LET child == ChildRun(cursor, end, now)
             IN <<child>> \o (IF child.end < end THEN plan[child.end] ELSE <<>>)
  IN IF start >= end THEN <<>> ELSE plan[start]

FullDayRun(day, now) ==
  [day |-> day, start |-> DayStart(day), end |-> DayStart(day) + DayLength,
   full |-> TRUE, eligibility |-> Eligibility(day, TRUE, now)]
=============================================================================
