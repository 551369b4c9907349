------------------------------ MODULE MCPublish ------------------------------
(* Instances of Publish on one page.                                       *)
EXTENDS Publish, TLC

CONSTANTS page, full1, full2, part, next, g1

(* Day 1 is extracted three times, by three groups: twice in full and once *)
(* in part, so every conflict over a slot and between the two channels of  *)
(* a day can happen.                                                       *)
DayGroupOf == [r \in Runs |-> r]
DayDayOf == [r \in Runs |-> 1]

(* The same with a fourth run, of day 2, in the group of full1, as a range *)
(* over both days is split.                                                *)
RangeGroupOf == [r \in Runs |-> IF r \in {full1, next} THEN g1 ELSE r]
RangeDayOf == [r \in Runs |-> IF r = next THEN 2 ELSE 1]

OnePage == [r \in Runs |-> page]
Interchangeable == Permutations(Publishers) \cup Permutations(FullDayRuns)
Swapped == Permutations(Publishers)
=============================================================================
