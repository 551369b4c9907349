------------------------------ MODULE MCMonitor ------------------------------
(***************************************************************************)
(* An instance of Monitor: one page, runs of day 1, a group for each.      *)
(***************************************************************************)
EXTENDS Monitor, TLC

CONSTANT page

EachItsGroup == [r \in Runs |-> r]
OnePage == [r \in Runs |-> page]
FirstDay == [r \in Runs |-> 1]
Interchangeable == Permutations(FullDayRuns)
=============================================================================
