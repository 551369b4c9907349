------------------------------ MODULE MCConsole ------------------------------
(***************************************************************************)
(* Workspace on a small instance. *)
(***************************************************************************)
EXTENDS Workspace, TLC

CONSTANTS pa, pb, s1, s2, other, given, own, rules, empty,
  Reads, Writes, Samples, Previews, Others

MCBudget == [read |-> Reads, write |-> Writes, sample |-> Samples, preview |-> Previews,
             other |-> Others]

Interchangeable == Permutations(Screens)
=============================================================================
