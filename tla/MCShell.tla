------------------------------- MODULE MCShell -------------------------------
(***************************************************************************)
(* An instance of Shell: two pages in the catalog, opened with no address  *)
(* or with one that was kept from before a page went away.                 *)
(***************************************************************************)
EXTENDS Shell, TLC

CONSTANTS pa, pb, gone, l1, l2

TwoPages == <<pa, pb>>
Plain == [view |-> "overview", page |-> NoPage, slice |-> "yesterday", range |-> NoDay,
          snapshot |-> "official", rest |-> "all", compare |-> {}]
Kept == [Plain EXCEPT !.view = "page-comparison", !.page = gone, !.slice = "custom",
                      !.compare = {gone, pb}]
PlainAndKept == {Plain, Kept}
SameLoads == Permutations(Loads)
=============================================================================
