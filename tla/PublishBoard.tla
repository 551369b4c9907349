---------------------------- MODULE PublishBoard ----------------------------
(***************************************************************************)
(* What publishing promises to the readers of the dashboard, without       *)
(* saying how it is done.  For each page, business day and channel the     *)
(* board shows at most one run.  A run only ever appears in the slot of    *)
(* its own page and day, in the channel it was planned for, and a channel  *)
(* that has been filled by an official run is never blank again: official  *)
(* history can be corrected but not lost.                                  *)
(***************************************************************************)
CONSTANTS Runs,      \* the child runs (rows of pipeline_run)
          Pages,     \* the connected pages
          Days,      \* the business days
          PageOf,    \* the page a run extracts
          DayOf,     \* the target date of a run
          NoRun      \* the value of an empty slot

Channels == {"official", "provisional"}
Slots == Pages \X Days \X Channels
SlotOf(r, ch) == <<PageOf[r], DayOf[r], ch>>

VARIABLES board,     \* slot -> the run the dashboard reads there, or NoRun
          plannedFor \* run -> the channel its planning allowed, or "none"

boardVars == <<board, plannedFor>>

BoardInit ==
  /\ board = [s \in Slots |-> NoRun]
  /\ plannedFor = [r \in Runs |-> "none"]

(* Planning fixes once and for all where a run may be shown. *)
Plan(R) ==
  /\ \A r \in R : plannedFor[r] = "none"
  /\ \E ch \in [R -> Channels \cup {"none"}] :
       plannedFor' = [r \in Runs |-> IF r \in R THEN ch[r] ELSE plannedFor[r]]
  /\ UNCHANGED board

(* Showing an official run takes its slot and may clear the provisional    *)
(* one of the same page and day.  Showing a provisional run touches        *)
(* nothing but its own slot.                                               *)
ShowOfficial(r) ==
  /\ plannedFor[r] = "official"
  /\ \E prov \in {NoRun, board[SlotOf(r, "provisional")]} :
       board' = [board EXCEPT ![SlotOf(r, "official")] = r,
                              ![SlotOf(r, "provisional")] = prov]
  /\ UNCHANGED plannedFor

ShowProvisional(r) ==
  /\ plannedFor[r] = "provisional"
  /\ board' = [board EXCEPT ![SlotOf(r, "provisional")] = r]
  /\ UNCHANGED plannedFor

BoardNext ==
  \/ \E R \in SUBSET Runs : Plan(R)
  \/ \E r \in Runs : ShowOfficial(r) \/ ShowProvisional(r)

BoardSpec == BoardInit /\ [][BoardNext]_boardVars
=============================================================================
