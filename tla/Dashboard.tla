------------------------------ MODULE Dashboard ------------------------------
(***************************************************************************)
(* The screens that read the mart of one page (read_models.service.ts).  A *)
(* request first lists the published snapshots of its days, then reads the *)
(* facts of the runs it picked; the overview does both again for the range *)
(* before.  Each query, and the reading of the clock between them, is a    *)
(* step of its own: runs are published, marts rewritten and midnight       *)
(* passes in between.                                                      *)
(*                                                                         *)
(* A snapshot is [day, channel, run]; a request is [kind, from, to,        *)
(* snapshot, staff, inbox].                                                *)
(***************************************************************************)
EXTENDS Mart, FiniteSetsExt

CONSTANTS Asks      \* the requests an operator may make

ASSUME DashboardConstants ==
  \A ask \in Asks : {ask.from, ask.to} \subseteq Int /\ ask.snapshot \in {"official", "provisional"}

Legs == {"current", "previous"}

VARIABLES board,    \* the snapshots on show
          mart,     \* rows of fact_thread_day
          staffMart,\* rows of fact_staff_thread_day
          view      \* the request in progress and what it has read

dashboardVars == <<board, mart, staffMart, view>>

NoView == [stage |-> "none"]

(***************************************************************************)
(* Choosing snapshots.                                                     *)
(***************************************************************************)
SnapshotsIn(from, to) == {s \in board : from <= s.day /\ s.day <= to}

EitherChannel(snapshots) == snapshots      \* mutant: provisional snapshots pass too

Official(snapshots) == {s \in snapshots : s.channel = "official"}

BothChannels(snapshots, requested, today) ==   \* mutant: today is read from both channels
  Official(snapshots) \cup {s \in snapshots : s.channel = "provisional" /\ s.day = today
                                              /\ requested # "official"}

AnyProvisional(snapshots, requested, today) ==   \* mutant: a past day may be provisional
  LET provisional == {s \in snapshots : s.channel = "provisional" /\ requested # "official"}
  IN provisional \cup {s \in Official(snapshots) : \A p \in provisional : p.day # s.day}

(* One snapshot a day: the official one, or today's provisional one when   *)
(* the reader did not insist on official.                                  *)
ResolveSnapshots(snapshots, requested, today) ==
  LET provisional == {s \in snapshots : s.channel = "provisional" /\ s.day = today
                                        /\ requested # "official"}
  IN provisional \cup {s \in Official(snapshots) : \A p \in provisional : p.day # s.day}

(* The range of the same length that ends the day before.                  *)
PreviousRange(ask) == [from |-> 2 * ask.from - ask.to - 1, to |-> ask.from - 1]

RangeOf(ask, leg) == IF leg = "current" THEN [from |-> ask.from, to |-> ask.to]
                     ELSE PreviousRange(ask)

Selected(ask, listed, today) ==
  IF ask.kind = "export" THEN Official(listed)
  ELSE ResolveSnapshots(listed, ask.snapshot, today)

Runs(snapshots) == {s.run : s \in snapshots}

(***************************************************************************)
(* Reading facts.                                                          *)
(***************************************************************************)
InBucket(f, inbox) == \/ inbox = "all"
                      \/ inbox = "new" /\ f.isNew
                      \/ inbox = "old" /\ ~f.isNew

ThreadFactsOf(runs, ask) == {f \in mart : f.run \in runs /\ InBucket(f, ask.inbox)}

StaffFactsOf(runs, ask) ==
  {f \in staffMart : f.run \in runs /\ (ask.staff # NoStaff => f.staff = ask.staff)}

(* The thread facts are narrowed by the staff facts only when the request  *)
(* names a member of staff.                                                *)
Queries(ask) == CASE ask.kind = "staff" -> {"staff"}
                  [] ask.kind # "staff" /\ ask.staff # NoStaff -> {"threads", "staff"}
                  [] ask.kind # "staff" /\ ask.staff = NoStaff -> {"threads"}

OpenView(ask) ==
  /\ view.stage = "none"
  /\ view' = [stage |-> "listing", ask |-> ask, leg |-> "current", today |-> [l \in Legs |-> 0],
              listed |-> {}, toRead |-> {},
              slice |-> [l \in Legs |-> {}],
              threads |-> [l \in Legs |-> {}],
              staff |-> [l \in Legs |-> {}]]
  /\ UNCHANGED <<board, mart, staffMart>>

ListSnapshots ==
  /\ view.stage = "listing"
  /\ LET range == RangeOf(view.ask, view.leg)
     IN view' = [view EXCEPT !.stage = "resolving", !.listed = SnapshotsIn(range.from, range.to)]
  /\ UNCHANGED <<board, mart, staffMart>>

(* Today is read once the snapshots are there.                             *)
ResolveSlice(today) ==
  /\ view.stage = "resolving"
  /\ view' = [view EXCEPT !.stage = "reading", !.today[view.leg] = today, !.listed = {},
                          !.slice[view.leg] = Selected(view.ask, view.listed, today),
                          !.toRead = Queries(view.ask)]
  /\ UNCHANGED <<board, mart, staffMart>>

(* The two queries of a leg are sent together and may finish in any order. *)
AfterQuery(v, query) ==
  LET left == v.toRead \ {query}
      more == v.ask.kind = "overview" /\ v.leg = "current"
  IN [v EXCEPT !.toRead = left,
               !.stage = IF left # {} THEN "reading" ELSE IF more THEN "listing" ELSE "answered",
               !.leg = IF left = {} /\ more THEN "previous" ELSE v.leg]

ListFactThreadDays ==
  /\ view.stage = "reading" /\ "threads" \in view.toRead
  /\ view' = AfterQuery([view EXCEPT !.threads[view.leg] =
                           ThreadFactsOf(Runs(view.slice[view.leg]), view.ask)], "threads")
  /\ UNCHANGED <<board, mart, staffMart>>

ListFactStaffThreadDays ==
  /\ view.stage = "reading" /\ "staff" \in view.toRead
  /\ view' = AfterQuery([view EXCEPT !.staff[view.leg] =
                           StaffFactsOf(Runs(view.slice[view.leg]), view.ask)], "staff")
  /\ UNCHANGED <<board, mart, staffMart>>

(* The thread facts the answer is made of.                                 *)
Rows(leg) ==
  IF view.ask.staff = NoStaff THEN view.threads[leg]
  ELSE {f \in view.threads[leg] : \E s \in view.staff[leg] : s.run = f.run /\ s.thread = f.thread}

(***************************************************************************)
(* The answers.                                                            *)
(***************************************************************************)
Median(rows) ==
  LET timed == SetToSortSeq({f \in rows : f.first # NoTime}, LAMBDA f, g : f.first < g.first)
      n == Len(timed)
      middle == n \div 2
  IN IF n = 0 THEN NoTime
     ELSE IF n % 2 = 1 THEN timed[middle + 1].first
     ELSE (timed[middle].first + timed[middle + 1].first + 1) \div 2

Booked(rows) == {f \in rows : f.outcome = "booked"}

Overview(rows) ==
  [total |-> Cardinality(rows),
   new |-> Cardinality({f \in rows : f.isNew}),
   revisit |-> Cardinality({f \in rows : f.revisit = "revisit"}),
   booked |-> Cardinality(Booked(rows)),
   highRisk |-> Cardinality({f \in rows : f.risk = "high"}),
   cost |-> MapThenSumSet(LAMBDA f : f.cost, rows),
   median |-> Median(rows)]

(* The slice is labelled temporary as soon as one snapshot is provisional. *)
Temporary == \E s \in view.slice["current"] : s.channel = "provisional"

(* One line a day that has facts.                                          *)
ExportRows ==
  LET facts(s) == {f \in Rows("current") : f.day = s.day}
  IN {[day |-> s.day, run |-> s.run, counts |-> Overview(facts(s))] :
        s \in {x \in view.slice["current"] : facts(x) # {}}}

(* What the staff screen says of each member of staff.                     *)
StaffRanking ==
  LET rows == view.staff["current"]
  IN [name \in {f.staff : f \in rows} |->
        LET own == {f \in rows : f.staff = name}
        IN [threads |-> Cardinality({f.thread : f \in own}), response |-> Median(own)]]
=============================================================================
