------------------------------- MODULE Publish -------------------------------
(***************************************************************************)
(* Publishing a run to the dashboard (chat_extractor.service publishRun    *)
(* and chat_extractor.repository publishRun), together with every other    *)
(* writer of the columns it reads and writes: planning, extraction,        *)
(* analysis, materialisation of the mart and the refresh of the group's    *)
(* status.                                                                 *)
(*                                                                         *)
(* A publish request is not one transaction.  The service reads the run,   *)
(* then the active snapshots of its page and day, then the run rows behind *)
(* those snapshots, decides which runs are to be superseded, and only then *)
(* opens the transaction that writes.  Between any two of these steps      *)
(* other requests, an analysis or midnight may come, so each step is an    *)
(* action and what was read is kept in the request's record.               *)
(*                                                                         *)
(* Extraction and analysis are reduced to their writes of run status;      *)
(* RunGroup and Analysis model them in full.                               *)
(***************************************************************************)
EXTENDS Naturals, Sequences, FiniteSets

CONSTANTS Runs,        \* child runs
          Groups,      \* run groups
          Pages,       \* connected pages
          Publishers,  \* concurrent publish requests (HTTP handlers)
          GroupOf,     \* run -> group
          PageOf,      \* run -> page
          DayOf,       \* run -> target date
          FullDayRuns, \* the runs whose window covers the whole day
          Overlapping, \* whether a request may begin before another has committed
          Failing,     \* bound: the runs whose extraction may fail
          Reanalysed,  \* bound: the runs whose analysis is (re)executed
          LastDay,     \* bound: business days are 1 .. LastDay
          MaxPublishes,\* bound: publish transactions that commit
          NoRun, NoGroup

Days == 1 .. LastDay
Channels == {"official", "provisional"}
Slots == Pages \X Days \X Channels
Statuses == {"absent", "queued", "loaded", "published", "failed"}
Eligibilities == {"none", "official_full_day", "provisional_current_day_partial",
                  "not_publishable_old_partial"}
PublishStates == {"draft", "published_official", "published_provisional", "superseded"}
GroupStatuses == {"queued", "loaded", "published", "failed"}

ASSUME PublishConstants ==
  /\ GroupOf \in [Runs -> Groups]
  /\ PageOf \in [Runs -> Pages]
  /\ LastDay \in Nat
  /\ DayOf \in [Runs -> Days]
  /\ FullDayRuns \subseteq Runs
  /\ Overlapping \in BOOLEAN
  /\ Failing \subseteq Runs
  /\ Reanalysed \subseteq Runs
  /\ NoRun \notin Runs
  /\ NoGroup \notin Groups
  /\ MaxPublishes \in Nat

VARIABLES
  today,        \* the business day the clock shows
  status,       \* pipeline_run.status
  eligibility,  \* pipeline_run.publish_eligibility
  publishState, \* pipeline_run.publish_state
  supersedes,   \* pipeline_run.supersedes_run_id
  supersededBy, \* pipeline_run.superseded_by_run_id
  mart,         \* whether fact_thread_day has rows of the run
  analysing,    \* the runs an executeLoadedRun call is working on
  snapshot,     \* active_publish_snapshot: slot -> run
  history,      \* publish_history, in commit order
  groupStatus,  \* pipeline_run_group.status
  request,      \* publisher -> what its handler has read and decided
  refresh       \* publisher -> its call of refreshRunGroupStatus

runVars == <<status, eligibility, publishState, supersedes, supersededBy, mart>>
boardVars == <<snapshot, history>>
callVars == <<request, refresh>>
vars == <<today, runVars, analysing, boardVars, groupStatus, callVars>>

------------------------------------------------------------------------------
SlotOf(r, ch) == <<PageOf[r], DayOf[r], ch>>
RunsOf(g) == {r \in Runs : GroupOf[r] = g}
PublishedAs(ch) == IF ch = "official" THEN "published_official" ELSE "published_provisional"
EligibleFor(ch) == IF ch = "official" THEN "official_full_day"
                                      ELSE "provisional_current_day_partial"

(* determinePublishEligibility: decided when the run is planned, with the  *)
(* clock of that moment.                                                   *)
EligibilityAt(r, day) ==
  IF r \in FullDayRuns THEN "official_full_day"
  ELSE IF DayOf[r] < day THEN "not_publishable_old_partial"
       ELSE "provisional_current_day_partial"

DerivedStatusAny(g, st) ==       \* mutant: one published run is enough
  IF \E r \in RunsOf(g) : st[r] = "published" THEN "published" ELSE "loaded"

(* The status refreshRunGroupStatus derives from the statuses of the runs. *)
DerivedStatus(g, st) ==
  LET seen == {st[r] : r \in RunsOf(g)}
  IN IF "failed" \in seen THEN "failed"
     ELSE IF seen \subseteq {"published"} THEN "published"
     ELSE IF seen \subseteq {"loaded", "published"} THEN "loaded"
     ELSE "queued"

------------------------------------------------------------------------------
(* Request records. *)
Idle == [pc |-> "idle", run |-> NoRun, as |-> "official", expected |-> NoRun,
         seen |-> {}, replaced |-> NoRun]

OpenRequests ==
  [pc : {"validated", "scanned", "checked"}, run : Runs, as : Channels,
   expected : Runs \cup {NoRun}, seen : SUBSET Runs, replaced : Runs \cup {NoRun}]
Requests == {Idle} \cup OpenRequests

(* The run with the given publish state among the rows that were read. *)
ExistingIn(S, state) ==
  IF \E r \in S : publishState[r] = state
  THEN CHOOSE r \in S : publishState[r] = state
  ELSE NoRun

(* Calls of refreshRunGroupStatus: none, due, or with the status derived   *)
(* from what was read and not yet written.                                 *)
NoRefresh == [of |-> NoGroup, derived |-> "none"]
RefreshOf(g) == [of |-> g, derived |-> "none"]
Refreshes == [of : Groups \cup {NoGroup}, derived : GroupStatuses \cup {"none"}]

------------------------------------------------------------------------------
Init ==
  /\ today = 1
  /\ status = [r \in Runs |-> "absent"]
  /\ eligibility = [r \in Runs |-> "none"]
  /\ publishState = [r \in Runs |-> "draft"]
  /\ supersedes = [r \in Runs |-> NoRun]
  /\ supersededBy = [r \in Runs |-> NoRun]
  /\ mart = [r \in Runs |-> FALSE]
  /\ analysing = {}
  /\ snapshot = [s \in Slots |-> NoRun]
  /\ history = <<>>
  /\ groupStatus = [g \in Groups |-> "queued"]
  /\ request = [p \in Publishers |-> Idle]
  /\ refresh = [x \in Publishers |-> NoRefresh]

(* Midnight in the business timezone. *)
Midnight ==
  /\ today < LastDay
  /\ today' = today + 1
  /\ UNCHANGED <<runVars, analysing, boardVars, groupStatus, callVars>>

(* executeJobRequest plans the child runs and creates group and runs in    *)
(* one transaction, queued and draft, with the eligibility of this moment. *)
PlanGroup(g) ==
  /\ RunsOf(g) # {}
  /\ \A r \in RunsOf(g) : status[r] = "absent"
  /\ status' = [r \in Runs |-> IF r \in RunsOf(g) THEN "queued" ELSE status[r]]
  /\ eligibility' = [r \in Runs |-> IF r \in RunsOf(g) THEN EligibilityAt(r, today)
                                                       ELSE eligibility[r]]
  /\ UNCHANGED <<today, publishState, supersedes, supersededBy, mart, analysing,
                 boardVars, groupStatus, callVars>>

(* The group's executor runs the worker on its next run, which ends loaded *)
(* or failed; a failure fails the runs that are still queued as well.      *)
(* After the last one it refreshes the group.  RunGroup takes these steps  *)
(* apart; no publish request can see into them.                            *)
ExtractRun(r) ==
  /\ status[r] = "queued"
  /\ \/ status' = [status EXCEPT ![r] = "loaded"]
     \/ /\ r \in Failing
        /\ status' = [q \in Runs |-> IF q \in RunsOf(GroupOf[r]) /\ status[q] = "queued"
                                     THEN "failed" ELSE status[q]]
  /\ groupStatus' = [groupStatus EXCEPT ![GroupOf[r]] =
                       IF \E q \in RunsOf(GroupOf[r]) : status'[q] = "queued" THEN @
                       ELSE DerivedStatus(GroupOf[r], status')]
  /\ UNCHANGED <<today, eligibility, publishState, supersedes, supersededBy, mart,
                 analysing, boardVars, callVars>>

(* executeLoadedRun checks the status once, when it starts, and writes it  *)
(* without looking when it ends: restorePipelineRunLoaded or               *)
(* markPipelineRunAnalysisFailed.                                          *)
StartAnalysis(r) ==
  /\ r \in Reanalysed
  /\ status[r] \in {"loaded", "failed"}
  /\ r \notin analysing
  /\ analysing' = analysing \cup {r}
  /\ UNCHANGED <<today, runVars, boardVars, groupStatus, callVars>>

EndAnalysis(r) ==
  /\ r \in analysing
  /\ analysing' = analysing \ {r}
  /\ \E result \in {"loaded", "failed"} : status' = [status EXCEPT ![r] = result]
  /\ UNCHANGED <<today, eligibility, publishState, supersedes, supersededBy, mart,
                 boardVars, groupStatus, callVars>>

(* materializeRun, once some analysis of the run completed.  It does not   *)
(* look at the status.  A run without thread days never gets rows: then    *)
(* the action simply never happens.                                        *)
Materialize(r) ==
  /\ status[r] \in {"loaded", "published", "failed"}
  /\ ~mart[r]
  /\ mart' = [mart EXCEPT ![r] = TRUE]
  /\ UNCHANGED <<today, status, eligibility, publishState, supersedes, supersededBy,
                 analysing, boardVars, groupStatus, callVars>>

------------------------------------------------------------------------------
ValidPublishAnyEligibility(r, as, confirmed) ==  \* mutant: eligibility is not checked
  /\ status[r] \in {"loaded", "published"}
  /\ as = "official" /\ DayOf[r] < today => confirmed

(* publishRun, service part, step 1: read the run, check its status and    *)
(* eligibility, and ask for the confirmation of a historical overwrite.    *)
(* A failed check ends the request and leaves no trace.  With Overlapping  *)
(* FALSE a request begins only when the one before has committed or been   *)
(* refused; the refresh after its transaction may still be going on.       *)
ValidPublish(r, as, confirmed) ==
  /\ status[r] \in {"loaded", "published"}
  /\ eligibility[r] = EligibleFor(as)
  /\ as = "official" /\ DayOf[r] < today => confirmed

BeginPublish(p) ==
  /\ request[p].pc = "idle"
  /\ refresh[p] = NoRefresh
  /\ Overlapping \/ \A x \in Publishers : request[x].pc = "idle"
  /\ Len(history) < MaxPublishes
  /\ \E r \in Runs, as \in Channels, confirmed \in BOOLEAN :
       /\ ValidPublish(r, as, confirmed)
       /\ request' = [request EXCEPT ![p] = [Idle EXCEPT !.pc = "validated",
                                                         !.run = r, !.as = as]]
  /\ UNCHANGED <<today, runVars, analysing, boardVars, groupStatus, refresh>>

ProvisionalOnBoard(r) ==         \* mutant: only the provisional channel is scanned
  {snapshot[SlotOf(r, "provisional")]} \ {NoRun, r}

(* Step 2, findPublishedRunsForDate: the active snapshots of the page and  *)
(* day, both channels, other than the run itself.                          *)
OthersOnBoard(r) == {snapshot[SlotOf(r, ch)] : ch \in Channels} \ {NoRun, r}

ScanSnapshots(p) ==
  /\ request[p].pc = "validated"
  /\ request' = [request EXCEPT ![p].pc = "scanned",
                                ![p].seen = OthersOnBoard(request[p].run)]
  /\ UNCHANGED <<today, runVars, analysing, boardVars, groupStatus, refresh>>

UnexpectedIfNamed(existing, expected) ==  \* mutant: naming no run passes the check
  expected # NoRun /\ existing \notin {NoRun, expected}
ToSupersedeSameClass(q, existing) ==      \* mutant: the provisional run is forgotten
  {existing} \ {NoRun}

(* Step 3: the run rows behind those snapshots are read, the existing run  *)
(* of the same class must be the one the operator expects to replace, and  *)
(* the list of runs to supersede is fixed: all of them for an official     *)
(* publish, the provisional one for a provisional publish.  The expected   *)
(* run came with the request; it is read only here, so it is picked here.  *)
Unexpected(existing, expected) == existing \notin {NoRun, expected}
ToSupersede(q, existing) == IF q.as = "official" THEN q.seen ELSE {existing} \ {NoRun}

CheckExpected(p) ==
  /\ request[p].pc = "scanned"
  /\ LET q == request[p]
         existing == ExistingIn(q.seen, PublishedAs(q.as))
     IN \E expected \in Runs \cup {NoRun} :
          request' = [request EXCEPT ![p] =
            IF Unexpected(existing, expected) THEN Idle
            ELSE [q EXCEPT !.pc = "checked", !.seen = ToSupersede(q, existing),
                           !.replaced = existing,
                           !.expected = IF existing = NoRun THEN NoRun ELSE expected]]
  /\ UNCHANGED <<today, runVars, analysing, boardVars, groupStatus, refresh>>

(* Step 4, the transaction.  Without mart rows it is refused.              *)
RefuseUnmaterialized(p) ==
  /\ request[p].pc = "checked"
  /\ ~mart[request[p].run]
  /\ request' = [request EXCEPT ![p] = Idle]
  /\ UNCHANGED <<today, runVars, analysing, boardVars, groupStatus, refresh>>

UncleanedBoard(gone) == snapshot  \* mutant: superseded runs keep their snapshots
OfficialOnlyBoard(gone) ==        \* mutant: every provisional snapshot is deleted
  [s \in Slots |-> IF snapshot[s] \in gone \/ s[3] = "provisional" THEN NoRun ELSE snapshot[s]]

(* Otherwise the listed runs become superseded and leave the board, the    *)
(* run becomes published whatever its status is now, takes the slot of its *)
(* channel, and the history gets a row.                                    *)
CleanedBoard(gone) == [s \in Slots |-> IF snapshot[s] \in gone THEN NoRun ELSE snapshot[s]]

CommitPublish(p) ==
  /\ request[p].pc = "checked"
  /\ mart[request[p].run]
  /\ Len(history) < MaxPublishes
  /\ LET q == request[p]
         slot == SlotOf(q.run, q.as)
     IN /\ status' = [status EXCEPT ![q.run] = "published"]
        /\ publishState' = [r \in Runs |-> IF r = q.run THEN PublishedAs(q.as)
                                           ELSE IF r \in q.seen THEN "superseded"
                                           ELSE publishState[r]]
        /\ supersededBy' = [r \in Runs |-> IF r \in q.seen THEN q.run ELSE supersededBy[r]]
        /\ supersedes' = [supersedes EXCEPT ![q.run] = q.replaced]
        /\ snapshot' = [CleanedBoard(q.seen) EXCEPT ![slot] = q.run]
        /\ history' = Append(history, [run |-> q.run, channel |-> q.as, replaced |-> q.seen])
  /\ request' = [request EXCEPT ![p] = Idle]
  /\ refresh' = [refresh EXCEPT ![p] = RefreshOf(GroupOf[request[p].run])]
  /\ UNCHANGED <<today, eligibility, mart, analysing, groupStatus>>

------------------------------------------------------------------------------
(* refreshRunGroupStatus reads the runs and writes the group in two        *)
(* separate calls, so the calls of two publishers may overlap.             *)
ReadGroup(p) ==
  /\ refresh[p].of # NoGroup
  /\ refresh[p].derived = "none"
  /\ refresh' = [refresh EXCEPT ![p].derived = DerivedStatus(refresh[p].of, status)]
  /\ UNCHANGED <<today, runVars, analysing, boardVars, groupStatus, request>>

WriteGroup(p) ==
  /\ refresh[p].derived # "none"
  /\ groupStatus' = [groupStatus EXCEPT ![refresh[p].of] = refresh[p].derived]
  /\ refresh' = [refresh EXCEPT ![p] = NoRefresh]
  /\ UNCHANGED <<today, runVars, analysing, boardVars, request>>

Publishing(p) ==
  \/ BeginPublish(p)
  \/ ScanSnapshots(p)
  \/ CheckExpected(p)
  \/ RefuseUnmaterialized(p)
  \/ CommitPublish(p)
  \/ ReadGroup(p)
  \/ WriteGroup(p)

Next ==
  \/ Midnight
  \/ \E g \in Groups : PlanGroup(g)
  \/ \E r \in Runs : ExtractRun(r)
  \/ \E r \in Runs : StartAnalysis(r) \/ EndAnalysis(r) \/ Materialize(r)
  \/ \E p \in Publishers : Publishing(p)

Spec == Init /\ [][Next]_vars

------------------------------------------------------------------------------
(* Every row and every request record holds values the code can write.     *)
TypeOK ==
  /\ today \in Days \cup {1}
  /\ status \in [Runs -> Statuses]
  /\ eligibility \in [Runs -> Eligibilities]
  /\ publishState \in [Runs -> PublishStates]
  /\ supersedes \in [Runs -> Runs \cup {NoRun}]
  /\ supersededBy \in [Runs -> Runs \cup {NoRun}]
  /\ mart \in [Runs -> BOOLEAN]
  /\ analysing \subseteq Runs
  /\ snapshot \in [Slots -> Runs \cup {NoRun}]
  /\ history \in Seq([run : Runs, channel : Channels, replaced : SUBSET Runs])
  /\ groupStatus \in [Groups -> GroupStatuses]
  /\ request \in [Publishers -> Requests]
  /\ refresh \in [Publishers -> Refreshes]

(* The board and the run rows never disagree, however requests overlap:    *)
(* the run in a slot belongs to that page and day, was planned as eligible *)
(* for that channel, and its row says it is published there.  So no        *)
(* partial run stands as official, and none that was old when planned      *)
(* stands anywhere.                                                        *)
BoardMatchesRuns ==
  \A page \in Pages, day \in Days, ch \in Channels :
    LET r == snapshot[<<page, day, ch>>]
    IN r # NoRun => /\ PageOf[r] = page
                    /\ DayOf[r] = day
                    /\ eligibility[r] = EligibleFor(ch)
                    /\ publishState[r] = PublishedAs(ch)

(* publish_history explains the board: the run in a slot is the one the    *)
(* last row for that slot published, an official slot is empty only if no  *)
(* row published into it, and a provisional slot that was filled is empty  *)
(* only if a later official row of that page and day lists the run it      *)
(* replaced.                                                               *)
RowsFor(slot) ==
  {i \in DOMAIN history : SlotOf(history[i].run, history[i].channel) = slot}
LastRowFor(slot) == CHOOSE i \in RowsFor(slot) : \A j \in RowsFor(slot) : j <= i

HistoryExplainsBoard ==
  \A slot \in Slots :
    IF RowsFor(slot) = {} THEN snapshot[slot] = NoRun
    ELSE LET last == LastRowFor(slot)
         IN \/ snapshot[slot] = history[last].run
            \/ /\ snapshot[slot] = NoRun
               /\ slot[3] = "provisional"
               /\ \E j \in DOMAIN history : /\ j > last
                                            /\ history[j].channel = "official"
                                            /\ history[last].run \in history[j].replaced

(* A group is never reported as published unless each of its runs really   *)
(* was published at some time, whatever order the overlapping refreshes of *)
(* its publishers finish in.                                               *)
PublishedGroupWasPublished ==
  \A g \in Groups : groupStatus[g] = "published" =>
    \A r \in RunsOf(g) : \E i \in DOMAIN history : history[i].run = r

(* Publishing implements the abstract board: see PublishBoard.             *)
PlannedFor(r) == CASE eligibility[r] = "official_full_day" -> "official"
                   [] eligibility[r] = "provisional_current_day_partial" -> "provisional"
                   [] OTHER -> "none"
Board == INSTANCE PublishBoard WITH board <- snapshot,
                                    plannedFor <- [r \in Runs |-> PlannedFor(r)]
ImplementsBoard == Board!BoardSpec

(* The next three hold while publish requests do not overlap.              *)

(* A run whose row says published is the one its slot shows: no run is     *)
(* left published with nothing pointing to it.                             *)
NoPublishedOrphan ==
  \A r \in Runs, ch \in Channels :
    publishState[r] = PublishedAs(ch) => snapshot[SlotOf(r, ch)] = r

(* "expected_replaced_run_id must match, to avoid a blind overwrite":      *)
(* whenever a slot passes from one run to another, the request that did it *)
(* named the run it replaced.                                              *)
NamedWhatItReplaced ==
  \A slot \in Slots :
    (/\ snapshot[slot] # NoRun
     /\ snapshot'[slot] \notin {NoRun, snapshot[slot]})
    => \E p \in Publishers : /\ request[p].pc = "checked"
                             /\ request'[p].pc = "idle"
                             /\ request[p].run = snapshot'[slot]
                             /\ request[p].expected = snapshot[slot]
NoBlindOverwrite == [][NamedWhatItReplaced]_vars

(* Publishing an official run leaves no provisional snapshot of its page   *)
(* and day on the board.                                                   *)
OfficialClearsProvisional ==
  [][\A r \in Runs :
       (/\ snapshot[SlotOf(r, "official")] # r
        /\ snapshot'[SlotOf(r, "official")] = r)
       => snapshot'[SlotOf(r, "provisional")] = NoRun]_vars
=============================================================================
