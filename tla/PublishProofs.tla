---------------------------- MODULE PublishProofs ----------------------------
(***************************************************************************)
(* Proofs about Publish, for any number of runs, pages, days and           *)
(* overlapping publish requests: type correctness, the agreement of board  *)
(* and run rows, and the implementation of the abstract board.             *)
(*                                                                         *)
(* BoardMatchesRuns is not inductive.  A commit acts on what its request   *)
(* read some steps ago, so the invariant has to say what remains true of   *)
(* that reading while others write: a run's eligibility never changes once *)
(* it is planned, and what the request will supersede is of the same page  *)
(* and day and, for a provisional publish, was never official.             *)
(*                                                                         *)
(* The second half is about what publishing leaves behind: publish_history *)
(* explains the board, a group shown as published was published run by     *)
(* run, and, for requests that do not overlap, the promises that only then *)
(* hold.  These need to know that what a request has read is still so when *)
(* it commits, which is true when nobody else publishes: only publish      *)
(* requests write the board and the publish states.                        *)
(***************************************************************************)
EXTENDS Publish, SequenceTheorems, TLAPS

(* A row is planned exactly if it exists, only existing runs are analysed, *)
(* and a published state was earned by the eligibility.                    *)
RowsAgree ==
  \A r \in Runs :
    /\ status[r] = "absent" <=> eligibility[r] = "none"
    /\ r \in analysing => status[r] # "absent"
    /\ \A ch \in Channels :
         publishState[r] = PublishedAs(ch) => eligibility[r] = EligibleFor(ch)

(* What an open request has validated and read still means what it meant.  *)
RequestsAgree ==
  \A p \in Publishers :
    /\ request[p].pc # "idle" =>
         /\ request[p].run \in Runs
         /\ eligibility[request[p].run] = EligibleFor(request[p].as)
    /\ request[p].pc \in {"scanned", "checked"} =>
         \A q \in request[p].seen : /\ q # request[p].run
                                    /\ PageOf[q] = PageOf[request[p].run]
                                    /\ DayOf[q] = DayOf[request[p].run]
    /\ request[p].pc = "checked" /\ request[p].as = "provisional" =>
         \A q \in request[p].seen : eligibility[q] = EligibleFor("provisional")

IInv == TypeOK /\ RowsAgree /\ RequestsAgree /\ BoardMatchesRuns

------------------------------------------------------------------------------
(* A slot determines page, day and channel.                                *)
LEMMA SlotType == \A r \in Runs, ch \in Channels : SlotOf(r, ch) \in Slots
BY PublishConstants DEF SlotOf, Slots

(* Every step keeps the types.                                             *)
LEMMA TypeStep == TypeOK /\ [Next]_vars => TypeOK'
<1> SUFFICES ASSUME TypeOK, [Next]_vars PROVE TypeOK'
  OBVIOUS
<1> USE PublishConstants
<1>1. CASE Midnight
  BY <1>1 DEF TypeOK, Midnight, runVars, boardVars, callVars, Days
<1>2. ASSUME NEW g \in Groups, PlanGroup(g) PROVE TypeOK'
  BY <1>2 DEF TypeOK, PlanGroup, EligibilityAt, boardVars, callVars, Statuses, Eligibilities
<1>3. ASSUME NEW r \in Runs, ExtractRun(r) PROVE TypeOK'
  BY <1>3 DEF TypeOK, ExtractRun, DerivedStatus, boardVars, callVars, Statuses, GroupStatuses
<1>4. ASSUME NEW r \in Runs, StartAnalysis(r) PROVE TypeOK'
  BY <1>4 DEF TypeOK, StartAnalysis, runVars, boardVars, callVars
<1>5. ASSUME NEW r \in Runs, EndAnalysis(r) PROVE TypeOK'
  BY <1>5 DEF TypeOK, EndAnalysis, boardVars, callVars, Statuses
<1>6. ASSUME NEW r \in Runs, Materialize(r) PROVE TypeOK'
  BY <1>6 DEF TypeOK, Materialize, boardVars, callVars
<1>7. ASSUME NEW p \in Publishers, BeginPublish(p) PROVE TypeOK'
  <2>1. PICK r \in Runs, as \in Channels :
          request' = [request EXCEPT ![p] = [Idle EXCEPT !.pc = "validated",
                                                         !.run = r, !.as = as]]
    BY <1>7 DEF BeginPublish
  <2>2. [Idle EXCEPT !.pc = "validated", !.run = r, !.as = as] \in Requests
    BY DEF Idle, Requests, OpenRequests
  <2>3. request' \in [Publishers -> Requests]
    BY <2>1, <2>2 DEF TypeOK
  <2> QED BY <2>3, <1>7 DEF TypeOK, BeginPublish, runVars, boardVars
<1>8. ASSUME NEW p \in Publishers, ScanSnapshots(p) PROVE TypeOK'
  <2> DEFINE q == request[p]
             found == {snapshot[SlotOf(q.run, ch)] : ch \in Channels}
  <2>1. request' = [request EXCEPT ![p].pc = "scanned", ![p].seen = found \ {NoRun, q.run}]
    BY <1>8 DEF ScanSnapshots, OthersOnBoard
  <2>2. q \in OpenRequests
    BY <1>8 DEF TypeOK, ScanSnapshots, Requests, Idle
  <2>3. found \ {NoRun, q.run} \subseteq Runs
    <3>1. q.run \in Runs
      BY <2>2 DEF OpenRequests
    <3>2. \A ch \in Channels : snapshot[SlotOf(q.run, ch)] \in Runs \cup {NoRun}
      BY <3>1, SlotType DEF TypeOK
    <3> QED BY <3>2
  <2> HIDE DEF found
  <2>4. [q EXCEPT !.pc = "scanned", !.seen = found \ {NoRun, q.run}] \in OpenRequests
    BY <2>2, <2>3 DEF OpenRequests
  <2>5. request' = [request EXCEPT ![p] =
                     [q EXCEPT !.pc = "scanned", !.seen = found \ {NoRun, q.run}]]
    BY <2>1 DEF TypeOK
  <2>6. request' \in [Publishers -> Requests]
    BY <2>4, <2>5 DEF TypeOK, Requests
  <2> QED BY <2>6, <1>8 DEF TypeOK, ScanSnapshots, runVars, boardVars
<1>9. ASSUME NEW p \in Publishers, CheckExpected(p) PROVE TypeOK'
  <2> DEFINE q == request[p]
             existing == ExistingIn(q.seen, PublishedAs(q.as))
             superseded == IF q.as = "official" THEN q.seen ELSE {existing} \ {NoRun}
  <2>1. q \in OpenRequests
    BY <1>9 DEF TypeOK, CheckExpected, Requests, Idle
  <2>2. existing \in q.seen \cup {NoRun}
    BY DEF ExistingIn
  <2>3. superseded \subseteq Runs /\ existing \in Runs \cup {NoRun}
    BY <2>1, <2>2 DEF OpenRequests
  <2>4. PICK expected \in Runs \cup {NoRun} :
          request' = [request EXCEPT ![p] =
            IF existing \notin {NoRun, expected} THEN Idle
            ELSE [q EXCEPT !.pc = "checked", !.seen = superseded, !.replaced = existing,
                           !.expected = IF existing = NoRun THEN NoRun ELSE expected]]
    BY <1>9 DEF CheckExpected, Unexpected, ToSupersede
  <2> HIDE DEF existing, superseded
  <2>5. Idle \in Requests
    BY DEF Requests
  <2>6. [q EXCEPT !.pc = "checked", !.seen = superseded, !.replaced = existing,
                  !.expected = IF existing = NoRun THEN NoRun ELSE expected] \in Requests
    BY <2>1, <2>3 DEF Requests, OpenRequests
  <2>7. request' \in [Publishers -> Requests]
    BY <2>4, <2>5, <2>6 DEF TypeOK
  <2> QED BY <2>7, <1>9 DEF TypeOK, CheckExpected, runVars, boardVars
<1>10. ASSUME NEW p \in Publishers, RefuseUnmaterialized(p) PROVE TypeOK'
  BY <1>10 DEF TypeOK, RefuseUnmaterialized, runVars, boardVars, Requests, Idle, Channels
<1>11. ASSUME NEW p \in Publishers, CommitPublish(p) PROVE TypeOK'
  <2> DEFINE q == request[p]
             row == [run |-> q.run, channel |-> q.as, replaced |-> q.seen]
  <2>1. q \in Requests /\ Idle \in Requests /\ q.run \in Runs
    BY <1>11 DEF TypeOK, CommitPublish, Idle, Requests, OpenRequests
  <2>2. row \in [run : Runs, channel : Channels, replaced : SUBSET Runs]
    BY <2>1, <1>11 DEF CommitPublish, Requests, OpenRequests, Idle
  <2>3. history' = Append(history, row)
    BY <1>11 DEF CommitPublish
  <2>4. history' \in Seq([run : Runs, channel : Channels, replaced : SUBSET Runs])
    BY <2>2, <2>3 DEF TypeOK
  <2>5. request' \in [Publishers -> Requests]
    BY <2>1, <1>11 DEF TypeOK, CommitPublish
  <2>6. refresh' \in [Publishers -> Refreshes]
    BY <2>1, <1>11 DEF TypeOK, CommitPublish, Refreshes, RefreshOf
  <2>7. snapshot' \in [Slots -> Runs \cup {NoRun}]
    BY <2>1, <1>11 DEF TypeOK, CommitPublish, CleanedBoard
  <2>8. /\ status' \in [Runs -> Statuses]
        /\ publishState' \in [Runs -> PublishStates]
        /\ supersededBy' \in [Runs -> Runs \cup {NoRun}]
    BY <2>1, <1>11 DEF TypeOK, CommitPublish, Statuses, PublishStates, PublishedAs
  <2>9. supersedes' \in [Runs -> Runs \cup {NoRun}]
    BY <2>1, <1>11 DEF TypeOK, CommitPublish, Requests, OpenRequests, Idle
  <2> QED BY <2>4, <2>5, <2>6, <2>7, <2>8, <2>9, <1>11 DEF TypeOK, CommitPublish
<1>12. ASSUME NEW p \in Publishers, ReadGroup(p) PROVE TypeOK'
  <2>1. DerivedStatus(refresh[p].of, status) \in GroupStatuses
    BY DEF DerivedStatus, GroupStatuses
  <2>2. refresh' \in [Publishers -> Refreshes]
    BY <2>1, <1>12 DEF TypeOK, ReadGroup, Refreshes
  <2> QED BY <2>2, <1>12 DEF TypeOK, ReadGroup, runVars, boardVars
<1>13. ASSUME NEW p \in Publishers, WriteGroup(p) PROVE TypeOK'
  BY <1>13 DEF TypeOK, WriteGroup, runVars, boardVars, Refreshes, NoRefresh
<1>14. CASE UNCHANGED vars
  BY <1>14 DEF TypeOK, vars, runVars, boardVars, callVars
<1> QED
  BY <1>1, <1>2, <1>3, <1>4, <1>5, <1>6, <1>7, <1>8, <1>9, <1>10, <1>11, <1>12, <1>13, <1>14
  DEF Next, Publishing

(* The columns and request records always hold values the code can write,  *)
(* for every number of runs and requests.                                  *)
THEOREM TypeCorrect == Spec => []TypeOK
<1>1. Init => TypeOK
  BY PublishConstants DEF Init, TypeOK, Idle, Requests, NoRefresh, Refreshes, Slots, Channels,
     Statuses, Eligibilities, PublishStates, GroupStatuses
<1> QED BY <1>1, TypeStep, PTL DEF Spec

------------------------------------------------------------------------------
LEMMA InitIInv == Init => IInv
<1> SUFFICES ASSUME Init PROVE IInv
  OBVIOUS
<1>1. TypeOK
  BY PublishConstants DEF Init, TypeOK, Idle, Requests, NoRefresh, Refreshes, Slots, Channels,
     Statuses, Eligibilities, PublishStates, GroupStatuses
<1>2. RowsAgree
  BY DEF Init, RowsAgree, PublishedAs
<1>3. RequestsAgree
  BY DEF Init, RequestsAgree, Idle
<1>4. BoardMatchesRuns
  BY DEF Init, BoardMatchesRuns, Slots, Channels
<1> QED BY <1>1, <1>2, <1>3, <1>4 DEF IInv

(* The steps that leave eligibility, publish state, board and requests     *)
(* alone keep the invariant if they do not unplan a run.                   *)
LEMMA StatusStep ==
  ASSUME IInv, TypeOK',
         UNCHANGED <<eligibility, publishState, snapshot, request>>,
         \A r \in Runs : /\ status'[r] = "absent" <=> status[r] = "absent"
                         /\ r \in analysing' => r \in analysing \/ status[r] # "absent"
  PROVE  IInv'
BY DEF IInv, RowsAgree, RequestsAgree, BoardMatchesRuns

LEMMA IInvStep == IInv /\ [Next]_vars => IInv'
<1> SUFFICES ASSUME IInv, [Next]_vars PROVE IInv'
  OBVIOUS
<1> USE PublishConstants
<1>0. TypeOK /\ TypeOK'
  BY TypeStep DEF IInv
<1>1. CASE Midnight
  BY <1>0, <1>1, StatusStep DEF Midnight, runVars, boardVars, callVars
<1>2. ASSUME NEW g \in Groups, PlanGroup(g) PROVE IInv'
  <2>1. RowsAgree'
    BY <1>0, <1>2 DEF IInv, TypeOK, RowsAgree, PlanGroup, EligibilityAt, PublishedAs, EligibleFor
  <2>2. \A r \in Runs : eligibility[r] # "none" => eligibility'[r] = eligibility[r]
    BY <1>0, <1>2 DEF IInv, TypeOK, RowsAgree, PlanGroup
  <2>3. RequestsAgree'
    BY <2>2, <1>0, <1>2 DEF IInv, TypeOK, RequestsAgree, PlanGroup, callVars, EligibleFor,
       Requests, OpenRequests, Idle
  <2>4. BoardMatchesRuns'
    BY <2>2, <1>0, <1>2 DEF IInv, TypeOK, BoardMatchesRuns, PlanGroup, boardVars, EligibleFor, Slots
  <2> QED BY <1>0, <2>1, <2>3, <2>4 DEF IInv
<1>3. ASSUME NEW r \in Runs, ExtractRun(r) PROVE IInv'
  <2>1. \A q \in Runs : status'[q] = "absent" <=> status[q] = "absent"
    BY <1>0, <1>3 DEF ExtractRun, TypeOK
  <2> QED BY <1>0, <1>3, <2>1, StatusStep DEF ExtractRun, boardVars, callVars
<1>4. ASSUME NEW r \in Runs, StartAnalysis(r) PROVE IInv'
  BY <1>0, <1>4, StatusStep DEF StartAnalysis, runVars, boardVars, callVars
<1>5. ASSUME NEW r \in Runs, EndAnalysis(r) PROVE IInv'
  <2>1. \A q \in Runs : status'[q] = "absent" <=> status[q] = "absent"
    BY <1>0, <1>5 DEF EndAnalysis, TypeOK, IInv, RowsAgree
  <2> QED BY <1>0, <1>5, <2>1, StatusStep DEF EndAnalysis, boardVars, callVars
<1>6. ASSUME NEW r \in Runs, Materialize(r) PROVE IInv'
  BY <1>0, <1>6, StatusStep DEF Materialize, boardVars, callVars
<1>7. ASSUME NEW p \in Publishers, BeginPublish(p) PROVE IInv'
  <2>1. PICK r \in Runs, as \in Channels :
          /\ eligibility[r] = EligibleFor(as)
          /\ request' = [request EXCEPT ![p] = [Idle EXCEPT !.pc = "validated",
                                                            !.run = r, !.as = as]]
    BY <1>7 DEF BeginPublish, ValidPublish
  <2>2. RequestsAgree'
    BY <2>1, <1>0, <1>7 DEF IInv, TypeOK, RequestsAgree, BeginPublish, runVars, Idle
  <2> QED
    BY <1>0, <1>7, <2>2
       DEF IInv, RowsAgree, BoardMatchesRuns, BeginPublish, runVars, boardVars
<1>8. ASSUME NEW p \in Publishers, ScanSnapshots(p) PROVE IInv'
  <2> DEFINE q == request[p]
             found == {snapshot[SlotOf(q.run, ch)] : ch \in Channels}
  <2>1. q \in OpenRequests
    BY <1>0, <1>8 DEF TypeOK, ScanSnapshots, Requests, Idle
  <2>2. \A x \in found \ {NoRun} : PageOf[x] = PageOf[q.run] /\ DayOf[x] = DayOf[q.run]
    <3>1. PageOf[q.run] \in Pages /\ DayOf[q.run] \in Days
      BY <2>1 DEF OpenRequests
    <3>2. \A ch \in Channels : snapshot[SlotOf(q.run, ch)] # NoRun =>
            /\ PageOf[snapshot[SlotOf(q.run, ch)]] = PageOf[q.run]
            /\ DayOf[snapshot[SlotOf(q.run, ch)]] = DayOf[q.run]
      BY <3>1 DEF IInv, BoardMatchesRuns, SlotOf
    <3> QED BY <3>2
  <2>3. request' = [request EXCEPT ![p] =
                     [q EXCEPT !.pc = "scanned", !.seen = found \ {NoRun, q.run}]]
    BY <1>0, <1>8 DEF TypeOK, ScanSnapshots, OthersOnBoard
  <2> HIDE DEF found
  <2>4. RequestsAgree'
    BY <2>1, <2>2, <2>3, <1>0, <1>8
    DEF IInv, TypeOK, RequestsAgree, ScanSnapshots, runVars, OpenRequests
  <2> QED
    BY <1>0, <1>8, <2>4
       DEF IInv, RowsAgree, BoardMatchesRuns, ScanSnapshots, runVars, boardVars
<1>9. ASSUME NEW p \in Publishers, CheckExpected(p) PROVE IInv'
  <2> DEFINE q == request[p]
             existing == ExistingIn(q.seen, PublishedAs(q.as))
             superseded == IF q.as = "official" THEN q.seen ELSE {existing} \ {NoRun}
  <2>1. q \in OpenRequests
    BY <1>0, <1>9 DEF TypeOK, CheckExpected, Requests, Idle
  <2>2. existing # NoRun => existing \in q.seen /\ publishState[existing] = PublishedAs(q.as)
    BY DEF ExistingIn
  <2>3. q.as = "provisional" =>
          \A x \in superseded : eligibility[x] = EligibleFor("provisional")
    BY <2>1, <2>2 DEF IInv, RowsAgree, OpenRequests, Channels
  <2>4. superseded \subseteq q.seen
    BY <2>2
  <2>5. PICK expected \in Runs \cup {NoRun} :
          request' = [request EXCEPT ![p] =
            IF existing \notin {NoRun, expected} THEN Idle
            ELSE [q EXCEPT !.pc = "checked", !.seen = superseded, !.replaced = existing,
                           !.expected = IF existing = NoRun THEN NoRun ELSE expected]]
    BY <1>9 DEF CheckExpected, Unexpected, ToSupersede
  <2> HIDE DEF existing, superseded
  <2>6. RequestsAgree'
    BY <2>1, <2>3, <2>4, <2>5, <1>0, <1>9
    DEF IInv, TypeOK, RequestsAgree, CheckExpected, runVars, OpenRequests, Idle
  <2> QED
    BY <1>0, <1>9, <2>6
       DEF IInv, RowsAgree, BoardMatchesRuns, CheckExpected, runVars, boardVars
<1>10. ASSUME NEW p \in Publishers, RefuseUnmaterialized(p) PROVE IInv'
  BY <1>0, <1>10 DEF IInv, RefuseUnmaterialized, runVars, boardVars, TypeOK,
     RowsAgree, RequestsAgree, BoardMatchesRuns, Idle
<1>11. ASSUME NEW p \in Publishers, CommitPublish(p) PROVE IInv'
  <2> DEFINE q == request[p]
             slot == SlotOf(q.run, q.as)
  <2>1. /\ q \in OpenRequests
        /\ slot \in Slots
    BY <1>0, <1>11, SlotType DEF TypeOK, CommitPublish, Requests, Idle, OpenRequests
  <2>2. /\ eligibility[q.run] = EligibleFor(q.as)
        /\ \A x \in q.seen : /\ x # q.run
                             /\ PageOf[x] = PageOf[q.run]
                             /\ DayOf[x] = DayOf[q.run]
        /\ q.as = "provisional" =>
             \A x \in q.seen : eligibility[x] = EligibleFor("provisional")
    BY <1>11 DEF IInv, RequestsAgree, CommitPublish
  <2>3. /\ eligibility' = eligibility
        /\ analysing' = analysing
        /\ status' = [status EXCEPT ![q.run] = "published"]
        /\ publishState' = [r \in Runs |-> IF r = q.run THEN PublishedAs(q.as)
                                           ELSE IF r \in q.seen THEN "superseded"
                                           ELSE publishState[r]]
        /\ snapshot' = [CleanedBoard(q.seen) EXCEPT ![slot] = q.run]
        /\ request' = [request EXCEPT ![p] = Idle]
    BY <1>11 DEF CommitPublish
  <2>4. RowsAgree'
    BY <1>0, <2>1, <2>2, <2>3
    DEF IInv, TypeOK, RowsAgree, OpenRequests, Channels, PublishedAs, EligibleFor
  <2>5. RequestsAgree'
    BY <1>0, <2>3 DEF IInv, TypeOK, RequestsAgree, Idle
  <2>6. BoardMatchesRuns'
    <3> SUFFICES ASSUME NEW page \in Pages, NEW day \in Days, NEW ch \in Channels,
                        snapshot'[<<page, day, ch>>] # NoRun
                 PROVE  /\ PageOf[snapshot'[<<page, day, ch>>]] = page
                        /\ DayOf[snapshot'[<<page, day, ch>>]] = day
                        /\ eligibility'[snapshot'[<<page, day, ch>>]] = EligibleFor(ch)
                        /\ publishState'[snapshot'[<<page, day, ch>>]] = PublishedAs(ch)
      BY Zenon DEF BoardMatchesRuns
    <3> DEFINE s == <<page, day, ch>>
    <3>0. s \in Slots
      BY DEF Slots
    <3>1. CASE s = slot
      BY <3>1, <2>1, <2>2, <2>3 DEF SlotOf, CleanedBoard, OpenRequests
    <3>2. CASE s # slot
      <4>1. /\ snapshot'[s] = snapshot[s]
            /\ snapshot[s] \notin q.seen
        BY <3>0, <3>2, <2>1, <2>3 DEF CleanedBoard
      <4>2. /\ snapshot[s] \in Runs
            /\ PageOf[snapshot[s]] = page
            /\ DayOf[snapshot[s]] = day
            /\ eligibility[snapshot[s]] = EligibleFor(ch)
            /\ publishState[snapshot[s]] = PublishedAs(ch)
        BY <1>0, <3>0, <4>1 DEF IInv, BoardMatchesRuns, TypeOK
      <4>3. snapshot[s] # q.run
        BY <3>2, <4>2, <2>1, <2>2 DEF SlotOf, EligibleFor, OpenRequests, Channels
      <4> QED BY <4>1, <4>2, <4>3, <2>3
    <3> QED BY <3>1, <3>2
  <2> QED BY <1>0, <2>4, <2>5, <2>6 DEF IInv
<1>12. ASSUME NEW p \in Publishers, ReadGroup(p) PROVE IInv'
  BY <1>0, <1>12, StatusStep DEF ReadGroup, runVars, boardVars
<1>13. ASSUME NEW p \in Publishers, WriteGroup(p) PROVE IInv'
  BY <1>0, <1>13, StatusStep DEF WriteGroup, runVars, boardVars
<1>14. CASE UNCHANGED vars
  BY <1>0, <1>14, StatusStep DEF vars, runVars, boardVars, callVars
<1> QED
  BY <1>1, <1>2, <1>3, <1>4, <1>5, <1>6, <1>7, <1>8, <1>9, <1>10, <1>11, <1>12, <1>13, <1>14
  DEF Next, Publishing

(* However many publish requests overlap, and whatever analysis and        *)
(* midnight do between their steps, a slot of the board only ever shows a  *)
(* run of that page and day that was eligible for the channel and whose    *)
(* row says it is published there.                                         *)
THEOREM BoardCorrect == Spec => []BoardMatchesRuns
<1>1. IInv => BoardMatchesRuns
  BY DEF IInv
<1> QED BY <1>1, InitIInv, IInvStep, PTL DEF Spec

------------------------------------------------------------------------------
(* The refinement.  The abstract board is the snapshot table and the       *)
(* abstract plan is read off the eligibility, so only planning and the     *)
(* transaction of a publish request are visible steps.                     *)
LEMMA BoardInitial == Init => Board!BoardInit
BY DEF Init, Board!BoardInit, Board!Slots, Slots, Channels, Board!Channels, PlannedFor

(* A step that changes neither eligibility nor the board is a stutter.     *)
LEMMA Invisible ==
  UNCHANGED <<eligibility, snapshot>> => UNCHANGED Board!boardVars
BY DEF Board!boardVars, PlannedFor

LEMMA BoardStep == IInv /\ [Next]_vars => [Board!BoardNext]_(Board!boardVars)
<1> SUFFICES ASSUME IInv, [Next]_vars
             PROVE  Board!BoardNext \/ UNCHANGED Board!boardVars
  OBVIOUS
<1> USE PublishConstants
<1>0. TypeOK /\ TypeOK'
  BY TypeStep DEF IInv
<1>1. CASE Midnight
  BY <1>1, Invisible DEF Midnight, runVars, boardVars
<1>2. ASSUME NEW g \in Groups, PlanGroup(g) PROVE Board!BoardNext
  <2> DEFINE R == RunsOf(g)
             ch == [r \in R |-> PlannedFor(r)']
             plan == [r \in Runs |-> PlannedFor(r)]
  <2>1. R \subseteq Runs
    BY DEF RunsOf
  <2>2. \A r \in R : plan[r] = "none"
    BY <1>2, <2>1 DEF PlanGroup, IInv, RowsAgree, PlannedFor
  <2>3. ch \in [R -> Board!Channels \cup {"none"}]
    BY DEF PlannedFor, Board!Channels
  <2>4. \A r \in Runs \ R : PlannedFor(r)' = PlannedFor(r)
    BY <1>2, <1>0 DEF PlanGroup, PlannedFor, TypeOK
  <2>5. plan' = [r \in Runs |-> IF r \in R THEN ch[r] ELSE plan[r]]
    BY <2>4
  <2>6. snapshot' = snapshot
    BY <1>2 DEF PlanGroup, boardVars
  <2>7. Board!Plan(R)
    BY <2>2, <2>3, <2>5, <2>6 DEF Board!Plan
  <2> QED BY <2>1, <2>7 DEF Board!BoardNext
<1>3. ASSUME NEW r \in Runs, ExtractRun(r) PROVE UNCHANGED Board!boardVars
  BY <1>3, Invisible DEF ExtractRun, boardVars
<1>4. ASSUME NEW r \in Runs, StartAnalysis(r) PROVE UNCHANGED Board!boardVars
  BY <1>4, Invisible DEF StartAnalysis, runVars, boardVars
<1>5. ASSUME NEW r \in Runs, EndAnalysis(r) PROVE UNCHANGED Board!boardVars
  BY <1>5, Invisible DEF EndAnalysis, boardVars
<1>6. ASSUME NEW r \in Runs, Materialize(r) PROVE UNCHANGED Board!boardVars
  BY <1>6, Invisible DEF Materialize, boardVars
<1>7. ASSUME NEW p \in Publishers, BeginPublish(p) PROVE UNCHANGED Board!boardVars
  BY <1>7, Invisible DEF BeginPublish, runVars, boardVars
<1>8. ASSUME NEW p \in Publishers, ScanSnapshots(p) PROVE UNCHANGED Board!boardVars
  BY <1>8, Invisible DEF ScanSnapshots, runVars, boardVars
<1>9. ASSUME NEW p \in Publishers, CheckExpected(p) PROVE UNCHANGED Board!boardVars
  BY <1>9, Invisible DEF CheckExpected, runVars, boardVars
<1>10. ASSUME NEW p \in Publishers, RefuseUnmaterialized(p) PROVE UNCHANGED Board!boardVars
  BY <1>10, Invisible DEF RefuseUnmaterialized, runVars, boardVars
<1>11. ASSUME NEW p \in Publishers, CommitPublish(p) PROVE Board!BoardNext
  <2> DEFINE q == request[p]
             slot == SlotOf(q.run, q.as)
             plan == [r \in Runs |-> PlannedFor(r)]
  <2>1. /\ q \in OpenRequests
        /\ q.run \in Runs
        /\ slot \in Slots
    BY <1>0, <1>11, SlotType DEF TypeOK, CommitPublish, Requests, Idle, OpenRequests
  <2>2. /\ eligibility[q.run] = EligibleFor(q.as)
        /\ \A x \in q.seen : /\ PageOf[x] = PageOf[q.run]
                             /\ DayOf[x] = DayOf[q.run]
        /\ q.as = "provisional" =>
             \A x \in q.seen : eligibility[x] = EligibleFor("provisional")
    BY <1>11 DEF IInv, RequestsAgree, CommitPublish
  <2>3. plan[q.run] = q.as
    BY <2>1, <2>2 DEF PlannedFor, EligibleFor, OpenRequests, Channels
  <2>4. /\ plan' = plan
        /\ snapshot' = [CleanedBoard(q.seen) EXCEPT ![slot] = q.run]
    BY <1>11 DEF CommitPublish, PlannedFor
  <2>5. \A s \in Slots : snapshot[s] \in q.seen =>
          \E ch \in Channels : s = SlotOf(q.run, ch)
    <3> SUFFICES ASSUME NEW page \in Pages, NEW day \in Days, NEW ch \in Channels,
                        snapshot[<<page, day, ch>>] \in q.seen
                 PROVE  <<page, day, ch>> = SlotOf(q.run, ch)
      BY DEF Slots
    <3>1. snapshot[<<page, day, ch>>] # NoRun
      BY <2>1 DEF OpenRequests
    <3> QED BY <3>1, <2>2 DEF IInv, BoardMatchesRuns, SlotOf
  <2> HIDE DEF plan
  <2>6. CASE q.as = "official"
    <3> DEFINE o == SlotOf(q.run, "official")
               v == SlotOf(q.run, "provisional")
               prov == IF snapshot[v] \in q.seen THEN NoRun ELSE snapshot[v]
    <3>1. o \in Slots /\ v \in Slots /\ o # v /\ slot = o
      BY <2>1, <2>6, SlotType DEF SlotOf, Channels
    <3>2. \A s \in Slots : s \notin {o, v} => snapshot[s] \notin q.seen
      BY <2>5 DEF Channels
    <3>3. snapshot' = [snapshot EXCEPT ![o] = q.run, ![v] = prov]
      BY <1>0, <2>4, <3>1, <3>2 DEF CleanedBoard, TypeOK
    <3>4. Board!ShowOfficial(q.run)
      BY <2>3, <2>4, <2>6, <3>3 DEF Board!ShowOfficial, Board!SlotOf, SlotOf, plan
    <3> QED BY <2>1, <3>4 DEF Board!BoardNext
  <2>7. CASE q.as = "provisional"
    <3>1. \A s \in Slots : s # slot => snapshot[s] \notin q.seen
      <4> SUFFICES ASSUME NEW page \in Pages, NEW day \in Days, NEW ch \in Channels,
                          <<page, day, ch>> # slot, snapshot[<<page, day, ch>>] \in q.seen
                   PROVE  FALSE
        BY DEF Slots
      <4>1. /\ snapshot[<<page, day, ch>>] # NoRun
            /\ eligibility[snapshot[<<page, day, ch>>]] = EligibleFor("provisional")
        BY <2>1, <2>2, <2>7 DEF OpenRequests
      <4>2. /\ EligibleFor(ch) = EligibleFor("provisional")
            /\ page = PageOf[q.run]
            /\ day = DayOf[q.run]
        BY <4>1, <2>2 DEF IInv, BoardMatchesRuns
      <4> QED BY <4>2, <2>7 DEF EligibleFor, SlotOf, Channels
    <3>2. snapshot' = [snapshot EXCEPT ![slot] = q.run]
      BY <1>0, <2>1, <2>4, <3>1 DEF CleanedBoard, TypeOK
    <3>3. Board!ShowProvisional(q.run)
      BY <2>3, <2>4, <2>7, <3>2 DEF Board!ShowProvisional, Board!SlotOf, SlotOf, plan
    <3> QED BY <2>1, <3>3 DEF Board!BoardNext
  <2> QED BY <2>1, <2>6, <2>7 DEF OpenRequests, Channels
<1>12. ASSUME NEW p \in Publishers, ReadGroup(p) PROVE UNCHANGED Board!boardVars
  BY <1>12, Invisible DEF ReadGroup, runVars, boardVars
<1>13. ASSUME NEW p \in Publishers, WriteGroup(p) PROVE UNCHANGED Board!boardVars
  BY <1>13, Invisible DEF WriteGroup, runVars, boardVars
<1>14. CASE UNCHANGED vars
  BY <1>14, Invisible DEF vars, runVars, boardVars
<1> QED
  BY <1>1, <1>2, <1>3, <1>4, <1>5, <1>6, <1>7, <1>8, <1>9, <1>10, <1>11, <1>12, <1>13, <1>14
  DEF Next, Publishing

(* The whole publishing machinery, with its reads outside the transaction, *)
(* implements the board: a slot is only ever taken by a run planned for    *)
(* it, and an official slot once filled is never blank again.              *)
THEOREM PublishImplementsBoard == Spec => ImplementsBoard
BY BoardInitial, BoardStep, InitIInv, IInvStep, PTL DEF Spec, ImplementsBoard, Board!BoardSpec

------------------------------------------------------------------------------
(* What publishing leaves behind. *)

(* How the steps change board, publish states and history: only a commit   *)
(* does, and it appends its row.                                           *)
LEMMA OnlyCommits ==
  ASSUME [Next]_vars, \A p \in Publishers : ~CommitPublish(p)
  PROVE  UNCHANGED <<snapshot, publishState, history>>
BY DEF Next, Publishing, Midnight, PlanGroup, ExtractRun, StartAnalysis, EndAnalysis,
   Materialize, BeginPublish, ScanSnapshots, CheckExpected, RefuseUnmaterialized, ReadGroup,
   WriteGroup, vars, runVars, boardVars

(* The row a commit appends, and the board it leaves.                      *)
LEMMA CommitRow ==
  ASSUME IInv, NEW p \in Publishers, CommitPublish(p)
  PROVE  LET q == request[p]
             slot == SlotOf(q.run, q.as)
         IN /\ q \in OpenRequests
            /\ slot \in Slots
            /\ Len(history') = Len(history) + 1
            /\ DOMAIN history = 1 .. Len(history)
            /\ DOMAIN history' = 1 .. Len(history) + 1
            /\ \A i \in DOMAIN history : history'[i] = history[i]
            /\ history'[Len(history) + 1].run = q.run
            /\ history'[Len(history) + 1].channel = q.as
            /\ history'[Len(history) + 1].replaced = q.seen
            /\ \A s \in Slots : snapshot'[s] = IF s = slot THEN q.run
                                               ELSE IF snapshot[s] \in q.seen THEN NoRun
                                               ELSE snapshot[s]
<1> DEFINE q == request[p]
           slot == SlotOf(q.run, q.as)
           row == [run |-> q.run, channel |-> q.as, replaced |-> q.seen]
           Row == [run : Runs, channel : Channels, replaced : SUBSET Runs]
<1>1. /\ q \in OpenRequests
      /\ slot \in Slots
  BY SlotType DEF IInv, TypeOK, CommitPublish, Requests, Idle, OpenRequests
<1>2. history \in Seq(Row) /\ history' = Append(history, row) /\ row \in Row
  BY <1>1 DEF IInv, TypeOK, CommitPublish, OpenRequests
<1> HIDE DEF row, Row
<1>3. /\ Len(history') = Len(history) + 1
      /\ DOMAIN history = 1 .. Len(history)
      /\ DOMAIN history' = 1 .. Len(history) + 1
      /\ \A i \in DOMAIN history : history'[i] = history[i]
      /\ history'[Len(history) + 1] = row
  BY <1>2, AppendProperties
<1>4. snapshot' = [CleanedBoard(q.seen) EXCEPT ![slot] = q.run]
  BY DEF CommitPublish
<1>5. \A s \in Slots : snapshot'[s] = IF s = slot THEN q.run
                                      ELSE IF snapshot[s] \in q.seen THEN NoRun
                                      ELSE snapshot[s]
  BY <1>1, <1>4 DEF CleanedBoard
<1>6. row.run = q.run /\ row.channel = q.as /\ row.replaced = q.seen
  BY DEF row
<1> QED BY <1>1, <1>3, <1>5, <1>6

------------------------------------------------------------------------------
(* HistoryExplainsBoard without the choice of the last row: there is one,  *)
(* and it explains the slot.                                               *)
Explained(slot, i) ==
  \/ snapshot[slot] = history[i].run
  \/ /\ snapshot[slot] = NoRun
     /\ slot[3] = "provisional"
     /\ \E j \in DOMAIN history : /\ j > i
                                  /\ history[j].channel = "official"
                                  /\ history[i].run \in history[j].replaced
IsLastRow(slot, i) == i \in RowsFor(slot) /\ \A j \in RowsFor(slot) : j <= i
SlotsExplained ==
  \A slot \in Slots : IF RowsFor(slot) = {} THEN snapshot[slot] = NoRun
                      ELSE \E i : IsLastRow(slot, i) /\ Explained(slot, i)

(* Such a row is the one LastRowFor chooses.                               *)
LEMMA ExplainedEnough == TypeOK /\ SlotsExplained => HistoryExplainsBoard
<1> SUFFICES ASSUME TypeOK, SlotsExplained, NEW slot \in Slots, RowsFor(slot) # {}
             PROVE  Explained(slot, LastRowFor(slot))
  BY DEF SlotsExplained, HistoryExplainsBoard, Explained
<1>1. PICK i : IsLastRow(slot, i) /\ Explained(slot, i)
  BY DEF SlotsExplained
<1>2. IsLastRow(slot, LastRowFor(slot))
  BY <1>1 DEF IsLastRow, LastRowFor
<1>3. RowsFor(slot) \subseteq Nat
  BY DEF TypeOK, RowsFor
<1>4. LastRowFor(slot) = i
  BY <1>1, <1>2, <1>3 DEF IsLastRow
<1> QED BY <1>1, <1>4

(* A commit appends the last row of the slot it takes, and of no other;    *)
(* a slot it empties was provisional, and its row is official.             *)
LEMMA ExplainedStep == IInv /\ SlotsExplained /\ [Next]_vars => SlotsExplained'
<1> SUFFICES ASSUME IInv, SlotsExplained, [Next]_vars PROVE SlotsExplained'
  OBVIOUS
<1>1. CASE \A p \in Publishers : ~CommitPublish(p)
  <2>1. UNCHANGED <<snapshot, history>>
    BY <1>1, OnlyCommits
  <2> QED BY <2>1 DEF SlotsExplained, RowsFor, IsLastRow, Explained
<1>2. ASSUME NEW p \in Publishers, CommitPublish(p) PROVE SlotsExplained'
  <2> DEFINE q == request[p]
             slot == SlotOf(q.run, q.as)
             n == Len(history) + 1
  <2>1. /\ q \in OpenRequests
        /\ slot \in Slots
        /\ n \in Nat
        /\ n - 1 \in Nat
        /\ DOMAIN history = 1 .. n - 1
        /\ DOMAIN history' = 1 .. n
        /\ \A i \in DOMAIN history : history'[i] = history[i]
        /\ history'[n].run = q.run
        /\ history'[n].channel = q.as
        /\ history'[n].replaced = q.seen
        /\ \A s \in Slots : snapshot'[s] = IF s = slot THEN q.run
                                           ELSE IF snapshot[s] \in q.seen THEN NoRun
                                           ELSE snapshot[s]
    <3>1. Len(history) \in Nat
      BY DEF IInv, TypeOK
    <3> QED BY <1>2, <3>1, CommitRow
  <2>0. /\ 1 .. n = (1 .. n - 1) \cup {n}
        /\ n \notin 1 .. n - 1
        /\ \A i \in 1 .. n : i <= n
    <3>1. Len(history) \in Nat
      BY DEF IInv, TypeOK
    <3> QED BY <3>1
  <2> HIDE DEF n
  <2>2. \A s \in Slots : RowsFor(s)' = IF s = slot THEN RowsFor(s) \cup {n} ELSE RowsFor(s)
    <3>1. \A s : \A i \in 1 .. n - 1 : i \in RowsFor(s)' <=> i \in RowsFor(s)
      BY <2>0, <2>1 DEF RowsFor, SlotOf
    <3>2. SlotOf(history'[n].run, history'[n].channel) = slot /\ n \in DOMAIN history'
      BY <2>0, <2>1
    <3>3. \A s : n \in RowsFor(s)' <=> s = slot
      BY <3>2 DEF RowsFor, SlotOf
    <3>4. \A s : RowsFor(s) \subseteq 1 .. n - 1 /\ RowsFor(s)' \subseteq 1 .. n
      BY <2>1 DEF RowsFor
    <3> QED BY <2>0, <3>1, <3>3, <3>4
  <2> SUFFICES ASSUME NEW s \in Slots
               PROVE  IF RowsFor(s)' = {} THEN snapshot'[s] = NoRun
                      ELSE \E i : IsLastRow(s, i)' /\ Explained(s, i)'
    BY DEF SlotsExplained
  <2>3. CASE s = slot
    <3>1. n \in RowsFor(s)' /\ RowsFor(s)' \subseteq 1 .. n
      BY <2>1, <2>2, <2>3 DEF RowsFor
    <3>2. n \in RowsFor(s)' /\ \A j \in RowsFor(s)' : j <= n
      BY <2>0, <3>1
    <3>3. snapshot'[s] = history'[n].run
      BY <2>1, <2>3
    <3> QED BY <3>1, <3>2, <3>3 DEF IsLastRow, Explained
  <2>4. CASE s # slot
    <3>1. RowsFor(s)' = RowsFor(s)
      BY <2>2, <2>4
    <3>2. CASE RowsFor(s) = {}
      BY <2>1, <2>4, <3>1, <3>2 DEF SlotsExplained
    <3>3. ASSUME RowsFor(s) # {}
          PROVE  \E i : IsLastRow(s, i)' /\ Explained(s, i)'
      <4>1. PICK i : IsLastRow(s, i) /\ Explained(s, i)
        BY <3>3 DEF SlotsExplained
      <4>2. i \in 1 .. n - 1 /\ i < n
        BY <2>1, <4>1 DEF IsLastRow, RowsFor
      <4>3. IsLastRow(s, i)'
        BY <3>1, <4>1 DEF IsLastRow
      <4>4. CASE snapshot[s] \notin q.seen
        <5>1. snapshot'[s] = snapshot[s]
          BY <2>1, <2>4, <4>4
        <5>2. CASE snapshot[s] = history[i].run
          BY <2>1, <4>2, <4>3, <5>1, <5>2 DEF Explained
        <5>3. CASE snapshot[s] # history[i].run
          <6>1. PICK j \in 1 .. n - 1 : /\ j > i
                                        /\ history[j].channel = "official"
                                        /\ history[i].run \in history[j].replaced
            BY <2>1, <4>1, <5>3 DEF Explained
          <6>2. j \in DOMAIN history' /\ history'[j] = history[j] /\ history'[i] = history[i]
            BY <2>0, <2>1, <4>2, <6>1
          <6> QED BY <4>1, <4>3, <5>1, <5>3, <6>1, <6>2 DEF Explained
        <5> QED BY <4>3, <5>2, <5>3
      <4>5. CASE snapshot[s] \in q.seen
        <5>1. snapshot[s] # NoRun /\ snapshot'[s] = NoRun
          BY <2>1, <2>4, <4>5, PublishConstants DEF OpenRequests
        <5>2. snapshot[s] = history[i].run
          BY <4>1, <5>1 DEF Explained
        <5>3. PICK page \in Pages, day \in Days, ch \in Channels : s = <<page, day, ch>>
          BY DEF Slots
        <5>4. /\ PageOf[snapshot[s]] = page /\ DayOf[snapshot[s]] = day
              /\ eligibility[snapshot[s]] = EligibleFor(ch)
          BY <5>1, <5>3 DEF IInv, BoardMatchesRuns
        <5>5. /\ PageOf[snapshot[s]] = PageOf[q.run] /\ DayOf[snapshot[s]] = DayOf[q.run]
              /\ q.as = "provisional" => eligibility[snapshot[s]] = EligibleFor("provisional")
          BY <1>2, <4>5 DEF IInv, RequestsAgree, CommitPublish
        <5>6. ch # q.as
          BY <2>4, <5>3, <5>4, <5>5 DEF SlotOf
        <5>7. q.as = "official" /\ ch = "provisional"
          BY <2>1, <5>4, <5>5, <5>6 DEF EligibleFor, Channels, OpenRequests
        <5>8. /\ n \in DOMAIN history' /\ n > i
              /\ history'[n].channel = "official"
              /\ history'[i].run \in history'[n].replaced
          BY <2>1, <4>2, <4>5, <5>2, <5>7
        <5> QED BY <4>3, <5>1, <5>3, <5>7, <5>8 DEF Explained
      <4> QED BY <4>4, <4>5
    <3> QED BY <3>1, <3>2, <3>3
  <2> QED BY <2>3, <2>4
<1> QED BY <1>1, <1>2

(* However requests overlap, publish_history explains the board: each slot *)
(* shows what its last row published, or is empty because an official row  *)
(* says so.                                                                *)
THEOREM HistoryExplains == Spec => []HistoryExplainsBoard
<1>1. Init => SlotsExplained
  BY DEF Init, SlotsExplained, RowsFor
<1>2. IInv /\ SlotsExplained => HistoryExplainsBoard
  BY ExplainedEnough DEF IInv
<1> QED BY <1>1, <1>2, ExplainedStep, InitIInv, IInvStep, PTL DEF Spec

------------------------------------------------------------------------------
(* A published row, a status derived from published rows and a published   *)
(* group all rest on rows of the history.                                  *)
WasPublished(r) == \E i \in DOMAIN history : history[i].run = r

PublishedRest ==
  /\ \A r \in Runs : status[r] = "published" => WasPublished(r)
  /\ \A p \in Publishers : refresh[p].derived = "published" =>
       \A r \in RunsOf(refresh[p].of) : WasPublished(r)
  /\ \A g \in Groups : groupStatus[g] = "published" => \A r \in RunsOf(g) : WasPublished(r)

(* A group's derived status is published only if every run's status is.    *)
LEMMA DerivedPublished ==
  ASSUME NEW g, NEW st, DerivedStatus(g, st) = "published"
  PROVE  \A r \in RunsOf(g) : st[r] = "published"
BY DEF DerivedStatus

(* The history only grows, so what was published stays published.          *)
LEMMA HistoryGrows ==
  ASSUME IInv, [Next]_vars, NEW r \in Runs, WasPublished(r)
  PROVE  WasPublished(r)'
<1>1. CASE \A p \in Publishers : ~CommitPublish(p)
  BY <1>1, OnlyCommits DEF WasPublished
<1>2. ASSUME NEW p \in Publishers, CommitPublish(p) PROVE WasPublished(r)'
  <2>1. \A i \in DOMAIN history : i \in DOMAIN history' /\ history'[i] = history[i]
    <3>1. Len(history) \in Nat
      BY DEF IInv, TypeOK
    <3>2. \A i \in 1 .. Len(history) : i \in 1 .. Len(history) + 1
      BY <3>1
    <3> QED BY <1>2, <3>2, CommitRow
  <2> QED BY <2>1 DEF WasPublished
<1> QED BY <1>1, <1>2

(* Every step keeps it: a status of published is written by a commit only. *)
LEMMA PublishedRestStep == IInv /\ PublishedRest /\ [Next]_vars => PublishedRest'
<1> SUFFICES ASSUME IInv, PublishedRest, [Next]_vars PROVE PublishedRest'
  OBVIOUS
<1> USE PublishConstants
<1>0. TypeOK /\ \A r \in Runs : WasPublished(r) => WasPublished(r)'
  BY HistoryGrows DEF IInv
<1>0a. \A g : RunsOf(g) \subseteq Runs
  BY DEF RunsOf
<1>1. ASSUME UNCHANGED <<refresh, groupStatus>>,
             \A r \in Runs : status'[r] = "published" => status[r] = "published"
      PROVE  PublishedRest'
  BY <1>0, <1>0a, <1>1 DEF PublishedRest
<1>2. CASE Midnight
  BY <1>1, <1>2 DEF Midnight, runVars, callVars
<1>3. ASSUME NEW g \in Groups, PlanGroup(g) PROVE PublishedRest'
  <2>1. \A r \in Runs : status'[r] = "published" => status[r] = "published"
    BY <1>3 DEF PlanGroup
  <2> QED BY <1>1, <1>3, <2>1 DEF PlanGroup, callVars
<1>4. ASSUME NEW r \in Runs, ExtractRun(r) PROVE PublishedRest'
  <2>1. \A q \in Runs : status'[q] = "published" => status[q] = "published"
    BY <1>0, <1>4 DEF ExtractRun, TypeOK
  <2>2. refresh' = refresh /\ \A g \in Groups :
          \/ groupStatus'[g] = groupStatus[g]
          \/ groupStatus'[g] = DerivedStatus(g, status')
    BY <1>0, <1>4 DEF ExtractRun, TypeOK, callVars
  <2>3. \A g \in Groups : groupStatus'[g] = "published" =>
          \A q \in RunsOf(g) : WasPublished(q)'
    <3> SUFFICES ASSUME NEW g \in Groups, groupStatus'[g] = "published",
                        NEW q \in RunsOf(g)
                 PROVE  WasPublished(q)'
      OBVIOUS
    <3>1. CASE groupStatus'[g] = groupStatus[g]
      BY <1>0, <1>0a, <3>1 DEF PublishedRest
    <3>2. CASE groupStatus'[g] = DerivedStatus(g, status')
      BY <1>0, <1>0a, <2>1, <3>2, DerivedPublished DEF PublishedRest
    <3> QED BY <2>2, <3>1, <3>2
  <2> QED BY <1>0, <1>0a, <2>1, <2>2, <2>3 DEF PublishedRest
<1>5. ASSUME NEW r \in Runs, StartAnalysis(r) PROVE PublishedRest'
  BY <1>1, <1>5 DEF StartAnalysis, runVars, callVars
<1>6. ASSUME NEW r \in Runs, EndAnalysis(r) PROVE PublishedRest'
  <2>1. \A q \in Runs : status'[q] = "published" => status[q] = "published"
    BY <1>0, <1>6 DEF EndAnalysis, TypeOK
  <2> QED BY <1>1, <1>6, <2>1 DEF EndAnalysis, callVars
<1>7. ASSUME NEW r \in Runs, Materialize(r) PROVE PublishedRest'
  BY <1>1, <1>7 DEF Materialize, callVars
<1>8. ASSUME NEW p \in Publishers,
             BeginPublish(p) \/ ScanSnapshots(p) \/ CheckExpected(p) \/ RefuseUnmaterialized(p)
      PROVE  PublishedRest'
  <2>1. UNCHANGED <<refresh, groupStatus, status>>
    BY <1>8 DEF BeginPublish, ScanSnapshots, CheckExpected, RefuseUnmaterialized, runVars
  <2> QED BY <1>1, <2>1
<1>9. ASSUME NEW p \in Publishers, CommitPublish(p) PROVE PublishedRest'
  <2>1. PICK x \in Runs : x = request[p].run
    BY <1>9, CommitRow DEF OpenRequests
  <2>2. WasPublished(x)'
    <3>1. Len(history) + 1 \in DOMAIN history'
      <4>1. Len(history) + 1 \in 1 .. Len(history) + 1
        BY DEF IInv, TypeOK
      <4> QED BY <1>9, <4>1, CommitRow
    <3>2. history'[Len(history) + 1].run = x
      BY <1>9, <2>1, CommitRow
    <3> QED BY <3>1, <3>2 DEF WasPublished
  <2>3. \A r \in Runs : status'[r] = "published" => r = x \/ status[r] = "published"
    BY <1>0, <1>9, <2>1 DEF CommitPublish, TypeOK
  <2>4. groupStatus' = groupStatus /\ \A y \in Publishers :
          refresh'[y].derived = "published" => refresh'[y] = refresh[y]
    <3>1. /\ groupStatus' = groupStatus
          /\ refresh' = [refresh EXCEPT ![p] = RefreshOf(GroupOf[request[p].run])]
      BY <1>9 DEF CommitPublish
    <3>2. refresh'[p].derived = "none" /\ \A y \in Publishers : y # p => refresh'[y] = refresh[y]
      BY <1>0, <3>1 DEF TypeOK, RefreshOf
    <3> QED BY <3>1, <3>2
  <2> QED BY <1>0, <1>0a, <2>2, <2>3, <2>4 DEF PublishedRest
<1>10. ASSUME NEW p \in Publishers, ReadGroup(p) PROVE PublishedRest'
  <2> DEFINE g == refresh[p].of
  <2>1. /\ UNCHANGED <<status, groupStatus>>
        /\ refresh'[p].of = g
        /\ refresh'[p].derived = DerivedStatus(g, status)
        /\ \A x \in Publishers : x # p => refresh'[x] = refresh[x]
    BY <1>0, <1>10 DEF ReadGroup, TypeOK, Refreshes, runVars
  <2>2. refresh'[p].derived = "published" => \A r \in RunsOf(g) : WasPublished(r)
    <3>1. DerivedStatus(g, status) = "published" => \A r \in RunsOf(g) : status[r] = "published"
      BY DerivedPublished
    <3> QED BY <1>0a, <2>1, <3>1 DEF PublishedRest
  <2>3. \A x \in Publishers : refresh'[x].derived = "published" =>
          \A r \in RunsOf(refresh'[x].of) : WasPublished(r)'
    BY <1>0, <1>0a, <2>1, <2>2 DEF PublishedRest
  <2> QED BY <1>0, <1>0a, <2>1, <2>3 DEF PublishedRest
<1>11. ASSUME NEW p \in Publishers, WriteGroup(p) PROVE PublishedRest'
  <2>1. /\ status' = status
        /\ \A g \in Groups : \/ groupStatus'[g] = groupStatus[g]
                             \/ g = refresh[p].of /\ groupStatus'[g] = refresh[p].derived
        /\ \A x \in Publishers : refresh'[x] = refresh[x] \/ refresh'[x].derived = "none"
    BY <1>0, <1>11 DEF WriteGroup, TypeOK, NoRefresh, runVars
  <2> QED BY <1>0, <1>0a, <2>1 DEF PublishedRest
<1>12. CASE UNCHANGED vars
  BY <1>1, <1>12 DEF vars, runVars, callVars
<1> QED
  BY <1>2, <1>3, <1>4, <1>5, <1>6, <1>7, <1>8, <1>9, <1>10, <1>11, <1>12 DEF Next, Publishing

(* Whatever order the overlapping refreshes of any number of publishers    *)
(* finish in, a group that is reported as published had each of its runs   *)
(* published.                                                              *)
THEOREM PublishedGroupsTrue == Spec => []PublishedGroupWasPublished
<1>1. Init => PublishedRest
  BY DEF Init, PublishedRest, NoRefresh
<1>2. PublishedRest => PublishedGroupWasPublished
  BY DEF PublishedRest, WasPublished, PublishedGroupWasPublished
<1> QED BY <1>1, <1>2, PublishedRestStep, InitIInv, IInvStep, PTL DEF Spec

------------------------------------------------------------------------------
(* With one publish request at a time, what a request has read of the      *)
(* board is still so: the runs it scanned are the other runs of its page   *)
(* and day that are on the board, and after the check a run that stands    *)
(* in its way is on the list to be superseded and is the one that was      *)
(* named.  That needs NoPublishedOrphan: the check finds the existing run  *)
(* by its publish state, not by its slot.                                  *)
ReadingHolds ==
  \A p \in Publishers :
    LET q == request[p]
        there == snapshot[SlotOf(q.run, q.as)]
    IN /\ q.pc = "scanned" => q.seen = OthersOnBoard(q.run)
       /\ q.pc = "checked" /\ q.as = "official" => q.seen = OthersOnBoard(q.run)
       /\ q.pc = "checked" /\ there \notin {NoRun, q.run} =>
            there \in q.seen /\ there = q.expected

OneOpen == \A p, q \in Publishers : request[p].pc # "idle" /\ request[q].pc # "idle" => p = q

Alone == OneOpen /\ ReadingHolds /\ NoPublishedOrphan

(* A request begins when none is open, and no step opens a second one.     *)
LEMMA OneOpenStep ==
  ASSUME ~Overlapping
  PROVE  TypeOK /\ OneOpen /\ [Next]_vars => OneOpen'
<1> SUFFICES ASSUME TypeOK, OneOpen, [Next]_vars PROVE OneOpen'
  OBVIOUS
<1>1. ASSUME NEW p \in Publishers, BeginPublish(p) PROVE OneOpen'
  <2>1. \A x \in Publishers : request[x].pc = "idle"
    BY <1>1 DEF BeginPublish
  <2>2. \A x \in Publishers : x # p => request'[x] = request[x]
    BY <1>1 DEF BeginPublish, TypeOK
  <2> QED BY <2>1, <2>2 DEF OneOpen
<1>2. ASSUME NEW p \in Publishers,
             ScanSnapshots(p) \/ CheckExpected(p) \/ RefuseUnmaterialized(p) \/ CommitPublish(p)
      PROVE  OneOpen'
  <2>1. request[p].pc # "idle"
    BY <1>2 DEF ScanSnapshots, CheckExpected, RefuseUnmaterialized, CommitPublish
  <2>2. \A x \in Publishers : x # p => request'[x] = request[x]
    BY <1>2 DEF ScanSnapshots, CheckExpected, RefuseUnmaterialized, CommitPublish, TypeOK
  <2> QED BY <2>1, <2>2 DEF OneOpen
<1> QED
  BY <1>1, <1>2
  DEF Next, Publishing, Midnight, PlanGroup, ExtractRun, StartAnalysis, EndAnalysis, Materialize,
      ReadGroup, WriteGroup, vars, callVars, OneOpen

(* Who may change the state the invariant speaks of: with one request open *)
(* at a time, only that request.                                           *)
LEMMA ReadingStep ==
  ASSUME ~Overlapping
  PROVE  IInv /\ Alone /\ [Next]_vars => ReadingHolds'
<1> SUFFICES ASSUME IInv, Alone, [Next]_vars PROVE ReadingHolds'
  OBVIOUS
<1> USE PublishConstants
<1>0. TypeOK /\ OneOpen /\ OneOpen' /\ ReadingHolds /\ NoPublishedOrphan
  BY OneOpenStep DEF IInv, Alone
<1>1. ASSUME UNCHANGED <<snapshot, request>> PROVE ReadingHolds'
  BY <1>0, <1>1 DEF ReadingHolds, OthersOnBoard, SlotOf
<1>2. ASSUME NEW p \in Publishers, request'[p].pc \in {"idle", "validated"},
             request[p].pc # "idle" \/ request'[p].pc # "idle",
             \A x \in Publishers : x # p => request'[x] = request[x]
      PROVE  ReadingHolds'
  <2>1. \A x \in Publishers : x # p => request'[x].pc = "idle"
    BY <1>0, <1>2 DEF OneOpen
  <2> QED BY <1>2, <2>1 DEF ReadingHolds
<1>3. ASSUME NEW p \in Publishers, BeginPublish(p) PROVE ReadingHolds'
  <2>1. request'[p].pc = "validated" /\ \A x \in Publishers : x # p => request'[x] = request[x]
    BY <1>0, <1>3 DEF BeginPublish, TypeOK, Idle
  <2> QED BY <1>2, <2>1
<1>4. ASSUME NEW p \in Publishers, ScanSnapshots(p) PROVE ReadingHolds'
  <2>1. /\ snapshot' = snapshot
        /\ request'[p].pc = "scanned"
        /\ request'[p].run = request[p].run
        /\ request'[p].seen = OthersOnBoard(request[p].run)
    <3>1. request[p] \in OpenRequests
      BY <1>0, <1>4 DEF TypeOK, ScanSnapshots, Requests, Idle
    <3>2. request' = [request EXCEPT ![p] = [request[p] EXCEPT !.pc = "scanned",
                                               !.seen = OthersOnBoard(request[p].run)]]
      BY <1>0, <1>4 DEF ScanSnapshots, TypeOK
    <3> HIDE DEF OthersOnBoard
    <3>3. request'[p] = [request[p] EXCEPT !.pc = "scanned", !.seen = OthersOnBoard(request[p].run)]
      BY <1>0, <3>2 DEF TypeOK
    <3> QED BY ZenonT(60), <1>4, <3>1, <3>3 DEF ScanSnapshots, boardVars, OpenRequests
  <2>2. \A x \in Publishers : x # p => request'[x].pc = "idle"
    BY <1>0, <2>1 DEF OneOpen
  <2> QED BY ZenonT(60), <2>1, <2>2 DEF ReadingHolds, OthersOnBoard, SlotOf
<1>5. ASSUME NEW p \in Publishers, CheckExpected(p) PROVE ReadingHolds'
  <2> DEFINE q == request[p]
             existing == ExistingIn(q.seen, PublishedAs(q.as))
             there == snapshot[SlotOf(q.run, q.as)]
  <2>1. q \in OpenRequests /\ q.pc = "scanned" /\ q.seen = OthersOnBoard(q.run)
    BY <1>0, <1>5 DEF TypeOK, CheckExpected, Requests, Idle, ReadingHolds
  <2>2. existing # NoRun => existing \in q.seen /\ publishState[existing] = PublishedAs(q.as)
    BY DEF ExistingIn
  <2>3. there \notin {NoRun, q.run} => there \in q.seen /\ publishState[there] = PublishedAs(q.as)
    <3>1. q.run \in Runs /\ q.as \in Channels /\ PageOf[q.run] \in Pages /\ DayOf[q.run] \in Days
      BY <2>1 DEF OpenRequests
    <3> QED BY SMTT(30), <2>1, <3>1 DEF OthersOnBoard, IInv, BoardMatchesRuns, SlotOf
  <2>4. there \notin {NoRun, q.run} => there = existing
    <3> SUFFICES ASSUME there \notin {NoRun, q.run} PROVE there = existing
      OBVIOUS
    <3>1. existing # NoRun /\ existing \in q.seen /\ publishState[existing] = PublishedAs(q.as)
      BY <2>1, <2>3 DEF ExistingIn, OpenRequests
    <3>2. /\ existing \in Runs /\ q.as \in Channels
          /\ PageOf[existing] = PageOf[q.run] /\ DayOf[existing] = DayOf[q.run]
      BY <2>1, <3>1 DEF IInv, RequestsAgree, OpenRequests
    <3>3. snapshot[SlotOf(existing, q.as)] = existing
      BY <1>0, <3>1, <3>2 DEF NoPublishedOrphan
    <3> QED BY <3>2, <3>3 DEF SlotOf
  <2>5. PICK expected \in Runs \cup {NoRun} :
          request' = [request EXCEPT ![p] =
            IF existing \notin {NoRun, expected} THEN Idle
            ELSE [q EXCEPT !.pc = "checked", !.seen = ToSupersede(q, existing),
                           !.replaced = existing,
                           !.expected = IF existing = NoRun THEN NoRun ELSE expected]]
    BY <1>5 DEF CheckExpected, Unexpected
  <2>6. CASE existing \notin {NoRun, expected}
    <3>1. request'[p].pc = "idle" /\ \A x \in Publishers : x # p => request'[x] = request[x]
      BY <1>0, <2>5, <2>6 DEF TypeOK, Idle
    <3> QED BY <1>2, <2>1, <3>1
  <2>7. CASE existing \in {NoRun, expected}
    <3>1. /\ request'[p].pc = "checked"
          /\ request'[p].run = q.run
          /\ request'[p].as = q.as
          /\ request'[p].seen = ToSupersede(q, existing)
          /\ request'[p].expected = IF existing = NoRun THEN NoRun ELSE expected
          /\ snapshot' = snapshot
      <4> HIDE DEF existing
      <4>1. request'[p] = [q EXCEPT !.pc = "checked", !.seen = ToSupersede(q, existing),
                           !.replaced = existing,
                           !.expected = IF existing = NoRun THEN NoRun ELSE expected]
        BY <1>0, <2>5, <2>7 DEF TypeOK
      <4>2. snapshot' = snapshot
        BY <1>5 DEF CheckExpected, boardVars
      <4> HIDE DEF q
      <4> QED BY <2>1, <4>1, <4>2 DEF OpenRequests
    <3>2. q.as = "official" => request'[p].seen = OthersOnBoard(q.run)
      BY <2>1, <3>1 DEF ToSupersede
    <3>3. there \notin {NoRun, q.run} => there \in request'[p].seen /\ there = request'[p].expected
      <4> SUFFICES ASSUME there \notin {NoRun, q.run}
                   PROVE  there \in request'[p].seen /\ there = request'[p].expected
        OBVIOUS
      <4>1. there = existing /\ there \in q.seen
        BY <2>3, <2>4
      <4> HIDE DEF there, existing
      <4>2. there \in ToSupersede(q, existing)
        BY <4>1 DEF ToSupersede
      <4>3. there = request'[p].expected
        BY <2>7, <3>1, <4>1
      <4> QED BY <3>1, <4>2, <4>3
    <3>4. OthersOnBoard(request[p].run)' = OthersOnBoard(q.run)
      BY <3>1 DEF OthersOnBoard, SlotOf
    <3>5. snapshot'[SlotOf(request[p].run, request[p].as)'] = there
      BY <3>1 DEF SlotOf
    <3>6. \A x \in Publishers : x # p => request'[x].pc = "idle"
      BY <1>0, <3>1 DEF OneOpen
    <3> HIDE DEF q, there
    <3>7. snapshot'[SlotOf(request[p].run, request[p].as)'] \notin {NoRun, request'[p].run} =>
            /\ snapshot'[SlotOf(request[p].run, request[p].as)'] \in request'[p].seen
            /\ snapshot'[SlotOf(request[p].run, request[p].as)'] = request'[p].expected
      BY <3>1, <3>3, <3>5
    <3>8. request'[p].as = "official" => request'[p].seen = OthersOnBoard(request[p].run)'
      BY <3>1, <3>2, <3>4
    <3> QED BY <3>1, <3>6, <3>7, <3>8 DEF ReadingHolds
  <2> QED BY <2>6, <2>7
<1>6. ASSUME NEW p \in Publishers, RefuseUnmaterialized(p) \/ CommitPublish(p) PROVE ReadingHolds'
  <2>1. /\ request[p].pc # "idle" /\ request'[p].pc = "idle"
        /\ \A x \in Publishers : x # p => request'[x] = request[x]
    BY <1>0, <1>6 DEF RefuseUnmaterialized, CommitPublish, TypeOK, Idle
  <2> QED BY <1>2, <2>1
<1> QED
  BY <1>1, <1>3, <1>4, <1>5, <1>6
  DEF Next, Publishing, Midnight, PlanGroup, ExtractRun, StartAnalysis, EndAnalysis, Materialize,
      ReadGroup, WriteGroup, vars, runVars, boardVars, callVars

(* What a commit finds and does when no other request is open.             *)
LEMMA CommitAlone ==
  ASSUME IInv, Alone, NEW p \in Publishers, CommitPublish(p)
  PROVE  LET q == request[p]
             slot == SlotOf(q.run, q.as)
         IN /\ q.run \in Runs /\ q.as \in Channels /\ q.seen \subseteq Runs /\ slot \in Slots
            /\ q.pc = "checked" /\ request'[p].pc = "idle"
            /\ snapshot[slot] \notin {NoRun, q.run} =>
                 snapshot[slot] \in q.seen /\ snapshot[slot] = q.expected
            /\ q.as = "official" => q.seen = OthersOnBoard(q.run)
            /\ eligibility[q.run] = EligibleFor(q.as)
            /\ \A s \in Slots : snapshot'[s] = IF s = slot THEN q.run
                                               ELSE IF snapshot[s] \in q.seen THEN NoRun
                                               ELSE snapshot[s]
            /\ \A r \in Runs : publishState'[r] = IF r = q.run THEN PublishedAs(q.as)
                                                  ELSE IF r \in q.seen THEN "superseded"
                                                  ELSE publishState[r]
<1> DEFINE q == request[p]
           slot == SlotOf(q.run, q.as)
<1>1. q \in OpenRequests /\ slot \in Slots /\ \A s \in Slots :
        snapshot'[s] = IF s = slot THEN q.run
                       ELSE IF snapshot[s] \in q.seen THEN NoRun ELSE snapshot[s]
  BY CommitRow
<1>2. /\ q.pc = "checked"
      /\ \A r \in Runs : publishState'[r] = IF r = q.run THEN PublishedAs(q.as)
                                            ELSE IF r \in q.seen THEN "superseded"
                                            ELSE publishState[r]
  BY DEF CommitPublish
<1>3. request'[p].pc = "idle"
  BY DEF CommitPublish, IInv, TypeOK, Idle
<1>4. /\ eligibility[q.run] = EligibleFor(q.as)
      /\ snapshot[slot] \notin {NoRun, q.run} =>
           snapshot[slot] \in q.seen /\ snapshot[slot] = q.expected
      /\ q.as = "official" => q.seen = OthersOnBoard(q.run)
  BY <1>2 DEF IInv, RequestsAgree, Alone, ReadingHolds
<1> QED BY <1>1, <1>2, <1>3, <1>4 DEF OpenRequests

(* Only the request itself takes a run from its slot, and it lists it.     *)
LEMMA OrphanStep ==
  ASSUME ~Overlapping
  PROVE  IInv /\ Alone /\ [Next]_vars => NoPublishedOrphan'
<1> SUFFICES ASSUME IInv, Alone, [Next]_vars PROVE NoPublishedOrphan'
  OBVIOUS
<1>1. CASE \A p \in Publishers : ~CommitPublish(p)
  BY <1>1, OnlyCommits DEF Alone, NoPublishedOrphan, SlotOf
<1>2. ASSUME NEW p \in Publishers, CommitPublish(p) PROVE NoPublishedOrphan'
  <2> DEFINE q == request[p]
             slot == SlotOf(q.run, q.as)
  <2> SUFFICES ASSUME NEW r \in Runs, NEW ch \in Channels, publishState'[r] = PublishedAs(ch)
               PROVE  snapshot'[SlotOf(r, ch)] = r
    BY DEF NoPublishedOrphan, SlotOf
  <2>1. SlotOf(r, ch) \in Slots
    BY SlotType
  <2>2. CASE r = q.run
    <3>1. ch = q.as
      BY <1>2, <2>2, CommitAlone DEF PublishedAs, Channels
    <3> QED BY <1>2, <2>2, <3>1, CommitAlone
  <2>3. CASE r # q.run
    <3>1. r \notin q.seen /\ publishState[r] = PublishedAs(ch)
      BY <1>2, <2>3, CommitAlone DEF PublishedAs
    <3>2. snapshot[SlotOf(r, ch)] = r /\ r # NoRun
      BY <3>1, PublishConstants DEF Alone, NoPublishedOrphan
    <3>3. SlotOf(r, ch) # slot
      BY <1>2, <2>3, <3>1, <3>2, CommitAlone
    <3> QED BY <1>2, <2>1, <3>1, <3>2, <3>3, CommitAlone
  <2> QED BY <2>2, <2>3
<1> QED BY <1>1, <1>2

(* One publish request at a time keeps all of it.                          *)
LEMMA AloneAlways ==
  ASSUME ~Overlapping
  PROVE  Spec => [](IInv /\ Alone)
<1>1. Init => Alone
  BY DEF Init, Alone, OneOpen, ReadingHolds, NoPublishedOrphan, PublishedAs, Idle
<1>2. IInv /\ Alone /\ [Next]_vars => Alone'
  BY OneOpenStep, ReadingStep, OrphanStep DEF Alone, IInv
<1> QED BY <1>1, <1>2, InitIInv, IInvStep, PTL DEF Spec

(* While publish requests do not overlap, no run is left published with    *)
(* no slot showing it, for any runs, pages and days.                       *)
THEOREM NoOrphans ==
  ASSUME ~Overlapping
  PROVE  Spec => []NoPublishedOrphan
<1>1. IInv /\ Alone => NoPublishedOrphan
  BY DEF Alone
<1> QED BY <1>1, AloneAlways, PTL

(* While publish requests do not overlap, a run that takes another's slot  *)
(* was asked to: the request named the run it replaced.                    *)
THEOREM NothingOverwrittenBlindly ==
  ASSUME ~Overlapping
  PROVE  Spec => NoBlindOverwrite
<1>1. IInv /\ Alone /\ [Next]_vars => [NamedWhatItReplaced]_vars
  <2> SUFFICES ASSUME IInv, Alone, [Next]_vars, NEW s \in Slots, snapshot[s] # NoRun,
                      snapshot'[s] \notin {NoRun, snapshot[s]}
               PROVE  \E p \in Publishers : /\ request[p].pc = "checked"
                                            /\ request'[p].pc = "idle"
                                            /\ request[p].run = snapshot'[s]
                                            /\ request[p].expected = snapshot[s]
    BY DEF NamedWhatItReplaced
  <2>1. PICK p \in Publishers : CommitPublish(p)
    BY OnlyCommits
  <2>2. s = SlotOf(request[p].run, request[p].as)
    BY <2>1, CommitAlone
  <2> QED BY <2>1, <2>2, CommitAlone
<1> QED BY <1>1, AloneAlways, PTL DEF Spec, NoBlindOverwrite

(* While publish requests do not overlap, publishing an official run       *)
(* leaves no provisional snapshot of its page and day on the board.        *)
THEOREM OfficialStandsAlone ==
  ASSUME ~Overlapping
  PROVE  Spec => OfficialClearsProvisional
<1> DEFINE Cleared == \A r \in Runs :
             (/\ snapshot[SlotOf(r, "official")] # r
              /\ snapshot'[SlotOf(r, "official")] = r)
             => snapshot'[SlotOf(r, "provisional")] = NoRun
<1>1. IInv /\ Alone /\ [Next]_vars => [Cleared]_vars
  <2> SUFFICES ASSUME IInv, Alone, [Next]_vars, NEW r \in Runs,
                      snapshot[SlotOf(r, "official")] # r,
                      snapshot'[SlotOf(r, "official")] = r
               PROVE  snapshot'[SlotOf(r, "provisional")] = NoRun
    OBVIOUS
  <2> DEFINE o == SlotOf(r, "official")
             v == SlotOf(r, "provisional")
  <2>0. o \in Slots /\ v \in Slots /\ o # v /\ r # NoRun
    BY SlotType, PublishConstants DEF Channels, SlotOf
  <2>1. PICK p \in Publishers : CommitPublish(p)
    BY OnlyCommits
  <2>2. o = SlotOf(request[p].run, request[p].as) /\ r = request[p].run
    BY <2>0, <2>1, CommitAlone
  <2>3. request[p].as = "official"
    BY <2>2 DEF SlotOf
  <2>4. request[p].seen = {snapshot[o], snapshot[v]} \ {NoRun, r}
    BY <2>1, <2>2, <2>3, CommitAlone DEF OthersOnBoard, Channels
  <2>5. snapshot[v] # r
    <3>1. PageOf[r] \in Pages /\ DayOf[r] \in Days /\ "provisional" \in Channels
      BY PublishConstants DEF Channels
    <3>2. eligibility[r] = "official_full_day"
      BY <2>1, <2>2, <2>3, CommitAlone DEF EligibleFor
    <3> QED BY <2>0, <3>1, <3>2 DEF IInv, BoardMatchesRuns, SlotOf, EligibleFor
  <2>6. snapshot'[v] = IF snapshot[v] \in request[p].seen THEN NoRun ELSE snapshot[v]
    BY <2>0, <2>1, <2>2, CommitAlone
  <2> QED BY <2>4, <2>5, <2>6
<1> QED BY <1>1, AloneAlways, PTL DEF Spec, OfficialClearsProvisional
=============================================================================
