------------------------------ MODULE Analysis ------------------------------
(***************************************************************************)
(* The analysis of one loaded run: analysis.service executeLoadedRun with  *)
(* the repository calls it makes, and the materialisation of the mart that *)
(* follows a completed analysis.                                           *)
(*                                                                         *)
(* A call asks the service for its effective identity, finds or creates    *)
(* the analysis run of that identity, sends the thread days (units) that   *)
(* have no valid result in it, in batches, sums up and writes the outcome. *)
(* Each await is a step.  The service may fail, the backend may die in the *)
(* middle, the service may be upgraded, and what a unit's evidence hash is *)
(* computed from may change: the customer's name and the page's timezone   *)
(* are read live.                                                          *)
(***************************************************************************)
EXTENDS Naturals, FiniteSets

CONSTANTS Units,       \* the thread days of the run
          Callers,     \* calls that may overlap: executor and endpoint
          BatchSize,   \* units sent to the service in one request
          LastRelease, \* bound: releases of the service are 1 .. LastRelease
          LastEdit,    \* bound: changes of the evidence of one unit
          MaxFaults    \* bound: failed probes, failed units, interrupted calls

ASSUME AnalysisConstants ==
  /\ IsFiniteSet(Units)
  /\ BatchSize \in Nat \ {0}
  /\ LastRelease \in Nat \ {0}
  /\ LastEdit \in Nat
  /\ MaxFaults \in Nat

(* The identity of an analysis run within the run it analyses.  All that   *)
(* the backend puts into it is frozen with the group, so it only depends   *)
(* on what the service reported: a release, or nothing (Raw).              *)
Raw == 0
Identities == 0 .. LastRelease
Versions == 0 .. LastEdit
RunStatuses == {"none", "running", "failed", "completed"}
ResultStatuses == {"none", "terminal", "failed"}
Steps == {"idle", "probing", "finding", "creating", "listing", "marking", "batching",
          "summing", "writing", "settling", "reading", "replacing"}

VARIABLES
  release,     \* the release of the service that is deployed
  evidence,    \* unit -> version of what its evidence hash is computed from
  runStatus,   \* pipeline_run.status, loaded or failed while it is analysed
  analysisRun, \* identity -> status, and rank by created_at
  result,      \* analysis_result: identity and unit -> status, evidence hash
  mart,        \* fact_thread_day of the run: from which identity, which units
  call,        \* caller -> what its call has read so far
  faults       \* faults so far

serviceVars == <<release, evidence>>
vars == <<serviceVars, runStatus, analysisRun, result, mart, call, faults>>

NoMart == [of |-> Raw, rows |-> {}]
NoResult == [status |-> "none", evidence |-> 0]
NoCall == [pc |-> "idle", id |-> Raw, reuse |-> FALSE, seen |-> [u \in Units |-> 0],
           todo |-> {}, verdict |-> "none", source |-> NoMart]

Existing == {id \in Identities : analysisRun[id].status # "none"}
Terminal(id) == {u \in Units : result[id][u].status = "terminal"}
Failed(id) == {u \in Units : result[id][u].status = "failed"}

Fault == faults < MaxFaults /\ faults' = faults + 1

(* The call moves on to step pc. *)
Goto(c, pc) == call' = [call EXCEPT ![c].pc = pc]
Return(c) == call' = [call EXCEPT ![c] = NoCall]

------------------------------------------------------------------------------
Init ==
  /\ release = 1
  /\ evidence = [u \in Units |-> 0]
  /\ runStatus = "loaded"
  /\ analysisRun = [id \in Identities |-> [status |-> "none", rank |-> 0]]
  /\ result = [id \in Identities |-> [u \in Units |-> NoResult]]
  /\ mart = NoMart
  /\ call = [c \in Callers |-> NoCall]
  /\ faults = 0

Upgrade ==
  /\ release < LastRelease
  /\ release' = release + 1
  /\ UNCHANGED <<evidence, runStatus, analysisRun, result, mart, call, faults>>

(* Another run of the page updates the customer's name, say. *)
EditEvidence(u) ==
  /\ evidence[u] < LastEdit
  /\ evidence' = [evidence EXCEPT ![u] = @ + 1]
  /\ UNCHANGED <<release, runStatus, analysisRun, result, mart, call, faults>>

(* The backend dies while the call is under way. *)
Interrupt(c) ==
  /\ call[c].pc # "idle"
  /\ Fault
  /\ Return(c)
  /\ UNCHANGED <<serviceVars, runStatus, analysisRun, result, mart>>

------------------------------------------------------------------------------
(* The run is loaded or failed, so the call is accepted, and the thread    *)
(* days are read with everything their evidence hashes depend on.          *)
Begin(c) ==
  /\ call[c].pc = "idle"
  /\ call' = [call EXCEPT ![c].pc = "probing", ![c].seen = evidence]
  /\ UNCHANGED <<serviceVars, runStatus, analysisRun, result, mart, faults>>

(* prepareRuntimeIdentity: an empty request tells the effective identity.  *)
(* When it fails the call goes on with the raw one, and may not reuse.     *)
Probe(c) ==
  /\ call[c].pc = "probing"
  /\ \/ /\ call' = [call EXCEPT ![c].pc = "finding", ![c].id = release, ![c].reuse = TRUE]
        /\ UNCHANGED faults
     \/ /\ Fault
        /\ Goto(c, "creating")
  /\ UNCHANGED <<serviceVars, runStatus, analysisRun, result, mart>>

(* resolveAnalysisRun: find by identity, then create.  The unique key on   *)
(* the identity makes the creation throw if the run is there already.      *)
FindRun(c) ==
  /\ call[c].pc = "finding"
  /\ Goto(c, IF call[c].id \in Existing THEN "listing" ELSE "creating")
  /\ UNCHANGED <<serviceVars, runStatus, analysisRun, result, mart, faults>>

CreateRun(c) ==
  /\ call[c].pc = "creating"
  /\ LET id == call[c].id
     IN IF id \in Existing
        THEN Return(c) /\ UNCHANGED analysisRun
        ELSE /\ analysisRun' = [analysisRun EXCEPT
                  ![id] = [status |-> "running", rank |-> Cardinality(Existing) + 1]]
             /\ Goto(c, "listing")
  /\ UNCHANGED <<serviceVars, runStatus, result, mart, faults>>

PendingAll(c) == Units            \* mutant: what has succeeded is sent again
PendingUnseen(c) ==               \* mutant: a failed result counts as done
  {u \in Units : result[call[c].id][u].status = "none"}

(* The units to send: those without a terminal result for this evidence.   *)
Pending(c) ==
  LET id == call[c].id
  IN IF ~call[c].reuse THEN Units
     ELSE {u \in Units : \/ u \notin Terminal(id)
                         \/ result[id][u].evidence # call[c].seen[u]}

ListResults(c) ==
  /\ call[c].pc = "listing"
  /\ call' = [call EXCEPT ![c].todo = Pending(c),
                          ![c].pc = IF Pending(c) = {} THEN "summing" ELSE "marking"]
  /\ UNCHANGED <<serviceVars, runStatus, analysisRun, result, mart, faults>>

MarkRunning(c) ==
  /\ call[c].pc = "marking"
  /\ analysisRun' = [analysisRun EXCEPT ![call[c].id].status = "running"]
  /\ Goto(c, "batching")
  /\ UNCHANGED <<serviceVars, runStatus, result, mart, faults>>

UpsertedAnswered(c, batch, answered) ==  \* mutant: no row for what was not answered
  [u \in Units |-> IF u \in answered THEN [status |-> "terminal", evidence |-> call[c].seen[u]]
                   ELSE result[call[c].id][u]]

(* processBatch: one request, and one transaction that upserts a result    *)
(* for every unit of the batch, a failure for those the service did not    *)
(* answer, or for all of them if the request failed.                       *)
Upserted(c, batch, answered) ==
  [u \in Units |->
     IF u \in batch
     THEN [status |-> IF u \in answered THEN "terminal" ELSE "failed",
           evidence |-> call[c].seen[u]]
     ELSE result[call[c].id][u]]

IsBatch(batch, todo) ==
  \/ batch = todo /\ Cardinality(todo) <= BatchSize
  \/ Cardinality(batch) = BatchSize

ProcessBatch(c) ==
  /\ call[c].pc = "batching"
  /\ \E batch \in SUBSET call[c].todo : \E answered \in SUBSET batch :
       /\ IsBatch(batch, call[c].todo)
       /\ IF answered = batch THEN UNCHANGED faults ELSE Fault
       /\ result' = [result EXCEPT ![call[c].id] = Upserted(c, batch, answered)]
       /\ call' = [call EXCEPT ![c].todo = @ \ batch,
                               ![c].pc = IF call[c].todo = batch THEN "summing" ELSE @]
  /\ UNCHANGED <<serviceVars, runStatus, analysisRun, mart>>

VerdictCounted(id) ==             \* mutant: failures count as done
  IF Terminal(id) \cup Failed(id) # Units THEN "running" ELSE "completed"

(* refreshAnalysisRunSummary reads the rows of the run and writes what     *)
(* they add up to.                                                         *)
Verdict(id) ==
  IF Terminal(id) \cup Failed(id) # Units THEN "running"
  ELSE IF Failed(id) # {} THEN "failed" ELSE "completed"

ReadSummary(c) ==
  /\ call[c].pc = "summing"
  /\ call' = [call EXCEPT ![c].pc = "writing", ![c].verdict = Verdict(call[c].id)]
  /\ UNCHANGED <<serviceVars, runStatus, analysisRun, result, mart, faults>>

WriteSummary(c) ==
  /\ call[c].pc = "writing"
  /\ analysisRun' = [analysisRun EXCEPT ![call[c].id].status = call[c].verdict]
  /\ Goto(c, "settling")
  /\ UNCHANGED <<serviceVars, runStatus, result, mart, faults>>

(* markPipelineRunAnalysisFailed or restorePipelineRunLoaded. *)
SettleRun(c) ==
  /\ call[c].pc = "settling"
  /\ runStatus' = IF call[c].verdict = "failed" THEN "failed" ELSE "loaded"
  /\ IF call[c].verdict = "completed" THEN Goto(c, "reading") ELSE Return(c)
  /\ UNCHANGED <<serviceVars, analysisRun, result, mart, faults>>

CompletedOrNot == Existing        \* mutant: the status filter is missing

(* materializeRun, called when the summary says completed, looks for the   *)
(* completed analysis run that was created last.  There may be none by     *)
(* now, and it need not be the one the call has just completed.            *)
Completed == {id \in Identities : analysisRun[id].status = "completed"}
LastCompleted ==
  CHOOSE id \in Completed : \A other \in Completed :
    analysisRun[other].rank <= analysisRun[id].rank

ReadMartSource(c) ==
  /\ call[c].pc = "reading"
  /\ IF Completed = {} THEN Return(c)
     ELSE call' = [call EXCEPT ![c].pc = "replacing",
                               ![c].source = [of |-> LastCompleted,
                                              rows |-> Terminal(LastCompleted)]]
  /\ UNCHANGED <<serviceVars, runStatus, analysisRun, result, mart, faults>>

(* replaceMartForRun, one transaction. *)
ReplaceMart(c) ==
  /\ call[c].pc = "replacing"
  /\ mart' = call[c].source
  /\ Return(c)
  /\ UNCHANGED <<serviceVars, runStatus, analysisRun, result, faults>>

Calling(c) ==
  \/ Begin(c) \/ Probe(c) \/ FindRun(c) \/ CreateRun(c) \/ ListResults(c) \/ MarkRunning(c)
  \/ ProcessBatch(c) \/ ReadSummary(c) \/ WriteSummary(c) \/ SettleRun(c)
  \/ ReadMartSource(c) \/ ReplaceMart(c)

Next ==
  \/ Upgrade
  \/ \E u \in Units : EditEvidence(u)
  \/ \E c \in Callers : Interrupt(c) \/ Calling(c)

Spec == Init /\ [][Next]_vars

(* A call that has begun goes on, and the operator retries.                *)
FairSpec == Spec /\ \A c \in Callers : WF_vars(Calling(c))

------------------------------------------------------------------------------
(* Rows and calls hold values the code can give them.                      *)
TypeOK ==
  /\ release \in 1 .. LastRelease
  /\ evidence \in [Units -> Versions]
  /\ runStatus \in {"loaded", "failed"}
  /\ analysisRun \in [Identities -> [status : RunStatuses, rank : Nat]]
  /\ result \in [Identities -> [Units -> [status : ResultStatuses, evidence : Versions]]]
  /\ mart \in [of : Identities, rows : SUBSET Units]
  /\ call \in [Callers -> [pc : Steps, id : Identities, reuse : BOOLEAN,
                           seen : [Units -> Versions], todo : SUBSET Units,
                           verdict : RunStatuses,
                           source : [of : Identities, rows : SUBSET Units]]]
  /\ faults \in 0 .. MaxFaults

(* No call that gets to its summary finds results missing: faults, retries *)
(* and overlapping calls may leave units failed, but never forgotten.      *)
NoUnitForgotten ==
  \A c \in Callers : call[c].pc \in {"writing", "settling"} => call[c].verdict # "running"

(* If calls do not overlap, an analysis run that says completed has a      *)
(* terminal result for every unit, through all retries and interruptions.  *)
CompletedIsComplete == \A id \in Completed : Terminal(id) = Units

(* The mart is never a part of the run: once built, every thread day of    *)
(* the run has its row.  (If calls do not overlap.)                        *)
MartIsWhole == mart # NoMart => mart.rows = Units

(* "Resume only what has not succeeded": a terminal result is not replaced *)
(* by a call that saw the same evidence.  (If calls do not overlap.)       *)
ResultsAreKept ==
  [][\A id \in Identities, u \in Units :
       (result[id][u].status = "terminal" /\ result'[id][u] # result[id][u])
       => result'[id][u].evidence # result[id][u].evidence]_vars

(* Faults do not wedge a run: once they are over and the operator goes on  *)
(* retrying, the run is loaded and its mart is whole, for good.            *)
RetrySucceeds == <>[](runStatus = "loaded" /\ mart.rows = Units)
=============================================================================
