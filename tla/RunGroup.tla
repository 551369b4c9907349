------------------------------ MODULE RunGroup ------------------------------
(***************************************************************************)
(* The execution of one run group: the executor inside the request handler *)
(* (chat_extractor.service executeJobRequest), the Go worker it spawns for *)
(* each child run (go-worker main and load), the analysis it asks for, and *)
(* what other requests do to the same rows meanwhile: analysis calls,      *)
(* publications, the switch that turns analysis off.                       *)
(*                                                                         *)
(* Executor and worker are two processes that write the same row without   *)
(* looking at it, and only the exit code of the worker joins them.  The    *)
(* backend may crash at any point and leaves its worker running.  Nothing  *)
(* resumes a group, so the executor is gone for good.                      *)
(*                                                                         *)
(* The module starts where createRunGroupWithRuns has committed.  Child    *)
(* runs are numbered in the order of the plan.  Analysis is reduced to its *)
(* outcomes, Analysis models how they come about.  Publication is reduced  *)
(* to its effect on the status, Publish models the rest.                   *)
(***************************************************************************)
EXTENDS Naturals

CONSTANTS Count,         \* the number of child runs
          MaxThreadDays, \* bound: thread days the worker may build for a run
          ApiCallers,    \* requests to the analysis endpoint
          MaxDbFailures, \* bound: statements outside the worker that fail
          MaxPublishes   \* bound: publications

ASSUME RunGroupConstants ==
  /\ Count \in Nat \ {0}
  /\ MaxThreadDays \in Nat
  /\ MaxDbFailures \in Nat
  /\ MaxPublishes \in Nat
  /\ "executor" \notin ApiCallers

Runs == 1 .. Count
Callers == {"executor"} \cup ApiCallers
Refreshers == {"executor", "publisher"}
Settled == {"loaded", "failed", "published"}
Statuses == {"queued", "running"} \cup Settled
ExecutorSteps == {"marking", "spawning", "awaiting", "analysing", "aborting", "finishing",
                  "crashed"}
WorkerSteps == {"none", "starting", "extracting", "loading", "failing", "exited"}

VARIABLES
  status,      \* pipeline_run.status
  errorText,   \* whether pipeline_run.error_text is set
  loadMetrics, \* what the worker recorded at completion: none, loaded, failed
  threadDays,  \* how many thread_day rows the run has
  mart,        \* whether fact_thread_day has rows of the run
  groupStatus, \* pipeline_run_group.status
  enabled,     \* connected_page.analysis_enabled
  executor,    \* the handler: its step, its run, and what it decided
  worker,      \* the worker process: step, run, thread days left to load, whether
               \* some were lost, whether it exits with code 0
  call,        \* caller -> its call of executeLoadedRun and materializeRun
  refresh,     \* caller of refreshRunGroupStatus -> none, due, or what it derived
  dbFailures, publishes  \* the two bounded counters

rowVars == <<status, errorText, loadMetrics, threadDays, mart>>
boundVars == <<dbFailures, publishes>>
vars == <<rowVars, groupStatus, enabled, executor, worker, call, refresh, boundVars>>

------------------------------------------------------------------------------
NoCall == [pc |-> "idle", run |-> 0]
NoWorker == [pc |-> "none", run |-> 0, todo |-> 0, lost |-> FALSE, ok |-> FALSE]
Launched(i) == [NoWorker EXCEPT !.pc = "starting", !.run = i]
Exited(w, ok) == [NoWorker EXCEPT !.pc = "exited", !.run = w.run, !.ok = ok]

(* What is known of a group whose last run has been dealt with. *)
Done == executor.pc = "finishing" /\ refresh["executor"] = "none"

(* The worker that nobody has waited for yet still works. *)
WorkerActive == worker.pc \in {"starting", "extracting", "loading", "failing"}

(* The status refreshRunGroupStatus derives from the rows. *)
DerivedStatus ==
  LET seen == {status[i] : i \in Runs}
  IN CASE "failed" \in seen -> "failed"
       [] "failed" \notin seen /\ "running" \in seen -> "running"
       [] seen = {"published"} -> "published"
       [] seen \subseteq {"loaded", "published"} /\ "loaded" \in seen -> "loaded"
       [] OTHER -> "queued"

(* A statement of the backend fails, a bounded number of times. *)
DbFails ==
  /\ dbFailures < MaxDbFailures
  /\ dbFailures' = dbFailures + 1
  /\ UNCHANGED publishes

SetRow(i, newStatus, hasError) ==
  /\ status' = [status EXCEPT ![i] = newStatus]
  /\ errorText' = [errorText EXCEPT ![i] = hasError]

------------------------------------------------------------------------------
Init ==
  /\ status = [i \in Runs |-> "queued"]
  /\ errorText = [i \in Runs |-> FALSE]
  /\ loadMetrics = [i \in Runs |-> "none"]
  /\ threadDays = [i \in Runs |-> 0]
  /\ mart = [i \in Runs |-> FALSE]
  /\ groupStatus = "queued"
  /\ enabled \in BOOLEAN
  /\ \E analyse \in BOOLEAN :    \* etl_and_ai, and the flag when the page was read
       /\ analyse => enabled
       /\ executor = [pc |-> "marking", at |-> 1, analyse |-> analyse, gaveUp |-> FALSE]
  /\ worker = NoWorker
  /\ call = [c \in Callers |-> NoCall]
  /\ refresh = [x \in Refreshers |-> "none"]
  /\ dbFailures = 0
  /\ publishes = 0

(* The operator turns analysis of the page on or off. *)
ToggleAnalysis ==
  /\ enabled' = ~enabled
  /\ UNCHANGED <<rowVars, groupStatus, executor, worker, call, refresh, boundVars>>

------------------------------------------------------------------------------
(* The executor. *)

Finish(e) ==
  /\ executor' = [e EXCEPT !.pc = "finishing"]
  /\ refresh' = [refresh EXCEPT !["executor"] = "due"]

NextRun ==
  IF executor.at < Count
  THEN /\ executor' = [executor EXCEPT !.pc = "marking", !.at = @ + 1]
       /\ UNCHANGED refresh
  ELSE Finish(executor)

(* markRunExecutionStarted.  It stands outside the inner try: when it      *)
(* throws, the rest of the group is neither executed nor aborted.          *)
MarkStarted ==
  /\ executor.pc = "marking"
  /\ \/ /\ SetRow(executor.at, "running", FALSE)
        /\ executor' = [executor EXCEPT !.pc = "spawning"]
        /\ UNCHANGED <<refresh, boundVars>>
     \/ /\ DbFails
        /\ Finish(executor)
        /\ UNCHANGED <<status, errorText>>
  /\ UNCHANGED <<loadMetrics, threadDays, mart, groupStatus, enabled, worker, call>>

(* runWorkerManifest writes the manifest and spawns the worker, or throws. *)
SpawnWorker ==
  /\ executor.pc = "spawning"
  /\ \/ /\ worker' = Launched(executor.at)
        /\ executor' = [executor EXCEPT !.pc = "awaiting"]
     \/ /\ executor' = [executor EXCEPT !.pc = "aborting"]
        /\ UNCHANGED worker
  /\ UNCHANGED <<rowVars, groupStatus, enabled, call, refresh, boundVars>>

WorkerSucceeded ==                \* mutant: only exit code 0 ends the waiting
  worker.pc = "exited" /\ worker.ok

(* It waits for the exit, whatever the code, without a time limit.         *)
WorkerOver == worker.pc = "exited"

AfterExitAnyCode ==               \* mutant: the exit code is ignored
  IF ~executor.analyse THEN NextRun
  ELSE executor' = [executor EXCEPT !.pc = "analysing"] /\ UNCHANGED refresh

(* A code other than 0 aborts the group.                                   *)
AfterExit ==
  IF worker.ok /\ ~executor.analyse THEN NextRun
  ELSE /\ executor' = [executor EXCEPT !.pc = IF worker.ok THEN "analysing" ELSE "aborting"]
       /\ UNCHANGED refresh

WorkerExited ==
  /\ executor.pc = "awaiting"
  /\ WorkerOver
  /\ AfterExit
  /\ worker' = NoWorker
  /\ UNCHANGED <<rowVars, groupStatus, enabled, call, boundVars>>

AbandonedAlone == {executor.at}    \* mutant: the queued runs are left behind

(* abortRunGroupExecution, one statement: the run that failed, whatever    *)
(* its status is by now, and all that are still queued.                    *)
Abandoned == {executor.at} \cup {i \in Runs : status[i] = "queued"}

Abort ==
  /\ executor.pc = "aborting"
  /\ \/ /\ status' = [i \in Runs |-> IF i \in Abandoned THEN "failed" ELSE status[i]]
        /\ errorText' = [i \in Runs |-> i \in Abandoned \/ errorText[i]]
        /\ Finish([executor EXCEPT !.gaveUp = TRUE])
        /\ UNCHANGED boundVars
     \/ /\ DbFails
        /\ Finish(executor)
        /\ UNCHANGED <<status, errorText>>
  /\ UNCHANGED <<loadMetrics, threadDays, mart, groupStatus, enabled, worker, call>>

(* refreshRunGroupStatus: a read and a write, for the executor at its end  *)
(* and for a publisher after its transaction.                              *)
ReadGroup(x) ==
  /\ refresh[x] = "due"
  /\ refresh' = [refresh EXCEPT ![x] = DerivedStatus]
  /\ UNCHANGED <<rowVars, groupStatus, enabled, executor, worker, call, boundVars>>

WriteGroup(x) ==
  /\ refresh[x] \in Statuses
  /\ \/ groupStatus' = refresh[x] /\ UNCHANGED boundVars
     \/ DbFails /\ UNCHANGED groupStatus
  /\ refresh' = [refresh EXCEPT ![x] = "none"]
  /\ UNCHANGED <<rowVars, enabled, executor, worker, call>>

(* The backend process dies, and every request with it.  The worker is a   *)
(* process of its own.                                                     *)
Crash ==
  /\ executor.pc # "crashed"
  /\ executor' = [executor EXCEPT !.pc = "crashed"]
  /\ call' = [c \in Callers |-> NoCall]
  /\ refresh' = [x \in Refreshers |-> "none"]
  /\ UNCHANGED <<rowVars, groupStatus, enabled, worker, boundVars>>

------------------------------------------------------------------------------
(* The worker. *)

workerFrame == <<mart, groupStatus, enabled, executor, call, refresh, boundVars>>

(* load.StartRun marks the row running once more, or the worker exits: its *)
(* configuration is invalid or the database cannot be reached.             *)
WorkerStart ==
  /\ worker.pc = "starting"
  /\ \/ /\ SetRow(worker.run, "running", FALSE)
        /\ worker' = [worker EXCEPT !.pc = "extracting"]
     \/ /\ worker' = Exited(worker, FALSE)
        /\ UNCHANGED <<status, errorText>>
  /\ UNCHANGED <<loadMetrics, threadDays, workerFrame>>

(* extract.Run and transform.BuildConversationDay, all in memory. *)
Extract ==
  /\ worker.pc = "extracting"
  /\ \/ \E built \in 0 .. MaxThreadDays :
          worker' = [worker EXCEPT !.pc = "loading", !.todo = built]
     \/ worker' = [worker EXCEPT !.pc = "failing"]
  /\ UNCHANGED <<status, errorText, loadMetrics, threadDays, workerFrame>>

(* persistThreadDay, a transaction of its own for each thread day. *)
PersistThreadDay ==
  /\ worker.pc = "loading"
  /\ worker.todo > 0
  /\ \/ /\ threadDays' = [threadDays EXCEPT ![worker.run] = @ + 1]
        /\ worker' = [worker EXCEPT !.todo = @ - 1]
     \/ /\ worker' = [worker EXCEPT !.todo = @ - 1, !.lost = TRUE]
        /\ UNCHANGED threadDays
  /\ UNCHANGED <<status, errorText, loadMetrics, workerFrame>>

(* SaveSuccess ends with updatePipelineRunCompletion: failed only when     *)
(* every thread day was lost, with the errors of those that were lost.     *)
(* The exit code is 0 either way.                                          *)
LoadOutcome == IF worker.lost /\ threadDays[worker.run] = 0 THEN "failed" ELSE "loaded"
LoadErrorsIfPartial ==            \* mutant: no text when everything was lost
  worker.lost /\ threadDays[worker.run] # 0
LoadErrors == worker.lost

CompleteLoad ==
  /\ worker.pc = "loading"
  /\ worker.todo = 0
  /\ LET i == worker.run
     IN \/ /\ SetRow(i, LoadOutcome, LoadErrors)
           /\ loadMetrics' = [loadMetrics EXCEPT ![i] = LoadOutcome]
           /\ worker' = Exited(worker, TRUE)
        \/ /\ worker' = [worker EXCEPT !.pc = "failing"]
           /\ UNCHANGED <<status, errorText, loadMetrics>>
  /\ UNCHANGED <<threadDays, workerFrame>>

(* failRun: SaveFailure, which may fail itself, and the exit. *)
RecordFailure ==
  /\ worker.pc = "failing"
  /\ \/ /\ SetRow(worker.run, "failed", TRUE)
        /\ loadMetrics' = [loadMetrics EXCEPT ![worker.run] = "failed"]
     \/ UNCHANGED <<status, errorText, loadMetrics>>
  /\ worker' = Exited(worker, FALSE)
  /\ UNCHANGED <<threadDays, workerFrame>>

KillWorker ==
  /\ WorkerActive
  /\ worker' = Exited(worker, FALSE)
  /\ UNCHANGED <<status, errorText, loadMetrics, threadDays, workerFrame>>

------------------------------------------------------------------------------
(* Analysis of one run, for the executor and for the endpoint. *)

callFrame == <<loadMetrics, threadDays, groupStatus, enabled, worker, boundVars>>

(* A call that throws aborts the group if the executor made it. *)
Throws(c) ==
  /\ call' = [call EXCEPT ![c] = NoCall]
  /\ executor' = IF c = "executor" THEN [executor EXCEPT !.pc = "aborting"] ELSE executor
  /\ UNCHANGED refresh

Returns(c) ==
  /\ call' = [call EXCEPT ![c] = NoCall]
  /\ IF c = "executor" THEN NextRun ELSE UNCHANGED <<executor, refresh>>

MayAnalyseRunning(i) ==           \* mutant: a run that is still loading is accepted
  enabled /\ status[i] \in {"running", "loaded", "failed"}

(* executeLoadedRun checks the switch and the status, once. *)
MayAnalyse(i) == enabled /\ status[i] \in {"loaded", "failed"}

StartAnalysis(c, i) ==
  /\ call[c] = NoCall
  /\ c = "executor" => executor.pc = "analysing" /\ executor.at = i
  /\ IF MayAnalyse(i)
     THEN /\ call' = [call EXCEPT ![c] = [pc |-> "analysing", run |-> i]]
          /\ UNCHANGED <<executor, refresh>>
     ELSE Throws(c)
  /\ UNCHANGED <<status, errorText, mart, callFrame>>

(* Some unit failed: markPipelineRunAnalysisFailed, and a normal return.   *)
(* All succeeded, or there were none: restorePipelineRunLoaded, and the    *)
(* mart is to be built.  Or it throws, as when two calls collide.          *)
EndAnalysis(c) ==
  /\ call[c].pc = "analysing"
  /\ LET i == call[c].run
     IN \/ /\ threadDays[i] # 0
           /\ SetRow(i, "failed", TRUE)
           /\ Returns(c)
        \/ /\ SetRow(i, "loaded", FALSE)
           /\ call' = [call EXCEPT ![c].pc = "materializing"]
           /\ UNCHANGED <<executor, refresh>>
        \/ /\ Throws(c)
           /\ UNCHANGED <<status, errorText>>
  /\ UNCHANGED <<mart, callFrame>>

(* materializeRun replaces the mart rows of the run. *)
MaterializeRun(c) ==
  /\ call[c].pc = "materializing"
  /\ \/ /\ mart' = [mart EXCEPT ![call[c].run] = threadDays[call[c].run] # 0]
        /\ Returns(c)
     \/ Throws(c) /\ UNCHANGED mart
  /\ UNCHANGED <<status, errorText, callFrame>>

(* publishRun, seen from the rows of the group. *)
PublishRun(i) ==
  /\ publishes < MaxPublishes
  /\ refresh["publisher"] = "none"
  /\ status[i] \in {"loaded", "published"}
  /\ mart[i]
  /\ status' = [status EXCEPT ![i] = "published"]
  /\ refresh' = [refresh EXCEPT !["publisher"] = "due"]
  /\ publishes' = publishes + 1
  /\ UNCHANGED <<errorText, loadMetrics, threadDays, mart, groupStatus, enabled, executor,
                 worker, call, dbFailures>>

------------------------------------------------------------------------------
ExecutorNext ==
  \/ MarkStarted
  \/ SpawnWorker
  \/ WorkerExited
  \/ Abort
  \/ ReadGroup("executor")
  \/ WriteGroup("executor")
  \/ StartAnalysis("executor", executor.at)
  \/ EndAnalysis("executor")
  \/ MaterializeRun("executor")

WorkerNext ==
  \/ WorkerStart
  \/ Extract
  \/ PersistThreadDay
  \/ CompleteLoad
  \/ RecordFailure

OthersNext ==
  \/ ToggleAnalysis
  \/ Crash
  \/ KillWorker
  \/ \E c \in ApiCallers, i \in Runs : StartAnalysis(c, i)
  \/ \E c \in ApiCallers : EndAnalysis(c) \/ MaterializeRun(c)
  \/ \E i \in Runs : PublishRun(i)
  \/ ReadGroup("publisher") \/ WriteGroup("publisher")

Next == ExecutorNext \/ WorkerNext \/ OthersNext

Spec == Init /\ [][Next]_vars

(* The executor's statements return and the worker, whose HTTP requests    *)
(* have a timeout, goes on.  Nothing is assumed of anybody else.           *)
FairSpec == Spec /\ WF_vars(ExecutorNext) /\ WF_vars(WorkerNext)

------------------------------------------------------------------------------
(* Rows, processes and calls hold values the code can give them.           *)
TypeOK ==
  /\ status \in [Runs -> Statuses]
  /\ errorText \in [Runs -> BOOLEAN]
  /\ loadMetrics \in [Runs -> {"none", "loaded", "failed"}]
  /\ threadDays \in [Runs -> 0 .. MaxThreadDays]
  /\ mart \in [Runs -> BOOLEAN]
  /\ groupStatus \in Statuses
  /\ enabled \in BOOLEAN
  /\ executor \in [pc : ExecutorSteps, at : Runs, analyse : BOOLEAN, gaveUp : BOOLEAN]
  /\ worker \in [pc : WorkerSteps, run : 0 .. Count, todo : 0 .. MaxThreadDays,
                 lost : BOOLEAN, ok : BOOLEAN]
  /\ call \in [Callers -> [pc : {"idle", "analysing", "materializing"}, run : 0 .. Count]]
  /\ refresh \in [Refreshers -> {"none", "due"} \cup Statuses]
  /\ dbFailures \in 0 .. MaxDbFailures
  /\ publishes \in 0 .. MaxPublishes

(* A failed run always says why: of the many writers of status and of      *)
(* error_text, in two processes, none leaves a failure without its text.   *)
FailureIsExplained == \A i \in Runs : status[i] = "failed" => errorText[i]

(* When the executor has finished and no statement of the backend failed,  *)
(* no run is left queued or running, and a group nobody published from     *)
(* does not show as queued or running.  (A publisher whose refresh read    *)
(* the rows before the end may still write what it read.)                  *)
SettledWhenDone ==
  (Done /\ dbFailures = 0) =>
    /\ \A i \in Runs : status[i] \in Settled
    /\ publishes = 0 => groupStatus \in {"loaded", "failed"}

(* A worker only ever writes thread days of the run that is marked         *)
(* running, so what is being analysed or is in the mart does not grow      *)
(* behind the reader's back, even when the backend is gone.                *)
LoadsOnlyWhileRunning ==
  [][\A i \in Runs : threadDays'[i] # threadDays[i] =>
       /\ status[i] = "running"
       /\ \A c \in Callers : call[c].run # i
       /\ ~mart[i]]_vars

(* The group is a queue: see RunQueue. *)
Phase(s) == CASE s = "queued" -> "waiting" [] s = "running" -> "active" [] OTHER -> "settled"
Queue == INSTANCE RunQueue WITH phase <- [i \in Runs |-> Phase(status[i])],
                                abandoned <- executor.gaveUp
ImplementsQueue == Queue!QueueSpec

(* Every execution comes to its end, whatever fails on the way, unless the *)
(* backend dies.                                                           *)
EveryExecutionEnds == <>(Done \/ executor.pc = "crashed")

(* "Analysis is only for a run that has finished loading or has to be      *)
(* retried": a run that shows as loaded was loaded by its worker.          *)
LoadedWasLoaded ==
  \A i \in Runs : status[i] \in {"loaded", "published"} => loadMetrics[i] = "loaded"
=============================================================================
