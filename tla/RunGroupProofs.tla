--------------------------- MODULE RunGroupProofs ---------------------------
(***************************************************************************)
(* Proofs about RunGroup, for any number of runs, callers of the analysis  *)
(* endpoint and failures: type correctness, the explanation of every       *)
(* failed run, the settling of a group, loads only while a run is running, *)
(* and the implementation of the abstract queue.                           *)
(*                                                                         *)
(* The executor awaits a process it cannot look into, and three more       *)
(* processes write the same rows.  So the invariant says what the step of  *)
(* the executor implies for the rows (before it settled, behind it queued  *)
(* and empty), what the worker's step implies for its row, and that calls  *)
(* of the endpoint only ever work on settled runs: together these make     *)
(* every row written by exactly who may write it.                          *)
(***************************************************************************)
EXTENDS RunGroup, TLAPS

(* The queue behind the executor is untouched, what is before it is done,  *)
(* and a group that was given up has nothing left to do.                   *)
InOrder ==
  /\ \A i \in Runs : i < executor.at => status[i] \in Settled
  /\ ~executor.gaveUp =>
       \A i \in Runs : i > executor.at => status[i] = "queued" /\ threadDays[i] = 0
  /\ executor.gaveUp =>
       executor.pc \in {"finishing", "crashed"} /\ \A i \in Runs : status[i] \in Settled

(* What the executor's step says about its run and its worker. *)
ExecutorAgrees ==
  /\ executor.pc = "marking" => status[executor.at] = "queued" /\ threadDays[executor.at] = 0
  /\ executor.pc = "spawning" => status[executor.at] = "running" /\ threadDays[executor.at] = 0
  /\ executor.pc = "analysing" => status[executor.at] \in Settled
  /\ executor.pc = "awaiting" => worker.pc # "none"
  /\ executor.pc \notin {"awaiting", "crashed"} => worker = NoWorker

(* The worker's run is the executor's, and running as long as the worker   *)
(* is; exit code 0 means that the worker has settled it.                   *)
WorkerAgrees ==
  /\ worker.pc # "none" => worker.run = executor.at
  /\ WorkerActive => status[worker.run] = "running"
  /\ worker.pc \in {"starting", "extracting"} => threadDays[worker.run] = 0
  /\ worker.pc = "loading" => threadDays[worker.run] + worker.todo <= MaxThreadDays
  /\ worker.pc = "exited" /\ worker.ok => status[worker.run] \in Settled

(* Only what is settled is analysed or in the mart, and the executor's own *)
(* call is for its run.                                                    *)
CallsAgree ==
  /\ \A c \in Callers : call[c] # NoCall =>
       call[c].run \in Runs /\ status[call[c].run] \in Settled
  /\ call["executor"] # NoCall =>
       executor.pc = "analysing" /\ call["executor"].run = executor.at
  /\ \A i \in Runs : mart[i] => status[i] \in Settled

(* What the executor found, and wrote or is about to write, at its end.    *)
OutcomeAgrees ==
  /\ publishes = 0 => refresh["publisher"] = "none" /\ \A i \in Runs : status[i] # "published"
  /\ executor.pc = "finishing" /\ dbFailures = 0 =>
       /\ \A i \in Runs : status[i] \in Settled
       /\ publishes = 0 => \/ refresh["executor"] \in {"due", "loaded", "failed"}
                           \/ refresh["executor"] = "none" /\ groupStatus \in {"loaded", "failed"}

IInv ==
  /\ TypeOK
  /\ InOrder
  /\ ExecutorAgrees
  /\ WorkerAgrees
  /\ CallsAgree
  /\ OutcomeAgrees
  /\ FailureIsExplained

------------------------------------------------------------------------------
(* The records of the executor, the worker and a call. *)
ExecutorStates == [pc : ExecutorSteps, at : Runs, analyse : BOOLEAN, gaveUp : BOOLEAN]
WorkerStates == [pc : WorkerSteps, run : 0 .. Count, todo : 0 .. MaxThreadDays,
                 lost : BOOLEAN, ok : BOOLEAN]
CallStates == [pc : {"idle", "analysing", "materializing"}, run : 0 .. Count]

(* A worker is launched for a run, and exits with it.                      *)
LEMMA WorkerRecords ==
  /\ \A i \in 0 .. Count : /\ Launched(i) \in WorkerStates
                           /\ Launched(i).pc = "starting"
                           /\ Launched(i).run = i
  /\ \A w \in WorkerStates, ok \in BOOLEAN : /\ Exited(w, ok) \in WorkerStates
                                            /\ Exited(w, ok).pc = "exited"
                                            /\ Exited(w, ok).run = w.run
                                            /\ Exited(w, ok).ok = ok
<1>1. NoWorker \in WorkerStates
  BY RunGroupConstants DEF NoWorker, WorkerStates, WorkerSteps
<1>2. ASSUME NEW i \in 0 .. Count
      PROVE  /\ Launched(i) \in WorkerStates
             /\ Launched(i).pc = "starting"
             /\ Launched(i).run = i
  BY <1>1 DEF Launched, WorkerStates, WorkerSteps
<1>3. ASSUME NEW w \in WorkerStates, NEW ok \in BOOLEAN
      PROVE  /\ Exited(w, ok) \in WorkerStates
             /\ Exited(w, ok).pc = "exited"
             /\ Exited(w, ok).run = w.run
             /\ Exited(w, ok).ok = ok
  <2>1. w.run \in 0 .. Count
    BY DEF WorkerStates
  <2> QED BY <1>1, <2>1 DEF Exited, WorkerStates, WorkerSteps
<1> QED BY <1>2, <1>3

(* The group as it is planned.                                             *)
LEMMA InitIInv == Init => IInv
<1> SUFFICES ASSUME Init PROVE IInv
  OBVIOUS
<1> USE RunGroupConstants DEF Init
<1>1. PICK analyse \in BOOLEAN :
        executor = [pc |-> "marking", at |-> 1, analyse |-> analyse, gaveUp |-> FALSE]
  OBVIOUS
<1>2. executor \in ExecutorStates /\ worker \in WorkerStates
  BY <1>1 DEF ExecutorStates, WorkerStates, ExecutorSteps, WorkerSteps, Runs, NoWorker
<1>3. call \in [Callers -> CallStates]
  BY DEF CallStates, NoCall
<1>4. TypeOK
  BY <1>2, <1>3 DEF TypeOK, ExecutorStates, WorkerStates, CallStates, Statuses
<1>5. InOrder /\ ExecutorAgrees
  BY <1>1 DEF InOrder, ExecutorAgrees, Runs
<1>6. WorkerAgrees /\ CallsAgree
  BY <1>1 DEF WorkerAgrees, WorkerActive, CallsAgree, NoWorker, Callers
<1>7. OutcomeAgrees /\ FailureIsExplained
  BY <1>1 DEF OutcomeAgrees, FailureIsExplained, Refreshers
<1> QED BY <1>4, <1>5, <1>6, <1>7 DEF IInv

------------------------------------------------------------------------------
(* Settled runs are settled again: nothing changes for executor and worker. *)
LEMMA SettledStep ==
  ASSUME IInv, UNCHANGED <<threadDays, executor, worker>>,
         \A i \in Runs : status'[i] = status[i] \/ {status[i], status'[i]} \subseteq Settled
  PROVE  InOrder' /\ ExecutorAgrees' /\ WorkerAgrees'
<1> USE DEF IInv
<1>0. executor.at \in Runs
  BY DEF TypeOK
<1>1. \A i \in Runs : /\ status[i] \in Settled <=> status'[i] \in Settled
                      /\ status[i] \in {"queued", "running"} => status'[i] = status[i]
  BY DEF Settled
<1>2. InOrder'
  BY <1>1 DEF InOrder
<1>3. ExecutorAgrees'
  BY <1>0, <1>1 DEF ExecutorAgrees
<1>4. WorkerAgrees'
  BY <1>0, <1>1 DEF WorkerAgrees, WorkerActive
<1> QED BY <1>2, <1>3, <1>4

(* The executor leaves a run that is settled, for the next or for good. *)
LEMMA NextRunStep ==
  ASSUME IInv, NextRun, ~executor.gaveUp, worker' = NoWorker,
         executor.pc \in {"awaiting", "analysing"},
         UNCHANGED <<threadDays, groupStatus, boundVars>>,
         status'[executor.at] \in Settled,
         status'[executor.at] = "published" => status[executor.at] = "published",
         \A i \in Runs \ {executor.at} : status'[i] = status[i]
  PROVE  /\ executor' \in ExecutorStates
         /\ refresh' \in [Refreshers -> {"none", "due"} \cup Statuses]
         /\ InOrder' /\ ExecutorAgrees' /\ WorkerAgrees' /\ OutcomeAgrees'
<1> USE RunGroupConstants
<1>0. /\ executor \in ExecutorStates
      /\ executor.at \in Nat /\ executor.at >= 1 /\ executor.at <= Count
      /\ Count \in Nat
      /\ refresh \in [Refreshers -> {"none", "due"} \cup Statuses]
  BY DEF IInv, TypeOK, ExecutorStates, Runs
<1>1. CASE executor.at < Count
  <2>1. executor.at + 1 \in Runs /\ executor.at + 1 # executor.at
    BY <1>0, <1>1 DEF Runs
  <2>2. /\ executor' \in ExecutorStates
        /\ executor'.pc = "marking"
        /\ executor'.at = executor.at + 1
        /\ ~executor'.gaveUp
        /\ UNCHANGED refresh
    <3>1. /\ executor' = [executor EXCEPT !.pc = "marking", !.at = executor.at + 1]
          /\ UNCHANGED refresh
      BY <1>0, <1>1 DEF NextRun, ExecutorStates
    <3> QED BY <1>0, <2>1, <3>1 DEF ExecutorStates, ExecutorSteps
  <2>3. InOrder'
    BY <1>0, <2>2 DEF IInv, InOrder, Runs
  <2>4. ExecutorAgrees'
    BY <1>0, <2>2, <2>1 DEF IInv, InOrder, ExecutorAgrees
  <2>5. WorkerAgrees'
    BY DEF WorkerAgrees, WorkerActive, NoWorker
  <2>6. OutcomeAgrees'
    BY <1>0, <2>2 DEF IInv, OutcomeAgrees, boundVars
  <2> QED BY <1>0, <2>2, <2>3, <2>4, <2>5, <2>6
<1>2. CASE executor.at >= Count
  <2>1. /\ executor' \in ExecutorStates
        /\ executor'.pc = "finishing"
        /\ executor'.at = executor.at
        /\ ~executor'.gaveUp
        /\ refresh' = [refresh EXCEPT !["executor"] = "due"]
    BY <1>0, <1>2 DEF NextRun, Finish, ExecutorStates, ExecutorSteps
  <2>2. \A i \in Runs : status'[i] \in Settled
    BY <1>0, <1>2 DEF IInv, InOrder, Runs
  <2>3. InOrder'
    BY <1>0, <2>1, <2>2 DEF IInv, InOrder
  <2>4. ExecutorAgrees' /\ WorkerAgrees'
    BY <2>1 DEF ExecutorAgrees, WorkerAgrees, WorkerActive, NoWorker
  <2>5. refresh'["executor"] = "due" /\ refresh'["publisher"] = refresh["publisher"]
    BY <1>0, <2>1 DEF Refreshers
  <2>6. OutcomeAgrees'
    BY <1>0, <2>1, <2>2, <2>5 DEF IInv, OutcomeAgrees, boundVars
  <2>7. refresh' \in [Refreshers -> {"none", "due"} \cup Statuses]
    BY <1>0, <2>1
  <2> QED BY <2>1, <2>3, <2>4, <2>6, <2>7
<1> QED BY <1>0, <1>1, <1>2

(* The executor ends although a statement failed: nothing is claimed. *)
LEMMA FailedEnd ==
  ASSUME IInv, DbFails, Finish(executor), ~executor.gaveUp, executor.pc \in {"marking", "aborting"},
         UNCHANGED <<status, threadDays, worker>>
  PROVE  /\ executor' \in ExecutorStates
         /\ refresh' \in [Refreshers -> {"none", "due"} \cup Statuses]
         /\ dbFailures' \in 0 .. MaxDbFailures
         /\ InOrder' /\ ExecutorAgrees' /\ WorkerAgrees' /\ OutcomeAgrees'
<1> USE RunGroupConstants
<1>0. /\ executor \in ExecutorStates
      /\ refresh \in [Refreshers -> {"none", "due"} \cup Statuses]
      /\ dbFailures \in 0 .. MaxDbFailures
  BY DEF IInv, TypeOK, ExecutorStates
<1>1. /\ executor' \in ExecutorStates
      /\ executor'.pc = "finishing"
      /\ executor'.at = executor.at
      /\ ~executor'.gaveUp
      /\ refresh' = [refresh EXCEPT !["executor"] = "due"]
  BY <1>0 DEF Finish, ExecutorStates, ExecutorSteps
<1>2. dbFailures' \in 0 .. MaxDbFailures /\ dbFailures' # 0 /\ UNCHANGED publishes
  BY <1>0 DEF DbFails
<1>3. refresh' \in [Refreshers -> {"none", "due"} \cup Statuses]
      /\ refresh'["publisher"] = refresh["publisher"]
  BY <1>0, <1>1 DEF Refreshers
<1>4. InOrder'
  BY <1>1 DEF IInv, InOrder
<1>5. ExecutorAgrees' /\ WorkerAgrees'
  BY <1>1 DEF IInv, ExecutorAgrees, WorkerAgrees, WorkerActive
<1>6. OutcomeAgrees'
  BY <1>1, <1>2, <1>3 DEF IInv, OutcomeAgrees
<1> QED BY <1>1, <1>2, <1>3, <1>4, <1>5, <1>6

(* The steps of the executor outside its analysis calls.                   *)
LEMMA ExecutorStep ==
  ASSUME IInv, MarkStarted \/ SpawnWorker \/ WorkerExited \/ Abort
  PROVE  IInv'
<1> USE RunGroupConstants DEF IInv
<1>0. /\ executor \in ExecutorStates
      /\ worker \in WorkerStates
      /\ executor.at \in Runs
      /\ status \in [Runs -> Statuses]
      /\ errorText \in [Runs -> BOOLEAN]
      /\ refresh \in [Refreshers -> {"none", "due"} \cup Statuses]
  BY DEF TypeOK, ExecutorStates, WorkerStates
<1>1. CASE MarkStarted
  <2>1. /\ executor.pc = "marking" /\ ~executor.gaveUp
        /\ UNCHANGED <<threadDays, mart, worker, call>>
        /\ call["executor"] = NoCall
    BY <1>1 DEF MarkStarted, InOrder, CallsAgree
  <2>2. CASE DbFails /\ Finish(executor) /\ UNCHANGED <<status, errorText>>
    <3>1. TypeOK'
      BY <1>1, <2>1, <2>2, FailedEnd DEF TypeOK, ExecutorStates, MarkStarted, DbFails
    <3>2. CallsAgree' /\ FailureIsExplained'
      BY <2>1, <2>2 DEF CallsAgree, FailureIsExplained
    <3> QED BY <2>1, <2>2, <3>1, <3>2, FailedEnd
  <2>3. CASE /\ SetRow(executor.at, "running", FALSE)
             /\ executor' = [executor EXCEPT !.pc = "spawning"]
             /\ UNCHANGED <<refresh, boundVars>>
    <3>1. /\ executor' \in ExecutorStates
          /\ executor'.pc = "spawning"
          /\ executor'.at = executor.at
          /\ executor'.gaveUp = executor.gaveUp
      BY <1>0, <2>3 DEF ExecutorStates, ExecutorSteps
    <3>2. /\ status' \in [Runs -> Statuses]
          /\ errorText' \in [Runs -> BOOLEAN]
          /\ status'[executor.at] = "running"
          /\ \A i \in Runs \ {executor.at} : status'[i] = status[i] /\ errorText'[i] = errorText[i]
      BY <1>0, <2>3 DEF SetRow, Statuses
    <3>3. status[executor.at] = "queued" /\ threadDays[executor.at] = 0 /\ worker = NoWorker
      BY <2>1 DEF ExecutorAgrees
    <3>4. TypeOK'
      BY <1>1, <2>1, <2>3, <3>1, <3>2 DEF TypeOK, ExecutorStates, MarkStarted, boundVars
    <3>5. InOrder'
      BY <1>0, <2>1, <3>1, <3>2, <3>3 DEF InOrder, Runs, Settled
    <3>6. ExecutorAgrees' /\ WorkerAgrees'
      BY <2>1, <3>1, <3>2, <3>3 DEF ExecutorAgrees, WorkerAgrees, WorkerActive, NoWorker
    <3>7. CallsAgree'
      BY <2>1, <3>2, <3>3 DEF CallsAgree, Settled
    <3>8. OutcomeAgrees'
      BY <2>3, <3>1, <3>2 DEF OutcomeAgrees, boundVars
    <3>9. FailureIsExplained'
      BY <3>2 DEF FailureIsExplained
    <3> QED BY <3>4, <3>5, <3>6, <3>7, <3>8, <3>9
  <2> QED BY <1>1, <2>2, <2>3 DEF MarkStarted
<1>2. CASE SpawnWorker
  <2>1. /\ executor.pc = "spawning" /\ ~executor.gaveUp
        /\ UNCHANGED <<rowVars, groupStatus, call, refresh, boundVars>>
        /\ status[executor.at] = "running" /\ threadDays[executor.at] = 0 /\ worker = NoWorker
        /\ call["executor"] = NoCall
    BY <1>2 DEF SpawnWorker, InOrder, ExecutorAgrees, CallsAgree
  <2>2. /\ executor' \in ExecutorStates
        /\ executor'.at = executor.at /\ ~executor'.gaveUp
        /\ \/ executor'.pc = "awaiting" /\ worker' = Launched(executor.at)
           \/ executor'.pc = "aborting" /\ worker' = NoWorker
    BY <1>0, <1>2, <2>1 DEF SpawnWorker, ExecutorStates, ExecutorSteps
  <2>3. /\ worker' \in WorkerStates
        /\ \/ executor'.pc = "awaiting" /\ worker'.pc = "starting" /\ worker'.run = executor.at
           \/ executor'.pc = "aborting" /\ worker' = NoWorker
    <3>1. /\ Launched(executor.at) \in WorkerStates
          /\ Launched(executor.at).pc = "starting"
          /\ Launched(executor.at).run = executor.at
      <4>1. executor.at \in 0 .. Count
        BY <1>0 DEF Runs
      <4> QED BY <4>1, WorkerRecords
    <3> QED BY <1>0, <2>1, <2>2, <3>1
  <2>4. TypeOK'
    BY <1>2, <2>1, <2>2, <2>3
       DEF TypeOK, ExecutorStates, WorkerStates, SpawnWorker, rowVars, boundVars
  <2>5. InOrder'
    BY <2>1, <2>2 DEF InOrder, rowVars
  <2>6. ExecutorAgrees' /\ WorkerAgrees'
    BY <2>1, <2>2, <2>3 DEF ExecutorAgrees, WorkerAgrees, WorkerActive, NoWorker, rowVars
  <2>7. CallsAgree' /\ FailureIsExplained'
    BY <2>1 DEF CallsAgree, FailureIsExplained, rowVars
  <2>8. OutcomeAgrees'
    BY <2>1, <2>2 DEF OutcomeAgrees, rowVars, boundVars
  <2> QED BY <2>4, <2>5, <2>6, <2>7, <2>8
<1>3. CASE WorkerExited
  <2>1. /\ executor.pc = "awaiting" /\ ~executor.gaveUp
        /\ worker.pc = "exited" /\ worker.run = executor.at
        /\ worker' = NoWorker
        /\ UNCHANGED <<rowVars, groupStatus, enabled, call, boundVars>>
        /\ call["executor"] = NoCall
    BY <1>3 DEF WorkerExited, WorkerOver, InOrder, WorkerAgrees, CallsAgree
  <2>2. worker' \in WorkerStates
    BY <2>1 DEF NoWorker, WorkerStates, WorkerSteps
  <2>3. CallsAgree' /\ FailureIsExplained'
    BY <2>1 DEF CallsAgree, FailureIsExplained, rowVars
  <2>4. worker.ok => status[executor.at] \in Settled
    BY <2>1 DEF WorkerAgrees
  <2>5. CASE worker.ok /\ ~executor.analyse
    <3>1. NextRun
      BY <1>3, <2>5 DEF WorkerExited, AfterExit
    <3>2. /\ executor' \in ExecutorStates
          /\ refresh' \in [Refreshers -> {"none", "due"} \cup Statuses]
          /\ InOrder' /\ ExecutorAgrees' /\ WorkerAgrees' /\ OutcomeAgrees'
      BY <2>1, <2>4, <2>5, <3>1, NextRunStep DEF rowVars
    <3>3. TypeOK'
      BY <2>1, <2>2, <3>2 DEF TypeOK, ExecutorStates, WorkerStates, rowVars, boundVars
    <3> QED BY <2>3, <3>2, <3>3
  <2>6. CASE ~(worker.ok /\ ~executor.analyse)
    <3>1. /\ executor' = [executor EXCEPT !.pc = IF worker.ok THEN "analysing" ELSE "aborting"]
          /\ UNCHANGED refresh
      BY <1>3, <2>6 DEF WorkerExited, AfterExit
    <3>2. /\ executor' \in ExecutorStates
          /\ executor'.at = executor.at /\ ~executor'.gaveUp
          /\ executor'.pc \in {"analysing", "aborting"}
          /\ executor'.pc = "analysing" => worker.ok
      BY <1>0, <2>1, <3>1 DEF ExecutorStates, ExecutorSteps
    <3>3. TypeOK'
      BY <2>1, <2>2, <3>1, <3>2 DEF TypeOK, ExecutorStates, WorkerStates, rowVars, boundVars
    <3>4. InOrder'
      BY <2>1, <3>2 DEF InOrder, rowVars
    <3>5. ExecutorAgrees' /\ WorkerAgrees'
      BY <2>1, <2>4, <3>2 DEF ExecutorAgrees, WorkerAgrees, WorkerActive, NoWorker, rowVars
    <3>6. OutcomeAgrees'
      BY <2>1, <3>1, <3>2 DEF OutcomeAgrees, rowVars, boundVars
    <3> QED BY <2>3, <3>3, <3>4, <3>5, <3>6
  <2> QED BY <2>5, <2>6
<1>4. CASE Abort
  <2>1. /\ executor.pc = "aborting" /\ ~executor.gaveUp
        /\ worker = NoWorker
        /\ UNCHANGED <<loadMetrics, threadDays, mart, groupStatus, enabled, worker, call>>
        /\ call["executor"] = NoCall
    BY <1>4 DEF Abort, InOrder, ExecutorAgrees, CallsAgree
  <2>2. CASE DbFails /\ Finish(executor) /\ UNCHANGED <<status, errorText>>
    <3>1. TypeOK'
      BY <2>1, <2>2, FailedEnd DEF TypeOK, ExecutorStates, DbFails
    <3>2. CallsAgree' /\ FailureIsExplained'
      BY <2>1, <2>2 DEF CallsAgree, FailureIsExplained
    <3> QED BY <2>1, <2>2, <3>1, <3>2, FailedEnd
  <2>3. CASE /\ status' = [i \in Runs |-> IF i \in Abandoned THEN "failed" ELSE status[i]]
             /\ errorText' = [i \in Runs |-> i \in Abandoned \/ errorText[i]]
             /\ Finish([executor EXCEPT !.gaveUp = TRUE])
             /\ UNCHANGED boundVars
    <3>1. /\ executor' \in ExecutorStates
          /\ executor'.pc = "finishing"
          /\ executor'.at = executor.at
          /\ executor'.gaveUp
          /\ refresh' = [refresh EXCEPT !["executor"] = "due"]
      BY <1>0, <2>3 DEF Finish, ExecutorStates, ExecutorSteps
    <3>2. \A i \in Runs \ Abandoned : status[i] \in Settled
      BY <1>0, <2>1 DEF InOrder, Abandoned, Runs
    <3>3. /\ status' \in [Runs -> Statuses]
          /\ errorText' \in [Runs -> BOOLEAN]
          /\ \A i \in Runs : /\ status'[i] \in Settled
                             /\ status'[i] = "failed" => i \in Abandoned \/ status[i] = "failed"
                             /\ status'[i] = "published" => status[i] = "published"
                             /\ i \in Abandoned \/ errorText[i] => errorText'[i]
      BY <1>0, <2>3, <3>2 DEF Statuses, Settled
    <3>4. /\ refresh' \in [Refreshers -> {"none", "due"} \cup Statuses]
          /\ refresh'["executor"] = "due"
          /\ refresh'["publisher"] = refresh["publisher"]
      BY <1>0, <3>1 DEF Refreshers
    <3>5. TypeOK'
      BY <2>1, <2>3, <3>1, <3>3, <3>4 DEF TypeOK, ExecutorStates, boundVars
    <3>6. InOrder'
      BY <3>1, <3>3 DEF InOrder
    <3>7. ExecutorAgrees' /\ WorkerAgrees'
      BY <2>1, <3>1 DEF ExecutorAgrees, WorkerAgrees, WorkerActive, NoWorker
    <3>8. CallsAgree'
      BY <2>1, <3>3 DEF CallsAgree
    <3>9. OutcomeAgrees'
      BY <2>3, <3>3, <3>4 DEF OutcomeAgrees, boundVars
    <3>10. FailureIsExplained'
      BY <3>3 DEF FailureIsExplained
    <3> QED BY <3>5, <3>6, <3>7, <3>8, <3>9, <3>10
  <2> QED BY <1>4, <2>2, <2>3 DEF Abort
<1> QED BY <1>1, <1>2, <1>3, <1>4

(* The steps of the worker.  Nobody else touches the run it works on.      *)
LEMMA WorkerStep == ASSUME IInv, WorkerNext \/ KillWorker PROVE IInv'
<1> USE RunGroupConstants DEF IInv
<1> DEFINE r == worker.run
<1>0. /\ worker \in WorkerStates
      /\ executor.at \in Runs
      /\ status \in [Runs -> Statuses]
      /\ errorText \in [Runs -> BOOLEAN]
      /\ loadMetrics \in [Runs -> {"none", "loaded", "failed"}]
      /\ threadDays \in [Runs -> 0 .. MaxThreadDays]
  BY DEF TypeOK, WorkerStates
<1>1. /\ worker.pc \in {"starting", "extracting", "loading", "failing"}
      /\ UNCHANGED <<mart, groupStatus, enabled, executor, call, refresh, dbFailures, publishes>>
  BY DEF WorkerNext, WorkerStart, Extract, PersistThreadDay, CompleteLoad, RecordFailure,
     KillWorker, WorkerActive, workerFrame, boundVars
<1>2. /\ r = executor.at /\ r \in Runs
      /\ status[r] = "running"
      /\ ~executor.gaveUp
      /\ executor.pc \in {"awaiting", "crashed"}
  BY <1>0, <1>1 DEF WorkerAgrees, WorkerActive, ExecutorAgrees, InOrder, NoWorker, Settled
(* Whatever the step is: one that writes the rows and the worker like this  *)
(* keeps the invariant.                                                     *)
<1>3. ASSUME worker' \in WorkerStates, worker'.pc # "none", worker'.run = r,
             status' \in [Runs -> Statuses], errorText' \in [Runs -> BOOLEAN],
             loadMetrics' \in [Runs -> {"none", "loaded", "failed"}],
             threadDays' \in [Runs -> 0 .. MaxThreadDays],
             \A i \in Runs \ {r} : /\ status'[i] = status[i]
                                   /\ errorText'[i] = errorText[i]
                                   /\ threadDays'[i] = threadDays[i],
             status'[r] \in {"running", "loaded", "failed"},
             status'[r] = "failed" => errorText'[r],
             WorkerActive' => status'[r] = "running",
             worker'.pc \in {"starting", "extracting"} => threadDays'[r] = 0,
             worker'.pc = "loading" => threadDays'[r] + worker'.todo <= MaxThreadDays,
             worker'.pc = "exited" /\ worker'.ok => status'[r] \in Settled
      PROVE  IInv'
  <2>1. TypeOK'
    BY <1>1, <1>3 DEF TypeOK, WorkerStates
  <2>2. InOrder'
    <3>1. \A i \in Runs : i < executor.at \/ i > executor.at => i # r
      BY <1>0, <1>2 DEF Runs
    <3> QED BY <1>1, <1>2, <1>3, <3>1 DEF InOrder
  <2>3. ExecutorAgrees'
    BY <1>1, <1>2, <1>3 DEF ExecutorAgrees
  <2>4. WorkerAgrees'
    BY <1>1, <1>2, <1>3 DEF WorkerAgrees
  <2>5. CallsAgree'
    BY <1>1, <1>2, <1>3 DEF CallsAgree, Settled
  <2>6. OutcomeAgrees'
    BY <1>1, <1>2, <1>3 DEF OutcomeAgrees, Settled
  <2>7. FailureIsExplained'
    BY <1>1, <1>2, <1>3 DEF FailureIsExplained
  <2> QED BY <2>1, <2>2, <2>3, <2>4, <2>5, <2>6, <2>7
<1>4. \A ok \in BOOLEAN : /\ Exited(worker, ok) \in WorkerStates
                          /\ Exited(worker, ok).pc = "exited"
                          /\ Exited(worker, ok).run = r
                          /\ Exited(worker, ok).ok = ok
  BY <1>0, WorkerRecords
<1>5. CASE WorkerStart
  <2>1. UNCHANGED <<loadMetrics, threadDays>> /\ threadDays[r] = 0
    BY <1>5 DEF WorkerStart, WorkerAgrees
  <2>2. CASE worker' = Exited(worker, FALSE) /\ UNCHANGED <<status, errorText>>
    BY <1>0, <1>2, <1>3, <1>4, <2>1, <2>2 DEF WorkerActive
  <2>3. CASE SetRow(r, "running", FALSE) /\ worker' = [worker EXCEPT !.pc = "extracting"]
    <3>1. worker' \in WorkerStates /\ worker'.pc = "extracting" /\ worker'.run = r
      BY <1>0, <2>3 DEF WorkerStates, WorkerSteps
    <3>2. /\ status' \in [Runs -> Statuses] /\ errorText' \in [Runs -> BOOLEAN]
          /\ status'[r] = "running"
          /\ \A i \in Runs \ {r} : status'[i] = status[i] /\ errorText'[i] = errorText[i]
      BY <1>0, <1>2, <2>3 DEF SetRow, Statuses
    <3> QED BY <1>0, <1>3, <2>1, <3>1, <3>2
  <2> QED BY <1>5, <2>2, <2>3 DEF WorkerStart
<1>6. CASE Extract
  <2>1. UNCHANGED <<status, errorText, loadMetrics, threadDays>> /\ threadDays[r] = 0
    BY <1>6 DEF Extract, WorkerAgrees
  <2>2. CASE worker' = [worker EXCEPT !.pc = "failing"]
    <3>1. worker' \in WorkerStates /\ worker'.pc = "failing" /\ worker'.run = r
      BY <1>0, <2>2 DEF WorkerStates, WorkerSteps
    <3> QED BY <1>0, <1>2, <1>3, <2>1, <3>1
  <2>3. ASSUME NEW built \in 0 .. MaxThreadDays,
               worker' = [worker EXCEPT !.pc = "loading", !.todo = built]
        PROVE  IInv'
    <3>1. /\ worker' \in WorkerStates /\ worker'.pc = "loading" /\ worker'.run = r
          /\ worker'.todo = built
      BY <1>0, <2>3 DEF WorkerStates, WorkerSteps
    <3> QED BY <1>0, <1>2, <1>3, <2>1, <3>1
  <2> QED BY <1>6, <2>2, <2>3 DEF Extract
<1>7. CASE PersistThreadDay
  <2>1. /\ UNCHANGED <<status, errorText, loadMetrics>>
        /\ worker.pc = "loading"
        /\ worker.todo \in 1 .. MaxThreadDays
        /\ threadDays[r] \in 0 .. MaxThreadDays
        /\ threadDays[r] + worker.todo <= MaxThreadDays
    BY <1>0, <1>2, <1>7 DEF PersistThreadDay, WorkerAgrees, WorkerStates
  <2>2. CASE /\ threadDays' = [threadDays EXCEPT ![r] = @ + 1]
             /\ worker' = [worker EXCEPT !.todo = @ - 1]
    <3>1. /\ worker' \in WorkerStates /\ worker'.pc = "loading" /\ worker'.run = r
          /\ worker'.todo = worker.todo - 1
      BY <1>0, <2>1, <2>2 DEF WorkerStates
    <3>2. /\ threadDays' \in [Runs -> 0 .. MaxThreadDays]
          /\ threadDays'[r] = threadDays[r] + 1
          /\ \A i \in Runs \ {r} : threadDays'[i] = threadDays[i]
      BY <1>0, <1>2, <2>1, <2>2
    <3> QED BY <1>0, <1>2, <1>3, <2>1, <3>1, <3>2
  <2>3. CASE worker' = [worker EXCEPT !.todo = @ - 1, !.lost = TRUE] /\ UNCHANGED threadDays
    <3>1. /\ worker' \in WorkerStates /\ worker'.pc = "loading" /\ worker'.run = r
          /\ worker'.todo = worker.todo - 1
      <4>1. worker.todo - 1 \in 0 .. MaxThreadDays
        BY <2>1
      <4> QED BY <1>0, <2>1, <2>3, <4>1 DEF WorkerStates
    <3> QED BY <1>0, <1>2, <1>3, <2>1, <2>3, <3>1
  <2> QED BY <1>7, <2>2, <2>3 DEF PersistThreadDay
<1>8. CASE CompleteLoad
  <2>1. UNCHANGED threadDays
    BY <1>8 DEF CompleteLoad
  <2>2. CASE /\ SetRow(r, LoadOutcome, LoadErrors)
             /\ loadMetrics' = [loadMetrics EXCEPT ![r] = LoadOutcome]
             /\ worker' = Exited(worker, TRUE)
    <3>1. /\ LoadOutcome \in {"loaded", "failed"}
          /\ LoadOutcome = "failed" => LoadErrors
      BY DEF LoadOutcome, LoadErrors
    <3>2. LoadErrors \in BOOLEAN
      BY <1>0 DEF LoadErrors, WorkerStates
    <3>3. /\ status' \in [Runs -> Statuses]
          /\ loadMetrics' \in [Runs -> {"none", "loaded", "failed"}]
          /\ status'[r] = LoadOutcome
          /\ \A i \in Runs \ {r} : status'[i] = status[i]
      BY <1>0, <1>2, <2>2, <3>1 DEF SetRow, Statuses, Settled
    <3>4. /\ errorText' \in [Runs -> BOOLEAN]
          /\ errorText'[r] = LoadErrors
          /\ \A i \in Runs \ {r} : errorText'[i] = errorText[i]
      BY <1>0, <1>2, <2>2, <3>2 DEF SetRow
    <3>5. status'[r] \in {"loaded", "failed"} /\ (status'[r] = "failed" => errorText'[r])
      BY <3>1, <3>3, <3>4
    <3> QED BY <1>0, <1>3, <1>4, <2>1, <2>2, <3>3, <3>4, <3>5 DEF WorkerActive, Settled
  <2>3. CASE /\ worker' = [worker EXCEPT !.pc = "failing"]
             /\ UNCHANGED <<status, errorText, loadMetrics>>
    <3>1. worker' \in WorkerStates /\ worker'.pc = "failing" /\ worker'.run = r
      BY <1>0, <2>3 DEF WorkerStates, WorkerSteps
    <3> QED BY <1>0, <1>2, <1>3, <2>1, <2>3, <3>1
  <2> QED BY <1>8, <2>2, <2>3 DEF CompleteLoad
<1>9. CASE RecordFailure
  <2>1. UNCHANGED threadDays /\ worker' = Exited(worker, FALSE)
    BY <1>9 DEF RecordFailure
  <2>2. CASE UNCHANGED <<status, errorText, loadMetrics>>
    BY <1>0, <1>2, <1>3, <1>4, <2>1, <2>2 DEF WorkerActive
  <2>3. CASE SetRow(r, "failed", TRUE) /\ loadMetrics' = [loadMetrics EXCEPT ![r] = "failed"]
    <3>1. /\ status' \in [Runs -> Statuses] /\ errorText' \in [Runs -> BOOLEAN]
          /\ loadMetrics' \in [Runs -> {"none", "loaded", "failed"}]
          /\ status'[r] = "failed" /\ errorText'[r]
          /\ \A i \in Runs \ {r} : status'[i] = status[i] /\ errorText'[i] = errorText[i]
      BY <1>0, <1>2, <2>3 DEF SetRow, Statuses, Settled
    <3> QED BY <1>0, <1>3, <1>4, <2>1, <3>1 DEF WorkerActive
  <2> QED BY <1>9, <2>2, <2>3 DEF RecordFailure
<1>10. CASE KillWorker
  <2>1. worker' = Exited(worker, FALSE) /\ UNCHANGED <<status, errorText, loadMetrics, threadDays>>
    BY <1>10 DEF KillWorker
  <2> QED BY <1>0, <1>2, <1>3, <1>4, <2>1 DEF WorkerActive
<1> QED BY <1>5, <1>6, <1>7, <1>8, <1>9, <1>10 DEF WorkerNext

(* The steps of an analysis call, the executor's or the endpoint's.  Such a *)
(* call only knows settled runs and leaves them settled.                   *)
LEMMA CallStep ==
  ASSUME IInv, NEW c \in Callers,
         (\E i \in Runs : StartAnalysis(c, i)) \/ EndAnalysis(c) \/ MaterializeRun(c)
  PROVE  IInv'
<1> USE RunGroupConstants DEF IInv
<1>0. /\ executor \in ExecutorStates
      /\ executor.at \in Runs
      /\ status \in [Runs -> Statuses]
      /\ errorText \in [Runs -> BOOLEAN]
      /\ mart \in [Runs -> BOOLEAN]
      /\ call \in [Callers -> CallStates]
      /\ NoCall \in CallStates
      /\ "executor" \in Callers
  BY DEF TypeOK, ExecutorStates, CallStates, NoCall, Callers
<1>1. UNCHANGED <<loadMetrics, threadDays, groupStatus, enabled, worker, dbFailures, publishes>>
  BY DEF StartAnalysis, EndAnalysis, MaterializeRun, callFrame, boundVars
(* What a step may do to the rows and to the records of the calls.         *)
<1> DEFINE Rows ==
             /\ status' \in [Runs -> Statuses]
             /\ errorText' \in [Runs -> BOOLEAN]
             /\ mart' \in [Runs -> BOOLEAN]
             /\ \A i \in Runs :
                  /\ \/ status'[i] = status[i]
                     \/ {status[i], status'[i]} \subseteq {"loaded", "failed", "published"}
                  /\ status'[i] = "published" => status[i] = "published"
                  /\ status'[i] = "failed" => errorText'[i]
                  /\ mart'[i] => status[i] \in Settled
<1>2. ASSUME Rows, UNCHANGED <<executor, refresh>>,
             call' \in [Callers -> CallStates],
             \A x \in Callers : call'[x] # NoCall =>
               call'[x].run \in Runs /\ status[call'[x].run] \in Settled,
             call'["executor"] # NoCall =>
               executor.pc = "analysing" /\ call'["executor"].run = executor.at
      PROVE  IInv'
  <2>1. InOrder' /\ ExecutorAgrees' /\ WorkerAgrees'
    BY <1>1, <1>2, SettledStep DEF Settled
  <2>2. TypeOK'
    BY <1>1, <1>2 DEF TypeOK, CallStates
  <2>3. CallsAgree'
    BY <1>2 DEF CallsAgree, Settled
  <2>4. OutcomeAgrees'
    BY <1>1, <1>2 DEF OutcomeAgrees, Settled
  <2>5. FailureIsExplained'
    BY <1>2 DEF FailureIsExplained
  <2> QED BY <2>1, <2>2, <2>3, <2>4, <2>5
(* The call is over, and with it the executor's step if it was its own.    *)
<1>3. ASSUME call' = [call EXCEPT ![c] = NoCall]
      PROVE  /\ call' \in [Callers -> CallStates]
             /\ \A x \in Callers : call'[x] # NoCall =>
                  call'[x].run \in Runs /\ status[call'[x].run] \in Settled
             /\ call'["executor"] # NoCall => c # "executor" /\ call'["executor"] = call["executor"]
  BY <1>0, <1>3 DEF CallsAgree
<1>4. ASSUME Rows, Throws(c), c = "executor" => executor.pc = "analysing"
      PROVE  IInv'
  <2>1. CASE c # "executor"
    BY <1>2, <1>3, <1>4, <2>1 DEF Throws, CallsAgree
  <2>2. CASE c = "executor"
    <3>1. /\ call'["executor"] = NoCall
          /\ call' \in [Callers -> CallStates]
          /\ \A x \in Callers : call'[x] # NoCall =>
               call'[x].run \in Runs /\ status[call'[x].run] \in Settled
      BY <1>0, <1>3, <1>4, <2>2 DEF Throws
    <3>2. /\ executor' \in ExecutorStates
          /\ executor'.pc = "aborting"
          /\ executor'.at = executor.at /\ executor'.gaveUp = executor.gaveUp
          /\ UNCHANGED refresh
          /\ executor.pc = "analysing"
      BY <1>0, <1>4, <2>2 DEF Throws, ExecutorStates, ExecutorSteps
    <3>3. ~executor.gaveUp /\ worker = NoWorker /\ worker' = NoWorker
      BY <1>1, <3>2 DEF InOrder, ExecutorAgrees
    <3>4. TypeOK'
      BY <1>1, <1>4, <3>1, <3>2 DEF TypeOK, CallStates, ExecutorStates
    <3>5. InOrder'
      BY <1>1, <1>4, <3>2, <3>3 DEF InOrder, Settled
    <3>6. ExecutorAgrees' /\ WorkerAgrees'
      BY <3>2, <3>3 DEF ExecutorAgrees, WorkerAgrees, WorkerActive, NoWorker
    <3>7. CallsAgree'
      BY <1>4, <3>1 DEF CallsAgree, Settled
    <3>8. OutcomeAgrees'
      BY <1>1, <1>4, <3>2 DEF OutcomeAgrees, Settled
    <3>9. FailureIsExplained'
      BY <1>4 DEF FailureIsExplained
    <3> QED BY <3>4, <3>5, <3>6, <3>7, <3>8, <3>9
  <2> QED BY <2>1, <2>2
<1>5. ASSUME Rows, Returns(c), call[c] # NoCall,
             \A i \in Runs \ {call[c].run} : status'[i] = status[i]
      PROVE  IInv'
  <2>1. CASE c # "executor"
    BY <1>2, <1>3, <1>5, <2>1 DEF Returns, CallsAgree
  <2>2. CASE c = "executor"
    <3>1. /\ call'["executor"] = NoCall
          /\ call' \in [Callers -> CallStates]
          /\ \A x \in Callers : call'[x] # NoCall =>
               call'[x].run \in Runs /\ status[call'[x].run] \in Settled
      BY <1>0, <1>3, <1>5, <2>2 DEF Returns
    <3>2. executor.pc = "analysing" /\ call[c].run = executor.at
      BY <1>5, <2>2 DEF CallsAgree
    <3>3. ~executor.gaveUp /\ worker' = NoWorker /\ status[executor.at] \in Settled
      BY <1>1, <3>2 DEF InOrder, ExecutorAgrees
    <3>4. NextRun /\ UNCHANGED <<threadDays, groupStatus, boundVars>>
      BY <1>1, <1>5, <2>2 DEF Returns, boundVars
    <3>5. status'[executor.at] \in Settled
      BY <1>0, <1>5, <3>3 DEF Settled
    <3>6. /\ executor' \in ExecutorStates
          /\ refresh' \in [Refreshers -> {"none", "due"} \cup Statuses]
          /\ InOrder' /\ ExecutorAgrees' /\ WorkerAgrees' /\ OutcomeAgrees'
      BY <1>0, <1>5, <3>2, <3>3, <3>4, <3>5, NextRunStep
    <3>7. TypeOK'
      BY <1>1, <1>5, <3>1, <3>6 DEF TypeOK, CallStates, ExecutorStates
    <3>8. CallsAgree'
      BY <1>5, <3>1 DEF CallsAgree, Settled
    <3>9. FailureIsExplained'
      BY <1>5 DEF FailureIsExplained
    <3> QED BY <3>6, <3>7, <3>8, <3>9
  <2> QED BY <2>1, <2>2
<1>6. UNCHANGED <<status, errorText, mart>> => Rows
  BY <1>0 DEF CallsAgree, FailureIsExplained
<1>7. ASSUME NEW i \in Runs, StartAnalysis(c, i) PROVE IInv'
  <2>1. Rows /\ (c = "executor" => executor.pc = "analysing" /\ executor.at = i)
    BY <1>6, <1>7 DEF StartAnalysis
  <2> HIDE DEF Rows
  <2>2. CASE MayAnalyse(i)
    <3>1. /\ call' = [call EXCEPT ![c] = [pc |-> "analysing", run |-> i]]
          /\ UNCHANGED <<executor, refresh>>
          /\ status[i] \in Settled
      BY <1>7, <2>2 DEF StartAnalysis, MayAnalyse, Settled
    <3>2. [pc |-> "analysing", run |-> i] \in CallStates
      BY DEF CallStates, Runs
    <3>3. /\ call' \in [Callers -> CallStates]
          /\ \A x \in Callers :
               call'[x] = IF x = c THEN [pc |-> "analysing", run |-> i] ELSE call[x]
      BY <1>0, <3>1, <3>2
    <3>4. \A x \in Callers : call'[x] # NoCall =>
            call'[x].run \in Runs /\ status[call'[x].run] \in Settled
      BY <3>1, <3>3 DEF CallsAgree
    <3>5. call'["executor"] # NoCall =>
            executor.pc = "analysing" /\ call'["executor"].run = executor.at
      BY <1>0, <2>1, <3>3 DEF CallsAgree
    <3> QED BY <1>2, <2>1, <3>1, <3>3, <3>4, <3>5
  <2>3. CASE ~MayAnalyse(i)
    BY <1>4, <1>7, <2>1, <2>3 DEF StartAnalysis
  <2> QED BY <2>2, <2>3
<1>8. ASSUME EndAnalysis(c) \/ MaterializeRun(c)
      PROVE  /\ call[c] # NoCall
             /\ call[c].run \in Runs /\ status[call[c].run] \in Settled
             /\ c = "executor" => executor.pc = "analysing" /\ call[c].run = executor.at
  <2>1. call[c].pc # "idle"
    BY <1>8 DEF EndAnalysis, MaterializeRun
  <2>2. call[c] # NoCall
    BY <2>1 DEF NoCall
  <2> QED BY <2>2 DEF CallsAgree
<1>9. CASE EndAnalysis(c)
  <2> DEFINE i == call[c].run
  <2>1. UNCHANGED mart
    BY <1>9 DEF EndAnalysis
  <2>2. ASSUME NEW s \in {"loaded", "failed"}, NEW e \in BOOLEAN, SetRow(i, s, e),
               s = "failed" => e
        PROVE  Rows /\ \A j \in Runs \ {i} : status'[j] = status[j]
    <3>1. /\ status' \in [Runs -> Statuses]
          /\ status'[i] = s
          /\ \A j \in Runs \ {i} : status'[j] = status[j]
      BY <1>0, <1>8, <1>9, <2>2 DEF SetRow, Statuses, Settled
    <3>2. /\ errorText' \in [Runs -> BOOLEAN]
          /\ errorText'[i] = e
          /\ \A j \in Runs \ {i} : errorText'[j] = errorText[j]
      BY <1>0, <1>8, <1>9, <2>2 DEF SetRow
    <3>3. \A j \in Runs : status'[j] = "failed" => errorText'[j]
      BY <2>2, <3>1, <3>2 DEF FailureIsExplained
    <3> QED BY <1>0, <1>8, <1>9, <2>1, <3>1, <3>2, <3>3 DEF Settled, CallsAgree
  <2> HIDE DEF Rows
  <2>3. CASE SetRow(i, "failed", TRUE) /\ Returns(c)
    BY <1>5, <1>8, <1>9, <2>2, <2>3
  <2>4. CASE /\ SetRow(i, "loaded", FALSE)
             /\ call' = [call EXCEPT ![c].pc = "materializing"]
             /\ UNCHANGED <<executor, refresh>>
    <3>1. Rows
      BY <2>2, <2>4
    <3>2. /\ call' \in [Callers -> CallStates]
          /\ \A x \in Callers : call'[x].run = call[x].run
          /\ \A x \in Callers : call'[x] # NoCall => call[x] # NoCall
      BY <1>0, <1>8, <1>9, <2>4 DEF CallStates
    <3> QED BY <1>0, <1>2, <2>4, <3>1, <3>2 DEF CallsAgree
  <2>5. CASE Throws(c) /\ UNCHANGED <<status, errorText>>
    BY <1>4, <1>6, <1>8, <1>9, <2>1, <2>5
  <2> QED BY <1>9, <2>3, <2>4, <2>5 DEF EndAnalysis
<1>10. CASE MaterializeRun(c)
  <2>1. UNCHANGED <<status, errorText>>
    BY <1>10 DEF MaterializeRun
  <2>2. CASE Throws(c) /\ UNCHANGED mart
    BY <1>4, <1>6, <1>8, <1>10, <2>1, <2>2
  <2>3. CASE mart' = [mart EXCEPT ![call[c].run] = threadDays[call[c].run] # 0] /\ Returns(c)
    <3>1. mart' \in [Runs -> BOOLEAN] /\ \A j \in Runs : mart'[j] => mart[j] \/ j = call[c].run
      BY <1>0, <1>8, <1>10, <2>3
    <3>2. Rows
      BY <1>0, <1>8, <1>10, <2>1, <3>1 DEF CallsAgree, FailureIsExplained
    <3> HIDE DEF Rows
    <3> QED BY <1>5, <1>8, <1>10, <2>1, <2>3, <3>2
  <2> QED BY <1>10, <2>2, <2>3 DEF MaterializeRun
<1> QED BY <1>7, <1>9, <1>10

(* The steps of everybody else. *)
LEMMA OtherStep ==
  ASSUME IInv, \/ ToggleAnalysis \/ Crash
               \/ \E i \in Runs : PublishRun(i)
               \/ \E x \in Refreshers : ReadGroup(x) \/ WriteGroup(x)
  PROVE  IInv'
<1> USE RunGroupConstants DEF IInv
<1>0. /\ executor \in ExecutorStates
      /\ status \in [Runs -> Statuses]
      /\ call \in [Callers -> CallStates]
      /\ NoCall \in CallStates
      /\ refresh \in [Refreshers -> {"none", "due"} \cup Statuses]
      /\ dbFailures \in 0 .. MaxDbFailures
      /\ publishes \in 0 .. MaxPublishes
  BY DEF TypeOK, ExecutorStates, CallStates, NoCall
<1>1. CASE ToggleAnalysis
  <2>1. TypeOK'
    BY <1>1 DEF TypeOK, ToggleAnalysis, rowVars, boundVars
  <2>2. InOrder' /\ ExecutorAgrees' /\ WorkerAgrees'
    BY <1>1, SettledStep DEF ToggleAnalysis, rowVars
  <2>3. CallsAgree' /\ OutcomeAgrees' /\ FailureIsExplained'
    BY <1>1 DEF CallsAgree, OutcomeAgrees, FailureIsExplained, ToggleAnalysis, rowVars, boundVars
  <2> QED BY <2>1, <2>2, <2>3
<1>2. CASE Crash
  <2>1. /\ executor' \in ExecutorStates
        /\ executor'.pc = "crashed"
        /\ executor'.at = executor.at /\ executor'.gaveUp = executor.gaveUp
        /\ UNCHANGED <<rowVars, groupStatus, enabled, worker, boundVars>>
    BY <1>0, <1>2 DEF Crash, ExecutorStates, ExecutorSteps
  <2>2. /\ call' = [c \in Callers |-> NoCall]
        /\ refresh' = [x \in Refreshers |-> "none"]
    BY <1>2 DEF Crash
  <2>3. TypeOK'
    BY <1>0, <2>1, <2>2 DEF TypeOK, ExecutorStates, CallStates, rowVars, boundVars
  <2>4. InOrder' /\ ExecutorAgrees' /\ WorkerAgrees'
    BY <2>1 DEF InOrder, ExecutorAgrees, WorkerAgrees, WorkerActive, rowVars
  <2>5. CallsAgree'
    BY <2>1, <2>2 DEF CallsAgree, Callers, rowVars
  <2>6. OutcomeAgrees' /\ FailureIsExplained'
    BY <2>1, <2>2 DEF OutcomeAgrees, FailureIsExplained, Refreshers, rowVars, boundVars
  <2> QED BY <2>3, <2>4, <2>5, <2>6
<1>3. ASSUME NEW i \in Runs, PublishRun(i) PROVE IInv'
  <2>1. /\ status[i] \in {"loaded", "published"}
        /\ status' = [status EXCEPT ![i] = "published"]
        /\ refresh' = [refresh EXCEPT !["publisher"] = "due"]
        /\ publishes' = publishes + 1 /\ publishes < MaxPublishes
        /\ UNCHANGED <<errorText, loadMetrics, threadDays, mart, groupStatus, enabled, executor,
                       worker, call, dbFailures>>
    BY <1>3 DEF PublishRun
  <2>2. /\ status' \in [Runs -> Statuses]
        /\ status'[i] = "published"
        /\ \A j \in Runs \ {i} : status'[j] = status[j]
    BY <1>0, <2>1 DEF Statuses, Settled
  <2>3. publishes' \in 0 .. MaxPublishes /\ publishes' # 0
    BY <1>0, <2>1
  <2>4. refresh' \in [Refreshers -> {"none", "due"} \cup Statuses]
    BY <1>0, <2>1
  <2>5. TypeOK'
    BY <2>1, <2>2, <2>3, <2>4 DEF TypeOK
  <2>6. InOrder' /\ ExecutorAgrees' /\ WorkerAgrees'
    BY <2>1, <2>2, SettledStep DEF Settled
  <2>7. CallsAgree'
    BY <2>1, <2>2 DEF CallsAgree, Settled
  <2>8. OutcomeAgrees'
    BY <2>1, <2>2, <2>3 DEF OutcomeAgrees, Settled
  <2>9. FailureIsExplained'
    BY <2>1, <2>2 DEF FailureIsExplained
  <2> QED BY <2>5, <2>6, <2>7, <2>8, <2>9
<1>4. ASSUME NEW x \in Refreshers, ReadGroup(x) PROVE IInv'
  <2>1. /\ refresh[x] = "due"
        /\ refresh' = [refresh EXCEPT ![x] = DerivedStatus]
        /\ UNCHANGED <<rowVars, groupStatus, enabled, executor, worker, call, boundVars>>
    BY <1>4 DEF ReadGroup
  <2>2. DerivedStatus \in Statuses
    BY DEF DerivedStatus, Statuses, Settled
  <2>3. ASSUME \A i \in Runs : status[i] \in {"loaded", "failed"}
        PROVE  DerivedStatus \in {"loaded", "failed"}
    <3> DEFINE seen == {status[i] : i \in Runs}
    <3>1. seen \subseteq {"loaded", "failed"} /\ status[1] \in seen
      BY <2>3 DEF Runs
    <3>2. CASE "failed" \in seen
      BY <3>2 DEF DerivedStatus
    <3>3. CASE "failed" \notin seen
      <4>1. seen = {"loaded"}
        BY <3>1, <3>3
      <4>2. /\ ~("failed" \in seen) /\ ~("running" \in seen) /\ seen # {"published"}
            /\ seen \subseteq {"loaded", "published"} /\ "loaded" \in seen
        BY <4>1
      <4> HIDE DEF seen
      <4>3. DerivedStatus = CASE "failed" \in seen -> "failed"
                              [] "failed" \notin seen /\ "running" \in seen -> "running"
                              [] seen = {"published"} -> "published"
                              [] seen \subseteq {"loaded", "published"} /\ "loaded" \in seen
                                 -> "loaded"
                              [] OTHER -> "queued"
        BY DEF DerivedStatus, seen
      <4> QED BY <4>2, <4>3
    <3> QED BY <3>2, <3>3
  <2>4. /\ refresh' \in [Refreshers -> {"none", "due"} \cup Statuses]
        /\ \A y \in Refreshers : refresh'[y] = IF y = x THEN DerivedStatus ELSE refresh[y]
    BY <1>0, <2>1, <2>2
  <2>5. TypeOK'
    BY <2>1, <2>4 DEF TypeOK, rowVars, boundVars
  <2>6. InOrder' /\ ExecutorAgrees' /\ WorkerAgrees'
    BY <2>1, SettledStep DEF rowVars
  <2>7. CallsAgree' /\ FailureIsExplained'
    BY <2>1 DEF CallsAgree, FailureIsExplained, rowVars
  <2>8. OutcomeAgrees'
    <3>1. "executor" \in Refreshers /\ "publisher" \in Refreshers
      BY DEF Refreshers
    <3>2. publishes = 0 => x # "publisher"
      BY <2>1 DEF OutcomeAgrees
    <3>3. executor.pc = "finishing" /\ dbFailures = 0 /\ publishes = 0 /\ x = "executor" =>
            DerivedStatus \in {"loaded", "failed"}
      BY <2>3 DEF OutcomeAgrees, Settled
    <3> QED BY <2>1, <2>4, <3>1, <3>2, <3>3 DEF OutcomeAgrees, rowVars, boundVars
  <2> QED BY <2>5, <2>6, <2>7, <2>8
<1>5. ASSUME NEW x \in Refreshers, WriteGroup(x) PROVE IInv'
  <2>1. /\ refresh[x] \in Statuses
        /\ refresh' = [refresh EXCEPT ![x] = "none"]
        /\ \/ groupStatus' = refresh[x] /\ UNCHANGED boundVars
           \/ DbFails /\ UNCHANGED groupStatus
        /\ UNCHANGED <<rowVars, enabled, executor, worker, call>>
    BY <1>5 DEF WriteGroup
  <2>2. /\ dbFailures' \in 0 .. MaxDbFailures
        /\ publishes' = publishes
        /\ dbFailures' = 0 => dbFailures = 0 /\ groupStatus' = refresh[x]
    BY <1>0, <2>1 DEF DbFails, boundVars
  <2>3. /\ refresh' \in [Refreshers -> {"none", "due"} \cup Statuses]
        /\ \A y \in Refreshers : refresh'[y] = IF y = x THEN "none" ELSE refresh[y]
    BY <1>0, <2>1
  <2>4. TypeOK'
    BY <1>0, <2>1, <2>2, <2>3 DEF TypeOK, rowVars
  <2>5. InOrder' /\ ExecutorAgrees' /\ WorkerAgrees'
    BY <2>1, SettledStep DEF rowVars
  <2>6. CallsAgree' /\ FailureIsExplained'
    BY <2>1 DEF CallsAgree, FailureIsExplained, rowVars
  <2>7. OutcomeAgrees'
    <3>1. "executor" \in Refreshers /\ "publisher" \in Refreshers /\ x \in {"executor", "publisher"}
      BY DEF Refreshers
    <3>2. publishes = 0 => x = "executor"
      BY <2>1, <3>1 DEF OutcomeAgrees, Statuses, Settled
    <3>3. refresh[x] \notin {"none", "due"}
      BY <2>1 DEF Statuses, Settled
    <3> QED BY <2>1, <2>2, <2>3, <3>1, <3>2, <3>3 DEF OutcomeAgrees, rowVars
  <2> QED BY <2>4, <2>5, <2>6, <2>7
<1> QED BY <1>1, <1>2, <1>3, <1>4, <1>5

(* Every step keeps the invariant.                                         *)
LEMMA IInvStep == IInv /\ [Next]_vars => IInv'
<1> SUFFICES ASSUME IInv, [Next]_vars PROVE IInv'
  OBVIOUS
<1>1. CASE ExecutorNext
  <2>1. "executor" \in Callers /\ "executor" \in Refreshers
    BY DEF Callers, Refreshers
  <2>2. executor.at \in Runs
    BY DEF IInv, TypeOK
  <2> QED BY <1>1, <2>1, <2>2, ExecutorStep, CallStep, OtherStep DEF ExecutorNext
<1>2. CASE WorkerNext
  BY <1>2, WorkerStep
<1>3. CASE OthersNext
  <2>1. ApiCallers \subseteq Callers /\ "publisher" \in Refreshers
    BY DEF Callers, Refreshers
  <2> QED BY <1>3, <2>1, WorkerStep, CallStep, OtherStep DEF OthersNext
<1>4. CASE UNCHANGED vars
  <2>1. UNCHANGED <<rowVars, groupStatus, enabled, executor, worker, call, refresh, boundVars>>
    BY <1>4 DEF vars
  <2> QED BY <2>1 DEF rowVars, boundVars, IInv, TypeOK, InOrder, ExecutorAgrees, WorkerAgrees,
                     WorkerActive, CallsAgree, OutcomeAgrees, FailureIsExplained
<1> QED BY <1>1, <1>2, <1>3, <1>4 DEF Next

------------------------------------------------------------------------------
(* Rows, processes and calls always hold values the code can give them: no *)
(* more thread days than were built, no step of a run beyond the last.     *)
THEOREM TypeCorrect == Spec => []TypeOK
<1>1. IInv => TypeOK
  BY DEF IInv
<1> QED BY <1>1, InitIInv, IInvStep, PTL DEF Spec

(* Of the writers of a run's status and error_text, the executor, the      *)
(* worker and the analysis, none ever leaves a failed run without its      *)
(* reason.                                                                 *)
THEOREM FailuresExplained == Spec => []FailureIsExplained
<1>1. IInv => FailureIsExplained
  BY DEF IInv
<1> QED BY <1>1, InitIInv, IInvStep, PTL DEF Spec

(* Once the executor is done and no statement failed, every run is settled *)
(* and the group shows it.                                                 *)
THEOREM Settles == Spec => []SettledWhenDone
<1>1. IInv => SettledWhenDone
  BY DEF IInv, OutcomeAgrees, SettledWhenDone, Done
<1> QED BY <1>1, InitIInv, IInvStep, PTL DEF Spec

(* Thread days only appear for a run that is marked running, is not being  *)
(* analysed and has no mart, even when the backend is gone.                *)
THEOREM LoadsWhileRunning == Spec => LoadsOnlyWhileRunning
<1> DEFINE A == \A i \in Runs : threadDays'[i] # threadDays[i] =>
                  /\ status[i] = "running"
                  /\ \A c \in Callers : call[c].run # i
                  /\ ~mart[i]
<1>1. IInv /\ [Next]_vars => A \/ UNCHANGED vars
  <2> SUFFICES ASSUME IInv, Next PROVE A
    OBVIOUS
  <2>1. CASE PersistThreadDay
    <3>1. /\ worker.pc = "loading"
          /\ worker.run \in Runs
          /\ status[worker.run] = "running"
          /\ threadDays \in [Runs -> 0 .. MaxThreadDays]
      BY <2>1 DEF PersistThreadDay, IInv, TypeOK, WorkerAgrees, WorkerActive
    <3>2. \A i \in Runs \ {worker.run} : threadDays'[i] = threadDays[i]
      BY <2>1, <3>1 DEF PersistThreadDay
    <3>3. \A c \in Callers : call[c].run # worker.run
      BY <3>1 DEF IInv, CallsAgree, NoCall, Runs, Settled
    <3>4. ~mart[worker.run]
      BY <3>1 DEF IInv, CallsAgree, Settled
    <3> QED BY <3>1, <3>2, <3>3, <3>4
  <2>2. CASE ~PersistThreadDay
    <3>1. UNCHANGED threadDays
      BY <2>2 DEF Next, ExecutorNext, WorkerNext, OthersNext, ToggleAnalysis, MarkStarted,
         SpawnWorker, WorkerExited, Abort, ReadGroup, WriteGroup, Crash, WorkerStart, Extract,
         CompleteLoad, RecordFailure, KillWorker, StartAnalysis, EndAnalysis, MaterializeRun,
         PublishRun, rowVars, callFrame
    <3> QED BY <3>1
  <2> QED BY <2>1, <2>2
<1>2. IInv /\ [Next]_vars => [A]_vars
  BY <1>1
<1> QED BY <1>2, InitIInv, IInvStep, PTL DEF Spec, LoadsOnlyWhileRunning

------------------------------------------------------------------------------
(* The refinement.  The abstract queue sees a run start when the executor  *)
(* marks it, settle when its worker records the end of the load, and the   *)
(* whole group settle when the executor gives up.                          *)
LEMMA QueueInitial == Init => Queue!QueueInit
BY DEF Init, Queue!QueueInit, Phase, Runs

(* A step that moves no run between the phases is a stutter.               *)
LEMMA Invisible ==
  ASSUME \A i \in Runs : Phase(status'[i]) = Phase(status[i]),
         executor'.gaveUp = executor.gaveUp
  PROVE  UNCHANGED Queue!queueVars
BY DEF Queue!queueVars

(* Every other step is one of the queue's.                                 *)
LEMMA QueueStep == IInv /\ [Next]_vars => [Queue!QueueNext]_(Queue!queueVars)
<1> SUFFICES ASSUME IInv, [Next]_vars
             PROVE  Queue!QueueNext \/ UNCHANGED Queue!queueVars
  OBVIOUS
<1> USE RunGroupConstants
<1> DEFINE phase == [i \in Runs |-> Phase(status[i])]
<1>0. /\ executor \in ExecutorStates
      /\ executor.at \in Runs
      /\ worker \in WorkerStates
      /\ status \in [Runs -> Statuses]
      /\ Runs = 1 .. Count
  BY DEF IInv, TypeOK, ExecutorStates, WorkerStates, Runs
<1>1. CASE UNCHANGED status /\ executor'.gaveUp = executor.gaveUp
  BY <1>1, Invisible
<1>2. CASE MarkStarted
  <2>1. CASE Finish(executor) /\ UNCHANGED status
    BY <1>0, <1>1, <2>1 DEF Finish, ExecutorStates
  <2>2. CASE /\ SetRow(executor.at, "running", FALSE)
             /\ executor' = [executor EXCEPT !.pc = "spawning"]
    <3>1. /\ executor'.gaveUp = executor.gaveUp
          /\ ~executor.gaveUp
          /\ status[executor.at] = "queued"
          /\ \A j \in Runs : j < executor.at => status[j] \in Settled
      BY <1>0, <1>2, <2>2 DEF MarkStarted, IInv, InOrder, ExecutorAgrees, ExecutorStates
    <3>2. phase' = [phase EXCEPT ![executor.at] = "active"]
      BY <1>0, <2>2 DEF SetRow, Phase
    <3>3. phase[executor.at] = "waiting"
      BY <1>0, <3>1 DEF Phase
    <3>4. \A j \in 1 .. executor.at - 1 : phase[j] = "settled"
      BY <1>0, <3>1 DEF Phase, Settled
    <3>5. Queue!Start(executor.at)
      BY <3>1, <3>2, <3>3, <3>4 DEF Queue!Start
    <3> QED BY <1>0, <3>5 DEF Queue!QueueNext
  <2> QED BY <1>2, <2>1, <2>2 DEF MarkStarted
<1>3. CASE Abort
  <2>1. CASE Finish(executor) /\ UNCHANGED status
    BY <1>0, <1>1, <2>1 DEF Finish, ExecutorStates
  <2>2. CASE /\ status' = [i \in Runs |-> IF i \in Abandoned THEN "failed" ELSE status[i]]
             /\ Finish([executor EXCEPT !.gaveUp = TRUE])
    <3>1. executor'.gaveUp = TRUE
      BY <1>0, <2>2 DEF Finish, ExecutorStates
    <3>2. executor.gaveUp = FALSE /\ \A i \in Runs \ Abandoned : status[i] \in Settled
      BY <1>0, <1>3 DEF Abort, IInv, InOrder, Abandoned, ExecutorStates
    <3>3. phase' = [i \in 1 .. Count |-> "settled"]
      BY <1>0, <2>2, <3>2 DEF Phase, Settled
    <3>4. Queue!Abandon
      BY <3>1, <3>2, <3>3 DEF Queue!Abandon
    <3> QED BY <3>4 DEF Queue!QueueNext
  <2> QED BY <1>3, <2>1, <2>2 DEF Abort
<1>4. CASE WorkerNext \/ KillWorker
  <2> DEFINE r == worker.run
  <2>1. UNCHANGED executor
    BY <1>4 DEF WorkerNext, WorkerStart, Extract, PersistThreadDay, CompleteLoad, RecordFailure,
       KillWorker, workerFrame
  <2>2. r \in Runs /\ status[r] = "running"
    BY <1>0, <1>4 DEF WorkerNext, WorkerStart, Extract, PersistThreadDay, CompleteLoad,
       RecordFailure, KillWorker, IInv, WorkerAgrees, WorkerActive
  <2>3. CASE UNCHANGED status
    BY <1>1, <2>1, <2>3
  <2>4. ASSUME NEW s \in {"loaded", "failed"}, status' = [status EXCEPT ![r] = s]
        PROVE  Queue!QueueNext
    <3>1. phase[r] = "active"
      BY <2>2 DEF Phase
    <3>2. phase' = [phase EXCEPT ![r] = "settled"]
      BY <1>0, <2>4 DEF Phase
    <3>3. Queue!Settle(r)
      BY <2>1, <3>1, <3>2 DEF Queue!Settle
    <3> QED BY <1>0, <2>2, <3>3 DEF Queue!QueueNext
  <2>5. CASE SetRow(r, "running", FALSE)
    BY <1>0, <2>1, <2>2, <2>5, Invisible DEF SetRow
  <2>6. LoadOutcome \in {"loaded", "failed"}
    BY DEF LoadOutcome
  <2> QED BY <1>4, <2>3, <2>4, <2>5, <2>6
    DEF WorkerNext, WorkerStart, Extract, PersistThreadDay, CompleteLoad, RecordFailure,
        KillWorker, SetRow
<1>5. ASSUME NEW c \in Callers, EndAnalysis(c)
      PROVE  \A i \in Runs : Phase(status'[i]) = Phase(status[i])
  <2>1. call[c].run \in Runs /\ status[call[c].run] \in Settled
    <3>1. call[c].pc # "idle"
      BY <1>5 DEF EndAnalysis
    <3>2. call[c] # NoCall
      BY <3>1 DEF NoCall
    <3> QED BY <3>2 DEF IInv, CallsAgree
  <2>2. \/ UNCHANGED status
        \/ \E s \in {"loaded", "failed"} : status' = [status EXCEPT ![call[c].run] = s]
    BY <1>5 DEF EndAnalysis, SetRow
  <2> QED BY <1>0, <2>1, <2>2 DEF Phase, Settled
<1>6. ASSUME NEW i \in Runs, PublishRun(i)
      PROVE  /\ \A j \in Runs : Phase(status'[j]) = Phase(status[j])
             /\ UNCHANGED executor
  BY <1>0, <1>6 DEF PublishRun, Phase
<1>7. NextRun => executor'.gaveUp = executor.gaveUp
  BY <1>0 DEF NextRun, Finish, ExecutorStates
<1>8. \A c \in Callers : Throws(c) \/ Returns(c) => executor'.gaveUp = executor.gaveUp
  BY <1>0, <1>7 DEF Throws, Returns, ExecutorStates
<1>9. ASSUME NEW c \in Callers, NEW i \in Runs, StartAnalysis(c, i)
      PROVE  UNCHANGED status /\ executor'.gaveUp = executor.gaveUp
  BY <1>8, <1>9 DEF StartAnalysis
<1>10. ASSUME NEW c \in Callers, EndAnalysis(c) \/ MaterializeRun(c)
       PROVE  /\ executor'.gaveUp = executor.gaveUp
              /\ MaterializeRun(c) => UNCHANGED status
  BY <1>8, <1>10 DEF EndAnalysis, MaterializeRun
<1>11. CASE SpawnWorker \/ WorkerExited \/ Crash
  <2>1. UNCHANGED status
    BY <1>11 DEF SpawnWorker, WorkerExited, Crash, rowVars
  <2>2. executor'.gaveUp = executor.gaveUp
    BY <1>0, <1>7, <1>11 DEF SpawnWorker, WorkerExited, AfterExit, Crash, ExecutorStates
  <2> QED BY <1>1, <2>1, <2>2
<1>12. ASSUME \/ ToggleAnalysis \/ UNCHANGED vars
              \/ \E x \in Refreshers : ReadGroup(x) \/ WriteGroup(x)
       PROVE  UNCHANGED status /\ executor'.gaveUp = executor.gaveUp
  BY <1>12 DEF ToggleAnalysis, ReadGroup, WriteGroup, vars, rowVars
<1>13. /\ "executor" \in Callers /\ ApiCallers \subseteq Callers
       /\ Refreshers = {"executor", "publisher"}
  BY DEF Callers, Refreshers
<1>14. CASE \E c \in Callers : \/ \E i \in Runs : StartAnalysis(c, i)
                               \/ EndAnalysis(c) \/ MaterializeRun(c)
  BY <1>1, <1>5, <1>9, <1>10, <1>14, Invisible
<1>15. CASE \E i \in Runs : PublishRun(i)
  BY <1>6, <1>15, Invisible
<1> QED
  BY <1>0, <1>1, <1>2, <1>3, <1>4, <1>11, <1>12, <1>13, <1>14, <1>15
  DEF Next, ExecutorNext, OthersNext

(* The executor, its workers, crashes, analysis calls and publications     *)
(* together keep what a run group promises: days in order, one at a time,  *)
(* each once, and nothing started after the group was given up.            *)
THEOREM RunGroupImplementsQueue == Spec => ImplementsQueue
BY QueueInitial, QueueStep, InitIInv, IInvStep, PTL DEF Spec, ImplementsQueue, Queue!QueueSpec
=============================================================================
