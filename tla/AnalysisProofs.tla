--------------------------- MODULE AnalysisProofs ---------------------------
(***************************************************************************)
(* Proofs about Analysis, for any number of units, releases and faults.    *)
(*                                                                         *)
(* Type correctness and NoUnitForgotten hold however many calls overlap;   *)
(* the invariant says which units a call may still owe at each step.       *)
(* CompletedIsComplete, MartIsWhole and ResultsAreKept are about calls     *)
(* that follow each other, which is the hypothesis that any two callers    *)
(* are equal: only then is what a call has read of the results, or written *)
(* to the status of its analysis run, still so at its next step.           *)
(***************************************************************************)
EXTENDS Analysis, FiniteSetTheorems, WellFoundedInduction, TLAPS

CallRecords == [pc : Steps, id : Identities, reuse : BOOLEAN, seen : [Units -> Versions],
                todo : SUBSET Units, verdict : RunStatuses,
                source : [of : Identities, rows : SUBSET Units]]

(* A call is at its analysis run: it has found or created the row.         *)
InTheRun == {"listing", "marking", "batching", "summing", "writing", "settling"}
AllCounted(id) == \A u \in Units : result[id][u].status # "none"

(* Results belong to an analysis run that exists.                          *)
ResultsBelong ==
  \A id \in Identities : id \notin Existing => \A u \in Units : result[id][u].status = "none"

(* What a call is still to send is all that may lack a result.             *)
CallsKeepCount ==
  \A c \in Callers :
    LET q == call[c]
    IN /\ q.pc \in InTheRun => q.id \in Existing
       /\ q.pc \in {"marking", "batching"} =>
            \A u \in Units \ q.todo : result[q.id][u].status # "none"
       /\ q.pc \in {"summing", "writing", "settling"} => AllCounted(q.id)
       /\ q.pc \in {"writing", "settling"} => q.verdict \in {"failed", "completed"}

(* So that there is a completed analysis run that was created last.        *)
RanksBounded == \A id \in Identities : analysisRun[id].rank <= LastRelease + 1

IInv == TypeOK /\ ResultsBelong /\ CallsKeepCount /\ RanksBounded

------------------------------------------------------------------------------
(* A caller that is not working.                                           *)
LEMMA NoCallType == NoCall \in CallRecords
BY AnalysisConstants DEF NoCall, CallRecords, Steps, Identities, Raw, Versions, RunStatuses, NoMart

(* There is a completed analysis run that was created last: ranks are      *)
(* bounded, so the distance to the bound has a least value.                *)
LEMMA LastExists ==
  ASSUME TypeOK, RanksBounded, Completed # {}
  PROVE  LastCompleted \in Completed
<1> USE AnalysisConstants
<1> DEFINE bound == LastRelease + 1
           rank(id) == analysisRun[id].rank
           Below == {n \in Nat : \E id \in Completed : n = bound - rank(id)}
<1>1. \A id \in Completed : rank(id) \in Nat /\ bound - rank(id) \in Nat
  BY DEF TypeOK, RanksBounded, Completed
<1>2. Below # {} /\ Below \subseteq Nat
  BY <1>1
<1>3. PICK n \in Below : \A m \in Below : <<m, n>> \notin OpToRel(<, Nat)
  <2> HIDE DEF Below
  <2> QED BY <1>2, WFMin, NatLessThanWellFounded, Zenon
<1>4. \A m \in Below : ~(m < n)
  BY <1>2, <1>3, Zenon DEF OpToRel
<1>5. PICK last \in Completed : n = bound - rank(last)
  OBVIOUS
<1>6. \A id \in Completed : rank(id) <= rank(last)
  <2> SUFFICES ASSUME NEW id \in Completed PROVE rank(id) <= rank(last)
    OBVIOUS
  <2>1. bound - rank(id) \in Below
    BY <1>1
  <2>2. ~(bound - rank(id) < bound - rank(last))
    BY <1>4, <1>5, <2>1
  <2>3. bound \in Nat /\ rank(id) \in Nat /\ rank(last) \in Nat
    BY <1>1
  <2> HIDE DEF rank, bound
  <2> QED BY <2>2, <2>3
<1> QED BY <1>5, <1>6 DEF LastCompleted

(* A step of one call changes no other, and keeps the records well formed. *)
LEMMA CallsTyped ==
  ASSUME TypeOK, RanksBounded, NEW c \in Callers, Calling(c) \/ Interrupt(c)
  PROVE  /\ call' \in [Callers -> CallRecords]
         /\ \A d \in Callers : d # c => call'[d] = call[d]
<1> USE AnalysisConstants
<1> DEFINE q == call[c]
<1>0. q \in CallRecords /\ call \in [Callers -> CallRecords]
  BY DEF TypeOK, CallRecords
<1>1. ASSUME NEW r \in CallRecords, call' = [call EXCEPT ![c] = r]
      PROVE  /\ call' \in [Callers -> CallRecords]
             /\ \A d \in Callers : d # c => call'[d] = call[d]
  BY <1>0, <1>1
<1>2. ASSUME NEW pc \in Steps, Goto(c, pc)
      PROVE  \E r \in CallRecords : call' = [call EXCEPT ![c] = r]
  <2>1. [q EXCEPT !.pc = pc] \in CallRecords
    BY <1>0 DEF CallRecords
  <2> QED BY <1>0, <1>2, <2>1 DEF Goto
<1>3. ASSUME Return(c) PROVE \E r \in CallRecords : call' = [call EXCEPT ![c] = r]
  BY <1>3, NoCallType DEF Return
<1>4. ASSUME Begin(c) PROVE \E r \in CallRecords : call' = [call EXCEPT ![c] = r]
  <2>1. [q EXCEPT !.pc = "probing", !.seen = evidence] \in CallRecords
    BY <1>0 DEF CallRecords, Steps, TypeOK
  <2> QED BY <1>0, <1>4, <2>1 DEF Begin
<1>5. ASSUME Probe(c) PROVE \E r \in CallRecords : call' = [call EXCEPT ![c] = r]
  <2>1. [q EXCEPT !.pc = "finding", !.id = release, !.reuse = TRUE] \in CallRecords
    <3>1. release \in Identities
      BY DEF TypeOK, Identities
    <3> QED BY <1>0, <3>1 DEF CallRecords, Steps
  <2> QED BY <1>0, <1>2, <1>5, <2>1 DEF Probe, Steps
<1>6. ASSUME FindRun(c) \/ MarkRunning(c) \/ WriteSummary(c)
      PROVE  \E r \in CallRecords : call' = [call EXCEPT ![c] = r]
  BY <1>2, <1>6 DEF FindRun, MarkRunning, WriteSummary, Steps
<1>7. ASSUME CreateRun(c) \/ SettleRun(c) \/ ReplaceMart(c) \/ Interrupt(c)
      PROVE  \E r \in CallRecords : call' = [call EXCEPT ![c] = r]
  BY <1>2, <1>3, <1>7 DEF CreateRun, SettleRun, ReplaceMart, Interrupt, Steps
<1>8. ASSUME ListResults(c) PROVE \E r \in CallRecords : call' = [call EXCEPT ![c] = r]
  <2> DEFINE pending == Pending(c)
             next == IF pending = {} THEN "summing" ELSE "marking"
  <2>1. pending \subseteq Units /\ next \in Steps
    BY DEF Pending, Steps
  <2>2. call' = [call EXCEPT ![c] = [q EXCEPT !.todo = pending, !.pc = next]]
    BY <1>0, <1>8 DEF ListResults
  <2> HIDE DEF pending, next
  <2>3. [q EXCEPT !.todo = pending, !.pc = next] \in CallRecords
    BY <1>0, <2>1 DEF CallRecords
  <2> QED BY <2>2, <2>3
<1>9. ASSUME ProcessBatch(c) PROVE \E r \in CallRecords : call' = [call EXCEPT ![c] = r]
  <2>1. PICK batch \in SUBSET q.todo :
          call' = [call EXCEPT ![c].todo = @ \ batch,
                               ![c].pc = IF q.todo = batch THEN "summing" ELSE @]
    BY <1>9 DEF ProcessBatch
  <2> DEFINE next == IF q.todo = batch THEN "summing" ELSE q.pc
  <2>2. q.todo \ batch \subseteq Units /\ next \in Steps
    BY <1>0 DEF CallRecords, Steps
  <2>3. call' = [call EXCEPT ![c] = [q EXCEPT !.todo = q.todo \ batch, !.pc = next]]
    BY <1>0, <2>1
  <2> HIDE DEF next
  <2>4. [q EXCEPT !.todo = q.todo \ batch, !.pc = next] \in CallRecords
    BY <1>0, <2>2 DEF CallRecords
  <2> QED BY <2>3, <2>4
<1>10. ASSUME ReadSummary(c) PROVE \E r \in CallRecords : call' = [call EXCEPT ![c] = r]
  <2>1. Verdict(q.id) \in RunStatuses
    BY DEF Verdict, RunStatuses
  <2>2. [q EXCEPT !.pc = "writing", !.verdict = Verdict(q.id)] \in CallRecords
    BY <1>0, <2>1 DEF CallRecords, Steps
  <2> QED BY <1>0, <1>10, <2>2 DEF ReadSummary
<1>11. ASSUME ReadMartSource(c) PROVE \E r \in CallRecords : call' = [call EXCEPT ![c] = r]
  <2>1. CASE Completed = {}
    BY <1>3, <1>11, <2>1 DEF ReadMartSource
  <2>2. CASE Completed # {}
    <3> DEFINE source == [of |-> LastCompleted, rows |-> Terminal(LastCompleted)]
    <3>1. call' = [call EXCEPT ![c] = [q EXCEPT !.pc = "replacing", !.source = source]]
      BY <1>0, <1>11, <2>2 DEF ReadMartSource
    <3>2. source \in [of : Identities, rows : SUBSET Units]
      BY <2>2, LastExists DEF Completed, Terminal
    <3> HIDE DEF source
    <3>3. [q EXCEPT !.pc = "replacing", !.source = source] \in CallRecords
      BY <1>0, <3>2 DEF CallRecords, Steps
    <3> QED BY <3>1, <3>3
  <2> QED BY <2>1, <2>2
<1>12. \E r \in CallRecords : call' = [call EXCEPT ![c] = r]
  BY <1>4, <1>5, <1>6, <1>7, <1>8, <1>9, <1>10, <1>11 DEF Calling
<1> QED BY <1>1, <1>12

(* The rank a new analysis run gets.                                       *)
LEMMA NextRank ==
  ASSUME NEW id \in Identities, id \notin Existing
  PROVE  Cardinality(Existing) + 1 \in 1 .. LastRelease + 1
<1> USE AnalysisConstants
<1>1. IsFiniteSet(Identities) /\ Cardinality(Identities) = LastRelease + 1
  <2>1. 0 \in Int /\ LastRelease \in Int /\ ~(0 > LastRelease)
    OBVIOUS
  <2> QED BY <2>1, FS_Interval DEF Identities
<1>2. Existing \cup {id} \subseteq Identities /\ Existing \subseteq Identities
  BY DEF Existing
<1>3. IsFiniteSet(Existing) /\ Cardinality(Existing) \in Nat
  BY <1>1, <1>2, FS_Subset, FS_CardinalityType
<1>4. Cardinality(Existing \cup {id}) = Cardinality(Existing) + 1
  BY <1>3, FS_AddElement
<1>5. Cardinality(Existing \cup {id}) <= LastRelease + 1
  BY <1>1, <1>2, FS_Subset
<1> QED BY <1>3, <1>4, <1>5

(* What the steps write to the analysis runs.                              *)
LEMMA RunsWritten ==
  ASSUME TypeOK, RanksBounded, NEW c \in Callers, Calling(c)
  PROVE  /\ analysisRun' \in [Identities -> [status : RunStatuses, rank : Nat]]
         /\ RanksBounded'
<1> USE AnalysisConstants
<1> DEFINE id == call[c].id
<1>0. /\ id \in Identities
      /\ call[c].verdict \in RunStatuses
      /\ analysisRun \in [Identities -> [status : RunStatuses, rank : Nat]]
  BY DEF TypeOK
<1>1. ASSUME UNCHANGED analysisRun
      PROVE  /\ analysisRun' \in [Identities -> [status : RunStatuses, rank : Nat]]
             /\ RanksBounded'
  BY <1>0, <1>1 DEF RanksBounded
<1>2. ASSUME NEW st \in RunStatuses, analysisRun' = [analysisRun EXCEPT ![id].status = st]
      PROVE  /\ analysisRun' \in [Identities -> [status : RunStatuses, rank : Nat]]
             /\ RanksBounded'
  <2>1. \A i \in Identities : /\ analysisRun'[i] \in [status : RunStatuses, rank : Nat]
                              /\ analysisRun'[i].rank = analysisRun[i].rank
    BY <1>0, <1>2
  <2>2. analysisRun' \in [Identities -> [status : RunStatuses, rank : Nat]]
    BY <1>0, <1>2, <2>1
  <2> QED BY <2>1, <2>2 DEF RanksBounded
<1>3. CASE MarkRunning(c)
  BY <1>2, <1>3 DEF MarkRunning, RunStatuses
<1>4. CASE WriteSummary(c)
  BY <1>0, <1>2, <1>4 DEF WriteSummary
<1>5. CASE CreateRun(c)
  <2>1. CASE id \in Existing
    BY <1>1, <1>5, <2>1 DEF CreateRun
  <2>2. CASE id \notin Existing
    <3> DEFINE rank == Cardinality(Existing) + 1
    <3>1. rank \in Nat /\ rank <= LastRelease + 1
      BY <1>0, <2>2, NextRank
    <3>2. analysisRun' = [analysisRun EXCEPT ![id] = [status |-> "running", rank |-> rank]]
      BY <1>5, <2>2 DEF CreateRun
    <3> HIDE DEF rank
    <3>3. \A i \in Identities : /\ analysisRun'[i] \in [status : RunStatuses, rank : Nat]
                                /\ analysisRun'[i].rank \in {analysisRun[i].rank, rank}
      BY <1>0, <3>1, <3>2 DEF RunStatuses
    <3>4. analysisRun' \in [Identities -> [status : RunStatuses, rank : Nat]]
      BY <1>0, <3>2, <3>3
    <3> QED BY <3>1, <3>3, <3>4 DEF RanksBounded
  <2> QED BY <2>1, <2>2
<1> QED
  BY <1>1, <1>3, <1>4, <1>5
  DEF Calling, Begin, Probe, FindRun, ListResults, ProcessBatch, ReadSummary, SettleRun,
      ReadMartSource, ReplaceMart

(* What a batch writes to the results.                                     *)
Batched(c, batch) ==
  /\ result' \in [Identities -> [Units -> [status : ResultStatuses, evidence : Versions]]]
  /\ \A id \in Identities, u \in Units :
       IF id = call[c].id /\ u \in batch
       THEN /\ result'[id][u].status \in {"terminal", "failed"}
            /\ result'[id][u].evidence = call[c].seen[u]
       ELSE result'[id][u] = result[id][u]
  /\ call'[c].pc = IF call[c].todo = batch THEN "summing" ELSE "batching"
  /\ call'[c].todo = call[c].todo \ batch
  /\ call'[c].id = call[c].id
  /\ call'[c].seen = call[c].seen
  /\ UNCHANGED <<analysisRun, mart>>

(* A batch is some of the units that are still to send.                    *)
LEMMA BatchWritten ==
  ASSUME TypeOK, NEW c \in Callers, ProcessBatch(c)
  PROVE  \E batch \in SUBSET call[c].todo : Batched(c, batch)
<1> DEFINE q == call[c]
           Rows == [Units -> [status : ResultStatuses, evidence : Versions]]
<1>0. q \in CallRecords /\ call \in [Callers -> CallRecords] /\ result \in [Identities -> Rows]
  BY DEF TypeOK, CallRecords
<1>1. PICK batch \in SUBSET q.todo, answered \in SUBSET Units :
        /\ result' = [result EXCEPT ![q.id] = Upserted(c, batch, answered)]
        /\ call' = [call EXCEPT ![c].todo = @ \ batch,
                                ![c].pc = IF q.todo = batch THEN "summing" ELSE @]
        /\ UNCHANGED <<analysisRun, mart>>
        /\ q.pc = "batching"
  BY ZenonT(60), <1>0 DEF ProcessBatch, CallRecords
<1> DEFINE rows == Upserted(c, batch, answered)
<1>2. /\ \A u \in Units : IF u \in batch
                          THEN /\ rows[u].status \in {"terminal", "failed"}
                               /\ rows[u].evidence = q.seen[u]
                          ELSE rows[u] = result[q.id][u]
      /\ rows \in Rows
  <2>1. q.id \in Identities /\ q.seen \in [Units -> Versions] /\ result[q.id] \in Rows
    BY <1>0 DEF CallRecords
  <2> QED BY <2>1 DEF Upserted, ResultStatuses
<1> HIDE DEF rows
<1>3. /\ result' \in [Identities -> Rows]
      /\ \A id \in Identities : result'[id] = IF id = q.id THEN rows ELSE result[id]
  BY <1>0, <1>1, <1>2 DEF rows
<1>4. call'[c] = [q EXCEPT !.todo = q.todo \ batch,
                           !.pc = IF q.todo = batch THEN "summing" ELSE "batching"]
  BY <1>0, <1>1
<1>5. /\ call'[c].pc = IF q.todo = batch THEN "summing" ELSE "batching"
      /\ call'[c].todo = q.todo \ batch
      /\ call'[c].id = q.id
      /\ call'[c].seen = q.seen
  BY <1>0, <1>4 DEF CallRecords
<1>6. \A id \in Identities, u \in Units :
        IF id = q.id /\ u \in batch
        THEN /\ result'[id][u].status \in {"terminal", "failed"}
             /\ result'[id][u].evidence = q.seen[u]
        ELSE result'[id][u] = result[id][u]
  BY <1>2, <1>3
<1> QED BY <1>1, <1>3, <1>5, <1>6 DEF Batched

(* Every step keeps the types and the bound on ranks.                      *)
LEMMA TypeStep == TypeOK /\ RanksBounded /\ [Next]_vars => TypeOK' /\ RanksBounded'
<1> SUFFICES ASSUME TypeOK, RanksBounded, [Next]_vars PROVE TypeOK' /\ RanksBounded'
  OBVIOUS
<1> USE AnalysisConstants
<1>1. CASE Upgrade
  BY <1>1 DEF Upgrade, TypeOK, RanksBounded
<1>2. ASSUME NEW u \in Units, EditEvidence(u) PROVE TypeOK' /\ RanksBounded'
  <2>1. evidence[u] + 1 \in Versions
    BY <1>2 DEF EditEvidence, TypeOK, Versions
  <2>2. evidence' \in [Units -> Versions]
    BY <1>2, <2>1 DEF EditEvidence, TypeOK
  <2> QED BY <1>2, <2>2 DEF EditEvidence, TypeOK, RanksBounded
<1>3. ASSUME NEW c \in Callers, Interrupt(c) PROVE TypeOK' /\ RanksBounded'
  <2>1. call' \in [Callers -> CallRecords]
    BY <1>3, CallsTyped
  <2> QED BY <1>3, <2>1 DEF Interrupt, Fault, serviceVars, TypeOK, RanksBounded, CallRecords
<1>4. ASSUME NEW c \in Callers, Calling(c) PROVE TypeOK' /\ RanksBounded'
  <2>1. call' \in [Callers -> CallRecords]
    BY <1>4, CallsTyped
  <2>2. /\ analysisRun' \in [Identities -> [status : RunStatuses, rank : Nat]]
        /\ RanksBounded'
    BY <1>4, RunsWritten
  <2>3. result' \in [Identities -> [Units -> [status : ResultStatuses, evidence : Versions]]]
    <3>1. CASE ProcessBatch(c)
      BY <3>1, BatchWritten DEF Batched
    <3>2. CASE ~ProcessBatch(c)
      BY <1>4, <3>2 DEF Calling, Begin, Probe, FindRun, CreateRun, ListResults, MarkRunning,
         ReadSummary, WriteSummary, SettleRun, ReadMartSource, ReplaceMart, TypeOK
    <3> QED BY <3>1, <3>2
  <2>4. faults' \in 0 .. MaxFaults
    <3>1. Fault => faults' \in 0 .. MaxFaults
      BY DEF Fault, TypeOK
    <3>2. UNCHANGED faults => faults' \in 0 .. MaxFaults
      BY DEF TypeOK
    <3>3. Fault \/ UNCHANGED faults
      BY <1>4 DEF Calling, Begin, Probe, FindRun, CreateRun, ListResults, MarkRunning,
         ProcessBatch, ReadSummary, WriteSummary, SettleRun, ReadMartSource, ReplaceMart
    <3> QED BY <3>1, <3>2, <3>3
  <2>5. mart' \in [of : Identities, rows : SUBSET Units]
    BY <1>4 DEF Calling, Begin, Probe, FindRun, CreateRun, ListResults, MarkRunning, ProcessBatch,
       ReadSummary, WriteSummary, SettleRun, ReadMartSource, ReplaceMart, TypeOK
  <2>6. UNCHANGED serviceVars /\ runStatus' \in {"loaded", "failed"}
    BY <1>4 DEF Calling, Begin, Probe, FindRun, CreateRun, ListResults, MarkRunning, ProcessBatch,
       ReadSummary, WriteSummary, SettleRun, ReadMartSource, ReplaceMart, TypeOK
  <2> QED BY <2>1, <2>2, <2>3, <2>4, <2>5, <2>6 DEF TypeOK, CallRecords, serviceVars
<1>5. CASE UNCHANGED vars
  BY <1>5 DEF vars, serviceVars, TypeOK, RanksBounded
<1> QED BY <1>1, <1>2, <1>3, <1>4, <1>5 DEF Next

(* The run as it is loaded.                                                *)
LEMMA InitTyped == Init => TypeOK /\ RanksBounded
<1> SUFFICES ASSUME Init PROVE TypeOK /\ RanksBounded
  OBVIOUS
<1>1. call \in [Callers -> CallRecords]
  BY NoCallType DEF Init
<1>2. NoResult \in [status : ResultStatuses, evidence : Versions]
  BY AnalysisConstants DEF NoResult, ResultStatuses, Versions
<1>3. result \in [Identities -> [Units -> [status : ResultStatuses, evidence : Versions]]]
  BY <1>2 DEF Init
<1>4. /\ analysisRun \in [Identities -> [status : RunStatuses, rank : Nat]]
      /\ RanksBounded
  <2>1. \A id \in Identities : analysisRun[id].rank = 0
    BY DEF Init
  <2>2. RanksBounded
    BY <2>1, AnalysisConstants DEF RanksBounded
  <2>3. [status |-> "none", rank |-> 0] \in [status : RunStatuses, rank : Nat]
    BY DEF RunStatuses
  <2> QED BY <2>2, <2>3 DEF Init
<1>5. 0 \in Versions /\ 0 \in Identities /\ 1 \in 1 .. LastRelease /\ 0 \in 0 .. MaxFaults
  BY AnalysisConstants DEF Versions, Identities
<1>6. mart \in [of : Identities, rows : SUBSET Units]
  BY <1>5 DEF Init, NoMart, Raw
<1>7. evidence \in [Units -> Versions]
  BY <1>5 DEF Init
<1> QED BY <1>1, <1>3, <1>4, <1>5, <1>6, <1>7 DEF Init, TypeOK, CallRecords

(* Rows and calls always hold values the code can give them, however many  *)
(* calls overlap: in particular there always is a completed analysis run   *)
(* that was created last when the mart is built from one.                  *)
THEOREM TypeCorrect == Spec => []TypeOK
BY InitTyped, TypeStep, PTL DEF Spec

------------------------------------------------------------------------------
(* How far a step of a call takes it: to the next step with everything it  *)
(* has read, or back to idle.                                              *)
LEMMA GotoMoves ==
  ASSUME TypeOK, NEW c \in Callers, NEW pc \in Steps, Goto(c, pc)
  PROVE  /\ call'[c].pc = pc
         /\ call'[c].id = call[c].id
         /\ call'[c].reuse = call[c].reuse
         /\ call'[c].seen = call[c].seen
         /\ call'[c].todo = call[c].todo
         /\ call'[c].verdict = call[c].verdict
         /\ call'[c].source = call[c].source
<1>1. call[c] \in CallRecords /\ call \in [Callers -> CallRecords]
  BY DEF TypeOK, CallRecords
<1>2. call'[c] = [call[c] EXCEPT !.pc = pc]
  BY <1>1 DEF Goto
<1> QED BY <1>1, <1>2 DEF CallRecords

(* A call that ends has read nothing.                                      *)
LEMMA ReturnMoves ==
  ASSUME TypeOK, NEW c \in Callers, Return(c)
  PROVE  call'[c].pc = "idle"
<1>1. call'[c] = NoCall
  BY DEF TypeOK, Return
<1> QED BY <1>1 DEF NoCall

(* Only a probe that succeeds lets the call reuse results.                 *)
LEMMA ProbeMoves ==
  ASSUME TypeOK, NEW c \in Callers, Probe(c)
  PROVE  \/ call'[c].pc = "finding" /\ call'[c].reuse
         \/ call'[c].pc = "creating"
<1>1. call[c] \in CallRecords /\ call \in [Callers -> CallRecords]
  BY DEF TypeOK, CallRecords
<1>2. CASE Goto(c, "creating")
  BY <1>2, GotoMoves DEF Steps
<1>3. CASE call' = [call EXCEPT ![c].pc = "finding", ![c].id = release, ![c].reuse = TRUE]
  <2>1. call'[c] = [call[c] EXCEPT !.pc = "finding", !.id = release, !.reuse = TRUE]
    BY <1>1, <1>3
  <2> QED BY <1>1, <2>1 DEF CallRecords
<1> QED BY <1>2, <1>3 DEF Probe

(* A call begins with the probe.                                           *)
LEMMA BeginMoves ==
  ASSUME TypeOK, NEW c \in Callers, Begin(c)
  PROVE  call'[c].pc = "probing"
<1>1. call[c] \in CallRecords /\ call \in [Callers -> CallRecords]
  BY DEF TypeOK, CallRecords
<1>2. call'[c] = [call[c] EXCEPT !.pc = "probing", !.seen = evidence]
  BY <1>1 DEF Begin
<1> QED BY <1>1, <1>2 DEF CallRecords

(* What is pending is to be sent.                                          *)
LEMMA ListMoves ==
  ASSUME TypeOK, NEW c \in Callers, ListResults(c)
  PROVE  /\ call'[c].pc = IF Pending(c) = {} THEN "summing" ELSE "marking"
         /\ call'[c].todo = Pending(c)
         /\ call'[c].id = call[c].id
         /\ call'[c].seen = call[c].seen
<1> DEFINE pending == Pending(c)
           next == IF pending = {} THEN "summing" ELSE "marking"
<1>1. call[c] \in CallRecords /\ call \in [Callers -> CallRecords]
  BY DEF TypeOK, CallRecords
<1>2. call'[c] = [call[c] EXCEPT !.todo = pending, !.pc = next]
  BY <1>1 DEF ListResults
<1>3. /\ call'[c].pc = next
      /\ call'[c].todo = pending
      /\ call'[c].id = call[c].id
      /\ call'[c].seen = call[c].seen
  <2> HIDE DEF pending, next
  <2> QED BY <1>1, <1>2 DEF CallRecords
<1> QED BY <1>3

(* The verdict is what the results add up to.                              *)
LEMMA SummaryMoves ==
  ASSUME TypeOK, NEW c \in Callers, ReadSummary(c)
  PROVE  /\ call'[c].pc = "writing"
         /\ call'[c].verdict = Verdict(call[c].id)
         /\ call'[c].id = call[c].id
<1> DEFINE verdict == Verdict(call[c].id)
<1>1. call[c] \in CallRecords /\ call \in [Callers -> CallRecords]
  BY DEF TypeOK, CallRecords
<1>2. call'[c] = [call[c] EXCEPT !.pc = "writing", !.verdict = verdict]
  BY <1>1 DEF ReadSummary
<1>3. /\ call'[c].pc = "writing"
      /\ call'[c].verdict = verdict
      /\ call'[c].id = call[c].id
  <2> HIDE DEF verdict
  <2> QED BY <1>1, <1>2 DEF CallRecords
<1> QED BY <1>3

(* The mart is to be built from the completed run that was created last.   *)
LEMMA SourceMoves ==
  ASSUME TypeOK, NEW c \in Callers, ReadMartSource(c)
  PROVE  \/ call'[c].pc = "idle"
         \/ /\ Completed # {}
            /\ call'[c].pc = "replacing"
            /\ call'[c].source.rows = Terminal(LastCompleted)
<1> DEFINE source == [of |-> LastCompleted, rows |-> Terminal(LastCompleted)]
<1>1. call[c] \in CallRecords /\ call \in [Callers -> CallRecords]
  BY DEF TypeOK, CallRecords
<1>2. CASE Completed = {}
  BY <1>2, ReturnMoves DEF ReadMartSource
<1>3. CASE Completed # {}
  <2>1. call'[c] = [call[c] EXCEPT !.pc = "replacing", !.source = source]
    BY <1>1, <1>3 DEF ReadMartSource
  <2>2. call'[c].pc = "replacing" /\ call'[c].source = source
    <3> HIDE DEF source
    <3> QED BY <1>1, <2>1 DEF CallRecords
  <2> QED BY <1>3, <2>2
<1> QED BY <1>2, <1>3

(* Analysis runs are never deleted, and a call creates only its own.       *)
LEMMA ExistingGrows ==
  ASSUME IInv, NEW c \in Callers, Calling(c)
  PROVE  /\ Existing \subseteq Existing'
         /\ \A id \in Existing' : id \in Existing \/ id = call[c].id
         /\ CreateRun(c) => call[c].id \in Existing'
<1> DEFINE id == call[c].id
<1>0. /\ TypeOK /\ id \in Identities
      /\ analysisRun \in [Identities -> [status : RunStatuses, rank : Nat]]
  BY DEF IInv, TypeOK
<1>1. ASSUME UNCHANGED analysisRun
      PROVE  Existing' = Existing
  BY <1>1 DEF Existing
<1>2. ASSUME NEW st \in RunStatuses, st # "none", id \in Existing,
             analysisRun' = [analysisRun EXCEPT ![id].status = st]
      PROVE  Existing' = Existing
  <2>1. \A i \in Identities : analysisRun'[i].status = IF i = id THEN st ELSE analysisRun[i].status
    BY <1>0, <1>2
  <2> QED BY <1>2, <2>1 DEF Existing
<1>3. CASE MarkRunning(c)
  <2>1. id \in Existing
    BY <1>3 DEF IInv, CallsKeepCount, MarkRunning, InTheRun
  <2>2. ~CreateRun(c)
    BY <1>3 DEF MarkRunning, CreateRun
  <2> QED BY <1>2, <1>3, <2>1, <2>2 DEF MarkRunning, RunStatuses
<1>4. CASE WriteSummary(c)
  <2>1. id \in Existing /\ call[c].verdict \in {"failed", "completed"}
    BY <1>4 DEF IInv, CallsKeepCount, WriteSummary, InTheRun
  <2>2. ~CreateRun(c)
    BY <1>4 DEF WriteSummary, CreateRun
  <2> QED BY <1>2, <1>4, <2>1, <2>2 DEF WriteSummary, RunStatuses
<1>5. CASE CreateRun(c)
  <2>1. CASE id \in Existing
    BY <1>1, <1>5, <2>1 DEF CreateRun
  <2>2. CASE id \notin Existing
    <3> DEFINE rank == Cardinality(Existing) + 1
    <3>1. analysisRun' = [analysisRun EXCEPT ![id] = [status |-> "running", rank |-> rank]]
      BY <1>5, <2>2 DEF CreateRun
    <3> HIDE DEF rank
    <3>2. \A i \in Identities : analysisRun'[i].status = IF i = id THEN "running"
                                                         ELSE analysisRun[i].status
      BY <1>0, <3>1
    <3>3. Existing' = Existing \cup {id}
      BY <1>0, <3>2 DEF Existing
    <3> QED BY <3>3
  <2> QED BY <2>1, <2>2
<1>6. CASE ~(MarkRunning(c) \/ WriteSummary(c) \/ CreateRun(c))
  <2>1. UNCHANGED analysisRun
    BY <1>6 DEF Calling, Begin, Probe, FindRun, ListResults, ProcessBatch, ReadSummary, SettleRun,
       ReadMartSource, ReplaceMart
  <2> QED BY <1>1, <1>6, <2>1
<1> QED BY <1>3, <1>4, <1>5, <1>6

(* Results are only added or replaced, and only by a call at its run.      *)
LEMMA ResultsGrow ==
  ASSUME IInv, NEW c \in Callers, Calling(c)
  PROVE  \A id \in Identities, u \in Units :
           /\ result[id][u].status # "none" => result'[id][u].status # "none"
           /\ result'[id][u].status # "none" =>
                result[id][u].status # "none" \/ id \in Existing
<1>1. CASE ProcessBatch(c)
  <2>1. call[c].id \in Existing
    BY <1>1 DEF IInv, CallsKeepCount, ProcessBatch, InTheRun
  <2>2. PICK batch \in SUBSET call[c].todo : Batched(c, batch)
    BY <1>1, BatchWritten DEF IInv
  <2> QED BY <2>1, <2>2 DEF Batched
<1>2. CASE ~ProcessBatch(c)
  <2>1. result' = result
    BY <1>2 DEF Calling, Begin, Probe, FindRun, CreateRun, ListResults, MarkRunning,
       ReadSummary, WriteSummary, SettleRun, ReadMartSource, ReplaceMart
  <2> QED BY <2>1
<1> QED BY <1>1, <1>2

(* A result is never written to an analysis run that does not exist.       *)
LEMMA BelongStep ==
  ASSUME IInv, NEW c \in Callers, Calling(c)
  PROVE  ResultsBelong'
<1> SUFFICES ASSUME NEW id \in Identities, id \notin Existing', NEW u \in Units
             PROVE  result'[id][u].status = "none"
  BY DEF ResultsBelong
<1>1. id \notin Existing
  BY ExistingGrows
<1>2. result[id][u].status = "none"
  BY <1>1 DEF IInv, ResultsBelong
<1> QED BY <1>1, <1>2, ResultsGrow

(* What CallsKeepCount says of one caller.                                 *)
Counted(c) ==
  LET q == call[c]
  IN /\ q.pc \in InTheRun => q.id \in Existing
     /\ q.pc \in {"marking", "batching"} =>
          \A u \in Units \ q.todo : result[q.id][u].status # "none"
     /\ q.pc \in {"summing", "writing", "settling"} => AllCounted(q.id)
     /\ q.pc \in {"writing", "settling"} => q.verdict \in {"failed", "completed"}

(* With every unit counted, the summary cannot find any missing.           *)
LEMMA VerdictOfAll ==
  ASSUME TypeOK, NEW id \in Identities, AllCounted(id)
  PROVE  /\ Verdict(id) \in {"failed", "completed"}
         /\ Verdict(id) = "completed" => Terminal(id) = Units
<1>1. \A u \in Units : result[id][u].status \in {"terminal", "failed"}
  BY DEF AllCounted, TypeOK, ResultStatuses
<1>2. Terminal(id) \cup Failed(id) = Units
  BY <1>1 DEF Terminal, Failed
<1> QED BY <1>2 DEF Verdict

(* Each step of a call keeps its own account.                              *)
LEMMA OwnCount ==
  ASSUME IInv, NEW c \in Callers, Calling(c)
  PROVE  Counted(c)'
<1> DEFINE q == call[c]
<1>0. /\ TypeOK /\ q.id \in Identities
      /\ Existing \subseteq Existing' /\ Existing \subseteq Identities
      /\ Counted(c)
      /\ \A id \in Identities, u \in Units :
           result[id][u].status # "none" => result'[id][u].status # "none"
  BY ExistingGrows, ResultsGrow DEF IInv, TypeOK, CallsKeepCount, Counted, Existing
<1>1. ASSUME call'[c].pc \notin InTheRun PROVE Counted(c)'
  BY <1>1 DEF Counted, InTheRun
<1>2. ASSUME Return(c) PROVE Counted(c)'
  BY <1>0, <1>1, <1>2, ReturnMoves DEF InTheRun
<1>3. ASSUME Begin(c) \/ Probe(c) \/ ReplaceMart(c) \/ ReadMartSource(c) PROVE Counted(c)'
  BY <1>0, <1>1, <1>2, <1>3, BeginMoves, ProbeMoves, SourceMoves DEF ReplaceMart, InTheRun
<1>4. ASSUME FindRun(c) PROVE Counted(c)'
  <2>1. CASE q.id \in Existing
    <3>1. call'[c].pc = "listing" /\ call'[c].id = q.id
      BY <1>0, <1>4, <2>1, GotoMoves DEF FindRun, Steps
    <3> QED BY <1>0, <2>1, <3>1 DEF Counted
  <2>2. CASE q.id \notin Existing
    <3>1. call'[c].pc = "creating"
      BY <1>0, <1>4, <2>2, GotoMoves DEF FindRun, Steps
    <3> QED BY <1>1, <3>1 DEF InTheRun
  <2> QED BY <2>1, <2>2
<1>5. ASSUME CreateRun(c) PROVE Counted(c)'
  <2>1. CASE q.id \in Existing
    BY <1>2, <1>5, <2>1 DEF CreateRun
  <2>2. CASE q.id \notin Existing
    <3>1. call'[c].pc = "listing" /\ call'[c].id = q.id
      BY <1>0, <1>5, <2>2, GotoMoves DEF CreateRun, Steps
    <3>2. q.id \in Existing'
      BY <1>5, ExistingGrows
    <3> QED BY <3>1, <3>2 DEF Counted
  <2> QED BY <2>1, <2>2
<1>6. ASSUME ListResults(c) PROVE Counted(c)'
  <2>1. /\ call'[c].pc = IF Pending(c) = {} THEN "summing" ELSE "marking"
        /\ call'[c].todo = Pending(c)
        /\ call'[c].id = q.id
    BY <1>0, <1>6, ListMoves
  <2>2. q.id \in Existing
    BY <1>0, <1>6 DEF Counted, ListResults, InTheRun
  <2>3. \A u \in Units \ Pending(c) : result'[q.id][u].status # "none"
    BY <1>0 DEF Pending, Terminal
  <2> HIDE DEF q
  <2> QED BY <1>0, <2>1, <2>2, <2>3 DEF Counted, AllCounted
<1>7. ASSUME MarkRunning(c) PROVE Counted(c)'
  <2>1. call'[c].pc = "batching" /\ call'[c].id = q.id /\ call'[c].todo = q.todo
    BY <1>0, <1>7, GotoMoves DEF MarkRunning, Steps
  <2>2. q.pc = "marking"
    BY <1>7 DEF MarkRunning
  <2> QED BY <1>0, <2>1, <2>2 DEF Counted, InTheRun
<1>8. ASSUME ProcessBatch(c) PROVE Counted(c)'
  <2>1. PICK batch \in SUBSET q.todo : Batched(c, batch)
    BY <1>0, <1>8, BatchWritten
  <2>2. q.id \in Existing /\ \A u \in Units \ q.todo : result[q.id][u].status # "none"
    BY <1>0, <1>8 DEF Counted, ProcessBatch, InTheRun
  <2>3. \A u \in Units \ (q.todo \ batch) : result'[q.id][u].status # "none"
    BY <1>0, <2>1, <2>2 DEF Batched
  <2>4. q.todo = batch => \A u \in Units : result'[q.id][u].status # "none"
    BY <2>3
  <2>5. /\ call'[c].pc = IF q.todo = batch THEN "summing" ELSE "batching"
        /\ call'[c].todo = q.todo \ batch
        /\ call'[c].id = q.id
    BY <2>1 DEF Batched
  <2> HIDE DEF q
  <2> QED BY <1>0, <2>2, <2>3, <2>4, <2>5 DEF Counted, AllCounted
<1>9. ASSUME ReadSummary(c) PROVE Counted(c)'
  <2>1. /\ call'[c].pc = "writing" /\ call'[c].id = q.id
        /\ call'[c].verdict = Verdict(q.id)
    BY <1>0, <1>9, SummaryMoves
  <2>2. q.id \in Existing /\ AllCounted(q.id)
    BY <1>0, <1>9 DEF Counted, ReadSummary, InTheRun
  <2>3. Verdict(q.id) \in {"failed", "completed"}
    BY <1>0, <2>2, VerdictOfAll
  <2> HIDE DEF q
  <2> QED BY <1>0, <2>1, <2>2, <2>3 DEF Counted, AllCounted
<1>10. ASSUME WriteSummary(c) PROVE Counted(c)'
  <2>1. /\ call'[c].pc = "settling" /\ call'[c].id = q.id
        /\ call'[c].verdict = q.verdict
    BY <1>0, <1>10, GotoMoves DEF WriteSummary, Steps
  <2>2. q.pc = "writing"
    BY <1>10 DEF WriteSummary
  <2> QED BY <1>0, <2>1, <2>2 DEF Counted, AllCounted, InTheRun
<1>11. ASSUME SettleRun(c) PROVE Counted(c)'
  <2>1. Goto(c, "reading") => call'[c].pc = "reading"
    BY <1>0, GotoMoves DEF Steps
  <2> QED BY <1>1, <1>2, <1>11, <2>1 DEF SettleRun, InTheRun
<1> QED BY <1>3, <1>4, <1>5, <1>6, <1>7, <1>8, <1>9, <1>10, <1>11 DEF Calling

(* Every step keeps the invariant.                                         *)
LEMMA IInvStep == IInv /\ [Next]_vars => IInv'
<1> SUFFICES ASSUME IInv, [Next]_vars PROVE IInv'
  OBVIOUS
<1>0. TypeOK /\ RanksBounded /\ TypeOK' /\ RanksBounded'
  BY TypeStep DEF IInv
<1>1. ASSUME UNCHANGED <<analysisRun, result, call>> PROVE IInv'
  BY <1>0, <1>1 DEF IInv, ResultsBelong, CallsKeepCount, AllCounted, Existing
<1>2. CASE Upgrade
  BY <1>1, <1>2 DEF Upgrade
<1>3. ASSUME NEW u \in Units, EditEvidence(u) PROVE IInv'
  BY <1>1, <1>3 DEF EditEvidence
<1>4. ASSUME NEW c \in Callers, Interrupt(c) PROVE IInv'
  <2>1. /\ call'[c].pc = "idle"
        /\ \A d \in Callers : d # c => call'[d] = call[d]
    BY <1>0, <1>4, ReturnMoves, CallsTyped DEF Interrupt
  <2>2. UNCHANGED <<analysisRun, result>>
    BY <1>4 DEF Interrupt
  <2>3. \A d \in Callers : Counted(d)'
    <3> SUFFICES ASSUME NEW d \in Callers PROVE Counted(d)'
      OBVIOUS
    <3>1. CASE d = c
      BY <2>1, <3>1 DEF Counted, InTheRun
    <3>2. CASE d # c
      BY <2>1, <2>2, <3>2 DEF IInv, CallsKeepCount, Counted, AllCounted, Existing
    <3> QED BY <3>1, <3>2
  <2> QED BY <1>0, <2>2, <2>3 DEF IInv, ResultsBelong, CallsKeepCount, Counted, Existing
<1>5. ASSUME NEW c \in Callers, Calling(c) PROVE IInv'
  <2>1. ResultsBelong'
    BY <1>5, BelongStep
  <2>2. \A d \in Callers : Counted(d)'
    <3> SUFFICES ASSUME NEW d \in Callers PROVE Counted(d)'
      OBVIOUS
    <3>1. CASE d = c
      BY <1>5, <3>1, OwnCount
    <3>2. CASE d # c
      <4>1. call'[d] = call[d] /\ call[d].id \in Identities
        BY <1>0, <1>5, <3>2, CallsTyped DEF TypeOK
      <4>2. /\ Existing \subseteq Existing'
            /\ \A u \in Units : result[call[d].id][u].status # "none" =>
                 result'[call[d].id][u].status # "none"
        BY <1>5, <4>1, ExistingGrows, ResultsGrow
      <4>3. Counted(d)
        BY DEF IInv, CallsKeepCount, Counted
      <4> QED BY <4>1, <4>2, <4>3 DEF Counted, AllCounted
    <3> QED BY <3>1, <3>2
  <2>3. CallsKeepCount'
    BY <2>2 DEF CallsKeepCount, Counted
  <2> QED BY <1>0, <2>1, <2>3 DEF IInv
<1>6. CASE UNCHANGED vars
  BY <1>1, <1>6 DEF vars
<1> QED BY <1>2, <1>3, <1>4, <1>5, <1>6 DEF Next

(* No call has begun and there is no analysis run.                         *)
LEMMA InitIInv == Init => IInv
<1> SUFFICES ASSUME Init PROVE IInv
  OBVIOUS
<1>1. TypeOK /\ RanksBounded
  BY InitTyped
<1>2. ResultsBelong
  BY DEF Init, ResultsBelong, NoResult
<1>3. CallsKeepCount
  <2>1. \A c \in Callers : call[c].pc = "idle"
    BY DEF Init, NoCall
  <2> QED BY <2>1 DEF CallsKeepCount, InTheRun
<1> QED BY <1>1, <1>2, <1>3 DEF IInv

(* However many calls overlap, and whatever fails, a call that gets to its *)
(* summary finds no unit of the run without a result.                      *)
THEOREM NothingForgotten == Spec => []NoUnitForgotten
<1>1. IInv => NoUnitForgotten
  BY DEF IInv, CallsKeepCount, NoUnitForgotten
<1> QED BY <1>1, InitIInv, IInvStep, PTL DEF Spec

------------------------------------------------------------------------------
(* With one caller, what the call has read of its run is still so: it      *)
(* re-sends no unit that has a result for this evidence, its run does not  *)
(* say completed while results are replaced, a verdict of completed is     *)
(* true when it is written, and what is to become the mart is whole.       *)
Owned(c) ==
  LET q == call[c]
  IN /\ q.pc = "finding" => q.reuse
     /\ q.pc = "listing" /\ ~q.reuse => Terminal(q.id) = {}
     /\ q.pc \in {"marking", "batching"} =>
          \A u \in q.todo : u \in Terminal(q.id) => result[q.id][u].evidence # q.seen[u]
     /\ q.pc = "batching" => analysisRun[q.id].status = "running"
     /\ q.pc = "writing" /\ q.verdict = "completed" => Terminal(q.id) = Units
     /\ q.pc = "replacing" => q.source.rows = Units

Alone == /\ \A c \in Callers : Owned(c)
         /\ CompletedIsComplete
         /\ MartIsWhole

(* Each step of the only call keeps what it owns.                          *)
LEMMA OwnedStep ==
  ASSUME IInv, Alone, NEW c \in Callers, Calling(c)
  PROVE  Owned(c)'
<1> DEFINE q == call[c]
<1>0. /\ TypeOK /\ RanksBounded /\ q \in CallRecords /\ q.id \in Identities
      /\ Owned(c) /\ CompletedIsComplete
      /\ analysisRun \in [Identities -> [status : RunStatuses, rank : Nat]]
  BY DEF IInv, Alone, TypeOK, CallRecords
<1>1. ASSUME call'[c].pc \in {"idle", "probing", "creating", "summing", "settling", "reading"}
      PROVE  Owned(c)'
  BY <1>1 DEF Owned
<1>2. ASSUME Return(c) PROVE Owned(c)'
  BY <1>0, <1>1, <1>2, ReturnMoves
<1>3. ASSUME Begin(c) \/ ReplaceMart(c) PROVE Owned(c)'
  BY <1>0, <1>1, <1>2, <1>3, BeginMoves DEF ReplaceMart
<1>4. ASSUME Probe(c) PROVE Owned(c)'
  <2>1. CASE call'[c].pc = "finding" /\ call'[c].reuse
    BY <2>1 DEF Owned
  <2> QED BY <1>0, <1>1, <1>4, <2>1, ProbeMoves
<1>5. ASSUME FindRun(c) PROVE Owned(c)'
  <2>1. q.reuse
    BY <1>0, <1>5 DEF Owned, FindRun
  <2>2. call'[c].pc \in {"listing", "creating"} /\ call'[c].reuse
    BY <1>0, <1>5, <2>1, GotoMoves DEF FindRun, Steps
  <2> QED BY <2>2 DEF Owned
<1>6. ASSUME CreateRun(c) PROVE Owned(c)'
  <2>1. CASE q.id \in Existing
    BY <1>2, <1>6, <2>1 DEF CreateRun
  <2>2. CASE q.id \notin Existing
    <3>1. call'[c].pc = "listing" /\ call'[c].id = q.id /\ result' = result
      BY <1>0, <1>6, <2>2, GotoMoves DEF CreateRun, Steps
    <3>2. \A u \in Units : result[q.id][u].status = "none"
      BY <1>0, <2>2 DEF IInv, ResultsBelong
    <3> HIDE DEF q
    <3> QED BY <3>1, <3>2 DEF Owned, Terminal
  <2> QED BY <2>1, <2>2
<1>7. ASSUME ListResults(c) PROVE Owned(c)'
  <2>1. /\ call'[c].pc = IF Pending(c) = {} THEN "summing" ELSE "marking"
        /\ call'[c].todo = Pending(c)
        /\ call'[c].id = q.id
        /\ call'[c].seen = q.seen
        /\ result' = result
    BY <1>0, <1>7, ListMoves DEF ListResults
  <2>2. ~q.reuse => Terminal(q.id) = {}
    BY <1>0, <1>7 DEF Owned, ListResults
  <2>3. \A u \in Pending(c) : u \in Terminal(q.id) => result[q.id][u].evidence # q.seen[u]
    BY <2>2 DEF Pending
  <2> HIDE DEF q
  <2> QED BY <2>1, <2>3 DEF Owned, Terminal
<1>8. ASSUME MarkRunning(c) PROVE Owned(c)'
  <2>1. /\ call'[c].pc = "batching"
        /\ call'[c].todo = q.todo
        /\ call'[c].id = q.id
        /\ call'[c].seen = q.seen
        /\ result' = result
    BY <1>0, <1>8, GotoMoves DEF MarkRunning, Steps
  <2>2. \A u \in q.todo : u \in Terminal(q.id) => result[q.id][u].evidence # q.seen[u]
    BY <1>0, <1>8 DEF Owned, MarkRunning
  <2>3. analysisRun'[q.id].status = "running"
    BY <1>0, <1>8 DEF MarkRunning
  <2> HIDE DEF q
  <2> QED BY <2>1, <2>2, <2>3 DEF Owned, Terminal
<1>9. ASSUME ProcessBatch(c) PROVE Owned(c)'
  <2>1. PICK batch \in SUBSET q.todo : Batched(c, batch)
    BY <1>0, <1>9, BatchWritten
  <2>2. /\ call'[c].pc = IF q.todo = batch THEN "summing" ELSE "batching"
        /\ call'[c].todo = q.todo \ batch
        /\ call'[c].id = q.id
        /\ call'[c].seen = q.seen
        /\ analysisRun' = analysisRun
    BY <2>1 DEF Batched
  <2>3. /\ \A u \in q.todo : u \in Terminal(q.id) => result[q.id][u].evidence # q.seen[u]
        /\ analysisRun[q.id].status = "running"
    BY <1>0, <1>9 DEF Owned, ProcessBatch
  <2>4. q.todo \subseteq Units /\ \A u \in Units \ batch : result'[q.id][u] = result[q.id][u]
    BY <1>0, <2>1 DEF Batched, CallRecords
  <2> HIDE DEF q
  <2> QED BY <2>2, <2>3, <2>4 DEF Owned, Terminal
<1>10. ASSUME ReadSummary(c) PROVE Owned(c)'
  <2>1. /\ call'[c].pc = "writing" /\ call'[c].id = q.id
        /\ call'[c].verdict = Verdict(q.id)
        /\ result' = result
    BY <1>0, <1>10, SummaryMoves DEF ReadSummary
  <2>2. AllCounted(q.id)
    BY <1>10 DEF IInv, CallsKeepCount, ReadSummary
  <2>3. Verdict(q.id) = "completed" => Terminal(q.id) = Units
    BY <1>0, <2>2, VerdictOfAll
  <2> HIDE DEF q
  <2> QED BY <2>1, <2>3 DEF Owned, Terminal
<1>11. ASSUME WriteSummary(c) PROVE Owned(c)'
  BY <1>0, <1>1, <1>11, GotoMoves DEF WriteSummary, Steps
<1>12. ASSUME SettleRun(c) PROVE Owned(c)'
  <2>1. Goto(c, "reading") => call'[c].pc = "reading"
    BY <1>0, GotoMoves DEF Steps
  <2> QED BY <1>1, <1>2, <1>12, <2>1 DEF SettleRun
<1>13. ASSUME ReadMartSource(c) PROVE Owned(c)'
  <2>1. CASE call'[c].pc = "idle"
    BY <1>1, <2>1
  <2>2. CASE /\ Completed # {}
             /\ call'[c].pc = "replacing"
             /\ call'[c].source.rows = Terminal(LastCompleted)
    <3>1. Terminal(LastCompleted) = Units
      BY <1>0, <2>2, LastExists DEF CompletedIsComplete
    <3> QED BY <2>2, <3>1 DEF Owned
  <2> QED BY <1>0, <1>13, <2>1, <2>2, SourceMoves
<1> QED
  BY <1>3, <1>4, <1>5, <1>6, <1>7, <1>8, <1>9, <1>10, <1>11, <1>12, <1>13 DEF Calling

(* An analysis run only says completed once its results are all there, and *)
(* none is replaced while it says so.                                      *)
LEMMA CompleteStep ==
  ASSUME IInv, Alone, NEW c \in Callers, Calling(c)
  PROVE  CompletedIsComplete'
<1> DEFINE q == call[c]
<1>0. /\ TypeOK /\ q.id \in Identities /\ Owned(c) /\ CompletedIsComplete
      /\ analysisRun \in [Identities -> [status : RunStatuses, rank : Nat]]
  BY DEF IInv, Alone, TypeOK
<1>1. CASE ProcessBatch(c)
  <2>1. PICK batch \in SUBSET q.todo : Batched(c, batch)
    BY <1>0, <1>1, BatchWritten
  <2>2. analysisRun[q.id].status = "running" /\ analysisRun' = analysisRun
    BY <1>0, <1>1, <2>1 DEF Owned, ProcessBatch, Batched
  <2>3. \A id \in Identities : id # q.id => Terminal(id)' = Terminal(id)
    BY <2>1 DEF Batched, Terminal
  <2> QED BY <1>0, <2>2, <2>3 DEF CompletedIsComplete, Completed
<1>2. CASE WriteSummary(c)
  <2>1. /\ \A id \in Identities : analysisRun'[id].status = IF id = q.id THEN q.verdict
                                                            ELSE analysisRun[id].status
        /\ result' = result
    BY <1>0, <1>2 DEF WriteSummary
  <2>2. q.verdict = "completed" => Terminal(q.id) = Units
    BY <1>0, <1>2 DEF Owned, WriteSummary
  <2>3. \A id \in Identities : Terminal(id)' = Terminal(id)
    BY <2>1 DEF Terminal
  <2>4. \A id \in Completed' : id \in Identities /\ Terminal(id) = Units
    BY <1>0, <2>1, <2>2 DEF CompletedIsComplete, Completed
  <2> QED BY <2>3, <2>4 DEF CompletedIsComplete
<1>3. CASE MarkRunning(c) \/ CreateRun(c)
  <2>1. /\ \A id \in Identities : analysisRun'[id].status \in {"running", analysisRun[id].status}
        /\ result' = result
    BY <1>0, <1>3 DEF MarkRunning, CreateRun
  <2>2. \A id \in Identities : Terminal(id)' = Terminal(id)
    BY <2>1 DEF Terminal
  <2>3. Completed' \subseteq Completed
    BY <2>1 DEF Completed
  <2> QED BY <1>0, <2>2, <2>3 DEF CompletedIsComplete, Completed
<1>4. CASE ~(ProcessBatch(c) \/ WriteSummary(c) \/ MarkRunning(c) \/ CreateRun(c))
  <2>1. UNCHANGED <<analysisRun, result>>
    BY <1>4 DEF Calling, Begin, Probe, FindRun, ListResults, ReadSummary, SettleRun,
       ReadMartSource, ReplaceMart
  <2> QED BY <1>0, <2>1 DEF CompletedIsComplete, Completed, Terminal
<1> QED BY <1>1, <1>2, <1>3, <1>4

(* The mart is only ever replaced by what a call has read.                 *)
LEMMA MartStep ==
  ASSUME IInv, Alone, NEW c \in Callers, Calling(c)
  PROVE  MartIsWhole'
<1>1. CASE ReplaceMart(c)
  <2>1. mart' = call[c].source /\ call[c].source.rows = Units
    BY <1>1 DEF ReplaceMart, Alone, Owned
  <2> QED BY <2>1 DEF MartIsWhole
<1>2. CASE ~ReplaceMart(c)
  <2>1. mart' = mart
    BY <1>2 DEF Calling, Begin, Probe, FindRun, CreateRun, ListResults, MarkRunning, ProcessBatch,
       ReadSummary, WriteSummary, SettleRun, ReadMartSource
  <2> QED BY <2>1 DEF Alone, MartIsWhole
<1> QED BY <1>1, <1>2

(* With one caller every step keeps all of it.                             *)
LEMMA AloneStep ==
  ASSUME \A c, d \in Callers : c = d
  PROVE  IInv /\ Alone /\ [Next]_vars => Alone'
<1> SUFFICES ASSUME IInv, Alone, [Next]_vars PROVE Alone'
  OBVIOUS
<1>1. ASSUME UNCHANGED <<analysisRun, result, call, mart>> PROVE Alone'
  BY <1>1 DEF Alone, Owned, Terminal, CompletedIsComplete, Completed, MartIsWhole
<1>2. CASE Upgrade
  BY <1>1, <1>2 DEF Upgrade
<1>3. ASSUME NEW u \in Units, EditEvidence(u) PROVE Alone'
  BY <1>1, <1>3 DEF EditEvidence
<1>4. ASSUME NEW c \in Callers, Interrupt(c) PROVE Alone'
  <2>1. call'[c].pc = "idle" /\ UNCHANGED <<analysisRun, result, mart>>
    BY <1>4, ReturnMoves DEF IInv, Interrupt
  <2>2. Owned(c)'
    BY <2>1 DEF Owned
  <2> QED BY <2>1, <2>2 DEF Alone, CompletedIsComplete, Completed, Terminal, MartIsWhole
<1>5. ASSUME NEW c \in Callers, Calling(c) PROVE Alone'
  BY <1>5, OwnedStep, CompleteStep, MartStep DEF Alone
<1>6. CASE UNCHANGED vars
  BY <1>1, <1>6 DEF vars
<1> QED BY <1>2, <1>3, <1>4, <1>5, <1>6 DEF Next

(* So it holds while calls follow each other.                              *)
LEMMA AloneAlways ==
  ASSUME \A c, d \in Callers : c = d
  PROVE  Spec => [](IInv /\ Alone)
<1>1. Init => Alone
  <2> SUFFICES ASSUME Init PROVE Alone
    OBVIOUS
  <2>1. \A c \in Callers : call[c].pc = "idle"
    BY DEF Init, NoCall
  <2>2. Completed = {}
    BY DEF Init, Completed
  <2> QED BY <2>1, <2>2 DEF Alone, Owned, CompletedIsComplete, MartIsWhole, Init
<1> QED BY <1>1, AloneStep, InitIInv, IInvStep, PTL DEF Spec

(* If calls do not overlap, an analysis run that says completed has a      *)
(* terminal result for every unit: through any number of retries, faults,  *)
(* upgrades of the service and changes of the evidence.                    *)
THEOREM CompletedMeansComplete ==
  ASSUME \A c, d \in Callers : c = d
  PROVE  Spec => []CompletedIsComplete
<1>1. IInv /\ Alone => CompletedIsComplete
  BY DEF Alone
<1> QED BY <1>1, AloneAlways, PTL

(* If calls do not overlap, the mart is never a part of the run, whichever *)
(* analysis run it was built from.                                         *)
THEOREM MartAlwaysWhole ==
  ASSUME \A c, d \in Callers : c = d
  PROVE  Spec => []MartIsWhole
<1>1. IInv /\ Alone => MartIsWhole
  BY DEF Alone
<1> QED BY <1>1, AloneAlways, PTL

(* If calls do not overlap, what has succeeded for this evidence is not    *)
(* analysed again.                                                         *)
THEOREM ResultsKept ==
  ASSUME \A c, d \in Callers : c = d
  PROVE  Spec => ResultsAreKept
<1> DEFINE Kept == \A id \in Identities, u \in Units :
             (result[id][u].status = "terminal" /\ result'[id][u] # result[id][u])
             => result'[id][u].evidence # result[id][u].evidence
<1>1. IInv /\ Alone /\ [Next]_vars => [Kept]_vars
  <2> SUFFICES ASSUME IInv, Alone, [Next]_vars, NEW id \in Identities, NEW u \in Units,
                      result[id][u].status = "terminal", result'[id][u] # result[id][u]
               PROVE  result'[id][u].evidence # result[id][u].evidence
    OBVIOUS
  <2>1. PICK c \in Callers : ProcessBatch(c)
    BY DEF Next, Calling, Upgrade, EditEvidence, Interrupt, Begin, Probe, FindRun, CreateRun,
       ListResults, MarkRunning, ReadSummary, WriteSummary, SettleRun, ReadMartSource,
       ReplaceMart, vars
  <2>2. PICK batch \in SUBSET call[c].todo : Batched(c, batch)
    BY <2>1, BatchWritten DEF IInv
  <2>3. id = call[c].id /\ u \in batch /\ result'[id][u].evidence = call[c].seen[u]
    BY <2>2 DEF Batched
  <2>4. u \in Terminal(call[c].id) => result[call[c].id][u].evidence # call[c].seen[u]
    BY <2>1, <2>3 DEF Alone, Owned, ProcessBatch
  <2> QED BY <2>3, <2>4 DEF Terminal
<1> QED BY <1>1, AloneAlways, PTL DEF Spec, ResultsAreKept
=============================================================================
