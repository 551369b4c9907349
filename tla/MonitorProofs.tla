---------------------------- MODULE MonitorProofs ----------------------------
(***************************************************************************)
(* Proofs about Monitor, for any number of runs, pages, days, screens and  *)
(* other clients: the backend below the screens is that of Publish, a      *)
(* preview never understates, what the backend's check found in the way of *)
(* a publication had been named in the form, and no group is ever shown.   *)
(*                                                                         *)
(* A screen decides by an answer it was given some time ago.  The          *)
(* invariant says what an answer, on its way or on the screen, still tells *)
(* of the rows: an eligibility once given stays (RowTrue), and with every  *)
(* midnight a run not yet planned becomes less publishable, never more     *)
(* (PreviewTrue).  Of a publication under way it says that the record of   *)
(* the backend's handler is the one that the screen's call opened, and     *)
(* what the checks passed so far have established (RequestOwn).            *)
(***************************************************************************)
EXTENDS Monitor, PublishProofs

(* What is true of an answer. *)
RunKnown(r) == r \in Runs /\ status[r] # "absent"

SummaryTrue(raw) == RunKnown(raw.id) /\ raw.publish_eligibility = eligibility[raw.id]

RowTrue(row) == RunKnown(row.id) /\ row.publishEligibility = eligibility[row.id]

AtMost(r, rank) == Rank(EligibilityAt(r, today)) <= rank /\ Rank(eligibility[r]) <= rank

PreviewTrue(p) == /\ p.id \in Runs
                  /\ Rank(p.publish_eligibility) \in Nat
                  /\ AtMost(p.id, Rank(p.publish_eligibility))

AnswerTrue(q) ==
  q.pc = "answered" =>
    /\ q.kind \in {"detail", "publish"} => \A raw \in q.answer : SummaryTrue(raw)
    /\ q.kind = "preview" => \A a \in q.answer : \A p \in a : PreviewTrue(p)
    /\ q.kind \in {"group", "execute"} => \A raw \in q.answer : ~Mappable(raw)

(* What is true of a publication that the screen has asked for.            *)
PublishTrue(q) ==
  q.kind = "publish" =>
    /\ RunKnown(q.run)
    /\ q.as \in Channels
    /\ eligibility[q.run] = EligibleFor(q.as)
    /\ q.day \in Nat /\ q.day <= today
    /\ q.pc = "serving" /\ q.as = "official" /\ DayOf[q.run] < q.day => q.confirm

(* The handler's record belongs to the call.                               *)
RequestOwn(c) ==
  /\ request[c].pc # "idle" =>
       /\ refresh[c] = NoRefresh
       /\ call[c].kind = "publish" /\ call[c].pc = "serving"
       /\ request[c].run = call[c].run /\ request[c].as = call[c].as
  /\ request[c].pc = "checked" => request[c].replaced \in {NoRun, call[c].expected}

(* A call is a record with the fields of NoCall.                           *)
Fields == {"kind", "pc", "group", "run", "as", "expected", "confirm", "day", "answer"}
IsCall(q) == DOMAIN q = Fields

CallTrue(c) == /\ IsCall(call[c])
               /\ AnswerTrue(call[c])
               /\ PublishTrue(call[c])
               /\ RequestOwn(c)

ScreenTrue ==
  /\ screen = [preview |-> screen.preview, group |-> {}, detail |-> screen.detail]
  /\ \A row \in screen.detail : RowTrue(row)
  /\ \A p \in screen.preview : PreviewTrue(p)

MonitorInv ==
  /\ call = [c \in Calls |-> call[c]]
  /\ \A c \in Calls : CallTrue(c)
  /\ ScreenTrue

------------------------------------------------------------------------------
(* Each step of Monitor is a step of Publish or leaves its rows alone.     *)
LEMMA MonitorStepPublishes == MonitorNext => [Next]_vars
<1> SUFFICES ASSUME MonitorNext PROVE [Next]_vars
  OBVIOUS
<1>1. CASE Elsewhere
  BY <1>1 DEF Elsewhere, Next
<1>2. CASE \E c \in Calls : ScreenStep(c)
  <2> PICK c \in Calls : ScreenStep(c)
    BY <1>2
  <2>1. c \in Publishers
    BY MonitorConstants
  <2>2. Serve(c) \/ PublishAccepted(c) => Publishing(c)
    BY DEF Serve, PublishAccepted, Publishing
  <2>3. \A g \in Groups : ExecuteManualRun(c, g) => PlanGroup(g)
    BY DEF ExecuteManualRun
  <2>4. CASE UNCHANGED vars
    BY <2>4
  <2>5. ~UNCHANGED vars => Serve(c) \/ PublishAccepted(c) \/ \E g \in Groups : ExecuteManualRun(c, g)
    BY DEF ScreenStep, PreviewManualRun, LoadRunGroup, LoadRunDetail, Ask, ExecutionEnds,
       PublishRun, PublishRefused, AnswerPublish, AnswerLost, ShowPreview, ShowRunGroup,
       ShowRunDetail
  <2> QED BY <2>1, <2>2, <2>3, <2>4, <2>5 DEF Next
<1> QED BY <1>1, <1>2 DEF MonitorNext

(* The backend below the screens is that of Publish: whatever holds of     *)
(* every behaviour of Publish holds with any number of screens on it.      *)
THEOREM MonitorRefinesPublish == MonitorSpec => Spec
<1>1. MonitorInit => Init
  BY DEF MonitorInit
<1>2. [MonitorNext]_mvars => [Next]_vars
  BY MonitorStepPublishes DEF mvars, monitorVars
<1> QED BY <1>1, <1>2, PTL DEF MonitorSpec, Spec

------------------------------------------------------------------------------
(* How the rows move: no run is forgotten, an eligibility once given       *)
(* stays, and no run becomes more publishable than it was.                 *)
LEMMA RankFalls ==
  ASSUME NEW r \in Runs, NEW d \in Nat, NEW e \in Nat, d <= e
  PROVE  /\ Rank(EligibilityAt(r, d)) \in Nat
         /\ Rank(EligibilityAt(r, e)) <= Rank(EligibilityAt(r, d))
BY PublishConstants DEF EligibilityAt, Rank, Days

LEMMA EligibilityStays ==
  ASSUME IInv, [Next]_vars
  PROVE  \A r \in Runs :
           /\ status[r] # "absent" => status'[r] # "absent" /\ eligibility'[r] = eligibility[r]
           /\ eligibility'[r] = eligibility[r] \/ eligibility'[r] = EligibilityAt(r, today)
<1>1. status \in [Runs -> Statuses] /\ eligibility \in [Runs -> Eligibilities]
  BY DEF IInv, TypeOK
<1>2. CASE UNCHANGED <<status, eligibility>>
  BY <1>2
<1>3. ASSUME NEW g \in Groups, PlanGroup(g)
      PROVE  \A r \in Runs :
           /\ status[r] # "absent" => status'[r] # "absent" /\ eligibility'[r] = eligibility[r]
           /\ eligibility'[r] = eligibility[r] \/ eligibility'[r] = EligibilityAt(r, today)
  BY <1>1, <1>3 DEF PlanGroup
<1>4. ASSUME NEW r \in Runs, ExtractRun(r) \/ EndAnalysis(r)
      PROVE  UNCHANGED eligibility /\ \A q \in Runs : status[q] # "absent" => status'[q] # "absent"
  BY <1>1, <1>4 DEF ExtractRun, EndAnalysis
<1>5. ASSUME NEW p \in Publishers, CommitPublish(p)
      PROVE  UNCHANGED eligibility /\ \A q \in Runs : status[q] # "absent" => status'[q] # "absent"
  BY <1>1, <1>5 DEF CommitPublish
<1>6. \/ UNCHANGED <<status, eligibility>>
      \/ \E g \in Groups : PlanGroup(g)
      \/ \E r \in Runs : ExtractRun(r) \/ EndAnalysis(r)
      \/ \E p \in Publishers : CommitPublish(p)
  BY DEF Next, Publishing, Midnight, StartAnalysis, Materialize, BeginPublish, ScanSnapshots,
     CheckExpected, RefuseUnmaterialized, ReadGroup, WriteGroup, vars, runVars
<1> QED BY <1>2, <1>3, <1>4, <1>5, <1>6

LEMMA TodayGrows ==
  ASSUME IInv, [Next]_vars
  PROVE  today \in Nat /\ today' \in Nat /\ today <= today'
<1>1. today \in Nat
  BY PublishConstants DEF IInv, TypeOK, Days
<1>2. today' = today \/ today' = today + 1
  BY DEF Next, Publishing, Midnight, PlanGroup, ExtractRun, StartAnalysis, EndAnalysis,
     Materialize, BeginPublish, ScanSnapshots, CheckExpected, RefuseUnmaterialized,
     CommitPublish, ReadGroup, WriteGroup, vars
<1> QED BY <1>1, <1>2

(* What is true of an answer stays true. *)
LEMMA TruthStays ==
  ASSUME IInv, [Next]_vars
  PROVE  /\ \A r : RunKnown(r) => RunKnown(r)' /\ eligibility'[r] = eligibility[r]
         /\ \A p : PreviewTrue(p) => PreviewTrue(p)'
<1>1. \A r : RunKnown(r) => RunKnown(r)' /\ eligibility'[r] = eligibility[r]
  BY EligibilityStays DEF RunKnown
<1>2. ASSUME NEW p, PreviewTrue(p) PROVE PreviewTrue(p)'
  <2> DEFINE r == p.id
  <2>1. r \in Runs /\ Rank(p.publish_eligibility) \in Nat
    BY <1>2 DEF PreviewTrue
  <2>2. /\ Rank(EligibilityAt(r, today')) <= Rank(EligibilityAt(r, today))
        /\ Rank(EligibilityAt(r, today)) \in Nat /\ Rank(EligibilityAt(r, today')) \in Nat
    BY <2>1, TodayGrows, RankFalls
  <2>3. eligibility'[r] = eligibility[r] \/ eligibility'[r] = EligibilityAt(r, today)
    BY <2>1, EligibilityStays
  <2>4. AtMost(r, Rank(p.publish_eligibility))
    BY <1>2 DEF PreviewTrue
  <2>5. EligibilityAt(r, today)' = EligibilityAt(r, today')
    BY DEF EligibilityAt
  <2>6. AtMost(r, Rank(p.publish_eligibility))'
    <3>1. Rank(EligibilityAt(r, today')) <= Rank(p.publish_eligibility)
      BY <2>1, <2>2, <2>4 DEF AtMost
    <3>2. Rank(eligibility'[r]) <= Rank(p.publish_eligibility)
      BY <2>3, <2>4 DEF AtMost
    <3> QED BY <3>1, <3>2, <2>5 DEF AtMost
  <2> QED BY <2>1, <2>6 DEF PreviewTrue
<1> QED BY <1>1, <1>2

------------------------------------------------------------------------------
(* The invariant.                                                          *)
LEMMA FieldsOfNoCall == IsCall(NoCall)
BY DEF IsCall, Fields, NoCall

LEMMA MonitorInitInv == MonitorInit => MonitorInv
<1> SUFFICES ASSUME MonitorInit PROVE MonitorInv
  OBVIOUS
<1>1. ASSUME NEW c \in Calls PROVE CallTrue(c)
  <2>1. call[c] = NoCall /\ request[c] = Idle
    BY <1>1, MonitorConstants DEF MonitorInit, Init
  <2>2. NoCall.kind = "none" /\ NoCall.pc = "idle" /\ Idle.pc = "idle"
    BY DEF NoCall, Idle
  <2> QED BY <2>1, <2>2, FieldsOfNoCall DEF CallTrue, AnswerTrue, PublishTrue, RequestOwn
<1>2. ScreenTrue
  BY DEF MonitorInit, ScreenTrue
<1> QED BY <1>1, <1>2 DEF MonitorInit, MonitorInv

(* Another step leaves true what was true of the answers and of the        *)
(* publications under way.                                                 *)
LEMMA AnswersStay ==
  ASSUME IInv, [Next]_vars
  PROVE  /\ \A q : AnswerTrue(q) => AnswerTrue(q)'
         /\ \A q : PublishTrue(q) => PublishTrue(q)'
         /\ UNCHANGED screen /\ ScreenTrue => ScreenTrue'
<1> USE TruthStays
<1>1. \A raw : SummaryTrue(raw) => SummaryTrue(raw)'
  BY DEF SummaryTrue
<1>2. \A row : RowTrue(row) => RowTrue(row)'
  BY DEF RowTrue
<1>3. \A q : AnswerTrue(q) => AnswerTrue(q)'
  BY <1>1 DEF AnswerTrue
<1>4. \A q : PublishTrue(q) => PublishTrue(q)'
  <2> TAKE q
  <2>1. today \in Nat /\ today' \in Nat /\ today <= today'
    BY TodayGrows
  <2> QED BY <2>1 DEF PublishTrue
<1>5. UNCHANGED screen /\ ScreenTrue => ScreenTrue'
  BY <1>2 DEF ScreenTrue
<1> QED BY <1>3, <1>4, <1>5

(* A step of one call leaves those of the others alone.                    *)
LEMMA OneCallMoves ==
  ASSUME IInv, MonitorInv, [Next]_vars, ScreenTrue',
         NEW c \in Calls, NEW q,
         call' = [call EXCEPT ![c] = q],
         IsCall(q), AnswerTrue(q)', PublishTrue(q)', RequestOwn(c)',
         \A d \in Calls \ {c} : request'[d] = request[d] /\ refresh'[d] = refresh[d]
  PROVE  MonitorInv'
<1>1. call' = [d \in Calls |-> call'[d]] /\ call'[c] = q
  BY DEF MonitorInv
<1>2. CallTrue(c)'
  BY <1>1 DEF CallTrue
<1>3. ASSUME NEW d \in Calls \ {c} PROVE CallTrue(d)'
  <2>1. call'[d] = call[d] /\ CallTrue(d)
    BY DEF MonitorInv
  <2>2. AnswerTrue(call[d])' /\ PublishTrue(call[d])'
    BY <2>1, AnswersStay DEF CallTrue
  <2> QED BY <2>1, <2>2, <1>3 DEF CallTrue, RequestOwn, AnswerTrue, PublishTrue
<1> QED BY <1>1, <1>2, <1>3 DEF MonitorInv

(* A step elsewhere: the rows move, the calls and the screen do not.       *)
LEMMA ElsewhereKeeps == IInv /\ MonitorInv /\ Elsewhere => MonitorInv'
<1> SUFFICES ASSUME IInv, MonitorInv, Elsewhere PROVE MonitorInv'
  OBVIOUS
<1>1. [Next]_vars
  BY DEF Elsewhere, Next
<1>2. UNCHANGED <<screen, call>>
  BY DEF Elsewhere, monitorVars
<1>3. ASSUME NEW d \in Calls
      PROVE  request'[d] = request[d] /\ refresh'[d] = refresh[d]
  <2>1. CASE UNCHANGED callVars
    BY <2>1 DEF callVars
  <2>2. ASSUME NEW p \in Publishers \ Calls, Publishing(p)
        PROVE  request'[d] = request[d] /\ refresh'[d] = refresh[d]
    <3>1. \/ UNCHANGED refresh
          \/ \E x : refresh' = [refresh EXCEPT ![p] = x]
      BY <2>2 DEF Publishing, BeginPublish, ScanSnapshots, CheckExpected, RefuseUnmaterialized,
         CommitPublish, ReadGroup, WriteGroup
    <3>2. \/ UNCHANGED request
          \/ \E x : request' = [request EXCEPT ![p] = x]
      BY <2>2 DEF Publishing, BeginPublish, ScanSnapshots, CheckExpected, RefuseUnmaterialized,
         CommitPublish, ReadGroup, WriteGroup
    <3>3. d # p /\ d \in Publishers
      BY <2>2, MonitorConstants
    <3>4. request \in [Publishers -> Requests] /\ refresh \in [Publishers -> Refreshes]
      BY DEF IInv, TypeOK
    <3> QED BY <3>1, <3>2, <3>3, <3>4
  <2> QED BY <2>1, <2>2 DEF Elsewhere, Midnight, PlanGroup, ExtractRun, StartAnalysis,
       EndAnalysis, Materialize
<1>4. ASSUME NEW d \in Calls PROVE CallTrue(d)'
  <2>1. call'[d] = call[d] /\ CallTrue(d)
    BY <1>2 DEF MonitorInv
  <2>2. AnswerTrue(call[d])' /\ PublishTrue(call[d])'
    BY <2>1, <1>1, AnswersStay DEF CallTrue
  <2> QED BY <2>1, <2>2, <1>2, <1>3 DEF CallTrue, RequestOwn, AnswerTrue, PublishTrue
<1>5. ScreenTrue'
  BY <1>1, <1>2, AnswersStay DEF MonitorInv
<1> QED BY <1>2, <1>4, <1>5 DEF MonitorInv

(* A call that is free satisfies the invariant in any state.               *)
LEMMA NoCallTrue ==
  /\ IsCall(NoCall) /\ AnswerTrue(NoCall) /\ PublishTrue(NoCall)
  /\ AnswerTrue(NoCall)' /\ PublishTrue(NoCall)'
<1>1. NoCall.kind = "none" /\ NoCall.pc = "idle"
  BY DEF NoCall
<1> QED BY <1>1, FieldsOfNoCall DEF AnswerTrue, PublishTrue

(* Before its handler has begun, and after it has ended, a call may become *)
(* anything that is true.                                                  *)
LEMMA CallMoves ==
  ASSUME IInv, MonitorInv, NEW c \in Calls, NEW q,
         UNCHANGED <<vars, screen>>, request[c].pc = "idle",
         call' = [call EXCEPT ![c] = q],
         IsCall(q), AnswerTrue(q), PublishTrue(q)
  PROVE  MonitorInv'
<1>1. [Next]_vars
  OBVIOUS
<1>2. AnswerTrue(q)' /\ PublishTrue(q)'
  BY <1>1, AnswersStay
<1>3. UNCHANGED <<request, refresh>>
  BY DEF vars, callVars
<1>4. RequestOwn(c)'
  BY <1>3 DEF RequestOwn
<1>5. ScreenTrue'
  BY <1>1, AnswersStay DEF MonitorInv
<1> QED BY <1>1, <1>2, <1>3, <1>4, <1>5, OneCallMoves

(* What the backend answers is true.                                       *)
LEMMA AnswersTrue ==
  ASSUME IInv
  PROVE  /\ \A r \in Runs : status[r] # "absent" => SummaryTrue(SerializeRunSummary(r))
         /\ \A g \in Groups : ~Mappable(GetRunGroup(g))
         /\ \A g \in Groups :
              (\A r \in RunsOf(g) : status[r] = "absent")
              => \A p \in PreviewJobRequest(g) : PreviewTrue(p)
<1>1. \A r \in Runs : status[r] # "absent" => SummaryTrue(SerializeRunSummary(r))
  BY DEF SummaryTrue, SerializeRunSummary, RunKnown
<1>2. \A g \in Groups : ~Mappable(GetRunGroup(g))
  BY DEF Mappable, GetRunGroup, SerializeRunGroup
<1>3. ASSUME NEW g \in Groups, \A r \in RunsOf(g) : status[r] = "absent",
             NEW p \in PreviewJobRequest(g)
      PROVE  PreviewTrue(p)
  <2>1. PICK r \in Runs : /\ r \in RunsOf(g)
                         /\ p = [id |-> r, publish_eligibility |-> EligibilityAt(r, today)]
    BY <1>3 DEF PreviewJobRequest, RunsOf
  <2>2. status[r] = "absent" /\ eligibility[r] = "none"
    BY <1>3, <2>1 DEF IInv, RowsAgree
  <2>3. today \in Nat
    BY PublishConstants DEF IInv, TypeOK, Days
  <2>4. Rank(EligibilityAt(r, today)) \in Nat
    BY <2>3, RankFalls
  <2>5. Rank(eligibility[r]) = 0
    BY <2>2 DEF Rank
  <2> QED BY <2>1, <2>4, <2>5 DEF PreviewTrue, AtMost
<1> QED BY <1>1, <1>2, <1>3

(* The buttons that only read, and the end of an execution.                *)
LEMMA ReadingKeeps ==
  ASSUME IInv, MonitorInv, NEW c \in Calls,
         \/ \E g \in Groups : PreviewManualRun(c, g) \/ LoadRunGroup(c, g)
         \/ \E r \in Runs : LoadRunDetail(c, r)
  PROVE  MonitorInv'
<1>1. PICK kind, answer :
        /\ kind \in {"preview", "group", "detail"}
        /\ Ask(c, kind, answer)
        /\ kind = "detail" => SummaryTrue(answer)
        /\ kind = "preview" => \A p \in answer : PreviewTrue(p)
        /\ kind = "group" => ~Mappable(answer)
  <2>1. ASSUME NEW g \in Groups, PreviewManualRun(c, g)
        PROVE  Ask(c, "preview", PreviewJobRequest(g)) /\ \A p \in PreviewJobRequest(g) : PreviewTrue(p)
    BY <2>1, AnswersTrue DEF PreviewManualRun
  <2>2. ASSUME NEW g \in Groups, LoadRunGroup(c, g)
        PROVE  Ask(c, "group", GetRunGroup(g)) /\ ~Mappable(GetRunGroup(g))
    BY <2>2, AnswersTrue DEF LoadRunGroup
  <2>3. ASSUME NEW r \in Runs, LoadRunDetail(c, r)
        PROVE  Ask(c, "detail", SerializeRunSummary(r)) /\ SummaryTrue(SerializeRunSummary(r))
    BY <2>3, AnswersTrue DEF LoadRunDetail
  <2> QED BY <2>1, <2>2, <2>3
<1> DEFINE q == [NoCall EXCEPT !.kind = kind, !.pc = "answered", !.answer = {answer}]
<1>2. IsCall(q) /\ q.kind = kind /\ q.pc = "answered" /\ q.answer = {answer}
  BY FieldsOfNoCall DEF IsCall, Fields
<1>3. AnswerTrue(q) /\ PublishTrue(q)
  BY <1>1, <1>2 DEF AnswerTrue, PublishTrue
<1>4. /\ call' = [call EXCEPT ![c] = q] /\ request[c].pc = "idle"
      /\ UNCHANGED <<vars, screen>>
  BY <1>1 DEF Ask, Free, Open
<1> HIDE DEF q
<1> QED BY <1>2, <1>3, <1>4, CallMoves

(* executeManualRun.                                                       *)
LEMMA ExecutingKeeps ==
  ASSUME IInv, MonitorInv, NEW c \in Calls,
         \/ \E g \in Groups : ExecuteManualRun(c, g)
         \/ ExecutionEnds(c)
  PROVE  MonitorInv'
<1>1. ASSUME NEW g \in Groups, ExecuteManualRun(c, g) PROVE MonitorInv'
  <2> DEFINE q == [NoCall EXCEPT !.kind = "execute", !.pc = "sent", !.group = g]
  <2>1. IsCall(q) /\ q.kind = "execute" /\ q.pc = "sent"
    BY FieldsOfNoCall DEF IsCall, Fields
  <2>2. AnswerTrue(q)' /\ PublishTrue(q)'
    BY <2>1 DEF AnswerTrue, PublishTrue
  <2>3. PlanGroup(g) /\ call' = [call EXCEPT ![c] = q] /\ UNCHANGED screen
    BY <1>1 DEF ExecuteManualRun, Open
  <2>4. UNCHANGED <<request, refresh>>
    BY <2>3 DEF PlanGroup, callVars
  <2>5. RequestOwn(c)'
    BY <1>1, <2>4 DEF ExecuteManualRun, Free, RequestOwn
  <2>6. [Next]_vars
    BY <2>3 DEF Next
  <2>7. ScreenTrue'
    BY <2>3, <2>6, AnswersStay DEF MonitorInv
  <2> HIDE DEF q
  <2> QED BY <2>1, <2>2, <2>3, <2>4, <2>5, <2>6, <2>7, OneCallMoves
<1>2. CASE ExecutionEnds(c)
  <2>1. request[c].pc = "idle" /\ IsCall(call[c]) /\ UNCHANGED <<vars, screen>>
    BY <1>2 DEF ExecutionEnds, Working, MonitorInv, CallTrue, RequestOwn
  <2>2. CASE call' = [call EXCEPT ![c] = NoCall]
    BY <2>1, <2>2, CallMoves, NoCallTrue
  <2>3. CASE call' # [call EXCEPT ![c] = NoCall]
    <3> DEFINE q == [call[c] EXCEPT !.pc = "answered", !.answer = {GetRunGroup(call[c].group)}]
    <3>1. call' = [call EXCEPT ![c] = q] /\ call[c].kind = "execute"
      BY <1>2, <2>3 DEF ExecutionEnds, Open, Close, Working
    <3>2. /\ q.kind = "execute" /\ q.pc = "answered"
          /\ q.answer = {GetRunGroup(call[c].group)}
          /\ IsCall(q)
      BY <2>1, <3>1 DEF IsCall, Fields
    <3>3. ~Mappable(GetRunGroup(call[c].group))
      BY DEF Mappable, GetRunGroup, SerializeRunGroup
    <3>4. AnswerTrue(q) /\ PublishTrue(q)
      BY <3>2, <3>3 DEF AnswerTrue, PublishTrue
    <3> HIDE DEF q
    <3> QED BY <2>1, <3>1, <3>2, <3>4, CallMoves
  <2> QED BY <2>2, <2>3
<1> QED BY <1>1, <1>2

------------------------------------------------------------------------------
(* The button offers a row's channel, and the row still tells the run's    *)
(* eligibility.                                                            *)
LEMMA OfferTrue ==
  ASSUME NEW r \in Runs, DerivePublishAction(eligibility[r]) # "none"
  PROVE  /\ DerivePublishAction(eligibility[r]) \in Channels
         /\ eligibility[r] = EligibleFor(DerivePublishAction(eligibility[r]))
<1>1. CASE eligibility[r] = "official_full_day"
  BY <1>1 DEF DerivePublishAction, EligibleFor, Channels
<1>2. CASE eligibility[r] = "provisional_current_day_partial"
  BY <1>2 DEF DerivePublishAction, EligibleFor, Channels
<1>3. CASE eligibility[r] \notin {"official_full_day", "provisional_current_day_partial"}
  BY <1>3 DEF DerivePublishAction
<1> QED BY <1>1, <1>2, <1>3

LEMMA PressingKeeps ==
  ASSUME IInv, MonitorInv, NEW c \in Calls, PublishRun(c)
  PROVE  MonitorInv'
<1>1. PICK r, expected, confirm, row :
        /\ r \in Runs
        /\ row \in FindRunForPublish(r)
        /\ DerivePublishAction(row.publishEligibility) # "none"
        /\ Open(c, [NoCall EXCEPT
              !.kind = "publish", !.pc = "sent", !.run = r,
              !.as = DerivePublishAction(row.publishEligibility),
              !.expected = expected, !.confirm = confirm, !.day = today])
  BY DEF PublishRun
<1>2. row \in screen.detail /\ row.id = r
  BY <1>1 DEF FindRunForPublish, MonitorInv, ScreenTrue
<1>3. RunKnown(r) /\ row.publishEligibility = eligibility[r]
  BY <1>2 DEF MonitorInv, ScreenTrue, RowTrue
<1>a. PICK as : as = DerivePublishAction(eligibility[r])
  OBVIOUS
<1>b. PICK q : q = [NoCall EXCEPT !.kind = "publish", !.pc = "sent", !.run = r, !.as = as,
                                  !.expected = expected, !.confirm = confirm, !.day = today]
  OBVIOUS
<1>4. as \in Channels /\ eligibility[r] = EligibleFor(as)
  BY <1>a, <1>1, <1>3, OfferTrue
<1>5. today \in Nat
  BY PublishConstants DEF IInv, TypeOK, Days
<1>6. /\ IsCall(q) /\ q.kind = "publish" /\ q.pc = "sent" /\ q.run = r /\ q.as = as
      /\ q.day = today
  BY <1>b, FieldsOfNoCall DEF IsCall, Fields
<1>7. /\ call' = [call EXCEPT ![c] = q] /\ request[c].pc = "idle"
      /\ UNCHANGED <<vars, screen>>
  BY <1>a, <1>b, <1>1, <1>3 DEF PublishRun, Free, Open
<1>8. AnswerTrue(q) /\ PublishTrue(q)
  <2>1. AnswerTrue(q)
    BY <1>6 DEF AnswerTrue
  <2>2. RunKnown(q.run) /\ q.as \in Channels
    BY <1>3, <1>4, <1>6
  <2>3. eligibility[q.run] = EligibleFor(q.as)
    BY <1>4, <1>6
  <2>4. q.day \in Nat /\ q.day <= today
    BY <1>5, <1>6
  <2> QED BY <1>6, <2>1, <2>2, <2>3, <2>4 DEF PublishTrue
<1> QED BY <1>6, <1>7, <1>8, CallMoves

(* The handler begins: what it validated is what the call sent.            *)
LEMMA AcceptingKeeps ==
  ASSUME IInv, MonitorInv, NEW c \in Calls, PublishAccepted(c)
  PROVE  MonitorInv'
<1>b. PICK q : q = [call[c] EXCEPT !.pc = "serving"]
  OBVIOUS
<1>1. IsCall(call[c]) /\ PublishTrue(call[c])
  BY DEF MonitorInv, CallTrue
<1>2. /\ IsCall(q) /\ q.pc = "serving" /\ q.kind = call[c].kind /\ q.run = call[c].run
      /\ q.as = call[c].as /\ q.day = call[c].day /\ q.confirm = call[c].confirm
  BY <1>b, <1>1 DEF IsCall, Fields
<1>3. call' = [call EXCEPT ![c] = q] /\ UNCHANGED screen /\ call[c].kind = "publish"
  BY <1>b DEF PublishAccepted, Open, Working
<1>4. c \in Publishers /\ [Next]_vars
  BY MonitorConstants DEF PublishAccepted, Next, Publishing
<1>5. today \in Nat /\ DayOf[call[c].run] \in Nat /\ call[c].day \in Nat /\ call[c].day <= today
  BY <1>1, <1>3, PublishConstants DEF IInv, TypeOK, Days, PublishTrue, RunKnown
<1>6. call[c].as = "official" /\ DayOf[call[c].run] < call[c].day => call[c].confirm
  BY <1>5 DEF PublishAccepted, Accepted, ValidPublish, BodyConfirm
<1>7. AnswerTrue(q)' /\ PublishTrue(q)'
  <2>1. AnswerTrue(q) /\ PublishTrue(q)
    BY <1>1, <1>2, <1>6 DEF AnswerTrue, PublishTrue
  <2> QED BY <2>1, <1>4, AnswersStay
<1>8. PICK r \in Runs, as \in Channels :
        request' = [request EXCEPT ![c] = [Idle EXCEPT !.pc = "validated", !.run = r, !.as = as]]
  BY DEF PublishAccepted, BeginPublish
<1>9. refresh[c] = NoRefresh /\ UNCHANGED refresh
  BY DEF PublishAccepted, BeginPublish
<1>10. request \in [Publishers -> Requests]
  BY DEF IInv, TypeOK
<1>11. RequestOwn(c)'
  <2>1. request'[c].pc = "validated"
    BY <1>4, <1>8, <1>10 DEF Idle
  <2>2. request'[c].run = call[c].run /\ request'[c].as = call[c].as
    BY DEF PublishAccepted
  <2>3. call'[c] = q
    BY <1>3 DEF MonitorInv
  <2> QED BY <1>2, <1>3, <1>9, <2>1, <2>2, <2>3 DEF RequestOwn
<1>12. \A d \in Calls \ {c} : request'[d] = request[d] /\ refresh'[d] = refresh[d]
  BY <1>8, <1>9, <1>10, MonitorConstants
<1>13. ScreenTrue'
  BY <1>3, <1>4, AnswersStay DEF MonitorInv
<1> QED BY <1>2, <1>3, <1>4, <1>7, <1>11, <1>12, <1>13, OneCallMoves

(* The steps of the handler.                                               *)
LEMMA ServingKeeps ==
  ASSUME IInv, MonitorInv, NEW c \in Calls, Serve(c)
  PROVE  MonitorInv'
<1>1. c \in Publishers /\ [Next]_vars
  BY MonitorConstants DEF Serve, Next, Publishing
<1>2. /\ call[c].kind = "publish" /\ call[c].pc = "serving" /\ UNCHANGED screen
      /\ IsCall(call[c]) /\ AnswerTrue(call[c]) /\ PublishTrue(call[c]) /\ RequestOwn(c)
  BY DEF Serve, Working, MonitorInv, CallTrue
<1>3. request \in [Publishers -> Requests] /\ refresh \in [Publishers -> Refreshes]
  BY DEF IInv, TypeOK
<1>4. ScreenTrue'
  BY <1>1, <1>2, AnswersStay DEF MonitorInv
<1>5. \A d \in Calls \ {c} : request'[d] = request[d] /\ refresh'[d] = refresh[d]
  <2>1. UNCHANGED request \/ \E x : request' = [request EXCEPT ![c] = x]
    BY DEF Serve, ScanSnapshots, CommitPublish, ReadGroup, CheckExpected, RefuseUnmaterialized,
       WriteGroup
  <2>2. UNCHANGED refresh \/ \E x : refresh' = [refresh EXCEPT ![c] = x]
    BY DEF Serve, ScanSnapshots, CommitPublish, ReadGroup, CheckExpected, RefuseUnmaterialized,
       WriteGroup
  <2> QED BY <1>3, <2>1, <2>2, MonitorConstants
<1>b. PICK old : old = call[c]
  OBVIOUS
<1>6. AnswerTrue(old)' /\ PublishTrue(old)'
  BY <1>b, <1>1, <1>2, AnswersStay
<1>7. Idle.pc = "idle"
  BY DEF Idle
<1>8. ASSUME UNCHANGED call, RequestOwn(c)' PROVE MonitorInv'
  <2>1. call' = [call EXCEPT ![c] = old]
    BY <1>b, <1>8 DEF MonitorInv
  <2>2. IsCall(old)
    BY <1>b, <1>2
  <2> QED BY <1>1, <1>4, <1>5, <1>6, <1>8, <2>1, <2>2, OneCallMoves
<1>9. ASSUME Close(c), request'[c].pc = "idle" PROVE MonitorInv'
  <2>1. RequestOwn(c)'
    BY <1>9 DEF RequestOwn
  <2>2. call' = [call EXCEPT ![c] = NoCall]
    BY <1>9 DEF Close
  <2> QED BY <1>1, <1>4, <1>5, <2>1, <2>2, NoCallTrue, OneCallMoves
<1>10. CASE ScanSnapshots(c) /\ UNCHANGED call
  <2>1. PICK seen : /\ request[c].pc = "validated" /\ UNCHANGED refresh
                    /\ request' = [request EXCEPT ![c].pc = "scanned", ![c].seen = seen]
    BY <1>10 DEF ScanSnapshots
  <2>2. request[c] \in OpenRequests
    BY <1>1, <1>3, <1>7, <2>1 DEF Requests
  <2>3. /\ request'[c].pc = "scanned" /\ request'[c].run = request[c].run
        /\ request'[c].as = request[c].as
    BY <1>1, <1>3, <2>1, <2>2 DEF OpenRequests
  <2>4. RequestOwn(c)'
    BY <1>2, <1>10, <2>1, <2>3 DEF RequestOwn
  <2> QED BY <1>8, <1>10, <2>4
<1>11. CASE CommitPublish(c) /\ UNCHANGED call
  <2>1. request'[c].pc = "idle"
    BY <1>1, <1>3, <1>7, <1>11 DEF CommitPublish
  <2> QED BY <1>8, <1>11, <2>1 DEF RequestOwn
<1>12. CASE ReadGroup(c) /\ UNCHANGED call
  <2>1. request[c].pc = "idle" /\ UNCHANGED request
    BY <1>2, <1>12 DEF ReadGroup, RequestOwn, NoRefresh
  <2> QED BY <1>8, <1>12, <2>1 DEF RequestOwn
<1>13. CASE CheckExpected(c) /\ request'[c] = Idle /\ Close(c)
  BY <1>7, <1>9, <1>13
<1>14. CASE /\ CheckExpected(c) /\ request'[c] # Idle /\ UNCHANGED call
            /\ ~Unexpected(ExistingFor(c), call[c].expected)
  <2> DEFINE existing == ExistingFor(c)
  <2>1. PICK seen, expected :
          /\ request[c].pc = "scanned" /\ UNCHANGED refresh
          /\ request' = [request EXCEPT ![c] =
               [request[c] EXCEPT !.pc = "checked", !.seen = seen, !.replaced = existing,
                                  !.expected = expected]]
    <3>1. PICK expected \in Runs \cup {NoRun} :
            request' = [request EXCEPT ![c] =
              IF Unexpected(existing, expected) THEN Idle
              ELSE [request[c] EXCEPT !.pc = "checked",
                                      !.seen = ToSupersede(request[c], existing),
                                      !.replaced = existing,
                                      !.expected = IF existing = NoRun THEN NoRun ELSE expected]]
      BY <1>14 DEF CheckExpected, ExistingFor
    <3>2. ~Unexpected(existing, expected)
      BY <1>1, <1>3, <1>14, <3>1
    <3> HIDE DEF existing
    <3> QED BY <1>14, <3>1, <3>2 DEF CheckExpected
  <2>2. request[c] \in OpenRequests
    BY <1>1, <1>3, <1>7, <2>1 DEF Requests
  <2>3. /\ request'[c].pc = "checked" /\ request'[c].run = request[c].run
        /\ request'[c].as = request[c].as /\ request'[c].replaced = existing
    BY <1>1, <1>3, <2>1, <2>2 DEF OpenRequests
  <2>4. existing \in {NoRun, call[c].expected}
    BY <1>14 DEF Unexpected
  <2>5. RequestOwn(c)'
    BY <1>2, <1>14, <2>1, <2>3, <2>4 DEF RequestOwn
  <2> QED BY <1>8, <1>14, <2>5
<1>15. CASE RefuseUnmaterialized(c) /\ Close(c)
  <2>1. request'[c] = Idle
    BY <1>1, <1>3, <1>15 DEF RefuseUnmaterialized
  <2> QED BY <1>7, <1>9, <1>15, <2>1
<1>16. CASE WriteGroup(c) /\ Open(c, [call[c] EXCEPT !.pc = "refreshed"])
  <2>b. PICK q : q = [old EXCEPT !.pc = "refreshed"]
    OBVIOUS
  <2>1. /\ IsCall(q) /\ q.pc = "refreshed" /\ q.kind = old.kind /\ q.run = old.run
        /\ q.as = old.as /\ q.day = old.day
    BY <1>2, <1>b, <2>b DEF IsCall, Fields
  <2>2. call' = [call EXCEPT ![c] = q]
    BY <1>16, <1>b, <2>b DEF Open
  <2>3. request[c].pc = "idle" /\ UNCHANGED request
    BY <1>2, <1>16 DEF WriteGroup, RequestOwn, NoRefresh
  <2>4. AnswerTrue(q)' /\ PublishTrue(q)'
    BY <1>6, <2>1 DEF AnswerTrue, PublishTrue
  <2>5. RequestOwn(c)'
    BY <2>3 DEF RequestOwn
  <2> QED BY <1>1, <1>4, <1>5, <2>1, <2>2, <2>4, <2>5, OneCallMoves
<1> QED BY <1>10, <1>11, <1>12, <1>13, <1>14, <1>15, <1>16 DEF Serve

(* A publication refused or answered, and an answer lost.                  *)
LEMMA EndingKeeps ==
  ASSUME IInv, MonitorInv, NEW c \in Calls,
         PublishRefused(c) \/ AnswerPublish(c) \/ AnswerLost(c)
  PROVE  MonitorInv'
<1>1. /\ IsCall(call[c]) /\ AnswerTrue(call[c]) /\ PublishTrue(call[c]) /\ RequestOwn(c)
      /\ UNCHANGED <<vars, screen>>
  BY DEF MonitorInv, CallTrue, PublishRefused, AnswerPublish, AnswerLost
<1>2. request[c].pc = "idle"
  BY <1>1 DEF RequestOwn, PublishRefused, AnswerPublish, AnswerLost, Working
<1>3. CASE Close(c)
  BY <1>1, <1>2, <1>3, NoCallTrue, CallMoves DEF Close
<1>4. CASE AnswerPublish(c)
  <2>1. PICK q : q = [call[c] EXCEPT !.pc = "answered",
                                     !.answer = {SerializeRunSummary(call[c].run)}]
    OBVIOUS
  <2>2. call' = [call EXCEPT ![c] = q] /\ call[c].kind = "publish"
    BY <1>4, <2>1 DEF AnswerPublish, Open, Working
  <2>3. /\ IsCall(q) /\ q.pc = "answered" /\ q.kind = "publish" /\ q.run = call[c].run
        /\ q.as = call[c].as /\ q.day = call[c].day
        /\ q.answer = {SerializeRunSummary(call[c].run)}
    BY <1>1, <2>1, <2>2 DEF IsCall, Fields
  <2>4. RunKnown(call[c].run)
    BY <1>1, <2>2 DEF PublishTrue
  <2>5. AnswerTrue(q)
    BY <2>3, <2>4, AnswersTrue DEF AnswerTrue, RunKnown
  <2>6. PublishTrue(q)
    BY <1>1, <2>2, <2>3 DEF PublishTrue
  <2> QED BY <1>1, <1>2, <2>2, <2>3, <2>5, <2>6, CallMoves
<1> QED BY <1>3, <1>4 DEF PublishRefused, AnswerLost

(* Answers arrive: no group among them can be mapped.                      *)
LEMMA ShowingKeeps ==
  ASSUME IInv, MonitorInv, NEW c \in Calls,
         ShowPreview(c) \/ ShowRunGroup(c) \/ ShowRunDetail(c)
  PROVE  MonitorInv'
<1>1. IsCall(call[c]) /\ AnswerTrue(call[c]) /\ RequestOwn(c) /\ ScreenTrue
  BY DEF MonitorInv, CallTrue
<1>2. /\ call' = [call EXCEPT ![c] = NoCall] /\ UNCHANGED vars
      /\ call[c].pc = "answered"
  BY DEF ShowPreview, ShowRunGroup, ShowRunDetail, Close, Answered, Working
<1>3. RequestOwn(c)'
  <2>1. request[c].pc = "idle" /\ UNCHANGED request
    BY <1>1, <1>2 DEF RequestOwn, vars, callVars
  <2> QED BY <2>1 DEF RequestOwn
<1>4. \A d \in Calls \ {c} : request'[d] = request[d] /\ refresh'[d] = refresh[d]
  BY <1>2 DEF vars, callVars
<1>5. UNCHANGED <<status, eligibility, today>>
  BY <1>2 DEF vars, runVars
<1>6. CASE ShowPreview(c)
  <2>1. \A p \in UNION call[c].answer : PreviewTrue(p)
    BY <1>1, <1>6 DEF ShowPreview, Answered, Working, AnswerTrue
  <2>2. /\ screen'.group = {} /\ screen'.detail = screen.detail
        /\ screen'.preview = UNION call[c].answer
        /\ screen' = [preview |-> screen'.preview, group |-> {}, detail |-> screen'.detail]
    <3>1. screen = [preview |-> screen.preview, group |-> {}, detail |-> screen.detail]
      BY <1>1 DEF ScreenTrue
    <3>2. PICK shown : shown = UNION call[c].answer
      OBVIOUS
    <3>3. screen' = [screen EXCEPT !.preview = shown]
      BY <1>6, <3>2 DEF ShowPreview
    <3>4. /\ screen'.group = {} /\ screen'.detail = screen.detail /\ screen'.preview = shown
          /\ screen' = [preview |-> screen'.preview, group |-> {}, detail |-> screen'.detail]
      BY <3>1, <3>3
    <3> QED BY <3>2, <3>4
  <2>3. ScreenTrue'
    BY <1>1, <1>5, <2>1, <2>2 DEF ScreenTrue, RowTrue, PreviewTrue, RunKnown, AtMost, EligibilityAt
  <2> QED BY <1>2, <1>3, <1>4, <2>3, NoCallTrue, OneCallMoves
<1>7. CASE ShowRunGroup(c)
  <2>1. \A raw \in call[c].answer : ~Mappable(raw)
    BY <1>1, <1>7 DEF ShowRunGroup, AnswerTrue
  <2>2. {raw \in call[c].answer : Mappable(raw)} = {}
    BY <2>1
  <2>3. UNCHANGED screen
    BY <1>7, <2>2 DEF ShowRunGroup
  <2>4. ScreenTrue'
    BY <1>1, <1>2, <2>3, AnswersStay
  <2> QED BY <1>2, <1>3, <1>4, <2>4, NoCallTrue, OneCallMoves
<1>8. CASE ShowRunDetail(c)
  <2>1. \A raw \in call[c].answer : SummaryTrue(raw)
    BY <1>1, <1>8 DEF ShowRunDetail, Answered, Working, AnswerTrue
  <2>2. \A raw : SummaryTrue(raw) => RowTrue(MapRunSummary(raw))
    BY DEF SummaryTrue, RowTrue, MapRunSummary
  <2>3. /\ screen'.group = {} /\ screen'.preview = screen.preview
        /\ screen'.detail = {MapRunSummary(raw) : raw \in call[c].answer}
        /\ screen' = [preview |-> screen'.preview, group |-> {}, detail |-> screen'.detail]
    <3>1. screen = [preview |-> screen.preview, group |-> {}, detail |-> screen.detail]
      BY <1>1 DEF ScreenTrue
    <3>2. screen' = [screen EXCEPT !.detail = {MapRunSummary(raw) : raw \in call[c].answer}]
      BY <1>8 DEF ShowRunDetail
    <3> QED BY <3>1, <3>2
  <2>4. \A row \in screen'.detail : RowTrue(row)
    BY <2>1, <2>2, <2>3
  <2>5. ScreenTrue'
    BY <1>1, <1>5, <2>3, <2>4 DEF ScreenTrue, RowTrue, PreviewTrue, RunKnown, AtMost, EligibilityAt
  <2> QED BY <1>2, <1>3, <1>4, <2>5, NoCallTrue, OneCallMoves
<1> QED BY <1>6, <1>7, <1>8

(* Every step keeps the invariant.                                         *)
LEMMA MonitorInvStep == IInv /\ MonitorInv /\ [MonitorNext]_mvars => MonitorInv'
<1> SUFFICES ASSUME IInv, MonitorInv, [MonitorNext]_mvars PROVE MonitorInv'
  OBVIOUS
<1>1. CASE UNCHANGED mvars
  <2>1. UNCHANGED <<vars, screen, call, request, refresh>>
    BY <1>1 DEF mvars, monitorVars, vars, callVars
  <2>2. ScreenTrue'
    BY <2>1, AnswersStay DEF MonitorInv
  <2>3. ASSUME NEW d \in Calls PROVE CallTrue(d)'
    <3>1. PICK q : q = call[d]
      OBVIOUS
    <3>2. AnswerTrue(q)' /\ PublishTrue(q)' /\ IsCall(q) /\ RequestOwn(d) /\ call'[d] = q
      BY <2>1, <3>1, AnswersStay DEF MonitorInv, CallTrue
    <3>3. RequestOwn(d)'
      BY <2>1, <3>2 DEF RequestOwn
    <3> QED BY <3>2, <3>3 DEF CallTrue
  <2> QED BY <2>1, <2>2, <2>3 DEF MonitorInv
<1>2. CASE Elsewhere
  BY <1>2, ElsewhereKeeps
<1>3. ASSUME NEW c \in Calls, ScreenStep(c) PROVE MonitorInv'
  BY <1>3, ReadingKeeps, ExecutingKeeps, PressingKeeps, AcceptingKeeps, ServingKeeps,
     EndingKeeps, ShowingKeeps DEF ScreenStep
<1> QED BY <1>1, <1>2, <1>3 DEF MonitorNext

LEMMA MonitorAlways == MonitorSpec => [](IInv /\ MonitorInv)
<1>1. MonitorSpec => []IInv
  BY MonitorRefinesPublish, InitIInv, IInvStep, PTL DEF Spec
<1>2. MonitorInit => MonitorInv
  BY MonitorInitInv
<1> QED BY <1>1, <1>2, MonitorInvStep, PTL DEF MonitorSpec

------------------------------------------------------------------------------
(* A run is never more publishable than its preview said, whatever days    *)
(* pass between preview and execution.                                     *)
THEOREM PreviewIsUpperBound == MonitorSpec => []PreviewNeverUnderstates
<1>1. MonitorInv => PreviewNeverUnderstates
  BY DEF MonitorInv, ScreenTrue, PreviewTrue, AtMost, PreviewNeverUnderstates
<1> QED BY <1>1, MonitorAlways, PTL

(* What the backend's check found in the way of a screen's publication was *)
(* named in its form, and an official run of a day that was over went      *)
(* through with the box ticked.  It is consent as of the check: what is in *)
(* the slot at the commit may be another run by then.                      *)
THEOREM ConsentIsChecked == MonitorSpec => ReplacedWithConsent
<1> DEFINE Consent == \A c \in Calls : Commits(c) =>
             /\ request[c].replaced \in {NoRun, call[c].expected}
             /\ call[c].as = "official" /\ DayOf[call[c].run] < call[c].day => call[c].confirm
<1>1. MonitorInv => Consent
  BY DEF MonitorInv, CallTrue, PublishTrue, RequestOwn, Commits
<1>2. [](IInv /\ MonitorInv) => [][Consent]_mvars
  BY <1>1, PTL
<1> QED BY <1>2, MonitorAlways, PTL DEF ReplacedWithConsent

(* No group is ever shown: what the backend answers for one lacks a field  *)
(* that the screen insists on.                                             *)
THEOREM NoGroupIsShown == MonitorSpec => [](screen.group = {})
<1>1. MonitorInv => screen.group = {}
  BY DEF MonitorInv, ScreenTrue
<1> QED BY <1>1, MonitorAlways, PTL
=============================================================================
