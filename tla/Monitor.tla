------------------------------- MODULE Monitor -------------------------------
(***************************************************************************)
(* The operations screen (FrontendApp, features/operations) over the       *)
(* backend of Publish: an operator previews a job, executes it, looks at   *)
(* groups and runs, and publishes.                                         *)
(*                                                                         *)
(* The screen decides by the rows it has read some time ago; the backend   *)
(* decides again by the rows of that moment; other clients, midnight and   *)
(* analysis come between.  A press of a button is an action, each step of  *)
(* the backend is the step of Publish, and what the answer does to the     *)
(* screen is an action of its own.                                         *)
(*                                                                         *)
(* The fields of the forms hold whatever the operator typed when a button  *)
(* is pressed.  A job is identified with the group its execution creates.  *)
(***************************************************************************)
EXTENDS Publish

CONSTANTS Calls,     \* the publishers that are calls of this screen
          Previewed  \* bound: the jobs the operator may preview

ASSUME MonitorConstants == Calls \subseteq Publishers /\ Previewed \subseteq Groups

VARIABLES
  screen, \* OperationsState: the preview, the rows of the group shown, the run shown
  call    \* call of the screen -> where it is and what it sent

monitorVars == <<screen, call>>
mvars == <<vars, monitorVars>>

------------------------------------------------------------------------------
(* What the backend answers: of its rows, the columns the screen decides   *)
(* by, under their JSON names.                                             *)
SerializeRunSummary(r) ==
  [id |-> r, publish_eligibility |-> eligibility[r], supersedes_run_id |-> supersedes[r]]

SerializeRunGroup(g) ==
  [id |-> g, page_name |-> PageOf[CHOOSE r \in RunsOf(g) : TRUE]]

GetRunGroup(g) == [run_group |-> SerializeRunGroup(g),
                   child_runs |-> {SerializeRunSummary(r) : r \in RunsOf(g)}]

PreviewAheadOfZone(g) ==  \* mutant: the preview takes today's date from a zone further east
  {[id |-> r, publish_eligibility |-> EligibilityAt(r, today + 1)] : r \in RunsOf(g)}

(* previewJobRequest plans the job with today's date and writes nothing.   *)
PreviewJobRequest(g) ==
  {[id |-> r, publish_eligibility |-> EligibilityAt(r, today)] : r \in RunsOf(g)}

(* What the screen makes of an answer.  A field the answer lacks is        *)
(* undefined: mapRunSummary makes null of it, mapRunGroup throws.          *)
MapRunSummary(raw) ==
  [id |-> raw.id, publishEligibility |-> raw.publish_eligibility,
   supersedesRunId |-> raw.supersedes_run_id,
   historicalOverwrite |-> IF "historical_overwrite" \in DOMAIN raw
                           THEN raw.historical_overwrite ELSE NoRun]

Mappable(raw) == "connected_page" \in DOMAIN raw.run_group
MapRunGroup(raw) == {MapRunSummary(s) : s \in raw.child_runs}

(* findRunForPublish: the row of the group shown, or else of the run shown *)
(* (as a set of at most one).                                              *)
FindRunForPublish(r) ==
  LET inGroup == {row \in screen.group : row.id = r}
  IN IF inGroup # {} THEN inGroup ELSE {row \in screen.detail : row.id = r}

(* derivePublishAction: the channel the button offers. *)
DerivePublishAction(elig) ==
  CASE elig = "official_full_day" -> "official"
    [] elig = "provisional_current_day_partial" -> "provisional"
    [] OTHER -> "none"

------------------------------------------------------------------------------
(* Calls of the screen. *)
NoCall == [kind |-> "none", pc |-> "idle", group |-> NoGroup, run |-> NoRun, as |-> "none",
           expected |-> NoRun, confirm |-> FALSE, day |-> 0, answer |-> {}]

Free(c) == call[c].kind = "none" /\ request[c].pc = "idle" /\ refresh[c] = NoRefresh
Open(c, fields) == call' = [call EXCEPT ![c] = fields]
Close(c) == call' = [call EXCEPT ![c] = NoCall]
Working(c, kind, pc) == call[c].kind = kind /\ call[c].pc = pc
Answered(c, kind) == Working(c, kind, "answered")

MonitorInit ==
  /\ Init
  /\ screen = [preview |-> {}, group |-> {}, detail |-> {}]
  /\ call = [c \in Calls |-> NoCall]

------------------------------------------------------------------------------
(* Preview, run group and run detail are read in one go; when exactly the  *)
(* request left makes no difference to what they find.                     *)
Ask(c, kind, answer) ==
  /\ Free(c)
  /\ Open(c, [NoCall EXCEPT !.kind = kind, !.pc = "answered", !.answer = {answer}])
  /\ UNCHANGED <<vars, screen>>

PreviewManualRun(c, g) ==
  /\ g \in Previewed
  /\ RunsOf(g) # {} /\ \A r \in RunsOf(g) : status[r] = "absent"
  /\ Ask(c, "preview", PreviewJobRequest(g))

LoadRunGroup(c, g) ==
  /\ \E r \in RunsOf(g) : status[r] # "absent"
  /\ Ask(c, "group", GetRunGroup(g))

LoadRunDetail(c, r) == status[r] # "absent" /\ Ask(c, "detail", SerializeRunSummary(r))

(* executeManualRun: any job the form can hold, previewed or not.  The     *)
(* backend answers when every run of the group is settled, with an error   *)
(* if one failed.                                                          *)
ExecuteManualRun(c, g) ==
  /\ Free(c)
  /\ PlanGroup(g)
  /\ Open(c, [NoCall EXCEPT !.kind = "execute", !.pc = "sent", !.group = g])
  /\ UNCHANGED screen

ExecutionEnds(c) ==
  /\ Working(c, "execute", "sent")
  /\ LET g == call[c].group
         seen == {status[r] : r \in RunsOf(g)}
     IN /\ "queued" \notin seen
        /\ IF "failed" \in seen THEN Close(c)
           ELSE Open(c, [call[c] EXCEPT !.pc = "answered", !.answer = {GetRunGroup(g)}])
  /\ UNCHANGED <<vars, screen>>

------------------------------------------------------------------------------
(* publishRun of the screen: the run must be among the rows shown and be   *)
(* offered for a channel, and one that is known to supersede another needs *)
(* the confirmation and the description of what it overwrites.             *)
PublishRun(c) ==
  /\ Free(c)
  /\ \E r \in Runs, expected \in Runs \cup {NoRun}, confirm \in BOOLEAN :
       \E row \in FindRunForPublish(r) :
         /\ DerivePublishAction(row.publishEligibility) # "none"
         /\ row.supersedesRunId # NoRun => confirm /\ row.historicalOverwrite # NoRun
         /\ Open(c, [NoCall EXCEPT
              !.kind = "publish", !.pc = "sent", !.run = r,
              !.as = DerivePublishAction(row.publishEligibility),
              !.expected = expected, !.confirm = confirm, !.day = today])
  /\ UNCHANGED <<vars, screen>>

BodyConfirmed(c) == TRUE \* mutant: the adapter confirms on its own

(* The body of the request as the backend parses it. *)
BodyConfirm(c) == call[c].confirm

Accepted(c) == ValidPublish(call[c].run, call[c].as, BodyConfirm(c))

PublishAccepted(c) ==
  /\ Working(c, "publish", "sent") /\ Accepted(c)
  /\ BeginPublish(c)
  /\ request'[c].run = call[c].run /\ request'[c].as = call[c].as
  /\ Open(c, [call[c] EXCEPT !.pc = "serving"])
  /\ UNCHANGED screen

PublishRefused(c) ==
  /\ Working(c, "publish", "sent") /\ ~Accepted(c)
  /\ Close(c)
  /\ UNCHANGED <<vars, screen>>

(* The steps of the backend's handler; a check that fails ends the call.   *)
ExistingFor(c) == ExistingIn(request[c].seen, PublishedAs(request[c].as))

Serve(c) ==
  /\ Working(c, "publish", "serving")
  /\ UNCHANGED screen
  /\ \/ (ScanSnapshots(c) \/ CommitPublish(c) \/ ReadGroup(c)) /\ UNCHANGED call
     \/ /\ CheckExpected(c)
        /\ request'[c] = Idle <=> Unexpected(ExistingFor(c), call[c].expected)
        /\ IF request'[c] = Idle THEN Close(c) ELSE UNCHANGED call
     \/ RefuseUnmaterialized(c) /\ Close(c)
     \/ WriteGroup(c) /\ Open(c, [call[c] EXCEPT !.pc = "refreshed"])

(* The handler ends with getRun. *)
AnswerPublish(c) ==
  /\ Working(c, "publish", "refreshed")
  /\ Open(c, [call[c] EXCEPT !.pc = "answered", !.answer = {SerializeRunSummary(call[c].run)}])
  /\ UNCHANGED <<vars, screen>>

------------------------------------------------------------------------------
(* Answers arrive.  One may be lost: the screen then shows an error and    *)
(* keeps what it showed.                                                   *)
AnswerLost(c) ==
  /\ call[c].pc = "answered"
  /\ Close(c)
  /\ UNCHANGED <<vars, screen>>

ShowPreview(c) ==
  /\ Answered(c, "preview")
  /\ screen' = [screen EXCEPT !.preview = UNION call[c].answer]
  /\ Close(c)
  /\ UNCHANGED vars

ShowRunGroup(c) ==
  /\ call[c].kind \in {"execute", "group"} /\ call[c].pc = "answered"
  /\ LET good == {raw \in call[c].answer : Mappable(raw)}
     IN screen' = IF good = {} THEN screen
                  ELSE [screen EXCEPT !.group = UNION {MapRunGroup(raw) : raw \in good}]
  /\ Close(c)
  /\ UNCHANGED vars

ShowRunDetail(c) ==
  /\ Answered(c, "detail") \/ Answered(c, "publish")
  /\ screen' = [screen EXCEPT !.detail = {MapRunSummary(raw) : raw \in call[c].answer}]
  /\ Close(c)
  /\ UNCHANGED vars

------------------------------------------------------------------------------
ScreenStep(c) ==
  \/ \E g \in Groups : PreviewManualRun(c, g) \/ ExecuteManualRun(c, g) \/ LoadRunGroup(c, g)
  \/ \E r \in Runs : LoadRunDetail(c, r)
  \/ ExecutionEnds(c)
  \/ PublishRun(c) \/ PublishAccepted(c) \/ PublishRefused(c) \/ Serve(c) \/ AnswerPublish(c)
  \/ AnswerLost(c) \/ ShowPreview(c) \/ ShowRunGroup(c) \/ ShowRunDetail(c)

(* Everything else that happens to the rows: other clients, the executor,  *)
(* analysis, the mart and the clock.                                       *)
Elsewhere ==
  /\ UNCHANGED monitorVars
  /\ \/ Midnight
     \/ \E g \in Groups : PlanGroup(g)
     \/ \E r \in Runs : ExtractRun(r) \/ StartAnalysis(r) \/ EndAnalysis(r) \/ Materialize(r)
     \/ \E p \in Publishers \ Calls : Publishing(p)

MonitorNext == Elsewhere \/ \E c \in Calls : ScreenStep(c)

MonitorSpec == MonitorInit /\ [][MonitorNext]_mvars

------------------------------------------------------------------------------
(* Properties. *)

(* Consent, as of the backend's check: when a publication of the screen    *)
(* commits, the run that the check found published in the same class is    *)
(* the one the operator had named in the form, and an official run of a    *)
(* day that was over when the button was pressed went through with the box *)
(* ticked, whatever other clients published while the request was on its   *)
(* way.  Nothing is promised of what they commit after the check: the run  *)
(* then in the slot is replaced unnamed (see NoBlindOverwrite).            *)
Commits(c) == /\ call[c].kind = "publish"
              /\ request[c].pc = "checked"
              /\ Len(history') > Len(history)
              /\ history'[Len(history')].run = call[c].run
              /\ request'[c] = Idle

ReplacedWithConsent ==
  [][\A c \in Calls : Commits(c) =>
       /\ request[c].replaced \in {NoRun, call[c].expected}
       /\ call[c].as = "official" /\ DayOf[call[c].run] < call[c].day => call[c].confirm]_mvars

(* A run is never more publishable than its preview said, even when        *)
(* midnight passes between preview and execution.                          *)
Rank(elig) == CASE elig = "official_full_day" -> 2
                [] elig = "provisional_current_day_partial" -> 1
                [] OTHER -> 0
PreviewNeverUnderstates ==
  \A p \in screen.preview : Rank(eligibility[p.id]) <= Rank(p.publish_eligibility)
=============================================================================
