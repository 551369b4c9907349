# Verification of chat-analyzer-v2

TLA+ specifications of chat-analyzer-v2 (its backend, Go worker, AI service and
operator frontend), TLC configurations that check them on small instances, and
TLAPS proofs of their safety properties for every instance. In the tables `backend/analysis`
and the like stand for the directories under `backend/src/modules`, and `go-worker`
for `backend/go-worker`.

There are two kinds of module. One kind follows the *control*: which statements of which
handlers and processes interleave, and what each has read before it writes. `Publish`,
`RunGroup`, `Analysis`, `ConfigControl`, `Workspace`, `Monitor` and `Shell` are of this
kind, and in them a conversation or a message is an anonymous element. The other kind,
composed in `Day`, follows the *data* of one business day through every stage, from the
conversations at the source to the figures on the dashboard.

- [The system](#the-system)
- [The modules and the code](#the-modules-and-the-code)
- [What the runs check](#what-the-runs-check)
- [What is proved](#what-is-proved)
- [Where code and documents disagree](#where-code-and-documents-disagree)
- [What is not modelled](#what-is-not-modelled)
- [Plan](#plan)

## The system

An operator connects Facebook pages (through Pancake), configures how their chats
are to be analysed, and asks for a date range to be extracted. The backend splits
the range into *child runs*, one per business day, and has a Go worker load the
day's conversations as *thread days*. A Python service analyses each thread day.
The results are folded into a *mart*, and an operator *publishes* a run: from then
on the dashboard shows it for its page, day and channel (official or provisional).

| Component | State it keeps | Operations |
|---|---|---|
| Run group execution (`chat_extractor.service` `executeJobRequest`) | `pipeline_run_group.status`, `pipeline_run.status`, `error_text`; a loop in the memory of one request | create group and runs, start a run, spawn the worker, wait for it, analyse, abort, refresh the group |
| ETL worker (`go-worker`) | `pipeline_run.status` and metrics, `thread`, `thread_day`, `message` | start, extract, transform, save each thread day, complete, fail |
| Analysis (`backend/analysis`) | `analysis_run`, `analysis_result`, again `pipeline_run.status` | probe, find or create, send batches, sum up, settle |
| AI service (`service/`) | none between requests | identity, analyse a batch |
| Mart (`backend/read_models` `materializeRun`) | `fact_thread_day`, `fact_staff_thread_day` | replace the rows of one run |
| Source extraction (`go-worker/internal/extract`) | the scan: last conversation, running count, messages gathered | list conversations, page messages, filter by window |
| Transformation (`go-worker/internal/transform`) | none | one conversation day from its messages, tags and rules |
| Planner (`chat_extractor.planner`) | none | split a range into child runs, judge eligibility |
| Publishing (`publishRun` of service and repository) | `active_publish_snapshot`, `publish_history`, `publish_state`, `supersedes` | validate, scan, check, commit, refresh the group |
| Control plane | `connected_page`, `connected_page_config_version`, `page_prompt_identity` | register a page, create and activate versions, create prompt identities, freeze the runtime of a job |
| Prompt preview | sample cache in the memory of the backend, `page_prompt_preview_artifact` | sample, preview, reuse |
| Dashboard reads | none | choose snapshots, read facts, aggregate |
| Configuration screen (`FrontendApp`) | one workspace: bound page, draft, version shown, sample and comparison | load, register, save, activate, sample, preview, clone, edit |
| Operations screen (`FrontendApp`) | the preview, the group and the run last read, the fields of its forms | preview, execute, load a group or a run, publish |
| Shell (`FrontendApp`, `app/query-state`) | the route, the address and its history, the catalog, the view shown | navigate, filter, compare, go back, load the view |
| Other screens | none | show what the backend answers |

How they interact, and what is hard about it:

- **Executor and worker** are two processes that write the same `pipeline_run`
  row without looking at it first. Only the worker's exit code joins them, and
  exit code 0 does not say whether the run is loaded or failed. If the backend
  dies its worker goes on, and no code resumes or settles the group.
- **Executor and analysis endpoint** call the same `executeLoadedRun`. It checks
  the run's status once at its start, writes it without condition at its end, and
  holds no lock, so two calls can work on the same results.
- **Publish requests** read snapshots and run rows first, decide, and only then
  open a transaction that acts on what was read. Other requests, an analysis or
  midnight may come between any two of these steps.
- **`refreshRunGroupStatus`** reads the runs and writes the group in two
  statements, and executor and publishers all call it.
- **The AI service** may fail, answer for part of a batch, or be upgraded between
  two calls; what makes a result still usable depends on data that other runs
  change.
- **Time**: whether a run may be published is decided when it is planned and used
  on any later day. A dashboard request asks what day it is once per range.
- **The worker and the source**: the worker reads pages of a list that grows at its
  head while it reads.
- **Handlers of the control plane** are sequences of awaits without a transaction.
  Two operators, or two handlers of one screen, interleave at each of them. Unique
  keys and one row lock are all that joins them.
- **The configuration screen** locks nothing while it awaits an answer: the draft is
  edited, another page chosen, another handler started, and the answer is then
  applied to whatever is there.
- **The operations screen** decides by rows it read some time ago what to publish, as
  which channel and whether to ask for a confirmation; the backend decides again by
  its own rows. Midnight, an analysis and other clients come between.
- **The shell** changes the route at once and then waits for the view. Another click
  may come before the answer, and the answer is shown whatever the route is by then.
- **Samples** live in the memory of the backend: they expire, and a restart loses
  them.

What makes each component correct:

- Publishing: a slot shows only a run of its page and day that is eligible for
  its channel; run rows, board and history agree; nothing official is lost; a
  replaced run was named by whoever replaced it.
- Execution: runs are executed in order, one at a time, each at most once;
  whatever fails, every run is settled and a failure says why; the worker never
  adds to a run that others already read; every execution ends.
- Control plane: a page's versions are one history, the active one is its own, a
  prompt has one label for good, a job freezes a version and the label of that very
  version's prompt.
- Previews: an artifact is filed under what produced it and for the page it is of;
  evidence shown as current was made for the draft it stands beside, as the screen
  last judged it.
- Pipeline of a day: windows tile the request, what lies in the window is read once
  and completely, each derived figure follows from the messages, and the dashboard
  counts each conversation once, from the right run, and says what is temporary.
- Operations screen: what the backend sees replaced when it checks was named by the
  operator; a preview promises no less than the run gets.
- Shell: route and address say the same, the view shown is the one of the route unless
  an earlier load answers last, filters persist from view to view.
- Analysis: no thread day is forgotten, `completed` means complete, results are
  kept, the mart is whole, and retrying succeeds once faults are over.

`PROJECT.json` lists, under `hazards`, the places where each of these could go
wrong in a way a unit test would hardly reach, with the properties that cover it.

## The modules and the code

| Module | Lines of code it models |
|---|---|
| `PublishBoard` | the abstract specification of the board: what publishing promises |
| `Publish` | `publishRun` of `chat_extractor.service` and `.repository`, `determinePublishEligibility`, `validatePublishRequest`, `refreshRunGroupStatus` |
| `MCPublish` | instances of `Publish` for TLC |
| `PublishProofs` | theorems about `Publish` |
| `RunQueue` | the abstract specification of a group: a queue of runs |
| `RunGroup` | `executeJobRequest` after the group is committed, `runWorkerManifest`, `abortRunGroupExecution`, `go-worker/main.go`, `load/loader.go`, entry and end of `executeLoadedRun` |
| `RunGroupProofs` | theorems about `RunGroup` |
| `Analysis` | `executeLoadedRun` and all it calls in `analysis.repository`, `materializeRun` |
| `AnalysisProofs` | theorems about `Analysis` |
| `ConfigRegistry` | the abstract specification of a page's configuration: what saving, activating and labelling promise |
| `ConfigControl` | the handlers of `chat_extractor.service` for pages, config versions, the frozen runtime of a job and the prompt workspace, their statements in `chat_extractor.repository`, the body schemas of `chat_extractor.types` |
| `Workspace` | the configuration screen: `frontend-app`, `features/configuration/state`, `adapters/http/control-plane-adapter` |
| `MCConsole` | an instance of `Workspace` for TLC |
| `ConfigProofs` | theorems about `Workspace`, which extends `ConfigControl` |
| `Monitor` | the operations screen over the backend of `Publish`: `frontend-app`, `features/operations/state`, the mapping of answers in `control-plane-adapter`, the answers of `chat_extractor.service` |
| `MCMonitor` | an instance of `Monitor` for TLC |
| `MonitorProofs` | theorems about `Monitor` |
| `Shell` | `app/query-state`, `shared/dates`, and of `frontend-app` start, navigation, filters and `loadCurrentView` |
| `MCShell` | an instance of `Shell` for TLC |
| `ShellProofs` | theorems about `Shell` |
| `Planner` | `chat_extractor.planner`: splitting and eligibility |
| `ThreadDay` | `go-worker/internal/transform/build.go`: one conversation day |
| `Extraction` | `go-worker/internal/extract`, `internal/pancake/client.go`, the check of `internal/config` |
| `UnitAnalysis` | `service/analysis_executor.py`: the deterministic adapter and the normalisation of answers |
| `Mart` | `read_models.builder` |
| `Dashboard` | `read_models.service` and the queries of `read_models.repository` |
| `Day` | the composition of the six above, with `job/request.go`, `main.go` and publishing |
| `DayProofs`, `ExtractionProofs` | theorems about `Day` |
| `MCDay` | an instance of `Day` for TLC |

`map` in `PROJECT.json` gives the source lines of every definition.

### Publish

State: the columns of `pipeline_run` that publishing reads or writes, the board
(`snapshot`, slot to run), `history`, the status of the groups, and per publisher
a record of what its handler has read and decided (`request`) and where its call
of `refreshRunGroupStatus` is (`refresh`). One action per database call of the
handler: `BeginPublish` (read and validate the run), `ScanSnapshots`
(`findPublishedRunsForDate`), `CheckExpected` (rows behind the snapshots, expected
run, list to supersede), `CommitPublish` (the transaction) or
`RefuseUnmaterialized`, `ReadGroup`, `WriteGroup`. All other writers of the same
columns are there as well: `PlanGroup`, `ExtractRun`, `StartAnalysis`,
`EndAnalysis`, `Materialize`, `Midnight`. Extraction and analysis are reduced to
their writes, which the two modules below take apart.

The ORM reads the snapshots and the rows behind them in two queries, so the scan
and the check are two actions; the check follows the second query with no call
between them. The transaction is one action: any two that conflict either lock a
run row that both update or meet at the unique key of the slot, so they take
effect one after the other. One that the database rolls back leaves no trace, like
a request that stays where it is. A failed check returns an error and changes
nothing, so only the checks that come after the first read end in an explicit
`Idle`.

### RunGroup

State: the rows of the group's runs, the handler (`executor`: step, current run,
whether it analyses, whether it gave up), the worker process, calls of the analysis
by executor and endpoint, and the two refreshers. The executor's steps are
`MarkStarted`, `SpawnWorker`, `WorkerExited`, `Abort`, the analysis of its run, and
the refresh at the end (the `finally`). The worker's are `WorkerStart`, `Extract`,
`PersistThreadDay` (a transaction each), `CompleteLoad`, `RecordFailure`. Around
them: `Crash` of the backend, `KillWorker`, `ToggleAnalysis`, an outside analysis
call, a publication. A thread day is a number to count, since nothing here tells
one from another.

### Analysis

State: the deployed release of the service and the version of each unit's evidence
(both change by themselves), `runStatus`, the analysis runs by identity with their
order of creation, the result rows, the mart, and per caller what it has read.
Each `await` of `executeLoadedRun` that matters is a step: `Begin`, `Probe`,
`FindRun`, `CreateRun`, `ListResults`, `MarkRunning`, `ProcessBatch`,
`ReadSummary`, `WriteSummary`, `SettleRun`, `ReadMartSource`, `ReplaceMart`.
`Interrupt` ends a call between any two of them. The identity of an analysis run
is reduced to the one part that can change while the run's snapshot is frozen: what
the service reports of itself, or nothing if the probe failed (`Raw`).

### ConfigControl and Workspace

State of `ConfigControl`: the rows of `connected_page`,
`connected_page_config_version`, `page_prompt_identity` and
`prompt_preview_artifact`, what a job has frozen, the sample store with its clock,
the release of the AI service, and per client the handler in progress (`call`):
its operation, the step it is at, its input and what it has read. An action is the
stretch between two awaits. `createConfigVersion` is `ReadForCreate`, `NextNumber`,
`CreateVersion`, `ActivateVersion`, `UpdateFlags`, `AnswerDetail`, and
`registerPageConfig` shares these after `FindForRegister`, `UpsertPage` and
`ReadActive`. A job's runtime is `ReadForJob`, `IdentifyForJob`, `FreezeJob`. The
prompt workspace is `ReadForSample`, `StoreSample`, `ReadSample`,
`IdentifyForPreview`, `ProbeService`, `AnalyseSample`. `createPromptIdentity` takes
the lock of the page row and is one action; `Taken` is the unique key of the version
number. `RefuseRequest` is the error path of the handlers, `Restart` cuts every
handler in flight and empties the sample store, `Tick` expires samples, `Upgrade`
changes what the service reports of itself. `Registry` maps the rows to
`ConfigRegistry`: versions by number, labels by number.

State of `Workspace`: the screen's draft and the page it is bound to (`ws`), the
page detail and the list last read, where the draft came from, the sample and the
comparison with their fingerprints, and per handler what it captured before its
await (`task`). A click on the draft form reads it first (`Synced`, and `ReadDraft` if
nothing else follows) and judges the evidence again; the onboarding form takes its page
and the number of conversations to sample (`ws.limit`) without doing so (`ChoosePage`).
The fingerprint of a sample is of its rules and its limit; `sample.judged` remembers the
limit it was last judged by. A request is a `Begin`, and
what its answer does to the screen is a `Resume...` action, one per handler.
`OthersRequest` is any other client of the same interface.

What is abstracted: a prompt and the rest of a configuration (tag mapping, opening
rules, scheduler, notification targets) are elements of small sets, notes are blank
or not, a sample holds one conversation, the screen's rules after an onboarding
sample are any element of the set, the access token is assumed to be right.

### Monitor

`Monitor` extends `Publish`: its state adds what the screen shows (`screen`: the
preview, the rows of the group, the row of the run) and the calls of the screen in
progress (`call`: kind, step, what was sent, what was answered). A
press of a button is `PreviewManualRun`, `ExecuteManualRun`, `LoadRunGroup`,
`LoadRunDetail` or `PublishRun`. The request of a publication is taken up by
`PublishAccepted` or `PublishRefused`, and from there on `Serve` takes the steps of
`Publish` itself, with the expected run and the confirmation that were sent.
`AnswerPublish` reads the run once more, and `ShowPreview`, `ShowRunGroup` and
`ShowRunDetail` are what an answer does to the screen, through the mapping of the
adapter: a field that the backend does not answer becomes null, or makes the mapping
fail (`Mappable`). `AnswerLost` loses one. `Elsewhere` is everything that `Publish`
has besides: other publishers, the executor, analysis, mart, midnight.

What is abstracted: the fields of the forms hold anything when a button is pressed;
a job is identified with the group that its execution creates, so its preview speaks
of the runs it will have; the reads are one step, since nothing they find depends on
when the request left; of a row, the screen keeps what it decides by (eligibility, the
run it supersedes, the description of an overwrite), not what it only displays.

### Shell

State: `route`, the address (`url`) and the ones behind it (`past`), whether the catalog
has come (`boot`, `pages`), whether connected pages are listed, the view on the screen
as what was asked for to get it (`html`), the loads in flight, the clock. Two history
variables change nothing: `behind`, the loads in flight that are not the last begun, and
`overtaken`, that the answer of such a load was shown after that of the last. Each
action that changes the route ends with `LoadCurrentView` up to its first await:
`CatalogArrives` (`init`), `Navigate`, `ChooseFilters`, `ChooseComparison`, `Back`,
`Reload` (`withPending`). `ViewArrives`, `PagesArrive`, `HealthArrives` and `LoadFails`
are what follows the awaits.

What is abstracted: "overview" stands for the four views of one page, "yesterday" for
all presets, a range is named by its last day, and `rest` is any one of the filters
on inbox, revisit, need, outcome, risk and staff, which are all treated alike. The
thread of the history, tabs and the export panel are left out: they are carried along
and never looked at here.

### Planner, ThreadDay, Extraction, UnitAnalysis, Mart, Dashboard, Day

`Planner`, `ThreadDay`, `UnitAnalysis` and `Mart` are pure: one operator per function of
the code. `Extraction` adds the worker's scan: `OpenPage`, `ListConversations`,
`FetchMessages`, `PancakeFails`, and `Arrive`, somebody writing at the source meanwhile.
`Dashboard` adds a request in steps: `OpenView`, `ListSnapshots` (the snapshots of a
range), `ResolveSlice` (which of them count, judged by today's date once the query has
answered), and the queries of facts, `ListFactThreadDays` and `ListFactStaffThreadDays`,
which are sent together and end in any order; an overview then does it again for the
range before. `Day` composes them: `PlanJob` plans a request and follows one of its
child runs, `LoadDays`, `Analyse`, `Materialize` and `Publish` hand the data on, and
`Tick` lets midnight pass. `LoadDays` saves each conversation day by itself, as the
worker does: any of them may fail, and unless all did the run is loaded without them;
`unsaved` is what its metrics say of them. `scan.due` and `scan.whole` are history
variables: what lay in the window when a conversation's first page was read, and which
were read to their end.

What is abstracted: a message is what the code tells apart of it (who sent it, from
which account, automatic or not, card, buttons, text as an element of a small set
with the key words it contains); times are ticks; topics, mood, opening theme,
explanations, phone numbers, entry source and attachments are left out, as are the
longer alias tables, of which each has a representative. Pancake lists the
conversations of a page in a fixed order, which the worker's `last_conversation_id`
relies on. The many-runs side (retries, crashes, overlaps) is the subject of the
modules above, so in `Day` each stage of a run is one step.

## What the runs check

| Run | Configuration | Distinct states | Question |
|---|---|---|---|
| `publish_concurrent` | 3 runs of one day (two full, one partial), 2 overlapping requests, 3 commits, 2 days | 386,472 | What can overlapping requests never break? |
| `publish_sequential` | the same with a fourth run in a group of two days; 2 publishers, no request begins before the one before is decided, their refreshes cross | 1,094,156 | What more holds if requests do not overlap? |
| `publish_blind_overwrite` | 2 full runs, 2 overlapping requests | violation | Is the expected run really checked? |
| `run_group` | 2 runs of up to 2 thread days, 1 outside caller, 1 failed statement, 1 publication | 764,712 | Does a group always come to a proper end? |
| `run_group_unloaded` | the same, no failed statement | violation | Does loaded mean loaded? |
| `analysis_retry` | 3 units in batches of 2, one caller, 2 faults, 1 upgrade, 1 edit of each unit | 882,556 | Do retries complete the run and lose nothing? |
| `analysis_overlap` | 2 units, batches of 1, 2 callers, 2 faults | 48,617 | What still holds if calls overlap? |
| `console` | 2 pages (one registered), 2 handlers of one screen and another client, 3 requests, 1 edit, 2 limits, 1 tick, upgrade or restart | 739,217 | What can concurrent operators never break, and can the screen be believed? |
| `monitor` | one screen and another client, 2 full runs and a partial one of one day, 2 commits, 2 days | 1,344,961 | Does the operator get what the screen offers, previews and asks? |
| `shell` | 2 pages, two loads in flight, one page of history, 3 days, an empty address and an old one | 1,015,729 | Do route, address and view stay together? |
| `day` | 2 conversations of up to 4 messages, 1 arrival, 60 worlds, 3 requests, 6 questions to the dashboard, any of the days not saved | 1,217,462 | Does the dashboard tell what happened that day? |
| `day_bookings` | the same | violation | Does the booking rate count bookings? |

**publish_concurrent.** `BoardMatchesRuns`: the run in a slot is of that page and
day, was planned as eligible for the channel, and its row says it is published
there. `HistoryExplainsBoard`: what a slot shows, or that it is empty, follows from
`publish_history`. `ImplementsBoard`: the abstract board, where an official slot is
never blank again and a provisional publish touches nothing but its own slot. These
hold although the decision is taken on stale reads, because eligibility never
changes, all a request supersedes is of its own page and day, and a provisional
publish only supersedes what is provisional.

**publish_sequential.** Two publishers, of whom one begins when the request of the
other is decided, committed or refused, whose refresh of the group may still be under
way (`Overlapping` is false). Three properties fail if requests overlap:
`NoPublishedOrphan` (a published run is the one its slot shows), `NoBlindOverwrite`
(who replaces a run named it) and `OfficialClearsProvisional`.
`PublishedGroupWasPublished` (a group shows as published only if each of its runs
was published) is about the refreshes: each reads the runs and writes the group in
separate statements, so two of them cross, and a late one writes what it read before the
other. Analysis, failures and midnight go on freely.

**run_group.** `FailureIsExplained`: a failed run has an error text, with writers
in two processes. `SettledWhenDone`: when the executor has finished and no database
statement failed, no run is left queued or running. `LoadsOnlyWhileRunning`: the
worker never adds a thread day to a run that is being analysed or is in the mart,
even when its backend is dead. `ImplementsQueue`: in order, one at a time, at most
once; abandoning settles what waits and nothing starts afterwards.
`EveryExecutionEnds`: liveness.

**analysis_retry, analysis_overlap.** `CompletedIsComplete`, `MartIsWhole`,
`ResultsAreKept` hold while calls follow each other; `NoUnitForgotten` and
`RetrySucceeds` (once faults are over, the run ends loaded with a whole mart, for
good) also while they overlap.

**console.** `ImplementsRegistry`: under every interleaving of handlers, restarts and
failures the rows implement `ConfigRegistry`, where a page's history only grows, one
version at a time and without a gap or a repeated number, the active version is a member
of it, and labels are given in order, one per prompt, and kept. A handler that loses the
race for a number fails and changes nothing. `FrozenTogether`: the version and the label
a job froze belong together, whatever is activated between the two. `ArtifactOfWhatRan`:
an artifact is filed under the prompt and the release that produced it, also when the
service is upgraded between probe and analysis. `SampleOfItsPage`: the messages of one
page are never analysed in the name of another. `FreshEvidence`: a sample or a
comparison that the screen shows as current was made for the draft beside it: the sample
with its rules and with the limit it was last judged by, the comparison with its prompt
and the sample shown. The three cases in which the code does not keep this (an edit
during the await, suggestions of an onboarding sample, a limit changed on the onboarding
form) are excepted, and listed among the disagreements.

**monitor.** `PreviewNeverUnderstates`: a run never becomes more publishable than its
preview said, also when midnight passes before it is executed (a partial run of today
becomes one of yesterday; a full day stays one). `ReplacedWithConsent`: the run that the
backend saw in the slot when it checked the request of this screen is the one named in
its form, and an official run of a past day was confirmed, while another client publishes
between all the steps. This is consent as of the check: the *board* may change between
check and commit, and what is then replaced was named by nobody, which is the subject of
`publish_blind_overwrite`.

**shell.** `UrlTellsTheRoute`: opening the address again gives the same view, page and
filters, and once the catalog is there the route names only its pages, whatever old
address or entry of the history it came from. `ShownUnlessOvertaken`: when nothing is in
flight and the last load did not fail, the view shown is the one that the route asks
for, however many loads overlapped, unless the answer of an earlier load came after that
of the last: that is the one way to a screen that is not what the address says, and the
code has it (see [below](#where-code-and-documents-disagree)). `FiltersPersist`: no link
changes a filter, also by way of a comparison or of screens that have none.

**day.** `WindowsTile`: the child runs cover the request without gap or overlap, each
inside the day it is labelled with, and exactly those that span the day may become
official. `NothingMissed`: a conversation read to its end, while messages arrive at its
head and shift the pages, yields every message that was due, once, and none from
outside. `ResponseTimesAreReal`: the figures of the one-pass loop are those of a
definition over all pairs of messages. `SignalsAreExplained`: no signal without a tag
that speaks for it or an opening choice made before the human conversation, and no
mapped tag without a signal; which of the two wins where both speak is left open, since
code and design disagree. `SilenceIsUnknown`: the deterministic service judges a day as
unknown exactly when nobody said anything, and an unanswered one as of high risk.
`StaffFactsAddUp`: staff rows are of those who wrote, account for all their messages,
and share the cost out without exceeding it. `DayCountedOnce`, `ProvisionalIsFlagged`,
`ExportIsOfficial`: what an answer shows although publishing and midnight come between
its queries. `EveryConversationCounted`: the composition of all of these, from the
source to the card: of the conversations read to their end, in which something was due,
the published day misses exactly those that the load could not save, which the metrics
of the run name, and counts each of the others with all of its messages.

The type invariants of `Publish`, `RunGroup`, `Analysis` and `Workspace`, and
`ActiveIsOwn` (which `ImplementsRegistry` implies) and `RevisitIsNoNeed`, are not in any
run: they are [proved](#what-is-proved).

Each property has a mutant in `PROJECT.json`: a change of one definition that a
plausible mistake in the code would make, under which the same run finds the
property violated. The mutant operators stand beside what they replace, marked
`mutant:`; nothing in the specifications uses them.

### Bounds, and why they are enough

- *Runs of one day (3) and commits (3)*: two full runs and a partial one give every
  conflict, over one slot and between the two channels of a day; three commits let a run
  be published, superseded and published again. Days of different slots do not interact
  except through a group, hence the fourth run, of day 2, in `publish_sequential`, where
  only the two runs of that group may fail (`Failing`): the others are alone in theirs,
  and a failed run is published by nobody. Two publishers let two refreshes of a group
  cross each other and a commit. Two requests are enough for one to act on what the
  other has changed. A third would commit between the steps of one of them, which the
  second also can, up to the bound of three commits.
- *Reanalysed runs*: one per run of TLC, the partial one or a full one, since an
  analysis writes only the status of its own run.
- *Two runs in a group* tell the first, the last and the waiting run apart; *two
  thread days* give all, some and none lost.
- *Three units in batches of two* give a full and a rest batch, and a mixed outcome
  in one batch. *Two faults* let a retry of a failure fail too. *One upgrade* gives
  two effective identities beside the raw one.
- *console*: one request of each kind (read, write, sample, preview, other client)
  and three in all give every pair of handlers in every interleaving, and the
  sequence sample, preview, and a write between them. One event (a tick that expires
  a sample, an upgrade, a restart) at any point, and one edit. The limit of a sample is the
  default or another (`Limits`), since it is only compared. One page is
  registered and one not, so that registration and choosing another page both
  happen. Longer sessions repeat these: what a handler reads is kept in its own
  record and what it leaves behind is rows, which others read as they read any row.
- *Monitor*: one screen that makes one call at a time, as an operator does who waits
  for the answer, and one other client; two full runs that compete for the official
  slot, a partial one that may be planned on its day or after it, which gives every
  eligibility there is, and the midnight after their day. Two commits let the other
  client publish between any two steps of the screen's request, and let one run replace
  another. `Previewed` holds the partial run: a full one has the same eligibility on
  every day. No run is analysed again (`Reanalysed`): that changes statuses, which
  `publish_concurrent` and `publish_sequential` cover, and no eligibility.
- *Shell*: two pages are the fewest for a comparison, and a third is one that the
  catalog no longer lists. One entry of history gives every way of going back to an
  address; a longer one only repeats it (`MaxPast`). A day may be entered that is over,
  or today's, or none (`Entered`); the run enters none, and the days of a custom range are
  otherwise those it was opened with, yesterday as of then, which a midnight leaves
  behind. Two loads in flight (`Loads`) are one that is asked
  for and one overtaken by it; a third would be overtaken like the second. The snapshot
  mode (`Snapshots`) has one value here: it is carried from route to route by the same
  assignments as `rest`, which has two; the theorem `FiltersStay` is for any.
- *day*: days of four ticks with the midnight one tick ahead of UTC, so that the UTC
  date and the business day differ within a day. The requests are a past full day, a
  range over two days cut at both ends, and today in full. Five busy conversations
  (a menu and a press; several customers' messages in a row; staff who write first
  and messages of the day before; a menu after the customer has written; notices and
  strangers only) beside two quiet ones, one of them with nothing in the window.
  Lists of one and pages of two, so that both loops run several times. One arrival
  shifts every page boundary once; a page may then repeat one message. The caps are
  none or 1 and 1. The four answers of a model are one with aliases, a stranger and
  a repeated name, one with the need "revisit", one with blanks and codes out of
  the vocabulary, and none. The slot of day 2 already shows a provisional or an
  official run. Requests to the dashboard are made once the mart of the run is
  written: an answer given before that reads nothing of the run.
- `SYMMETRY` is used in `publish_concurrent`, over publishers and over the two
  full runs, which have a group each and appear nowhere by name, in
  `publish_sequential`, over publishers, in `console`, over the two handlers of the
  screen, in `monitor`, over the two full runs, and in `shell`, over the loads. These
  runs check invariants, an action property and implementations without fairness, all
  safety properties, so symmetry is sound.
- `CHECK_DEADLOCK FALSE` stands in the configurations of `Publish`, `Monitor`, `Shell`,
  `Workspace` and `Day`: once days, groups and commits, or requests and edits, are used
  up there is nothing left for an operator to ask, a start of the application without a
  catalog ends at its loading notice, and a day ends with its run published, or
  failed, and the answer read.
  `RunGroup` can always toggle the analysis switch, `Analysis` can always be called
  again.

### Fairness

- `RunGroup!FairSpec`: weak fairness of the executor and of the worker, each as a
  whole. The worker's HTTP client has a timeout and its loops are bounded. The
  executor awaits database calls, the worker's exit, and requests to the AI
  service. Their timer (`analysis.client.ts:43`) stops when the headers arrive, so
  that the body arrives too, or the transport gives up, is part of the assumption. Nothing
  is assumed of the operator, the outside caller, the publisher or the crash, and
  `EveryExecutionEnds` allows the crash as an end.
- `Analysis!FairSpec`: weak fairness of each caller. A call that has begun goes on
  for the same reason. That a new call begins after one that failed is an
  assumption about the operator, no code retries by itself, so `RetrySucceeds` says
  that retrying works, not that it happens. Upgrades, edits and faults need not
  happen and are finitely many.
- `Publish` states no liveness: an unfinished request leaves nothing half done.
  `Workspace`, `Monitor`, `Shell` and `Day` state none either: no code resumes a handler
  or a run that was cut off, so all that could be said is that a handler left alone
  ends.

## What is proved

TLAPS checks the theorems of eight modules. TLC shows each property on the
instance of a run; the theorem says it for all values of the constants that the
named assumptions of the modules allow. Liveness is beyond the prover.

| Module | Theorems |
|---|---|
| `PublishProofs` | `TypeCorrect`, `BoardCorrect` (`BoardMatchesRuns`), `PublishImplementsBoard`, `HistoryExplains`, `PublishedGroupsTrue`; requests that do not overlap: `NoOrphans`, `NothingOverwrittenBlindly`, `OfficialStandsAlone` |
| `RunGroupProofs` | `TypeCorrect`, `FailuresExplained`, `Settles`, `LoadsWhileRunning`, `RunGroupImplementsQueue` |
| `AnalysisProofs` | `TypeCorrect`, `NothingForgotten`; one call at a time: `CompletedMeansComplete`, `MartAlwaysWhole`, `ResultsKept` |
| `ConfigProofs` | `TypeCorrect`, `ActiveVersionIsOwn`, `JobsFreezeTogether`, `ArtifactsSayWhatRan`, `SamplesStayHome`, `EvidenceIsFresh`, `RowsImplementRegistry` |
| `DayProofs` | `PlanTiles`, `NeedsAreNeeds`, `CountedOnce`, `ProvisionalFlagged`, `ExportsOfficial` |
| `ExtractionProofs` | `TypeCorrect` (of `Day`), `NoneMissed`, `AllCounted` (`EveryConversationCounted`), `ResponsesReal` (`ResponseTimesAreReal`), `SignalsExplained` (`SignalsAreExplained`), `SilenceUnknown` (`SilenceIsUnknown`), `StaffFactsSound` (`StaffFactsAddUp`) |
| `MonitorProofs` | `MonitorRefinesPublish`, `PreviewIsUpperBound` (`PreviewNeverUnderstates`), `ConsentIsChecked` (`ReplacedWithConsent`), `NoGroupIsShown` |
| `ShellProofs` | `FiltersStay` (`FiltersPersist`), `ScreenIsTrue` (`ShownUnlessOvertaken`); addresses the application wrote: `UrlIsTrue` (`UrlTellsTheRoute`) |

In every module the proof has the same shape: an inductive invariant, a lemma that
the initial states have it, one lemma per action (or per handler) that a step keeps
it, and the property read off it.

### Assumptions on the constants

TLC evaluates them on every run. Most say of which kind a constant is. Those that
say more:

- `PublishConstants`, `RunGroupConstants`, `AnalysisConstants`: the marks for "no
  run", "no group" and "the executor" are not themselves runs, groups or outside
  callers; the units of a run are finitely many.
- `ConfigConstants`, `WorkspaceConstants`: finitely many pages are registered at the
  start (the registered rows get their numbers in some order), the marks for a
  missing, null or blank field are not prompts, `Null` is not a comparison, and the
  limits of a sample are within what the backend accepts, the default of 12 among them.
- `ClockConstants`: business midnight is at a fixed offset, less than a day. The
  default zone has one; zones that change their clocks are not covered (see
  [disagreements](#where-code-and-documents-disagree)).
- `ExtractionConstants`: threads are positive numbers, the order in which Pancake
  lists them; pages of lists and messages hold at least one.
- `DayConstants`: tag mappings and opening rules are lists of entries and rules; at
  Pancake a conversation stands newest message first, none later than the clock and each
  with an id of its own, which is what `extract` relies on when it stops at the first
  message before the window. Former runs left what this run leaves (`Former`): one
  snapshot a day and channel, one fact a conversation, facts of the day of the snapshot,
  no revisit as a need. Each of these is among the properties proved of this run.
  Message ids below 100 keep those that arrive distinct.
- `DashboardConstants`: the bounds of a request are days, its snapshot mode is one
  of the two of the schema.
- `ThreadDayConstants`: the marks for "no staff name" and "no such time" are no
  integers.
- `AnswersSucceed`: what a model answers with an object is recorded as succeeded
  (analysis_executor.py:192) and its cost read as an integer, of any sign
  (analysis_executor.py:200); its other fields are free.

### Publishing

`BoardMatchesRuns` is not inductive. `CommitPublish` writes the slot and clears
others on the strength of what its request read some steps ago, and the invariant
alone does not say what remains true of that. The inductive invariant is

    IInv == TypeOK /\ RowsAgree /\ RequestsAgree /\ BoardMatchesRuns

`RowsAgree`: a run is planned if and only if it exists, only existing runs are
analysed, and a published state was earned by the eligibility; so an eligibility,
once given, never changes. `RequestsAgree`: the run an open request has validated
is still eligible; every run it is going to supersede is another run of the same
page and day; and for a provisional publish that run is planned as provisional.
From these it follows that a commit never blanks a slot of another day, that a
provisional commit never blanks the official slot, and that the rows it marks as
superseded are exactly those whose slots it clears. The refinement (`BoardStep`)
maps `PlanGroup` to `Plan`, `CommitPublish` to `ShowOfficial` or `ShowProvisional`,
and every other action to a stutter.

That the history explains the board needs to
know, of each slot, that the last row of the history about it wrote what it shows or,
if it is blank, that a later official row replaced its run (`SlotsExplained`). That a
group shown as published was published rests on the status derived by each open
refresh: a run that it saw published is in the history, which only grows
(`PublishedRest`), for any number of crossing refreshes. The three theorems about
requests that do not overlap have the hypothesis `~Overlapping`, as `publish_sequential`
has, for any number of publishers. Their invariant (`Alone`) says that one request at most
is open (`OneOpen`) and that what it has read of the board still stands at its next step,
which holds because nothing but a publish writes there.

### Run groups

    IInv == TypeOK /\ InOrder /\ ExecutorAgrees /\ WorkerAgrees /\ CallsAgree
              /\ OutcomeAgrees /\ FailureIsExplained

Executor, worker and analysis write the same rows without looking. The invariant
says what the step of each implies for the rows: the runs before the executor's are
settled, those after it queued and empty (or all are settled, if the group was given
up); as long as the worker is active its run is the executor's and running, and no
executor that still works does anything but wait for it; calls of the analysis only
ever work on settled runs.
`LoadsWhileRunning` and the refinement of `RunQueue` follow step by step.

### Analysis

    IInv == TypeOK /\ ResultsBelong /\ CallsKeepCount /\ RanksBounded

`CallsKeepCount` says which units may lack a result at each step of a call: none but
those it is still to send, and none at all once it sums up. This holds however calls
overlap. The other three theorems have the hypothesis that any two callers are equal:
with two, each can overwrite the status of an analysis run with what it read before
the other went on, and the properties are false. Their invariant (`Alone`) adds that
what a single call has read of the results, or written to the status of its
analysis run, still stands at its next step.

### Control plane and console

    IInv == RowInv /\ CallsHold /\ ScreenInv

No handler is a transaction, so what it will write was read some steps before. For
every handler in progress, `CallsHold` says what its record may rely on: its page is
known, the version it is to activate or freeze is of that page, the label it found
is of the prompt of that version, the sample is of the page; and of an answer under
way, that what it shows is there. `ScreenInv` says that what the screen has taken over
from answers is there, that a handler waits for the answer to its own kind of request,
and what the marks of sample and comparison stand for as long as they are shown
(`EvidenceFresh`: a sample not marked stale has the mark of the draft's rules and of the
limit it was last judged by). Rows only grow (`RowsGrow`), so
that what a record relies on stays true while others move; a step of one client is
then looked at alone (`CallsMove`). The refinement adds `RegInv`: numbers of a
page run from one without a gap or a double, labels likewise, and a number that a
handler has computed is at most one above the highest. A number overtaken meanwhile
is too small, and the unique key refuses it. With it the rows implement
`ConfigRegistry`: the insert of a version maps to `Save`, an activation to `Activate`,
the creation of a prompt identity to `Label`, all else to a stutter.

### The day

`PlanTiles` needs that the loop of `splitRequestedWindowByTargetDate` covers what it
was given. The loop is a recursive function; that the plan from a cursor on exists,
starts at it, ends at the end of the request and has no gap is shown for the
smallest distance to the end at which it would fail.

    DayInv  == now \in Nat /\ PipelineInv
    FullInv == DayInv /\ ScanInv /\ LoadInv /\ RowsInv
    WholeInv == FullInv /\ ReadInv /\ CountInv
    AllInv  == FullInv /\ MadeInv

`PipelineInv`: a dashboard request chooses its snapshots first and reads the facts
of their runs later, while the run is published and replaced. So the invariant says
of each snapshot on the board or in the hands of a reader that it is *true*: facts
of its run are of its day, and if it is of the run followed here, that run is
published, and in full when the snapshot is official. A true snapshot stays true.
That, and that a slice holds one snapshot a day of its range, gives the three
properties of an answer.

`ScanInv`: the worker pages by a running count from the newest message, and a
message that arrives moves all the others back. The invariant says of the
conversation at hand that what was due when its first page was read has been found
or stands beyond the count (`Ahead`). An arrival only moves messages further beyond,
so a page may repeat but never leave out; and a short page, or one that reaches back
before the window, leaves nothing of the window beyond. Threads come in ascending
order, so a conversation is never opened twice. `LoadInv` says that a day once built
has each message found once and in order, which needs that sorting is what it should
be: `InOrder`, by the rank of a message among the others, is shown to give for any
strict order a sequence in that order with each element once.

`AllCounted` puts the day together. `CountInv` counts at each stage (a day for each
conversation with messages that is not in `unsaved`, a usable result for each day, a
fact for each result, with as many messages as were found) and `ReadInv` says that the
thread facts a reader has read are all there are, since the mart of the run is no longer
written once it can be read.

`MadeInv` carries what the remaining four need: each day held is what
`BuildConversationDay` makes of what was found of its conversation, each result an
answer of the service normalised, each fact what the builders of the mart make of the
two. From there the theorems are about the operators, for any messages, tags, rules,
key words and answers.

- `ResponsesReal`: `Waits` is one pass that keeps a pending time. After any number of
  messages the pending time is that of the one customer message still waiting, and the
  waits are, in order, the pairs of the definition that ended so far; again the
  smallest number of messages at which that would fail gives the contradiction. That
  the average is theirs needs that a sum over a sequence is a sum over its indices.
- `SignalsExplained`: the first tag of a role with a code, or the first rule that
  a message of the opening block matches, as the code orders them, and the property is
  weaker; no message of the block, nor one before it,
  is a human one.
- `SilenceUnknown`: a message is outside the opening block exactly from the first
  human one on, and neither `Rejected` nor `Canonical` touches the status or the risk
  of the deterministic answer.
- `StaffFactsSound`: the rows of a conversation are one per name, so the messages per
  row are the parts of a partition (`SumOfParts`), the cost is the same share for each
  (`SumOfShares`), and the owner of the first response is one of the names. The sums
  are handled by induction on the subsets of a finite set, stated for a set of subsets
  instead of an operator (`BySubsets`).

### The operations screen

    MonitorInv == call is a record of its calls /\ \A c : CallTrue(c) /\ ScreenTrue

Every step of `Monitor` is a step of `Publish` or leaves the rows of `Publish` alone
(`MonitorRefinesPublish`), so what is proved of `Publish` holds beneath any number of
screens, and its invariant `IInv` may be used for the screens. A screen decides by what
it was told some steps ago. The invariant says what an answer, under way or shown, still
tells of the rows. Of a run: it exists, and its eligibility is that of the answer, since
`RowsAgree` fixes an eligibility once given (`RowTrue`). Of a preview: the run, planned
then or still to be planned, is at most as publishable as previewed, because a midnight
takes a part of today from provisional to not publishable and changes nothing else
(`PreviewTrue`, `AtMost`). Of a publication under way: the record of the handler is the
one that the screen's call opened, with the run, the channel and the expected run of the
form, and once the checks have passed it replaces nothing else (`RequestOwn`). The
theorems are read off these.

### The shell

Three invariants, since the three theorems need different hypotheses.

- `FitInv`, unconditional: once started, the route names a page of the catalog, if
  there is one, and compares only pages of the catalog. A click on a link then has
  nothing left to normalise but the view, which is `FiltersStay`.
- `RouteInv` with `AddressesWritten`: every address a behaviour can start from is one
  the application itself writes (`SerializeRouteState(a) = a`). Without it the theorem
  is false: an address that names days beside a preset is opened without them and
  not corrected. At the start and on the way back the code writes the address anew
  only if the route brought in line with the catalog serialises differently. What is
  shown is that otherwise the route is the same, so an address left alone still tells
  it.
- `LoadInv`, unconditional: what the last load begun was asked for is what the route asks
  for as long as it is in flight, since every change of the route begins another; and
  when it has been answered, the screen shows that, unless an answer of a load `behind`
  has come since (`overtaken`).

### What is only model-checked, and why

- `EveryExecutionEnds`, `RetrySucceeds`: liveness under fairness, which the prover does
  not support.
- What the named hypotheses of a theorem leave out: two publications, or two analysis
  calls, at a time where the theorem says one; in `Shell`, addresses typed by hand
  (`UrlIsTrue` supposes those the application wrote). There the property is false of the
  code, or checked only on the instance of a run.
- The three expected violations are shown by a counterexample; nothing is proved of
  them.

## Where code and documents disagree

Three runs expect a violation. Each states what a document or a message in the code
says; `findings` in `PROJECT.json` quotes it.

1. `NoBlindOverwrite`: the run that a publish is expected to replace is compared
   outside the transaction. Two requests that both scan before either commits both
   pass; the second replaces a run its operator never named, and the first run's
   row goes on saying it is published.
2. `LoadedWasLoaded`: analysis accepts any failed run, one that was never loaded
   too. It has no thread days, so its analysis trivially succeeds, and the run
   shows as loaded, with its error erased.
3. `BookingsAreCounted`: the overview counts conversations whose outcome is
   `booked`. The AI service knows no such outcome: it turns `booked` into
   `appointment_booked`, and the builder passes that on. The booking rate is 0
   whatever happened, in the overview, the comparison, the exploration and the
   export.

Others met while modelling, which the modules follow as the code has them, without a
run of their own:

- *Old partial runs* (`ValidPublish`): the plan
  (docs/plans/extract-module-db-backend-go-worker-implementation-plan.md:1057) and
  docs/ui-flows.md:578 reject every publication of a partial run of an old day.
  Eligibility is fixed when the run is planned, so a partial run that is published after
  midnight is offered by the screen and accepted by the backend.
- *Thread days that were not saved* (`LoadDays`): a run whose worker could not save some
  thread days is loaded, analysed and published like any other (loader.go:62-91). Which
  ones is said in its metrics (`thread_day_failures`); the error text that said so too is
  erased when the analysis settles the run, and no screen and no check of a publication
  reads the metrics. A published official day may miss conversations.
- *Resuming an analysis* (`CreateRun`): docs/plans/first-end-to-end-slice-plan.md:245
  has a retry resume the analysis run of the same snapshot. If the probe of the service
  fails once, that run is created under the raw identity; a retry whose probe succeeds
  starts a second one.
- *Executing without a preview* (`ExecuteManualRun`): the form says that the split is
  always previewed before it is executed. The execute button sends the form as it is.
- *The executed group is not shown* (`Mappable`): the adapter reads
  `run_group.connected_page.page_name` (control-plane-adapter.ts:674), which the tests
  fake and the backend does not answer. The mapping throws, so a job that succeeded is
  reported as an error and no group is ever shown. The rows of single runs are shown,
  and it is by them that an operator can publish.
- *What is overwritten is not shown* (`PublishRun`): docs/ui-flows.md:583 asks for a
  confirmation with old and new version. It is asked for only of a run that already
  supersedes another, which the publication itself writes, and from a field that the
  backend never answers. A first overwrite needs a ticked box; a second one, of a run
  that has superseded another, is refused by the screen.
- *Overlapping loads* (`ViewArrives`, `ControlScreen`): `loadCurrentView`
  (frontend-app.ts:434) writes its answer without asking whether the route is still the
  one it was loaded for, and the screens of the control plane look at the route again
  after their awaits and take whatever is not the operations screen for the
  configuration. docs/plans/frontend-rewrite-implementation-plan.md:174 wants the
  address to be the source of truth. If the answer of an earlier load comes last, the
  screen shows another page or view than the address, until the next click
  (`ShownUnlessOvertaken` says that this is the only way).
- *The days of the official dashboard* (`ChooseFilters`): docs/ui-flows.md:100 allows days
  up to yesterday only. The days of a custom range have no limit, whatever the snapshot.
- *New inbox* (`IsNewInbox`): build.go:860 compares two dates in the zone of the
  window's start. The worker's tests give it windows in local time; the planner
  (chat_extractor.planner.ts:42) writes UTC. A conversation first seen between UTC
  midnight and local midnight is judged by the wrong day.
- *First-response owner* (`FirstResponseOwner`): the builder (read_models.builder.ts:320)
  credits whoever of the staff wrote first that day; the response time itself
  (build.go:774) starts at a customer's message. If staff write first, one person
  may be credited with another's response.
- *Official outcome* (`BuildFactThreadDay`): docs/design.md:265 puts the explicit
  outcome before the AI's; read_models.builder.ts:156 takes the AI's only.
- *Order of signals* (`Explicit`): docs/design.md:258 puts the opening selection
  before the tag; build.go:82 asks the tags first. `SignalsAreExplained` holds of either
  order.
- *Removed tags* (`ObservedTags`): the tag history counts as observed whatever its
  date and whether the tag was added or removed (build.go:565).
- *Blank notes* (`NullWhenBlank`, `Accepted`): the screen sends blank notes as
  `null` (features/configuration/state.ts:128), which the body schema of the backend, an
  optional string, refuses. Saving without notes fails.
- *Evidence after an edit* (`ResumeSample`, `ResumePreview`): the fingerprint of a
  sample or a comparison is taken after the await (frontend-app.ts:948, :983), from
  the draft as it is by then. An edit meanwhile makes old evidence look current.
  After suggestions of an onboarding sample are taken over nothing is compared at all.
- *Limit of the sample* (`ChoosePage`): the number of conversations is part of the
  fingerprint of a sample (features/configuration/state.ts:229), but the onboarding form
  changes it without judging the evidence again (frontend-app.ts:845-856). A sample of
  another size is shown as current until the draft form is next read.
- *Days of 25 hours*: `splitRequestedWindowByTargetDate` adds 24 hours to the start
  of a day. Where clocks are set back, the cursor is then still in the same day and
  the loop does not advance. The default zone has no such day; the screen offers
  zones that have.

## What is not modelled

- *Days that are not 24 hours long*: `Planner` has one `DayLength`, since business
  time is a function of UTC through one offset everywhere else in the model.
- *Thread history, labels, health and run detail*: presentation of stored rows that
  nothing else reads.
- *Filters and breakdowns of the dashboard* beyond staff and inbox: each is one more
  conjunct of the same query. The page comparison is one overview per page.
- *Texts*: redaction, phone candidates, customer links, entry source, attachments,
  topics, mood, explanations, evidence lists. No figure or decision modelled here
  depends on them.
- *Layout, the export workflow, the thread and tabs of the history, the mapping queue,
  the demo adapter, and the parsing of manifests, environment and bodies*: no state of
  their own, except for the refusals that are modelled (`Accepted`, `Validated`).
- *The upgrade of the AI service between two batches of one analysis*: `Analysis`
  does not keep which release answered a unit. The same race is modelled for
  previews.

## Plan

The most important behaviour first:

1. `PublishBoard`, `Publish`, proofs - done.
2. `RunQueue`, `RunGroup` - done.
3. `Analysis` - done.
4. `ConfigRegistry`, `ConfigControl`, `Workspace` - done.
5. `Planner`, `ThreadDay`, `Extraction`, `UnitAnalysis`, `Mart`, `Dashboard`, `Day` -
   done.
6. `Monitor`, `Shell` - done.
7. Proofs of the safety properties of all of these - done; see
   [above](#what-is-only-model-checked-and-why) for what is left to TLC.
8. Next: a release per answered unit in `Analysis`, for the upgrade between two
   batches; the presentation reads (history, labels, health).
