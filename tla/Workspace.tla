------------------------------ MODULE Workspace ------------------------------
(***************************************************************************)
(* The configuration screen of the operator (FrontendApp, and the draft    *)
(* helpers of features/configuration/state) on top of the control plane.   *)
(*                                                                         *)
(* The screen has one workspace: the draft being edited, the page it is    *)
(* bound to, and the evidence shown for the draft, a sample of the page    *)
(* and a comparison of its prompt with the active one.  Handlers of clicks *)
(* await answers, and nothing is locked meanwhile: the draft can be edited *)
(* and other handlers started.  A client in Screens carries one handler.   *)
(*                                                                         *)
(* Evidence carries a mark, the fingerprint of what it was made for, which *)
(* the code takes when the answer arrives.  What it was really made for is *)
(* in the answer, and here it is kept beside the mark.                     *)
(***************************************************************************)
EXTENDS ConfigControl

CONSTANTS EmptyEtl, \* the rules of a draft nobody has filled
          Opened,   \* the page loaded at the start, or NoPage
          Limits,   \* values of sampleConversationLimit
          MaxEdits  \* bound: edits by the operator between handlers

ASSUME WorkspaceConstants ==
  /\ EmptyEtl \in Etls /\ Registered # {} /\ Opened \in Registered \cup {NoPage}
  /\ Limits \subseteq 1 .. 100 /\ 12 \in Limits /\ MaxEdits \in Nat
  /\ Null \notin (Prompts \cup {Blank}) \X Nat  \* the mark of a comparison, or none

VARIABLES
  ws,         \* configuration.workspace: bound page, chosen Pancake page, draft, version
  detail,     \* configuration.pageDetail
  listed,     \* configuration.connectedPages
  source,     \* draftSource
  baseline,   \* draftBaselineFingerprint, Null when there is none
  sample,     \* promptWorkspaceSamplePreview with its fingerprint and stale reason
  comparison, \* promptPreviewComparison with its fingerprint
  task,       \* client -> the handler it carries, with what that has captured
  edits

draftVars == <<ws, source, baseline>>
evidence == <<sample, comparison>>
screenVars == <<draftVars, evidence, detail, listed, task, edits>>
vars == <<controlVars, screenVars>>

DefaultLimit == 12
NoEvidence == [key |-> 0, page |-> NoPage, etl |-> EmptyEtl, limit |-> DefaultLimit,
               mark |-> <<EmptyEtl, DefaultLimit>>, judged |-> DefaultLimit, stale |-> FALSE]
NoComparison == [key |-> 0, prompt |-> Blank, mark |-> Null]
NoTask == [kind |-> "none", apply |-> FALSE, keep |-> FALSE, key |-> 0, id |-> 0,
           limit |-> DefaultLimit]

(* configVersionToDraft; an empty draft for a page without versions. *)
DraftOf(id) ==
  IF id = 0 THEN [prompt |-> Blank, etl |-> EmptyEtl, notes |-> Blank]
  ELSE [prompt |-> versions[id].prompt, etl |-> versions[id].etl, notes |-> versions[id].notes]

ListedVersions(d) == {i \in VersionsOf(d.page) : i <= d.upTo}
Latest(S) == IF S = {} THEN 0 ELSE Max(S)
ActiveOrLatest(d) == IF d.active # 0 THEN d.active ELSE Latest(ListedVersions(d))

(* buildCurrentConfigurationDraftFingerprint. *)
Fingerprint(w) == [prompt |-> w.prompt, etl |-> w.etl, notes |-> w.notes,
                   activate |-> w.activate, analysis |-> w.analysis]

(* What a handler leaves of the evidence: refreshPromptPreviewFreshness.   *)
(* The limit it judged the sample by is kept with it.                      *)
SampleMark(w) == <<w.etl, w.limit>>
StaleSample(w, s) == s.key # 0 /\ s.mark # SampleMark(w)
StaleComparison(w, s, x) ==
  x.key # 0 /\ (StaleSample(w, s) \/ (s.key # 0 /\ x.mark # Null /\ x.mark # <<w.prompt, s.key>>))

RefreshNothing(w, s, x) ==           \* mutant: a handler that does not refresh
  sample' = s /\ comparison' = x

Refresh(w, s, x) ==
  /\ sample' = [s EXCEPT !.stale = StaleSample(w, s), !.judged = w.limit]
  /\ comparison' = IF StaleComparison(w, s, x) THEN NoComparison ELSE x

(* hydrateConfig: the draft becomes this version. *)
Filled(w, id) == [w EXCEPT !.prompt = DraftOf(id).prompt, !.etl = DraftOf(id).etl,
                           !.notes = DraftOf(id).notes]
Hydrate(w, id, from, s, x) ==
  /\ ws' = Filled(w, id)
  /\ source' = from
  /\ baseline' = Fingerprint(ws')
  /\ Refresh(ws', s, x)

(* bindConnectedPageContext: another page, so no evidence. *)
Bound(w, d) == [w EXCEPT !.page = d.page, !.pancake = d.page, !.analysis = d.analysis,
                         !.version = ActiveOrLatest(d)]
Bind(d, hydrate) ==
  /\ detail' = d
  /\ IF hydrate
     THEN Hydrate(Bound(ws, d), ActiveOrLatest(d), "active", NoEvidence, NoComparison)
     ELSE /\ ws' = Bound(ws, d)
          /\ baseline' = Fingerprint(ws')
          /\ Refresh(ws', NoEvidence, NoComparison)

(* reconcileConfigurationSelectedPageId. *)
Reconciled(w, pages) ==
  LET wanted == IF w.pancake # NoPage THEN w.pancake ELSE w.page IN
  [w EXCEPT !.page = IF wanted \in pages THEN wanted ELSE NoPage]

------------------------------------------------------------------------------
BlankWorkspace ==
  [page |-> NoPage, pancake |-> NoPage, prompt |-> Blank, etl |-> EmptyEtl, notes |-> Blank,
   version |-> 0, activate |-> TRUE, analysis |-> FALSE, limit |-> DefaultLimit]

(* As the screen is opened, or with a page already loaded. *)
ScreenInit ==
  /\ IF Opened = NoPage
     THEN ws = BlankWorkspace /\ detail = NoDetail /\ source = "blank" /\ baseline = Null
     ELSE /\ detail = DetailOf(Opened)
          /\ ws = Filled(Bound(BlankWorkspace, detail), detail.active)
          /\ source = "active" /\ baseline = Fingerprint(ws)
  /\ listed = Registered
  /\ sample = NoEvidence /\ comparison = NoComparison
  /\ task = [c \in Screens |-> NoTask] /\ edits = 0

(* Edits: each is put in the workspace at once, and the draft form is      *)
(* checked against the evidence (syncConfigurationDraftFromForm).          *)
EditTo(w) ==
  /\ edits < MaxEdits /\ edits' = edits + 1
  /\ ws' = w /\ ws' # ws
  /\ UNCHANGED <<controlVars, detail, listed, task>>

EditDraft ==
  /\ \/ \E t \in Prompts : EditTo([ws EXCEPT !.prompt = t])
     \/ \E e \in Etls : EditTo([ws EXCEPT !.etl = e])
     \/ EditTo([ws EXCEPT !.notes = Note])
     \/ EditTo([ws EXCEPT !.activate = ~@])
     \/ \E id \in ListedVersions(detail) : EditTo([ws EXCEPT !.version = id])
  /\ Refresh(ws', sample, comparison)
  /\ UNCHANGED <<source, baseline>>

(* A draft form that is read without a change of these fields; also by a   *)
(* button that is then refused.                                            *)
ReadDraft ==
  /\ Refresh(ws, sample, comparison)
  /\ UNCHANGED <<controlVars, draftVars, detail, listed, task, edits>>

(* The forms that load and register a page; the second has the limit of    *)
(* the sample too.  Neither judges the evidence.                           *)
ChoosePage ==
  /\ \/ \E p \in listed : EditTo([ws EXCEPT !.page = p])
     \/ \E p \in Pages : EditTo(Reconciled([ws EXCEPT !.pancake = p], listed))
     \/ \E n \in Limits : EditTo(Reconciled([ws EXCEPT !.limit = n], listed))
  /\ UNCHANGED <<source, baseline, evidence>>

(* Buttons that fill the draft from the page shown. *)
UseVersion ==
  /\ ws.version \in ListedVersions(detail)
  /\ edits < MaxEdits /\ edits' = edits + 1
  /\ Hydrate(ws, ws.version, IF ws.version = detail.active THEN "active" ELSE "saved",
             sample, comparison)
  /\ UNCHANGED <<controlVars, detail, listed, task>>

------------------------------------------------------------------------------
(* Handlers: Begin sends the first request, and Resume is the rest of the  *)
(* handler when the answer is there.                                       *)
Begin(c, op, p, in, t) ==
  /\ Request(c, op, p, in)
  /\ task' = [task EXCEPT ![c] = t]
  /\ UNCHANGED <<detail, listed, edits>>
Task(k) == [NoTask EXCEPT !.kind = k]
Stay == UNCHANGED <<draftVars, evidence>>
Synced == UNCHANGED draftVars /\ Refresh(ws, sample, comparison) \* the draft form is read first

LoadConnectedPage(c) ==
  ws.page # NoPage /\ Begin(c, "get", ws.page, NoInput, Task("load")) /\ Stay

(* buildCreateConfigVersionInput: blank notes are sent as null. *)
NullWhenBlank(v) == IF v = Blank THEN Null ELSE v
DraftInput(w, activate) ==
  [NoInput EXCEPT !.prompt = w.prompt, !.etl = w.etl, !.notes = NullWhenBlank(w.notes),
                  !.activate = activate, !.analysis = w.analysis]

(* buildRegisterPageInput: without a draft, prompt and notes are null. *)
RegisterInput(w, apply) ==
  IF apply THEN DraftInput(w, TRUE)
  ELSE [NoInput EXCEPT !.prompt = Null, !.notes = Null, !.activate = TRUE,
                       !.analysis = w.analysis]

(* The draft is kept whenever something is filled in by then. *)
HasConfiguredDraft(w) == w.prompt # Blank \/ w.etl # EmptyEtl \/ w.notes # Blank
RegisterPage(c, apply) ==
  /\ ws.pancake # NoPage
  /\ Begin(c, "register", ws.pancake, RegisterInput(ws, apply),
           [Task("register") EXCEPT !.apply = apply, !.keep = HasConfiguredDraft(ws)])
  /\ IF apply THEN Synced ELSE Stay

(* createConfigVersion; a draft without a page is saved by registering. *)
SaveDraft(c) ==
  IF ws.page = NoPage THEN RegisterPage(c, TRUE)
  ELSE Begin(c, "create", ws.page, DraftInput(ws, ws.activate), Task("save")) /\ Synced

ActivateSelected(c) ==
  /\ ws.page # NoPage /\ ws.version # 0
  /\ Begin(c, "activate", ws.page, [NoInput EXCEPT !.id = ws.version], Task("activate"))
  /\ Stay

LoadSample(c) ==
  /\ detail.page # NoPage
  /\ Begin(c, "sample", detail.page, [NoInput EXCEPT !.etl = ws.etl],
           [Task("sample") EXCEPT !.limit = ws.limit])
  /\ Synced

(* runPromptPreview refuses a sample it shows as stale. *)
RunPreview(c) ==
  /\ detail.page # NoPage /\ sample.key # 0 /\ ~StaleSample(ws, sample)
  /\ Begin(c, "preview", detail.page, [NoInput EXCEPT !.prompt = ws.prompt, !.id = sample.key],
           [Task("preview") EXCEPT !.key = sample.key])
  /\ Synced

ClonePromptFromPage(c) ==
  \E p \in listed : Begin(c, "get", p, NoInput, Task("clone")) /\ Synced

(* previewOnboardingSample keeps nothing: only its answer matters. *)
LoadOnboardingSample(c) ==
  /\ ws.pancake # NoPage
  /\ Begin(c, "onboard", ws.pancake, NoInput, Task("onboard"))
  /\ Stay

Start(c) ==
  \/ LoadConnectedPage(c) \/ RegisterPage(c, FALSE)
  \/ SaveDraft(c) \/ ActivateSelected(c) \/ LoadSample(c) \/ RunPreview(c)
  \/ ClonePromptFromPage(c) \/ LoadOnboardingSample(c)

------------------------------------------------------------------------------
Resumes(c, kind) ==
  /\ call[c].pc = "answered" /\ task[c].kind = kind /\ call[c].out.error = "none"
  /\ UNCHANGED <<edits>>
Finish(c) ==
  /\ call' = [call EXCEPT ![c] = Idle] /\ task' = [task EXCEPT ![c] = NoTask]
  /\ UNCHANGED <<rowVars, samples, envVars, spent>>

(* Any error ends the handler with a toast. *)
ResumeFailed(c) ==
  /\ call[c].pc = "answered" /\ call[c].out.error # "none"
  /\ Finish(c)
  /\ UNCHANGED <<draftVars, evidence, detail, listed, edits>>

ResumeLoad(c) ==
  /\ Resumes(c, "load") /\ Finish(c)
  /\ Bind(call[c].out.detail, TRUE)
  /\ UNCHANGED listed

ResumeRegister(c) ==
  /\ Resumes(c, "register") /\ UNCHANGED spent
  /\ Send(c, "list", NoPage, NoInput) /\ task' = [task EXCEPT ![c] = Task("list")]
  /\ Bind(call[c].out.detail, ~task[c].keep)
  /\ task[c].keep => source' = IF task[c].apply THEN "active" ELSE source
  /\ UNCHANGED listed

ResumeList(c) ==
  /\ Resumes(c, "list") /\ Finish(c)
  /\ listed' = call[c].out.pages
  /\ ws' = Reconciled(ws, listed')
  /\ UNCHANGED <<source, baseline, evidence, detail>>

(* The page read after a save is the one selected by then. *)
ResumeSave(c) ==
  /\ Resumes(c, "save") /\ UNCHANGED spent
  /\ Send(c, "get", ws.page, NoInput)
  /\ task' = [task EXCEPT ![c] = [Task("saved") EXCEPT !.id = call[c].out.id]]
  /\ UNCHANGED <<draftVars, evidence, detail, listed>>

ResumeSaved(c) ==
  LET d == call[c].out.detail
      id == task[c].id
      w == [ws EXCEPT !.version = id] IN
  /\ Resumes(c, "saved") /\ Finish(c)
  /\ detail' = d
  /\ IF ws.activate
     THEN Hydrate(w, IF d.active # 0 THEN d.active ELSE id, "active", sample, comparison)
     ELSE Hydrate(w, id, "saved", sample, comparison)
  /\ UNCHANGED listed

ResumeActivate(c) ==
  LET d == call[c].out.detail IN
  /\ Resumes(c, "activate") /\ Finish(c)
  /\ detail' = d
  /\ Hydrate(ws, d.active, "active", sample, comparison)
  /\ UNCHANGED listed

ResumeSample(c) ==
  LET made == call[c].out.sample IN
  /\ Resumes(c, "sample") /\ Finish(c)
  /\ sample' = [key |-> made.key, page |-> made.page, etl |-> made.etl,
                limit |-> task[c].limit, mark |-> SampleMark(ws), judged |-> ws.limit,
                stale |-> FALSE]
  /\ comparison' = NoComparison
  /\ UNCHANGED <<draftVars, detail, listed>>

ResumePreview(c) ==
  /\ Resumes(c, "preview") /\ Finish(c)
  /\ comparison' = [key |-> task[c].key, prompt |-> call[c].out.ran[2][1],
                    mark |-> IF sample.key = 0 THEN Null ELSE <<ws.prompt, sample.key>>]
  /\ UNCHANGED <<draftVars, sample, detail, listed>>

ResumeClone(c) ==
  LET d == call[c].out.detail IN
  /\ Resumes(c, "clone") /\ Finish(c)
  /\ IF d.active = 0 THEN UNCHANGED <<ws, evidence>>
     ELSE /\ ws' = [ws EXCEPT !.prompt = versions[d.active].prompt]
          /\ Refresh(ws', sample, comparison)
  /\ UNCHANGED <<source, baseline, detail, listed>>

(* seedWorkspaceDraftFromOnboardingSample: a blank prompt becomes the      *)
(* default one, and suggestions may change the rules.                      *)
ResumeOnboard(c) ==
  /\ Resumes(c, "onboard") /\ Finish(c)
  /\ \E e \in Etls : ws' = Reconciled([ws EXCEPT !.prompt = Inherit(@, DefaultPrompt),
                                                 !.etl = e], listed)
  /\ source' = "onboarding" /\ baseline' = Null
  /\ UNCHANGED <<evidence, detail, listed>>

Resume(c) ==
  \/ ResumeFailed(c) \/ ResumeLoad(c) \/ ResumeRegister(c) \/ ResumeList(c)
  \/ ResumeSave(c) \/ ResumeSaved(c) \/ ResumeActivate(c)
  \/ ResumeSample(c) \/ ResumePreview(c) \/ ResumeClone(c) \/ ResumeOnboard(c)

------------------------------------------------------------------------------
(* Other clients of the interface: a second operator, or a script. *)
OthersRequest(c) ==
  \/ \E p \in Pages : Request(c, "register", p, [NoInput EXCEPT !.activate = TRUE])
  \/ \E p \in Registered :
    \/ \E t \in Prompts \ {DefaultPrompt} :
         Request(c, "create", p, [NoInput EXCEPT !.prompt = t, !.activate = TRUE,
                                                 !.analysis = TRUE])
    \/ \E id \in DOMAIN versions : Request(c, "activate", p, [NoInput EXCEPT !.id = id])
    \/ Request(c, "execute", p, NoInput)

Init == ControlInit /\ ScreenInit

Next ==
  \/ EditDraft \/ ReadDraft \/ ChoosePage \/ UseVersion
  \/ \E c \in Screens : Start(c) \/ Resume(c)
  \/ \E c \in Clients \ Screens : OthersRequest(c) /\ UNCHANGED screenVars
  \/ \E c \in Clients : Handle(c) /\ UNCHANGED screenVars
  \/ (Tick \/ Upgrade \/ Restart) /\ UNCHANGED screenVars

Spec == Init /\ [][Next]_vars

------------------------------------------------------------------------------
(* Properties. *)

(* Every variable has its type; in particular a version row never points   *)
(* beyond its page, and the screen never shows a version it has not read.  *)
TypeOK ==
  /\ page \in [Pages -> [known : BOOLEAN, active : 0 .. Len(versions), analysis : BOOLEAN]]
  /\ \A i \in DOMAIN versions :
       versions[i] \in [page : Pages, no : Nat \ {0}, prompt : Prompts, etl : Etls,
                       notes : {Blank, Note}]
  /\ identities \subseteq [page : Pages, prompt : Prompts \cup {Blank}, label : Nat \ {0}]
  /\ jobs \subseteq [version : DOMAIN versions, label : Nat \ {0}]
  /\ \A s \in samples : Known(s.page) /\ s.etl \in Etls /\ s.expires <= clock + TTL
  /\ detail.upTo <= Len(versions) /\ detail.active \in ListedVersions(detail) \cup {0}
  /\ listed \subseteq {p \in Pages : page[p].known}
  /\ ws.page = NoPage \/ Known(ws.page)
  /\ ws.prompt \in Prompts \cup {Blank} /\ ws.etl \in Etls

(* Evidence shown as current was made for the draft: the sample with its   *)
(* rules and with the limit it was last judged by, the comparison with its *)
(* prompt and the sample shown.  The code does not keep this, and nothing  *)
(* is said, when the draft changed while the answer was awaited (the mark  *)
(* is then not what the answer was made for) and when suggestions of an    *)
(* onboarding sample were taken over (nothing is compared then).  A limit  *)
(* changed on the onboarding form counts when the draft form is next read. *)
FreshEvidence ==
  source # "onboarding" =>
    /\ sample.key # 0 /\ ~sample.stale /\ sample.mark = <<sample.etl, sample.limit>>
       => ws.etl = sample.etl /\ sample.judged = sample.limit
    /\ comparison.key # 0 /\ comparison.mark = <<comparison.prompt, comparison.key>>
       => ws.prompt = comparison.prompt /\ sample.key = comparison.key

(* The rows implement the registry: one history of versions per page,      *)
(* labels given in order and kept, under every interleaving of saves,      *)
(* activations, jobs and previews.                                         *)
ImplementsRegistry == Registry!Spec
=============================================================================
