---------------------------- MODULE ConfigControl ----------------------------
(***************************************************************************)
(* The control plane of the backend: registering a page, config versions   *)
(* and their activation, prompt identities, the snapshot a job freezes,    *)
(* and the prompt workspace with its samples and preview artifacts         *)
(* (chat_extractor.service, chat_extractor.repository, the request schemas *)
(* of chat_extractor.types).                                               *)
(*                                                                         *)
(* No handler here is a transaction.  Each reads, awaits and writes, so    *)
(* handlers of several clients interleave at every await, and what one has *)
(* read is kept in its record in "call".  Two guards of the database join  *)
(* them: unique keys, and the lock on the page row under which a prompt    *)
(* gets its label.  Samples live in the memory of the backend: they expire *)
(* and a restart loses them.                                               *)
(***************************************************************************)
EXTENDS Naturals, Sequences, FiniteSets, FiniteSetsExt, SequencesExt

CONSTANTS Pages,       \* pages of the Pancake account
          Registered,  \* the pages registered at the start, with the default config
          Clients,     \* who has requests in flight: each makes one, and is gone,
          Screens,     \* but these, whose answers a configuration screen awaits
          Prompts, DefaultPrompt,
          Etls, DefaultEtl, \* tag mapping, opening rules and scheduler, as shown
          Budget,      \* bound: how many requests of each kind are made
          MaxRequests, \* bound: how many are made in all
          TTL,         \* how long a sample lives
          MaxEvents,   \* bound: ticks, releases of the AI service and restarts in all
          NoPage, Note, Unset, Null, Blank \* some notes, a field left out, null, an empty string

ASSUME ConfigConstants ==
  /\ Registered \subseteq Pages /\ IsFiniteSet(Registered) /\ NoPage \notin Pages
  /\ Screens \subseteq Clients
  /\ DefaultPrompt \in Prompts /\ {Unset, Null, Blank} \cap Prompts = {}
  /\ DefaultEtl \in Etls /\ Unset \notin Etls
  /\ TTL \in Nat \ {0}
  /\ {MaxRequests, MaxEvents} \subseteq Nat
  /\ DOMAIN Budget = {"read", "write", "sample", "preview", "other"}
  /\ \A op \in DOMAIN Budget : Budget[op] \in Nat

VARIABLES
  page,       \* connected_page: known, the active version's id (0: none), analysis_enabled
  versions,   \* page_config_version, the id is the position
  identities, \* page_prompt_identity: the label of a prompt of a page
  jobs,       \* what pipeline_run_group has frozen: version, prompt, label
  samples,    \* promptWorkspaceSampleStore
  artifacts,  \* prompt_preview_artifact
  clock, release, restarts,
  call,       \* client -> its request: operation, step, input, what it has read
  spent       \* operation -> how many requests were made

rowVars == <<page, versions, identities, jobs, artifacts>>
envVars == <<clock, release, restarts>>
controlVars == <<rowVars, samples, envVars, call, spent>>

------------------------------------------------------------------------------
DefaultContent == [prompt |-> DefaultPrompt, etl |-> DefaultEtl]

VersionsOf(p) == {i \in DOMAIN versions : versions[i].page = p}
NumbersOf(p) == {versions[i].no : i \in VersionsOf(p)}
ContentOf(id) == IF id = 0 THEN DefaultContent
                 ELSE [prompt |-> versions[id].prompt, etl |-> versions[id].etl]

(* serializeConnectedPageDetail.  Versions are never changed or removed,   *)
(* so their number stands for the list.                                    *)
NoDetail == [page |-> NoPage, active |-> 0, upTo |-> 0, analysis |-> FALSE]
DetailOf(p) == [page |-> p, active |-> page[p].active, upTo |-> Len(versions),
                analysis |-> page[p].analysis]

NoInput == [prompt |-> Unset, etl |-> Unset, notes |-> Unset, activate |-> FALSE,
            analysis |-> Unset, id |-> 0]
NoSample == [key |-> 0, page |-> NoPage, etl |-> DefaultEtl, expires |-> 0]
NoReply == [error |-> "none", detail |-> NoDetail, id |-> 0, ran |-> <<>>,
            sample |-> NoSample, pages |-> {}]
Idle == [op |-> "none", pc |-> "idle", page |-> NoPage, in |-> NoInput, seen |-> 0,
         flag |-> FALSE, no |-> 0, id |-> 0, got |-> <<>>, sample |-> NoSample,
         out |-> NoReply]

(* The schemas of the bodies: an optional string may be absent, not null.  *)
Accepted(in) == Null \notin {in.prompt, in.notes}

(* normalizeOptionalText and ??: what is absent or empty is inherited.     *)
Inherit(v, fallback) == IF v \in {Unset, Blank} THEN fallback ELSE v

At(c, op, pc) == call[c].op = op /\ call[c].pc = pc
Move(c, r) == call' = [call EXCEPT ![c] = r]
Goto(c, pc) == Move(c, [call[c] EXCEPT !.pc = pc])
Answered(c, r) ==
  IF c \in Screens THEN [Idle EXCEPT !.op = call[c].op, !.pc = "answered", !.out = r]
  ELSE [Idle EXCEPT !.pc = "gone"]
Answer(c, r) == Move(c, Answered(c, r))
Refuse(c, why) == Answer(c, [NoReply EXCEPT !.error = why])

(* The schema of the body, then requireConnectedPage. *)
Known(p) == p \in Pages /\ page[p].known
Opens(c, op) == At(c, op, "open") /\ Accepted(call[c].in) /\ Known(call[c].page)
RefuseRequest(c) ==
  /\ call[c].pc = "open"
  /\ \/ ~Accepted(call[c].in) /\ Refuse(c, "invalid")
     \/ /\ call[c].op \in {"register", "onboard"} /\ Accepted(call[c].in)
        /\ Refuse(c, "not_listed")          \* the token does not list the page
     \/ /\ call[c].op \notin {"register", "onboard", "list"} /\ Accepted(call[c].in)
        /\ ~Known(call[c].page) /\ Refuse(c, "not_found")
  /\ UNCHANGED <<rowVars, samples, envVars, spent>>

(* A client sends one request at a time.  Requests for samples are         *)
(* numbered: the number stands for the random key the sample will get.     *)
Send(c, op, p, in) ==
  /\ Move(c, [Idle EXCEPT !.op = op, !.pc = "open", !.page = p, !.in = in,
                          !.no = IF op = "sample" THEN spent'[op] ELSE 0])
  /\ UNCHANGED <<rowVars, samples, envVars>>
Kind(c, op) ==
  CASE c \notin Screens -> "other"
    [] op \in {"get", "onboard"} -> "read"
    [] op \in {"create", "register", "activate"} -> "write"
    [] OTHER -> op
Request(c, op, p, in) ==
  LET kind == Kind(c, op) IN
  /\ call[c].pc = "idle"
  /\ spent[kind] < Budget[kind] /\ FoldFunction(+, 0, spent) < MaxRequests
  /\ spent' = [spent EXCEPT ![kind] = @ + 1]
  /\ Send(c, op, p, in)

------------------------------------------------------------------------------
ControlInit ==
  /\ versions = [i \in 1 .. Cardinality(Registered) |->
                   [page |-> SetToSeq(Registered)[i], no |-> 1, prompt |-> DefaultPrompt,
                    etl |-> DefaultEtl, notes |-> Note]]
  /\ page = [p \in Pages |->
               [known |-> p \in Registered, analysis |-> FALSE,
                active |-> IF p \in Registered
                           THEN CHOOSE i \in DOMAIN versions : versions[i].page = p ELSE 0]]
  /\ identities = {} /\ jobs = {} /\ samples = {} /\ artifacts = {}
  /\ clock = 0 /\ release = 1 /\ restarts = 0
  /\ call = [c \in Clients |-> Idle]
  /\ spent = [op \in DOMAIN Budget |-> 0]

(* getConnectedPage. *)
GetPage(c) ==
  /\ Opens(c, "get")
  /\ Answer(c, [NoReply EXCEPT !.detail = DetailOf(call[c].page)])
  /\ UNCHANGED <<rowVars, samples, envVars, spent>>

(* listConnectedPages. *)
ListPages(c) ==
  /\ At(c, "list", "open")
  /\ Answer(c, [NoReply EXCEPT !.pages = {p \in Pages : page[p].known}])
  /\ UNCHANGED <<rowVars, samples, envVars, spent>>

(* createConfigVersion: the page with its active config is read once.      *)
ReadForCreate(c) ==
  /\ Opens(c, "create")
  /\ Move(c, [call[c] EXCEPT !.pc = "number", !.seen = page[call[c].page].active])
  /\ UNCHANGED <<rowVars, samples, envVars, spent>>

(* registerPageConfig: the row found is only asked for its switch, which   *)
(* the upsert puts back when the body does not say.                        *)
FindForRegister(c) ==
  /\ At(c, "register", "open") /\ Accepted(call[c].in)
  /\ Move(c, [call[c] EXCEPT !.pc = "upsert", !.flag = page[call[c].page].analysis])
  /\ UNCHANGED <<rowVars, samples, envVars, spent>>

UpsertPage(c) ==
  /\ At(c, "register", "upsert")
  /\ page' = [page EXCEPT ![call[c].page].known = TRUE,
                          ![call[c].page].analysis = Inherit(call[c].in.analysis, call[c].flag)]
  /\ Goto(c, "active")
  /\ UNCHANGED <<versions, identities, jobs, artifacts, samples, envVars, spent>>

(* A page with an active config gets a new version only for a draft.       *)
HasDraft(in) == {in.prompt, in.etl, in.notes} # {Unset}
ReadActive(c) ==
  LET id == page[call[c].page].active IN
  /\ At(c, "register", "active")
  /\ Move(c, [call[c] EXCEPT !.seen = id,
                !.pc = IF id = 0 \/ HasDraft(call[c].in) THEN "number" ELSE "detail"])
  /\ UNCHANGED <<rowVars, samples, envVars, spent>>

(* nextConfigVersionNo. *)
NextNumber(p) == IF NumbersOf(p) = {} THEN 1 ELSE Max(NumbersOf(p)) + 1
NumberVersion(c) ==
  /\ call[c].pc = "number"
  /\ Move(c, [call[c] EXCEPT !.pc = "insert", !.no = NextNumber(call[c].page)])
  /\ UNCHANGED <<rowVars, samples, envVars, spent>>

TakenNever(p, no) == FALSE       \* mutant: no unique key on page and number

(* The unique key of page_config_version. *)
Taken(p, no) == no \in NumbersOf(p)

AfterInsert(r) ==
  IF r.in.activate THEN "activate"
  ELSE IF r.op = "create" /\ r.in.analysis # Unset THEN "flags" ELSE "detail"

CreateVersion(c) ==
  LET r == call[c]
      base == ContentOf(r.seen) IN
  /\ r.pc = "insert"
  /\ IF Taken(r.page, r.no)
     THEN Refuse(c, "conflict") /\ UNCHANGED versions
     ELSE /\ versions' = Append(versions,
               [page |-> r.page, no |-> r.no, prompt |-> Inherit(r.in.prompt, base.prompt),
                etl |-> Inherit(r.in.etl, base.etl), notes |-> Inherit(r.in.notes, Blank)])
          /\ Move(c, [r EXCEPT !.id = Len(versions) + 1, !.pc = AfterInsert(r)])
  /\ UNCHANGED <<page, identities, jobs, artifacts, samples, envVars, spent>>

ActivateVersion(c) ==
  LET r == call[c] IN
  /\ r.pc = "activate"
  /\ page' = [page EXCEPT ![r.page].active = r.id]
  /\ Goto(c, IF r.op = "create" /\ r.in.analysis # Unset THEN "flags" ELSE "detail")
  /\ UNCHANGED <<versions, identities, jobs, artifacts, samples, envVars, spent>>

(* updateConnectedPageFlags. *)
UpdateFlags(c) ==
  /\ call[c].pc = "flags"
  /\ page' = [page EXCEPT ![call[c].page].analysis = call[c].in.analysis]
  /\ Goto(c, "detail")
  /\ UNCHANGED <<versions, identities, jobs, artifacts, samples, envVars, spent>>

(* The answer: the created version, and for the others the page read again. *)
AnswerDetail(c) ==
  /\ call[c].pc = "detail"
  /\ Answer(c, [NoReply EXCEPT !.id = call[c].id, !.detail = DetailOf(call[c].page)])
  /\ UNCHANGED <<rowVars, samples, envVars, spent>>

(* activateConfigVersion: the version must be one of the page's.           *)
Own(p, id) == id \in VersionsOf(p)
CheckActivation(c) ==
  LET r == call[c] IN
  /\ Opens(c, "activate")
  /\ IF Own(r.page, r.in.id)
     THEN Move(c, [r EXCEPT !.pc = "activate", !.id = r.in.id])
     ELSE Refuse(c, "not_found")
  /\ UNCHANGED <<rowVars, samples, envVars, spent>>

------------------------------------------------------------------------------
(* Prompt identities. *)
LabelsOf(p) == {i.label : i \in {j \in identities : j.page = p}}
IdentityOf(p, prompt) == {i \in identities : i.page = p /\ i.prompt = prompt}

(* nextPromptVersion: the first label that is free; A, B, .. are 1, 2, ..  *)
NextLabel(p) == Min((1 .. Cardinality(LabelsOf(p)) + 1) \ LabelsOf(p))

(* resolvePromptIdentity finds the identity or has it created: lock the    *)
(* page row, look again, take the next label.                              *)
Identify(p, prompt) ==
  IF IdentityOf(p, prompt) # {} THEN identities
  ELSE identities \cup {[page |-> p, prompt |-> prompt, label |-> NextLabel(p)]}
LabelIn(ids, p, prompt) ==
  (CHOOSE i \in ids : i.page = p /\ i.prompt = prompt).label

(* executeJobRequest up to the creation of the group: read the page, find  *)
(* or make the identity of its prompt, freeze both.                        *)
ReadForJob(c) ==
  LET active == page[call[c].page].active IN
  /\ Opens(c, "execute")
  /\ IF active = 0 THEN Refuse(c, "no_active")
     ELSE Move(c, [call[c] EXCEPT !.pc = "identity", !.seen = active])
  /\ UNCHANGED <<rowVars, samples, envVars, spent>>

JobPromptReread(r) == versions[page[r.page].active].prompt \* mutant: the page is read again
JobPrompt(r) == versions[r.seen].prompt

IdentifyForJob(c) ==
  LET r == call[c] IN
  /\ At(c, "execute", "identity")
  /\ identities' = Identify(r.page, JobPrompt(r))
  /\ Move(c, [r EXCEPT !.pc = "freeze", !.no = LabelIn(identities', r.page, JobPrompt(r))])
  /\ UNCHANGED <<page, versions, jobs, artifacts, samples, envVars, spent>>

FreezeJob(c) ==
  /\ At(c, "execute", "freeze")
  /\ jobs' = jobs \cup {[version |-> call[c].seen, label |-> call[c].no]}
  /\ Answer(c, NoReply)
  /\ UNCHANGED <<page, versions, identities, artifacts, samples, envVars, spent>>

------------------------------------------------------------------------------
(* The prompt workspace. *)
Live(s) == s.expires > clock

(* previewOnboardingSample keeps nothing. *)
AnswerOnboarding(c) ==
  /\ At(c, "onboard", "open")
  /\ Answer(c, NoReply)
  /\ UNCHANGED <<rowVars, samples, envVars, spent>>

(* buildPromptWorkspaceSamplePreview: what the body leaves out is taken    *)
(* from the active config.  The worker runs between this read and the      *)
(* store; the request may also fail there.                                 *)
ReadForSample(c) ==
  /\ Opens(c, "sample")
  /\ Move(c, [call[c] EXCEPT !.pc = "worker", !.seen = page[call[c].page].active])
  /\ UNCHANGED <<rowVars, samples, envVars, spent>>

StoreSample(c) ==
  LET r == call[c] IN
  /\ At(c, "sample", "worker")
  /\ \/ LET new == [key |-> r.no, page |-> r.page, expires |-> clock + TTL,
                     etl |-> Inherit(r.in.etl, ContentOf(r.seen).etl)] IN
        /\ samples' = {s \in samples : Live(s)} \cup {new}
        /\ Answer(c, [NoReply EXCEPT !.sample = new])
     \/ UNCHANGED samples /\ Refuse(c, "worker")
  /\ UNCHANGED <<rowVars, envVars, spent>>

(* previewPromptArtifacts: readPromptWorkspaceSample checks key, page and  *)
(* age once, before anything slow.                                         *)
UsableAnywhere(p, key) == {s \in samples : s.key = key /\ Live(s)} \* mutant: of any page
Usable(p, key) == {s \in samples : s.key = key /\ s.page = p /\ Live(s)}

ReadSample(c) ==
  LET r == call[c] IN
  /\ Opens(c, "preview")
  /\ IF page[r.page].active = 0
     THEN Refuse(c, "no_active") /\ UNCHANGED samples
     ELSE IF Usable(r.page, r.in.id) = {}
     THEN Refuse(c, "no_sample") /\ samples' = {s \in samples : Live(s)}
     ELSE /\ \E s \in Usable(r.page, r.in.id) :
               Move(c, [r EXCEPT !.pc = "identity", !.seen = page[r.page].active, !.sample = s])
          /\ UNCHANGED samples
  /\ UNCHANGED <<rowVars, envVars, spent>>

(* First the active prompt, then the draft, the same steps for each.       *)
PreviewedPrompt(r) == IF r.got = <<>> THEN versions[r.seen].prompt ELSE r.in.prompt
NextPrompt(c, ran) ==
  LET r == call[c]
      got == Append(r.got, ran) IN
  IF Len(got) = 2 THEN Answer(c, [NoReply EXCEPT !.ran = got, !.id = r.in.id])
  ELSE Move(c, [r EXCEPT !.pc = "identity", !.got = got])

IdentifyForPreview(c) ==
  LET r == call[c] IN
  /\ At(c, "preview", "identity")
  /\ identities' = Identify(r.page, PreviewedPrompt(r))
  /\ Goto(c, "probe")
  /\ UNCHANGED <<page, versions, jobs, artifacts, samples, envVars, spent>>

(* The service is asked what it makes of the prompt, and an artifact under *)
(* that hash and this sample is used again.                                *)
Find(p, hash, key) == {a \in artifacts : a.page = p /\ a.hash = hash /\ a.key = key}
ProbeService(c) ==
  LET r == call[c]
      found == Find(r.page, <<PreviewedPrompt(r), release>>, r.in.id) IN
  /\ At(c, "preview", "probe")
  /\ IF found # {} THEN NextPrompt(c, (CHOOSE a \in found : TRUE).ran)
     ELSE Move(c, [r EXCEPT !.pc = "analyse", !.no = release])
  /\ UNCHANGED <<rowVars, samples, envVars, spent>>

(* The hash stored is the one the answer itself reports. *)
StoredHashOfProbe(r) == <<PreviewedPrompt(r), r.no>> \* mutant: the hash of the probe
StoredHash(r) == <<PreviewedPrompt(r), release>>

AnalyseSample(c) ==
  LET r == call[c]
      key == StoredHash(r)
      concurrent == Find(r.page, key, r.in.id) IN
  /\ At(c, "preview", "analyse")
  /\ \/ /\ IF concurrent # {}
           THEN /\ NextPrompt(c, (CHOOSE a \in concurrent : TRUE).ran)
                /\ UNCHANGED artifacts
           ELSE /\ artifacts' = artifacts \cup
                     {[page |-> r.page, hash |-> key, key |-> r.in.id,
                       ran |-> <<PreviewedPrompt(r), release>>, of |-> r.sample.page]}
                /\ NextPrompt(c, <<PreviewedPrompt(r), release>>)
     \/ Refuse(c, "service") /\ UNCHANGED artifacts
  /\ UNCHANGED <<page, versions, identities, jobs, samples, envVars, spent>>

------------------------------------------------------------------------------
(* Each event comes only where it can make a difference: time passes for   *)
(* samples, a release is seen by previews, a restart cuts requests off.    *)
Event == clock + release + restarts < 1 + MaxEvents
Tick == /\ Event /\ samples # {} /\ clock' = clock + 1
        /\ UNCHANGED <<rowVars, samples, release, restarts, call, spent>>
Upgrade == /\ Event /\ (\E c \in Clients : call[c].op = "preview")
           /\ release' = release + 1
           /\ UNCHANGED <<rowVars, samples, clock, restarts, call, spent>>

(* The backend restarts: requests are cut off and samples are gone. *)
InFlight(c) == call[c].pc \notin {"idle", "answered", "gone"}
Cut(c) == IF InFlight(c) THEN Answered(c, [NoReply EXCEPT !.error = "lost"]) ELSE call[c]
Restart ==
  /\ Event /\ (samples # {} \/ \E c \in Clients : InFlight(c))
  /\ restarts' = restarts + 1
  /\ samples' = {}
  /\ call' = [c \in Clients |-> Cut(c)]
  /\ UNCHANGED <<rowVars, clock, release, spent>>

Handle(c) ==
  \/ RefuseRequest(c) \/ GetPage(c) \/ ListPages(c)
  \/ ReadForCreate(c) \/ FindForRegister(c) \/ UpsertPage(c) \/ ReadActive(c)
  \/ NumberVersion(c) \/ CreateVersion(c) \/ ActivateVersion(c) \/ UpdateFlags(c)
  \/ AnswerDetail(c) \/ CheckActivation(c)
  \/ ReadForJob(c) \/ IdentifyForJob(c) \/ FreezeJob(c)
  \/ AnswerOnboarding(c) \/ ReadForSample(c) \/ StoreSample(c)
  \/ ReadSample(c) \/ IdentifyForPreview(c) \/ ProbeService(c) \/ AnalyseSample(c)

------------------------------------------------------------------------------
(* Properties. *)

(* The active version of a page is one of its own versions: activation     *)
(* takes a page and a version that a screen may have mixed up.             *)
ActiveIsOwn == \A p \in Pages : page[p].active = 0 \/ page[p].active \in VersionsOf(p)

(* What a job froze belongs together: the label is that of the prompt of   *)
(* the version it froze, whatever was activated while it was created.      *)
FrozenTogether ==
  \A j \in jobs : \E i \in identities :
    /\ i.page = versions[j.version].page
    /\ i.prompt = versions[j.version].prompt
    /\ i.label = j.label

(* A preview artifact is filed under what really produced it, also when    *)
(* the AI service is upgraded between the probe and the analysis: it will  *)
(* be answered to every later request that hashes alike.                   *)
ArtifactOfWhatRan == \A a \in artifacts : a.hash = a.ran

(* The messages of a page are never analysed in the name of another page.  *)
SampleOfItsPage == \A a \in artifacts : a.of = a.page

(* The registry the rows stand for: versions by their number, prompts by   *)
(* their label.                                                            *)
Numbered(p, n) == {i \in VersionsOf(p) : versions[i].no = n}
HistoryOf(p) == [n \in 1 .. Cardinality(VersionsOf(p)) |->
  IF Numbered(p, n) = {} THEN Null
  ELSE LET i == CHOOSE i \in Numbered(p, n) : TRUE IN
       [prompt |-> versions[i].prompt, etl |-> versions[i].etl]]
ActiveNumber(p) == IF page[p].active = 0 THEN 0 ELSE versions[page[p].active].no
PromptLabelled(p, n) == (CHOOSE i \in identities : i.page = p /\ i.label = n).prompt
LabelledOf(p) == [n \in 1 .. Cardinality({i \in identities : i.page = p}) |->
                    PromptLabelled(p, n)]

Registry == INSTANCE ConfigRegistry WITH
  history <- [p \in Pages |-> HistoryOf(p)],
  active  <- [p \in Pages |-> ActiveNumber(p)],
  labels  <- [p \in Pages |-> LabelledOf(p)],
  Contents <- [prompt : Prompts, etl : Etls],
  Texts <- Prompts \cup {Blank}
=============================================================================
