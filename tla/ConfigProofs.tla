---------------------------- MODULE ConfigProofs ----------------------------
(***************************************************************************)
(* Proofs about Workspace, for any number of pages, versions, clients,     *)
(* requests, releases and restarts: type correctness, activation within    *)
(* the page, jobs that freeze a version with its own label, artifacts      *)
(* filed under what really ran, samples that stay with their page, and     *)
(* evidence that is fresh where the screen shows it as such.               *)
(*                                                                         *)
(* No handler is a transaction, so none of this is inductive by itself:    *)
(* what a handler will write was read some steps before, and what a screen *)
(* will show has been in an answer meanwhile.  The invariant says of every *)
(* record what its request or its answer may still rely on (CallHolds).    *)
(* The rows only grow (RowsGrow): whatever a record relies on stays true   *)
(* while the others move, which is why none of the handlers needs a lock,  *)
(* and a step of one client is looked at alone (CallsMove).                *)
(***************************************************************************)
EXTENDS Workspace, FiniteSetTheorems, WellFoundedInduction, TLAPS

(* What bodies, answers, requests and rows are made of. *)
Texts == Prompts \cup {Blank}
Inputs == [prompt : Texts \cup {Unset, Null}, etl : Etls \cup {Unset},
           notes : {Note, Unset, Null, Blank}, activate : BOOLEAN,
           analysis : BOOLEAN \cup {Unset}, id : Nat]
Outcomes == Texts \X Nat       \* a prompt, and the release of the service it ran on
Details == [page : Pages \cup {NoPage}, active : Nat, upTo : Nat, analysis : BOOLEAN]
SampleRows == [key : Nat, page : Pages \cup {NoPage}, etl : Etls, expires : Nat]
Operations == {"none", "get", "list", "create", "register", "activate", "execute",
               "onboard", "sample", "preview"}
Points == {"idle", "open", "answered", "gone", "upsert", "active", "number", "insert",
           "activate", "flags", "detail", "identity", "freeze", "worker", "probe", "analyse"}
Errors == {"none", "invalid", "not_listed", "not_found", "conflict", "no_active",
           "no_sample", "worker", "service", "lost"}
Kinds == {"none", "load", "register", "list", "save", "saved", "activate", "sample",
          "preview", "clone", "onboard"}
Replies == [error : Errors, detail : Details, id : Nat, ran : Seq(Outcomes),
            sample : SampleRows, pages : SUBSET Pages]
CallRecords == [op : Operations, pc : Points, page : Pages \cup {NoPage}, in : Inputs,
                seen : Nat, flag : BOOLEAN, no : Nat, id : Nat, got : Seq(Outcomes),
                sample : SampleRows, out : Replies]
VersionRows == [page : Pages, no : Nat \ {0}, prompt : Prompts, etl : Etls,
                notes : {Blank, Note}]
IdentityRows == [page : Pages, prompt : Texts, label : Nat \ {0}]
ArtifactRows == [page : Pages, hash : Outcomes, key : Nat, ran : Outcomes, of : Pages]

(* The rows.                                                               *)
RowsTyped ==
  /\ page \in [Pages -> [known : BOOLEAN, active : Nat, analysis : BOOLEAN]]
  /\ versions \in Seq(VersionRows)
  /\ \A i \in DOMAIN versions : versions[i].no <= Len(versions)
  /\ identities \subseteq IdentityRows /\ IsFiniteSet(identities)
  /\ jobs \subseteq [version : DOMAIN versions, label : Nat \ {0}]
  /\ artifacts \subseteq ArtifactRows
  /\ samples \subseteq SampleRows
  /\ \A s \in samples : Known(s.page) /\ s.expires <= clock + TTL
  /\ clock \in Nat /\ release \in Nat /\ spent \in [DOMAIN Budget -> Nat]

(* What the screen is shown of a page.                                     *)
DetailHolds(d) ==
  d.upTo <= Len(versions) /\ d.active \in ListedVersions(d) \cup {0}
  /\ (d.page = NoPage \/ Known(d.page))

(* Past its first steps, a request is about a page that is there.          *)
Stepping(r) == r.pc \notin {"idle", "open", "answered", "gone"}
Labelled(r) == \E i \in identities : /\ i.page = versions[r.seen].page
                                     /\ i.prompt = versions[r.seen].prompt
                                     /\ i.label = r.no
RequestHolds(r) ==
  /\ r.op \in {"register", "onboard"} /\ r.pc = "open" => r.page \in Pages
  /\ Stepping(r) => r.page \in Pages /\ Accepted(r.in)
  /\ r.seen <= Len(versions)
  /\ r.pc \in {"upsert", "active", "number", "insert", "activate", "flags", "detail"} =>
       r.op \in {"create", "register", "activate"}
  /\ Stepping(r) /\ r.pc # "upsert" => Known(r.page)
  /\ r.pc = "insert" => r.no # 0 /\ r.no <= Len(versions) + 1
  /\ r.pc = "flags" => r.in.analysis # Unset
  /\ r.pc = "activate" => r.id \in VersionsOf(r.page)
  /\ r.op = "create" => r.id <= Len(versions)
  /\ r.op = "execute" /\ Stepping(r) => r.seen \in VersionsOf(r.page)
  /\ r.pc = "freeze" => r.op = "execute" /\ Labelled(r)
PreviewHolds(r) ==
  r.op = "preview" /\ r.pc \notin {"gone", "answered"} =>
    /\ r.in.prompt \in Texts
    /\ Stepping(r) => r.seen # 0 /\ r.sample.page = r.page
    /\ Len(r.got) <= 1
ReplyHolds(r) ==
  /\ DetailHolds(r.out.detail)
  /\ \A p \in r.out.pages : Known(p)
  /\ r.op = "create" => r.out.id <= Len(versions)
  /\ r.op = "preview" /\ r.pc = "answered" /\ r.out.error = "none" => Len(r.out.ran) = 2
CallHolds(r) == r \in CallRecords /\ RequestHolds(r) /\ PreviewHolds(r) /\ ReplyHolds(r)
CallsHold == call \in [Clients -> CallRecords] /\ \A c \in Clients : CallHolds(call[c])

(* The screen: what it shows is there, and a handler waits for the answer  *)
(* to its own kind of request.                                             *)
Workspaces == [page : Pages \cup {NoPage}, pancake : Pages \cup {NoPage}, prompt : Texts,
               etl : Etls, notes : {Blank, Note}, version : Nat, activate : BOOLEAN,
               analysis : BOOLEAN, limit : Limits]
SampleViews == [key : Nat, page : Pages \cup {NoPage}, etl : Etls, limit : Limits,
                mark : Etls \X Limits, judged : Limits, stale : BOOLEAN]
Comparisons == [key : Nat, prompt : Texts, mark : {Null} \cup (Texts \X Nat)]
Tasks == [kind : Kinds, apply : BOOLEAN, keep : BOOLEAN, key : Nat, id : Nat,
          limit : Limits]

WorkspaceHolds(w) == w \in Workspaces /\ (w.page = NoPage \/ Known(w.page))
ShownHolds ==
  /\ WorkspaceHolds(ws)
  /\ detail \in Details /\ DetailHolds(detail)
  /\ \A p \in listed : p \in Pages /\ Known(p)
EvidenceTyped == sample \in SampleViews /\ comparison \in Comparisons
TasksHold ==
  /\ task \in [Screens -> Tasks]
  /\ \A c \in Screens :
       /\ task[c].id <= Len(versions)
       /\ task[c].kind = "save" => call[c].op = "create"
       /\ task[c].kind = "preview" => call[c].op = "preview"

(* Handlers refresh the evidence or leave both it and the draft alone, but *)
(* for the suggestions of an onboarding sample.                            *)
EvidenceFresh ==
  /\ comparison.key # 0 /\ comparison.mark # Null => sample.key # 0
  /\ source # "onboarding" =>
       /\ sample.key # 0 /\ ~sample.stale => sample.mark = <<ws.etl, sample.judged>>
       /\ comparison.key # 0 /\ comparison.mark # Null =>
            comparison.mark = <<ws.prompt, sample.key>>

RowInv == RowsTyped /\ ActiveIsOwn /\ FrozenTogether /\ ArtifactOfWhatRan /\ SampleOfItsPage
ScreenInv == ShownHolds /\ EvidenceTyped /\ TasksHold /\ EvidenceFresh
IInv == RowInv /\ CallsHold /\ ScreenInv
------------------------------------------------------------------------------
(* Facts about numbers.                                                    *)

(* A set of numbers that is not empty has a least one.                     *)
LEMMA LeastExists ==
  ASSUME NEW S \in SUBSET Nat, S # {}
  PROVE  Min(S) \in S /\ \A x \in S : Min(S) <= x
<1>1. PICK n \in S : \A m \in S : <<m, n>> \notin OpToRel(<, Nat)
  BY WFMin, NatLessThanWellFounded, Zenon
<1>2. \A m \in S : ~(m < n)
  BY <1>1, Zenon DEF OpToRel
<1>3. \A m \in S : n <= m
  BY <1>2
<1> QED BY <1>3 DEF Min

(* A bounded one has a greatest: the distances to the bound have a least.  *)
LEMMA GreatestExists ==
  ASSUME NEW n \in Nat, NEW S \in SUBSET (0 .. n), S # {}
  PROVE  Max(S) \in S /\ \A x \in S : x <= Max(S)
<1> DEFINE Far == {n - x : x \in S}
<1>1. Far \in SUBSET Nat /\ Far # {}
  <2>1. \A x \in S : x \in Nat /\ n - x \in Nat
    OBVIOUS
  <2> QED BY <2>1
<1>2. PICK far \in Far : \A m \in Far : far <= m
  <2> HIDE DEF Far
  <2> QED BY <1>1, LeastExists
<1>3. PICK top \in S : far = n - top
  OBVIOUS
<1>4. \A x \in S : top >= x
  <2> SUFFICES ASSUME NEW x \in S PROVE top >= x
    OBVIOUS
  <2>1. n - x \in Far
    OBVIOUS
  <2>2. n - top <= n - x
    BY <1>2, <1>3, <2>1
  <2> QED BY <2>2
<1> QED BY <1>4 DEF Max

(* There is always a free label among the first ones: they outnumber the   *)
(* identities of the page.                                                 *)
LEMMA FreeLabel ==
  ASSUME RowsTyped, NEW p \in Pages
  PROVE  /\ NextLabel(p) \in Nat \ {0} /\ NextLabel(p) \notin LabelsOf(p)
         /\ NextLabel(p) <= Cardinality(LabelsOf(p)) + 1
         /\ \A n \in 1 .. Cardinality(LabelsOf(p)) + 1 : n < NextLabel(p) => n \in LabelsOf(p)
<1> DEFINE own == {j \in identities : j.page = p}
           size == Cardinality(LabelsOf(p))
           free == (1 .. size + 1) \ LabelsOf(p)
<1>1. IsFiniteSet(LabelsOf(p)) /\ LabelsOf(p) \subseteq Nat \ {0}
  <2>1. IsFiniteSet(own) /\ own \subseteq IdentityRows
    BY FS_Subset DEF RowsTyped
  <2>2. [i \in own |-> i.label] \in Surjection(own, LabelsOf(p))
    BY DEF Surjection, LabelsOf
  <2>3. LabelsOf(p) \subseteq Nat \ {0}
    BY <2>1 DEF LabelsOf, IdentityRows
  <2> HIDE DEF own
  <2> QED BY <2>1, <2>2, <2>3, FS_Surjection
<1>2. size \in Nat /\ IsFiniteSet(1 .. size + 1) /\ Cardinality(1 .. size + 1) = size + 1
  <2>1. size \in Nat
    BY <1>1, FS_CardinalityType
  <2>2. IsFiniteSet(1 .. size + 1)
        /\ Cardinality(1 .. size + 1) = IF 1 > size + 1 THEN 0 ELSE (size + 1) - 1 + 1
    <3>1. 1 \in Int /\ size + 1 \in Int
      BY <2>1
    <3> HIDE DEF size
    <3> QED BY <3>1, FS_Interval
  <2> HIDE DEF size
  <2> QED BY <2>1, <2>2
<1>3. free # {}
  <2>1. SUFFICES ASSUME free = {} PROVE FALSE
    OBVIOUS
  <2>2. (1 .. size + 1) \subseteq LabelsOf(p)
    BY <2>1
  <2>3. Cardinality(1 .. size + 1) <= size
    BY <1>1, <2>2, FS_Subset
  <2> QED BY <1>2, <2>3
<1>4. NextLabel(p) = Min(free)
  BY DEF NextLabel
<1>5. Min(free) \in free /\ \A x \in free : Min(free) <= x
  <2>1. free \in SUBSET Nat
    BY <1>2
  <2> HIDE DEF free
  <2> QED BY <1>3, <2>1, LeastExists
<1>6. \A n \in 1 .. size + 1 : n \notin free => n \in LabelsOf(p)
  OBVIOUS
<1> HIDE DEF size
<1>7. NextLabel(p) \in 1 .. size + 1 /\ NextLabel(p) \notin LabelsOf(p)
      /\ \A n \in 1 .. size + 1 : n < NextLabel(p) => n \in LabelsOf(p)
  <2>1. \A n \in 1 .. size + 1 : n < NextLabel(p) => n \notin free
    <3>1. SUFFICES ASSUME NEW n \in 1 .. size + 1, n < NextLabel(p), n \in free PROVE FALSE
      OBVIOUS
    <3>2. NextLabel(p) <= n /\ NextLabel(p) \in 1 .. size + 1
      BY <1>4, <1>5, <3>1
    <3> HIDE DEF free
    <3> QED BY <1>2, <3>1, <3>2
  <2> QED BY <1>4, <1>5, <1>6, <2>1
<1> QED BY <1>2, <1>7 DEF size

------------------------------------------------------------------------------
(* The rows only grow: pages stay, versions are appended and identities    *)
(* added, so what a request has read of them stays true.                   *)
RowsGrow ==
  /\ \A p \in Pages : Known(p) => Known(p)'
  /\ Len(versions) <= Len(versions')
  /\ \A i \in 1 .. Len(versions) : versions'[i] = versions[i]
  /\ identities \subseteq identities'

(* Versions of a page stay its versions.                                   *)
LEMMA VersionsGrow ==
  ASSUME RowsTyped, RowsTyped', RowsGrow
  PROVE  /\ \A p \in Pages \cup {NoPage} : VersionsOf(p) \subseteq VersionsOf(p)'
         /\ \A d \in Details : DetailHolds(d) => DetailHolds(d)'
         /\ \A i \in DOMAIN versions : i \in DOMAIN versions' /\ versions'[i] = versions[i]
<1>0. /\ Len(versions) \in Nat /\ Len(versions') \in Nat
      /\ DOMAIN versions = 1 .. Len(versions) /\ DOMAIN versions' = 1 .. Len(versions')
  BY DEF RowsTyped
<1>1. \A i \in DOMAIN versions : i \in DOMAIN versions' /\ versions'[i] = versions[i]
  BY <1>0 DEF RowsGrow
<1>2. ASSUME NEW p \in Pages \cup {NoPage} PROVE VersionsOf(p) \subseteq VersionsOf(p)'
  BY <1>1 DEF VersionsOf
<1>3. ASSUME NEW d \in Details, DetailHolds(d) PROVE DetailHolds(d)'
  <2>1. d.page \in Pages \cup {NoPage} /\ d.upTo \in Nat /\ d.active \in Nat
    BY DEF Details
  <2>2. d.upTo <= Len(versions')
    BY <1>0, <1>3, <2>1 DEF DetailHolds, RowsGrow
  <2>3. d.active \in ListedVersions(d)' \cup {0}
    BY <1>2, <1>3, <2>1 DEF DetailHolds, ListedVersions
  <2>4. d.page = NoPage \/ Known(d.page)'
    BY <1>3, <2>1 DEF DetailHolds, RowsGrow, Known
  <2> QED BY <2>2, <2>3, <2>4 DEF DetailHolds
<1> QED BY <1>1, <1>2, <1>3

(* So what a request holds, it goes on holding.                            *)
LEMMA CallGrows ==
  ASSUME RowsTyped, RowsTyped', RowsGrow, NEW r, CallHolds(r)
  PROVE  CallHolds(r)'
<1>0. /\ Len(versions) \in Nat /\ Len(versions') \in Nat
      /\ DOMAIN versions = 1 .. Len(versions) /\ DOMAIN versions' = 1 .. Len(versions')
      /\ Len(versions) <= Len(versions')
  BY DEF RowsTyped, RowsGrow
<1>1. /\ r \in CallRecords
      /\ r.page \in Pages \cup {NoPage} /\ r.seen \in Nat /\ r.id \in Nat /\ r.out \in Replies
  BY DEF CallHolds, CallRecords
<1>2. r.out.detail \in Details /\ r.out.id \in Nat /\ r.out.pages \subseteq Pages
  BY <1>1 DEF Replies
<1>3. RequestHolds(r)'
  <2>1. RequestHolds(r)
    BY DEF CallHolds
  <2>2. Stepping(r) /\ r.pc # "upsert" => Known(r.page)'
    BY <1>1, <2>1 DEF RequestHolds, RowsGrow, Known
  <2>3. r.pc = "activate" => r.id \in VersionsOf(r.page)'
    BY <1>1, <2>1, VersionsGrow DEF RequestHolds
  <2>4. r.op = "execute" /\ Stepping(r) => r.seen \in VersionsOf(r.page)'
    BY <1>1, <2>1, VersionsGrow DEF RequestHolds
  <2>5. r.pc = "freeze" => Labelled(r)'
    <3>1. SUFFICES ASSUME r.pc = "freeze" PROVE Labelled(r)'
      OBVIOUS
    <3>2. Labelled(r) /\ r.seen \in DOMAIN versions
      BY <2>1, <3>1 DEF RequestHolds, Stepping, VersionsOf
    <3> QED BY <3>2, VersionsGrow DEF Labelled, RowsGrow
  <2>6. r.seen <= Len(versions')
    BY <1>0, <1>1, <2>1 DEF RequestHolds
  <2>7. r.op = "create" => r.id <= Len(versions')
    BY <1>0, <1>1, <2>1 DEF RequestHolds
  <2>8. r.pc = "insert" => r.no # 0 /\ r.no <= Len(versions') + 1
    BY <1>0, <1>1, <2>1 DEF RequestHolds, CallRecords
  <2> QED BY <2>1, <2>2, <2>3, <2>4, <2>5, <2>6, <2>7, <2>8 DEF RequestHolds, Stepping, Accepted
<1>4. PreviewHolds(r)'
  BY DEF CallHolds, PreviewHolds, Stepping
<1>5. ReplyHolds(r)'
  <2>1. ReplyHolds(r)
    BY DEF CallHolds
  <2>2. DetailHolds(r.out.detail)'
    BY <1>2, <2>1, VersionsGrow DEF ReplyHolds
  <2>3. \A p \in r.out.pages : Known(p)'
    BY <1>2, <2>1 DEF ReplyHolds, RowsGrow
  <2>4. r.op = "create" => r.out.id <= Len(versions')
    BY <1>0, <1>2, <2>1 DEF ReplyHolds
  <2> QED BY <2>1, <2>2, <2>3, <2>4 DEF ReplyHolds
<1> QED BY <1>1, <1>3, <1>4, <1>5 DEF CallHolds

------------------------------------------------------------------------------
(* Requests.                                                               *)

(* What the constants are to requests.                                     *)
LEMMA RequestTypes ==
  /\ NoInput \in Inputs /\ NoDetail \in Details /\ NoSample \in SampleRows
  /\ NoReply \in Replies /\ Idle \in CallRecords
<1> USE ConfigConstants
<1>1. NoInput \in Inputs
  BY DEF NoInput, Inputs
<1>2. NoDetail \in Details
  BY DEF NoDetail, Details
<1>3. NoSample \in SampleRows
  BY DEF NoSample, SampleRows
<1>0. <<>> \in Seq(Outcomes)
  OBVIOUS
<1>4. NoReply \in Replies
  BY <1>0, <1>2, <1>3 DEF NoReply, Replies, Errors
<1>5. Idle \in CallRecords
  BY <1>0, <1>1, <1>3, <1>4 DEF Idle, CallRecords, Operations, Points
<1> QED BY <1>1, <1>2, <1>3, <1>4, <1>5

(* What a page shows of itself.                                            *)
LEMMA PageRead ==
  ASSUME RowsTyped, ActiveIsOwn, NEW p \in Pages
  PROVE  /\ page[p].active \in Nat /\ page[p].active <= Len(versions)
         /\ page[p].active # 0 => page[p].active \in VersionsOf(p)
         /\ page[p].analysis \in BOOLEAN
         /\ DetailOf(p) \in Details
         /\ page[p].known => DetailHolds(DetailOf(p))
<1>1. /\ page[p].active \in Nat /\ page[p].analysis \in BOOLEAN /\ Len(versions) \in Nat
      /\ DOMAIN versions = 1 .. Len(versions)
  BY DEF RowsTyped
<1>2. page[p].active # 0 => page[p].active \in VersionsOf(p)
  BY DEF ActiveIsOwn
<1>3. page[p].active <= Len(versions)
  BY <1>1, <1>2 DEF VersionsOf
<1>4. DetailOf(p) \in Details
  BY <1>1 DEF DetailOf, Details
<1>5. page[p].known => DetailHolds(DetailOf(p))
  BY <1>1, <1>2, <1>3 DEF DetailOf, DetailHolds, ListedVersions, Known
<1> QED BY <1>1, <1>2, <1>3, <1>4, <1>5

(* A request that is over, or has never begun, holds nothing.              *)
LEMMA IdleHolds == RowsTyped => CallHolds(Idle)
<1> SUFFICES ASSUME RowsTyped PROVE CallHolds(Idle)
  OBVIOUS
<1>1. /\ Idle.op = "none" /\ Idle.pc = "idle" /\ Idle.id = 0 /\ Idle.seen = 0 /\ Idle.out = NoReply
      /\ NoReply.detail = NoDetail /\ NoReply.pages = {} /\ NoReply.id = 0
  BY DEF Idle, NoReply
<1>2. Len(versions) \in Nat
  BY DEF RowsTyped
<1>3. DetailHolds(NoDetail)
  BY <1>2 DEF DetailHolds, NoDetail
<1> QED BY <1>1, <1>2, <1>3, RequestTypes
        DEF CallHolds, RequestHolds, PreviewHolds, ReplyHolds, Stepping

(* A step of a request that is not its answer.                             *)
LEMMA StepHolds ==
  ASSUME NEW q, CallHolds(q), NEW r \in CallRecords, r.op = q.op, r.out = q.out,
         r.pc # "answered", RequestHolds(r), PreviewHolds(r)
  PROVE  CallHolds(r)
BY DEF CallHolds, ReplyHolds

(* An answer.                                                              *)
LEMMA AnswerHolds ==
  ASSUME RowsTyped, CallsHold, NEW c \in Clients, NEW e \in Replies,
         DetailHolds(e.detail), \A p \in e.pages : Known(p),
         call[c].op = "create" => e.id <= Len(versions),
         call[c].op = "preview" /\ e.error = "none" => Len(e.ran) = 2
  PROVE  CallHolds(Answered(c, e))
<1> DEFINE r == [Idle EXCEPT !.op = call[c].op, !.pc = "answered", !.out = e]
           gone == [Idle EXCEPT !.pc = "gone"]
<1>0. Len(versions) \in Nat /\ call[c].op \in Operations
  BY DEF RowsTyped, CallsHold, CallRecords
<1>1. r \in CallRecords /\ gone \in CallRecords
  <2>1. ASSUME NEW op \in Operations, NEW pc \in Points, NEW out \in Replies
        PROVE  [Idle EXCEPT !.op = op, !.pc = pc, !.out = out] \in CallRecords
    BY RequestTypes DEF CallRecords
  <2>2. r \in CallRecords
    BY <1>0, <2>1 DEF Points
  <2>3. gone \in CallRecords
    BY RequestTypes DEF CallRecords, Points
  <2> QED BY <2>2, <2>3
<1>2. /\ r.op = call[c].op /\ r.pc = "answered" /\ r.out = e /\ r.id = 0 /\ r.seen = 0
      /\ gone.op = "none" /\ gone.pc = "gone" /\ gone.out = NoReply /\ gone.id = 0
      /\ gone.seen = 0
  BY DEF Idle
<1>3. DetailHolds(NoReply.detail) /\ NoReply.pages = {}
  BY <1>0 DEF DetailHolds, NoReply, NoDetail
<1> HIDE DEF r, gone
<1>4. CallHolds(r)
  BY <1>0, <1>1, <1>2 DEF CallHolds, RequestHolds, PreviewHolds, ReplyHolds, Stepping
<1>5. CallHolds(gone)
  BY <1>0, <1>1, <1>2, <1>3 DEF CallHolds, RequestHolds, PreviewHolds, ReplyHolds, Stepping
<1> QED BY <1>4, <1>5 DEF Answered, r, gone

(* A refusal is one.                                                       *)
LEMMA RefusalHolds ==
  ASSUME RowsTyped, CallsHold, NEW c \in Clients, NEW why \in Errors, why # "none"
  PROVE  CallHolds(Answered(c, [NoReply EXCEPT !.error = why]))
<1> DEFINE e == [NoReply EXCEPT !.error = why]
<1>0. Len(versions) \in Nat
  BY DEF RowsTyped
<1>1. e \in Replies
  BY RequestTypes DEF Replies
<1>2. e.error = why /\ e.detail = NoDetail /\ e.pages = {} /\ e.id = 0
  BY DEF NoReply
<1>3. DetailHolds(NoDetail)
  BY <1>0 DEF DetailHolds, NoDetail
<1> HIDE DEF e
<1>4. CallHolds(Answered(c, e))
  BY <1>0, <1>1, <1>2, <1>3, AnswerHolds
<1> QED BY <1>4 DEF e

------------------------------------------------------------------------------
(* Handlers that only read the rows.                                       *)

(* A handler of the pages moves its request on, or answers it.             *)
LEMMA PageReadersMove ==
  ASSUME RowsTyped, ActiveIsOwn, CallsHold, NEW c \in Clients,
         \/ RefuseRequest(c) \/ GetPage(c) \/ ListPages(c) \/ ReadForCreate(c)
         \/ FindForRegister(c) \/ ReadActive(c) \/ NumberVersion(c) \/ AnswerDetail(c)
         \/ CheckActivation(c) \/ AnswerOnboarding(c)
  PROVE  \E r : CallHolds(r) /\ Move(c, r)
<1> DEFINE q == call[c]
<1>0. /\ q \in CallRecords /\ CallHolds(q)
      /\ RequestHolds(q) /\ PreviewHolds(q) /\ ReplyHolds(q)
  BY DEF CallsHold, CallHolds
<1>1. /\ q.page \in Pages \cup {NoPage} /\ q.in \in Inputs /\ q.seen \in Nat /\ q.id \in Nat
      /\ q.in.id \in Nat /\ q.in.analysis \in BOOLEAN \cup {Unset} /\ q.out \in Replies
  BY <1>0 DEF CallRecords, Inputs
<1>2. Len(versions) \in Nat /\ DOMAIN versions = 1 .. Len(versions)
  BY DEF RowsTyped
<1>3. NoPage \notin Pages
  BY ConfigConstants
<1>4. ASSUME NEW why \in Errors, why # "none", Refuse(c, why)
      PROVE  \E r : CallHolds(r) /\ Move(c, r)
  BY <1>4, RefusalHolds DEF Refuse, Answer
<1>5. CASE RefuseRequest(c)
  BY <1>4, <1>5 DEF RefuseRequest, Errors
<1>6. CASE GetPage(c)
  <2> DEFINE e == [NoReply EXCEPT !.detail = DetailOf(q.page)]
  <2>1. q.op = "get" /\ q.page \in Pages /\ page[q.page].known
    BY <1>6 DEF GetPage, Opens, At, Known
  <2>2. DetailOf(q.page) \in Details /\ DetailHolds(DetailOf(q.page))
    BY <2>1, PageRead
  <2>3. e \in Replies
    BY <2>2, RequestTypes DEF Replies
  <2>4. e.detail = DetailOf(q.page) /\ e.pages = {} /\ e.id = 0
    BY DEF NoReply
  <2> HIDE DEF e
  <2>5. CallHolds(Answered(c, e))
    BY <2>1, <2>2, <2>3, <2>4, AnswerHolds
  <2> QED BY <1>6, <2>5 DEF GetPage, Answer, e
<1>7. CASE ListPages(c)
  <2> DEFINE e == [NoReply EXCEPT !.pages = {p \in Pages : page[p].known}]
  <2>1. q.op = "list"
    BY <1>7 DEF ListPages, At
  <2>2. e \in Replies
    BY RequestTypes DEF Replies
  <2>3. /\ e.detail = NoDetail /\ e.pages = {p \in Pages : page[p].known} /\ e.id = 0
        /\ DetailHolds(NoDetail)
    BY <1>2 DEF NoReply, NoDetail, DetailHolds
  <2> HIDE DEF e
  <2>4. CallHolds(Answered(c, e))
    BY <2>1, <2>2, <2>3, AnswerHolds DEF Known
  <2> QED BY <1>7, <2>4 DEF ListPages, Answer, e
<1>8. CASE ReadForCreate(c)
  <2> DEFINE r == [q EXCEPT !.pc = "number", !.seen = page[q.page].active]
  <2>1. q.op = "create" /\ Accepted(q.in) /\ Known(q.page)
    BY <1>8 DEF ReadForCreate, Opens, At
  <2>2. page[q.page].active \in Nat /\ page[q.page].active <= Len(versions)
    BY <2>1, PageRead DEF Known
  <2>3. r \in CallRecords
    BY <1>0, <2>2 DEF CallRecords, Points
  <2>4. /\ r.op = q.op /\ r.pc = "number" /\ r.page = q.page /\ r.in = q.in
        /\ r.seen = page[q.page].active /\ r.id = q.id /\ r.out = q.out
    BY <1>0 DEF CallRecords
  <2> HIDE DEF r
  <2>5. RequestHolds(r) /\ PreviewHolds(r)
    BY <1>0, <2>1, <2>2, <2>4 DEF RequestHolds, PreviewHolds, Stepping, Known
  <2>6. CallHolds(r)
    BY <1>0, <2>3, <2>4, <2>5, StepHolds
  <2> QED BY <1>8, <2>6 DEF ReadForCreate, r
<1>9. CASE FindForRegister(c)
  <2> DEFINE r == [q EXCEPT !.pc = "upsert", !.flag = page[q.page].analysis]
  <2>1. q.op = "register" /\ q.pc = "open" /\ Accepted(q.in) /\ q.page \in Pages
    BY <1>0, <1>9 DEF FindForRegister, At, RequestHolds
  <2>2. page[q.page].analysis \in BOOLEAN
    BY <2>1, PageRead
  <2>3. r \in CallRecords
    BY <1>0, <2>2 DEF CallRecords, Points
  <2>4. /\ r.op = q.op /\ r.pc = "upsert" /\ r.page = q.page /\ r.in = q.in
        /\ r.seen = q.seen /\ r.id = q.id /\ r.out = q.out
    BY <1>0 DEF CallRecords
  <2> HIDE DEF r
  <2>5. RequestHolds(r) /\ PreviewHolds(r)
    BY <1>0, <2>1, <2>2, <2>4 DEF RequestHolds, PreviewHolds, Stepping, Known
  <2>6. CallHolds(r)
    BY <1>0, <2>3, <2>4, <2>5, StepHolds
  <2> QED BY <1>9, <2>6 DEF FindForRegister, r
<1>10. CASE ReadActive(c)
  <2> DEFINE to == IF page[q.page].active = 0 \/ HasDraft(q.in) THEN "number" ELSE "detail"
             r == [q EXCEPT !.seen = page[q.page].active, !.pc = to]
  <2>1. q.op = "register" /\ q.pc = "active" /\ q.page \in Pages
    BY <1>0, <1>10 DEF ReadActive, At, RequestHolds, Stepping
  <2>2. page[q.page].active \in Nat /\ page[q.page].active <= Len(versions)
    BY <2>1, PageRead
  <2>3. to \in {"number", "detail"}
    OBVIOUS
  <2> HIDE DEF to
  <2>4. r \in CallRecords
    BY <1>0, <2>2, <2>3 DEF CallRecords, Points
  <2>5. /\ r.op = q.op /\ r.pc = to /\ r.page = q.page /\ r.in = q.in
        /\ r.seen = page[q.page].active /\ r.id = q.id /\ r.out = q.out
    BY <1>0 DEF CallRecords
  <2>6. Move(c, r)
    BY <1>10 DEF ReadActive, to
  <2> HIDE DEF r
  <2>7. RequestHolds(r) /\ PreviewHolds(r)
    BY <1>0, <2>1, <2>2, <2>3, <2>5 DEF RequestHolds, PreviewHolds, Stepping, Known
  <2> QED BY <1>0, <2>3, <2>4, <2>5, <2>6, <2>7, StepHolds
<1>11. CASE NumberVersion(c)
  <2> DEFINE no == NextNumber(q.page)
             r == [q EXCEPT !.pc = "insert", !.no = no]
  <2>1. /\ q.pc = "number" /\ q.page \in Pages /\ Known(q.page) /\ Accepted(q.in)
        /\ q.seen <= Len(versions)
    BY <1>0, <1>11 DEF NumberVersion, RequestHolds, Stepping
  <2>2. no \in Nat /\ no # 0 /\ no <= Len(versions) + 1
    <3> DEFINE S == NumbersOf(q.page)
    <3>1. S \in SUBSET (0 .. Len(versions))
      <4>1. \A i \in DOMAIN versions : versions[i].no \in 0 .. Len(versions)
        <5>1. SUFFICES ASSUME NEW i \in DOMAIN versions PROVE versions[i].no \in 0 .. Len(versions)
          OBVIOUS
        <5>2. versions[i] \in VersionRows /\ versions[i].no <= Len(versions)
          BY <1>2 DEF RowsTyped
        <5>3. versions[i].no \in Nat
          BY <5>2 DEF VersionRows
        <5> QED BY <1>2, <5>2, <5>3
      <4> QED BY <4>1 DEF NumbersOf, VersionsOf
    <3>2. S # {} => Max(S) \in S
      <4> HIDE DEF S
      <4> QED BY <1>2, <3>1, GreatestExists
    <3>3. S # {} => Max(S) \in Nat /\ Max(S) <= Len(versions)
      <4>1. S # {} => Max(S) \in 0 .. Len(versions)
        BY <3>1, <3>2
      <4> HIDE DEF S
      <4> QED BY <1>2, <4>1
    <3>4. no = IF S = {} THEN 1 ELSE Max(S) + 1
      BY DEF NextNumber
    <3> HIDE DEF S, no
    <3> QED BY <1>2, <3>3, <3>4
  <2> HIDE DEF no
  <2>3. r \in CallRecords
    BY <1>0, <2>2 DEF CallRecords, Points
  <2>4. /\ r.op = q.op /\ r.pc = "insert" /\ r.page = q.page /\ r.in = q.in
        /\ r.seen = q.seen /\ r.id = q.id /\ r.out = q.out /\ r.no = no
        /\ r.sample = q.sample /\ r.got = q.got
    BY <1>0 DEF CallRecords
  <2>5. Move(c, r)
    BY <1>11 DEF NumberVersion, no
  <2> HIDE DEF r
  <2>6. RequestHolds(r) /\ PreviewHolds(r)
    BY <1>0, <2>1, <2>2, <2>4 DEF RequestHolds, PreviewHolds, Stepping
  <2> QED BY <1>0, <2>3, <2>4, <2>5, <2>6, StepHolds
<1>12. CASE AnswerDetail(c)
  <2> DEFINE e == [NoReply EXCEPT !.id = q.id, !.detail = DetailOf(q.page)]
  <2>1. q.pc = "detail" /\ q.page \in Pages /\ page[q.page].known
    BY <1>0, <1>12 DEF AnswerDetail, RequestHolds, Stepping, Known
  <2>2. DetailOf(q.page) \in Details /\ DetailHolds(DetailOf(q.page))
    BY <2>1, PageRead
  <2>3. e \in Replies
    BY <1>1, <2>2, RequestTypes DEF Replies
  <2>4. e.detail = DetailOf(q.page) /\ e.pages = {} /\ e.id = q.id
    BY DEF NoReply
  <2>5. q.op = "create" => q.id <= Len(versions)
    BY <1>0 DEF RequestHolds
  <2>6. q.op # "preview"
    BY <1>0, <2>1 DEF RequestHolds
  <2> HIDE DEF e
  <2>7. CallHolds(Answered(c, e))
    BY <2>2, <2>3, <2>4, <2>5, <2>6, AnswerHolds
  <2> QED BY <1>12, <2>7 DEF AnswerDetail, Answer, e
<1>13. CASE CheckActivation(c)
  <2>1. CASE ~Own(q.page, q.in.id)
    BY <1>4, <1>13, <2>1 DEF CheckActivation, Errors
  <2>2. CASE Own(q.page, q.in.id)
    <3> DEFINE r == [q EXCEPT !.pc = "activate", !.id = q.in.id]
    <3>1. q.op = "activate" /\ q.pc = "open" /\ Accepted(q.in) /\ Known(q.page)
      BY <1>13 DEF CheckActivation, Opens, At
    <3>2. r \in CallRecords
      BY <1>0, <1>1 DEF CallRecords, Points
    <3>3. /\ r.op = q.op /\ r.pc = "activate" /\ r.page = q.page /\ r.in = q.in
          /\ r.seen = q.seen /\ r.id = q.in.id /\ r.out = q.out
      BY <1>0 DEF CallRecords
    <3>4. Move(c, r)
      BY <1>13, <2>2 DEF CheckActivation
    <3> HIDE DEF r
    <3>5. RequestHolds(r) /\ PreviewHolds(r)
      BY <1>0, <2>2, <3>1, <3>3 DEF RequestHolds, PreviewHolds, Stepping, Known, Own
    <3> QED BY <1>0, <3>2, <3>3, <3>4, <3>5, StepHolds
  <2> QED BY <2>1, <2>2
<1>14. CASE AnswerOnboarding(c)
  <2>1. NoReply \in Replies /\ NoReply.detail = NoDetail /\ NoReply.pages = {}
    BY RequestTypes DEF NoReply
  <2>2. DetailHolds(NoDetail)
    BY <1>2 DEF NoDetail, DetailHolds
  <2>3. q.op = "onboard"
    BY <1>14 DEF AnswerOnboarding, At
  <2>4. CallHolds(Answered(c, NoReply))
    BY <2>1, <2>2, <2>3, AnswerHolds
  <2> QED BY <1>14, <2>4 DEF AnswerOnboarding, Answer
<1> QED
  BY <1>5, <1>6, <1>7, <1>8, <1>9, <1>10, <1>11, <1>12, <1>13, <1>14

(* The sample a request makes.                                             *)
LEMMA SampleMade ==
  ASSUME RowsTyped, NEW q \in CallRecords, q.seen <= Len(versions)
  PROVE  [key |-> q.no, page |-> q.page, expires |-> clock + TTL,
          etl |-> Inherit(q.in.etl, ContentOf(q.seen).etl)] \in SampleRows
<1>1. q.seen \in Nat /\ q.in \in Inputs /\ q.no \in Nat /\ q.page \in Pages \cup {NoPage}
  BY DEF CallRecords
<1>2. q.in.etl \in Etls \cup {Unset}
  BY <1>1 DEF Inputs
<1>3. ContentOf(q.seen).etl \in Etls
  <2>1. CASE q.seen = 0
    BY <2>1, ConfigConstants DEF ContentOf, DefaultContent
  <2>2. CASE q.seen # 0
    <3>1. versions[q.seen] \in VersionRows
      BY <1>1, <2>2 DEF RowsTyped
    <3> QED BY <2>2, <3>1 DEF ContentOf, VersionRows
  <2> QED BY <2>1, <2>2
<1>4. Inherit(q.in.etl, ContentOf(q.seen).etl) \in Etls
  BY <1>2, <1>3 DEF Inherit
<1>5. clock + TTL \in Nat
  BY ConfigConstants DEF RowsTyped
<1> QED BY <1>1, <1>4, <1>5 DEF SampleRows

(* A preview goes on to its second prompt, or answers with both outcomes.  *)
LEMMA PreviewMoves ==
  ASSUME RowsTyped, CallsHold, NEW c \in Clients, call[c].op = "preview",
         Stepping(call[c]), NEW ran \in Outcomes, NextPrompt(c, ran)
  PROVE  \E r : CallHolds(r) /\ Move(c, r)
<1> DEFINE q == call[c]
           both == Append(q.got, ran)
           e == [NoReply EXCEPT !.ran = both, !.id = q.in.id]
           r == [q EXCEPT !.pc = "identity", !.got = both]
<1>0. q \in CallRecords /\ CallHolds(q) /\ RequestHolds(q) /\ PreviewHolds(q)
  BY DEF CallsHold, CallHolds
<1>1. Len(versions) \in Nat
  BY DEF RowsTyped
<1>2. q.got \in Seq(Outcomes) /\ Len(q.got) \in Nat /\ q.in.id \in Nat
  BY <1>0 DEF CallRecords, Inputs
<1>3. both \in Seq(Outcomes) /\ Len(both) = Len(q.got) + 1
  BY <1>2
<1>4. Len(q.got) <= 1
  BY <1>0 DEF PreviewHolds, Stepping
<1>5. IF Len(both) = 2 THEN Answer(c, e) ELSE Move(c, r)
  BY DEF NextPrompt
<1> HIDE DEF both
<1>6. CASE Len(both) = 2
  <2>1. e \in Replies
    BY <1>2, <1>3, RequestTypes DEF Replies
  <2>2. e.detail = NoDetail /\ e.pages = {} /\ e.ran = both /\ DetailHolds(NoDetail)
    <3>1. NoReply \in Replies /\ NoReply.detail = NoDetail /\ NoReply.pages = {}
      BY RequestTypes DEF NoReply
    <3> QED BY <1>1, <3>1 DEF NoDetail, DetailHolds, Replies
  <2> HIDE DEF e
  <2>3. CallHolds(Answered(c, e))
    BY <1>6, <2>1, <2>2, AnswerHolds
  <2> QED BY <1>5, <1>6, <2>3 DEF Answer
<1>7. CASE Len(both) # 2
  <2>1. r \in CallRecords
    BY <1>0, <1>3 DEF CallRecords, Points
  <2>2. /\ r.op = q.op /\ r.pc = "identity" /\ r.page = q.page /\ r.in = q.in
        /\ r.seen = q.seen /\ r.id = q.id /\ r.out = q.out /\ r.sample = q.sample
        /\ r.got = both
    BY <1>0 DEF CallRecords
  <2>3. Len(both) <= 1
    BY <1>2, <1>3, <1>4, <1>7
  <2>4. q.pc \notin {"idle", "open", "answered", "gone"}
    BY DEF Stepping
  <2>5. q.pc # "upsert"
    BY <1>0 DEF RequestHolds
  <2> HIDE DEF r
  <2>6. RequestHolds(r) /\ PreviewHolds(r)
    BY <1>0, <2>2, <2>3, <2>4, <2>5 DEF RequestHolds, PreviewHolds, Stepping
  <2>7. CallHolds(r)
    BY <1>0, <2>1, <2>2, <2>6, StepHolds
  <2> QED BY <1>5, <1>7, <2>7
<1> QED BY <1>6, <1>7

(* The prompt a preview is at.                                             *)
LEMMA PreviewedType ==
  ASSUME RowsTyped, CallsHold, NEW c \in Clients, call[c].op = "preview", Stepping(call[c])
  PROVE  PreviewedPrompt(call[c]) \in Texts
<1> DEFINE q == call[c]
<1>1. q \in CallRecords /\ RequestHolds(q) /\ PreviewHolds(q)
  BY DEF CallsHold, CallHolds
<1>2. q.seen \in Nat /\ q.seen <= Len(versions) /\ q.seen # 0 /\ q.in.prompt \in Texts
  BY <1>1 DEF RequestHolds, PreviewHolds, Stepping, CallRecords
<1>3. versions[q.seen] \in VersionRows
  BY <1>2 DEF RowsTyped
<1> QED BY <1>2, <1>3 DEF PreviewedPrompt, VersionRows, Texts

(* The handlers of jobs, samples and previews that leave the rows alone.   *)
LEMMA SampleReadersMove ==
  ASSUME RowsTyped, ActiveIsOwn, CallsHold, NEW c \in Clients,
         ReadForJob(c) \/ ReadForSample(c) \/ StoreSample(c) \/ ReadSample(c) \/ ProbeService(c)
  PROVE  \E r : CallHolds(r) /\ Move(c, r)
<1> DEFINE q == call[c]
<1>0. /\ q \in CallRecords /\ CallHolds(q)
      /\ RequestHolds(q) /\ PreviewHolds(q) /\ ReplyHolds(q)
  BY DEF CallsHold, CallHolds
<1>1. /\ q.page \in Pages \cup {NoPage} /\ q.in \in Inputs /\ q.seen \in Nat /\ q.id \in Nat
      /\ q.in.id \in Nat /\ q.no \in Nat /\ q.in.etl \in Etls \cup {Unset}
  BY <1>0 DEF CallRecords, Inputs
<1>2. Len(versions) \in Nat /\ DOMAIN versions = 1 .. Len(versions)
  BY DEF RowsTyped
<1>3. ASSUME NEW why \in Errors, why # "none", Refuse(c, why)
      PROVE  \E r : CallHolds(r) /\ Move(c, r)
  BY <1>3, RefusalHolds DEF Refuse, Answer
<1>4. CASE ReadForJob(c)
  <2> DEFINE active == page[q.page].active
             r == [q EXCEPT !.pc = "identity", !.seen = active]
  <2>1. q.op = "execute" /\ q.pc = "open" /\ Accepted(q.in) /\ Known(q.page)
    BY <1>4 DEF ReadForJob, Opens, At
  <2>2. active \in Nat /\ active <= Len(versions) /\ (active # 0 => active \in VersionsOf(q.page))
    BY <2>1, PageRead DEF Known
  <2>3. CASE active = 0
    BY <1>3, <1>4, <2>3 DEF ReadForJob, Errors
  <2>4. CASE active # 0
    <3> HIDE DEF active
    <3>1. r \in CallRecords
      BY <1>0, <2>2 DEF CallRecords, Points
    <3>2. /\ r.op = q.op /\ r.pc = "identity" /\ r.page = q.page /\ r.in = q.in
          /\ r.seen = active /\ r.id = q.id /\ r.out = q.out
      BY <1>0 DEF CallRecords
    <3>3. Move(c, r)
      BY <1>4, <2>4 DEF ReadForJob, active
    <3> HIDE DEF r
    <3>4. RequestHolds(r) /\ PreviewHolds(r)
      BY <1>0, <2>1, <2>2, <2>4, <3>2 DEF RequestHolds, PreviewHolds, Stepping, Known
    <3> QED BY <1>0, <3>1, <3>2, <3>3, <3>4, StepHolds
  <2> QED BY <2>3, <2>4
<1>5. CASE ReadForSample(c)
  <2> DEFINE active == page[q.page].active
             r == [q EXCEPT !.pc = "worker", !.seen = active]
  <2>1. q.op = "sample" /\ q.pc = "open" /\ Accepted(q.in) /\ Known(q.page)
    BY <1>5 DEF ReadForSample, Opens, At
  <2>2. active \in Nat /\ active <= Len(versions)
    BY <2>1, PageRead DEF Known
  <2>3. Move(c, r)
    BY <1>5 DEF ReadForSample
  <2> HIDE DEF active
  <2>4. r \in CallRecords
    BY <1>0, <2>2 DEF CallRecords, Points
  <2>5. /\ r.op = q.op /\ r.pc = "worker" /\ r.page = q.page /\ r.in = q.in
        /\ r.seen = active /\ r.id = q.id /\ r.out = q.out
    BY <1>0 DEF CallRecords
  <2> HIDE DEF r
  <2>6. RequestHolds(r) /\ PreviewHolds(r)
    BY <1>0, <2>1, <2>2, <2>5 DEF RequestHolds, PreviewHolds, Stepping, Known
  <2> QED BY <1>0, <2>3, <2>4, <2>5, <2>6, StepHolds
<1>6. CASE StoreSample(c)
  <2> DEFINE new == [key |-> q.no, page |-> q.page, expires |-> clock + TTL,
                     etl |-> Inherit(q.in.etl, ContentOf(q.seen).etl)]
             e == [NoReply EXCEPT !.sample = new]
  <2>1. CASE Refuse(c, "worker")
    BY <1>3, <2>1 DEF Errors
  <2>2. CASE Answer(c, e)
    <3>1. new \in SampleRows
      BY <1>0, SampleMade DEF RequestHolds
    <3>2. e \in Replies
      BY <3>1, RequestTypes DEF Replies
    <3>3. NoReply \in Replies /\ NoReply.detail = NoDetail /\ NoReply.pages = {}
      BY RequestTypes DEF NoReply
    <3>4. e.detail = NoDetail /\ e.pages = {} /\ DetailHolds(NoDetail)
      BY <1>2, <3>3 DEF Replies, NoDetail, DetailHolds
    <3>5. q.op = "sample"
      BY <1>6 DEF StoreSample, At
    <3> HIDE DEF e
    <3>6. CallHolds(Answered(c, e))
      BY <3>2, <3>4, <3>5, AnswerHolds
    <3> QED BY <2>2, <3>6 DEF Answer
  <2> QED BY <1>6, <2>1, <2>2 DEF StoreSample
<1>7. CASE ReadSample(c)
  <2> DEFINE active == page[q.page].active
  <2>1. q.op = "preview" /\ q.pc = "open" /\ Accepted(q.in) /\ Known(q.page)
    BY <1>7 DEF ReadSample, Opens, At
  <2>2. active \in Nat /\ active <= Len(versions)
    BY <2>1, PageRead DEF Known
  <2>3. CASE Refuse(c, "no_active") \/ Refuse(c, "no_sample")
    BY <1>3, <2>3 DEF Errors
  <2>4. ASSUME active # 0, NEW s \in Usable(q.page, q.in.id),
               Move(c, [q EXCEPT !.pc = "identity", !.seen = active, !.sample = s])
        PROVE  \E r : CallHolds(r) /\ Move(c, r)
    <3> DEFINE r == [q EXCEPT !.pc = "identity", !.seen = active, !.sample = s]
    <3>1. s \in SampleRows /\ s.page = q.page
      BY DEF Usable, RowsTyped
    <3> HIDE DEF active
    <3>2. r \in CallRecords
      BY <1>0, <2>2, <3>1 DEF CallRecords, Points
    <3>3. /\ r.op = q.op /\ r.pc = "identity" /\ r.page = q.page /\ r.in = q.in
          /\ r.seen = active /\ r.id = q.id /\ r.out = q.out /\ r.sample = s /\ r.got = q.got
      BY <1>0 DEF CallRecords
    <3>4. Move(c, r)
      BY <2>4 DEF active
    <3> HIDE DEF r
    <3>5. RequestHolds(r) /\ PreviewHolds(r)
      BY <1>0, <2>1, <2>2, <2>4, <3>1, <3>3
         DEF RequestHolds, PreviewHolds, Stepping, Known
    <3> QED BY <1>0, <3>2, <3>3, <3>4, <3>5, StepHolds
  <2> QED BY <1>7, <2>3, <2>4 DEF ReadSample
<1>8. CASE ProbeService(c)
  <2> DEFINE found == Find(q.page, <<PreviewedPrompt(q), release>>, q.in.id)
             r == [q EXCEPT !.pc = "analyse", !.no = release]
  <2>1. q.op = "preview" /\ q.pc = "probe" /\ Stepping(q)
    BY <1>8 DEF ProbeService, At, Stepping
  <2>2. CASE found # {}
    <3>1. (CHOOSE a \in found : TRUE) \in found
      BY <2>2
    <3>2. (CHOOSE a \in found : TRUE).ran \in Outcomes
      BY <3>1 DEF Find, RowsTyped, ArtifactRows
    <3>3. NextPrompt(c, (CHOOSE a \in found : TRUE).ran)
      BY <1>8, <2>2 DEF ProbeService
    <3> HIDE DEF found
    <3> QED BY <2>1, <3>2, <3>3, PreviewMoves
  <2>3. CASE found = {}
    <3>1. r \in CallRecords
      BY <1>0 DEF CallRecords, Points, RowsTyped
    <3>2. /\ r.op = q.op /\ r.pc = "analyse" /\ r.page = q.page /\ r.in = q.in
          /\ r.seen = q.seen /\ r.id = q.id /\ r.out = q.out /\ r.sample = q.sample
          /\ r.got = q.got
      BY <1>0 DEF CallRecords
    <3>3. Move(c, r)
      BY <1>8, <2>3 DEF ProbeService
    <3> HIDE DEF r
    <3>4. RequestHolds(r) /\ PreviewHolds(r)
      BY <1>0, <2>1, <3>2 DEF RequestHolds, PreviewHolds, Stepping
    <3> QED BY <1>0, <3>1, <3>2, <3>3, <3>4, StepHolds
  <2> QED BY <2>2, <2>3
<1> QED BY <1>4, <1>5, <1>6, <1>7, <1>8

------------------------------------------------------------------------------
(* Handlers that write rows.                                               *)

(* A prompt is identified by a row that was there or gets a free label.    *)
LEMMA Identified ==
  ASSUME RowsTyped, NEW p \in Pages, NEW prompt \in Texts
  PROVE  LET ids == Identify(p, prompt) IN
         /\ ids \subseteq IdentityRows /\ IsFiniteSet(ids) /\ identities \subseteq ids
         /\ \E i \in ids : /\ i.page = p /\ i.prompt = prompt
                           /\ i.label = LabelIn(ids, p, prompt)
<1> DEFINE ids == Identify(p, prompt)
           new == [page |-> p, prompt |-> prompt, label |-> NextLabel(p)]
<1>1. ids \subseteq IdentityRows /\ IsFiniteSet(ids) /\ identities \subseteq ids
  <2>1. new \in IdentityRows
    BY FreeLabel DEF IdentityRows
  <2>2. IsFiniteSet(identities \cup {new})
    <3> HIDE DEF new
    <3> QED BY FS_AddElement DEF RowsTyped
  <2> QED BY <2>1, <2>2 DEF Identify, RowsTyped
<1>2. \E i \in ids : i.page = p /\ i.prompt = prompt
  <2>1. CASE IdentityOf(p, prompt) = {}
    <3>1. new \in ids /\ new.page = p /\ new.prompt = prompt
      BY <2>1 DEF Identify
    <3> HIDE DEF new, ids
    <3> QED BY <3>1
  <2>2. CASE IdentityOf(p, prompt) # {}
    BY <2>2 DEF Identify, IdentityOf
  <2> QED BY <2>1, <2>2
<1> HIDE DEF ids
<1>3. LET i == CHOOSE i \in ids : i.page = p /\ i.prompt = prompt
      IN i \in ids /\ i.page = p /\ i.prompt = prompt
  BY <1>2
<1>4. \E i \in ids : i.page = p /\ i.prompt = prompt /\ i.label = LabelIn(ids, p, prompt)
  BY <1>3 DEF LabelIn
<1> QED BY <1>1, <1>4 DEF ids

(* What a write does to the rows, and to the request that made it.         *)
Written(c) == RowInv' /\ RowsGrow /\ \E r : CallHolds(r)' /\ Move(c, r)

(* The row of a page is written: the upsert, an activation, a switch.      *)
LEMMA PageWritten ==
  ASSUME RowInv, NEW p \in Pages, UNCHANGED <<versions, identities, jobs, artifacts, samples,
                                             envVars, spent>>,
         NEW row \in [known : BOOLEAN, active : Nat, analysis : BOOLEAN],
         page' = [page EXCEPT ![p] = row], page[p].known => row.known,
         row.active = 0 \/ row.active \in VersionsOf(p)
  PROVE  RowInv' /\ RowsGrow
<1>1. page \in [Pages -> [known : BOOLEAN, active : Nat, analysis : BOOLEAN]]
  BY DEF RowInv, RowsTyped
<1>2. /\ page' \in [Pages -> [known : BOOLEAN, active : Nat, analysis : BOOLEAN]]
      /\ page'[p] = row /\ \A o \in Pages : o # p => page'[o] = page[o]
  BY <1>1
<1>3. \A o \in Pages : Known(o) => Known(o)'
  BY <1>2 DEF Known
<1>4. RowsTyped'
  <2>1. \A s \in samples : Known(s.page)'
    BY <1>3 DEF RowInv, RowsTyped, Known
  <2> QED BY <1>2, <2>1 DEF RowInv, RowsTyped, envVars
<1>5. ActiveIsOwn'
  BY <1>2 DEF RowInv, ActiveIsOwn, VersionsOf
<1>6. RowsGrow
  <2>1. Len(versions) <= Len(versions')
    BY DEF RowInv, RowsTyped
  <2> QED BY <1>3, <2>1 DEF RowsGrow
<1> QED BY <1>4, <1>5, <1>6 DEF RowInv, FrozenTogether, ArtifactOfWhatRan, SampleOfItsPage

(* Another part of the rows is written, and what is there stays.           *)
LEMMA OtherRowsWritten ==
  ASSUME RowInv, UNCHANGED <<page, versions, clock, release, spent, samples>>,
         identities \subseteq identities', identities' \subseteq IdentityRows,
         IsFiniteSet(identities'),
         jobs' \subseteq [version : DOMAIN versions, label : Nat \ {0}], FrozenTogether',
         artifacts' \subseteq ArtifactRows, ArtifactOfWhatRan', SampleOfItsPage'
  PROVE  RowInv' /\ RowsGrow
<1>1. RowsTyped' /\ ActiveIsOwn'
  BY DEF RowInv, RowsTyped, ActiveIsOwn, Known, VersionsOf
<1>2. RowsGrow
  <2>1. Len(versions) <= Len(versions')
    BY DEF RowInv, RowsTyped
  <2> QED BY <2>1 DEF RowsGrow, Known
<1> QED BY <1>1, <1>2 DEF RowInv

(* Frozen together, with identities that are only added.                   *)
LEMMA FrozenStays ==
  ASSUME FrozenTogether, identities \subseteq identities', UNCHANGED <<versions, jobs>>
  PROVE  FrozenTogether'
BY DEF FrozenTogether

(* The writes of the pages: registration, activation, switches.            *)
LEMMA PageWritersWrite ==
  ASSUME RowInv, CallsHold, NEW c \in Clients,
         UpsertPage(c) \/ ActivateVersion(c) \/ UpdateFlags(c)
  PROVE  Written(c)
<1> PICK q : q = call[c]
  OBVIOUS
<1> DEFINE rows == [known : BOOLEAN, active : Nat, analysis : BOOLEAN]
<1>0. /\ q \in CallRecords /\ CallHolds(q)
      /\ RequestHolds(q) /\ PreviewHolds(q) /\ ReplyHolds(q)
  BY DEF CallsHold, CallHolds
<1>1. /\ q.in \in Inputs /\ q.seen \in Nat /\ q.id \in Nat /\ q.flag \in BOOLEAN
      /\ q.in.analysis \in BOOLEAN \cup {Unset}
  BY <1>0 DEF CallRecords, Inputs
<1>2. /\ RowsTyped /\ ActiveIsOwn /\ Len(versions) \in Nat /\ DOMAIN versions = 1 .. Len(versions)
      /\ page \in [Pages -> rows]
  BY DEF RowInv, RowsTyped
<1>3. /\ q.page \in Pages /\ Stepping(q) /\ Accepted(q.in)
      /\ q.op \in {"create", "register", "activate"}
  BY <1>0 DEF UpsertPage, ActivateVersion, UpdateFlags, At, RequestHolds, Stepping
<1>4. /\ page[q.page] \in rows
      /\ page[q.page].active = 0 \/ page[q.page].active \in VersionsOf(q.page)
  BY <1>2, <1>3 DEF ActiveIsOwn
(* It goes on, to a step that needs nothing but the page.                  *)
<1>5. ASSUME NEW pc \in {"active", "flags", "detail"}, Goto(c, pc), RowInv', RowsGrow,
             Known(q.page)', pc = "flags" => q.in.analysis # Unset
      PROVE  Written(c)
  <2> DEFINE r == [q EXCEPT !.pc = pc]
  <2>1. r \in CallRecords
    BY <1>0 DEF CallRecords, Points
  <2>2. /\ r.op = q.op /\ r.pc = pc /\ r.page = q.page /\ r.in = q.in
        /\ r.seen = q.seen /\ r.id = q.id /\ r.out = q.out
    BY <1>0 DEF CallRecords
  <2>3. Move(c, r)
    BY <1>5 DEF Goto
  <2> HIDE DEF r
  <2>4. CallHolds(q)'
    BY <1>0, <1>2, <1>5, CallGrows DEF RowInv
  <2>5. RequestHolds(r)' /\ PreviewHolds(r)' /\ ReplyHolds(r)'
    BY <1>3, <1>5, <2>2, <2>4
       DEF CallHolds, RequestHolds, PreviewHolds, ReplyHolds, Stepping, Accepted
  <2>6. CallHolds(r)'
    BY <2>1, <2>5 DEF CallHolds
  <2> QED BY <1>5, <2>3, <2>6 DEF Written
<1>6. CASE UpsertPage(c)
  <2> DEFINE row == [page[q.page] EXCEPT !.known = TRUE,
                                         !.analysis = Inherit(q.in.analysis, q.flag)]
  <2>1. Inherit(q.in.analysis, q.flag) \in BOOLEAN
    BY <1>1 DEF Inherit
  <2>2. row \in rows /\ row.known /\ row.active = page[q.page].active
    BY <1>4, <2>1
  <2>3. page' = [page EXCEPT ![q.page] = row]
    BY <1>2, <1>3, <1>6 DEF UpsertPage
  <2> HIDE DEF row
  <2>4. RowInv' /\ RowsGrow
    <3>1. /\ row.active = 0 \/ row.active \in VersionsOf(q.page)
          /\ page[q.page].known => row.known
      BY <1>4, <2>2
    <3> QED BY <1>3, <1>6, <2>2, <2>3, <3>1, PageWritten DEF UpsertPage
  <2>5. Known(q.page)'
    BY <1>2, <1>3, <2>2, <2>3 DEF Known
  <2> QED BY <1>5, <1>6, <2>4, <2>5 DEF UpsertPage
<1>7. CASE ActivateVersion(c)
  <2> DEFINE row == [page[q.page] EXCEPT !.active = q.id]
  <2>1. row \in rows /\ row.known = page[q.page].known /\ row.active = q.id
    BY <1>1, <1>4
  <2>2. page' = [page EXCEPT ![q.page] = row]
    BY <1>2, <1>3, <1>7 DEF ActivateVersion
  <2>3. q.id \in VersionsOf(q.page) /\ Known(q.page)
    BY <1>0, <1>7 DEF ActivateVersion, RequestHolds, Stepping
  <2> HIDE DEF row
  <2>4. RowInv' /\ RowsGrow
    BY <1>3, <1>7, <2>1, <2>2, <2>3, PageWritten DEF ActivateVersion
  <2>5. Known(q.page)'
    BY <1>2, <1>3, <2>1, <2>2, <2>3 DEF Known
  <2> QED BY <1>5, <1>7, <2>4, <2>5 DEF ActivateVersion
<1>8. CASE UpdateFlags(c)
  <2> DEFINE row == [page[q.page] EXCEPT !.analysis = q.in.analysis]
  <2>1. q.in.analysis \in BOOLEAN /\ Known(q.page)
    BY <1>0, <1>1, <1>8 DEF UpdateFlags, RequestHolds, Stepping
  <2>2. /\ row \in rows /\ row.known = page[q.page].known
        /\ row.active = page[q.page].active
    BY <1>4, <2>1
  <2>3. page' = [page EXCEPT ![q.page] = row]
    BY <1>2, <1>3, <1>8 DEF UpdateFlags
  <2> HIDE DEF row
  <2>4. RowInv' /\ RowsGrow
    <3>1. /\ row.active = 0 \/ row.active \in VersionsOf(q.page)
          /\ page[q.page].known => row.known
      BY <1>4, <2>2
    <3> QED BY <1>3, <1>8, <2>2, <2>3, <3>1, PageWritten DEF UpdateFlags
  <2>5. Known(q.page)'
    BY <1>2, <1>3, <2>1, <2>2, <2>3 DEF Known
  <2> QED BY <1>5, <1>8, <2>4, <2>5 DEF UpdateFlags
<1> QED BY <1>6, <1>7, <1>8

(* Nothing is written but samples, and time may pass.                      *)
LEMMA QuietRows ==
  ASSUME RowInv, UNCHANGED rowVars, clock' \in Nat, clock <= clock', release' \in Nat,
         spent' \in [DOMAIN Budget -> Nat], samples' \subseteq SampleRows,
         \A s \in samples' : s \in samples \/ (Known(s.page) /\ s.expires <= clock + TTL)
  PROVE  RowInv' /\ RowsGrow
<1>1. \A s \in samples' : Known(s.page)' /\ s.expires <= clock' + TTL
  <2>1. SUFFICES ASSUME NEW s \in samples' PROVE Known(s.page)' /\ s.expires <= clock' + TTL
    OBVIOUS
  <2>2. Known(s.page) /\ s.expires <= clock + TTL
    BY DEF RowInv, RowsTyped
  <2>3. s.expires \in Nat /\ clock \in Nat /\ TTL \in Nat
    BY ConfigConstants DEF RowInv, RowsTyped, SampleRows
  <2> QED BY <2>2, <2>3 DEF Known, rowVars
<1>2. RowsTyped'
  BY <1>1 DEF RowInv, RowsTyped, rowVars
<1>3. ActiveIsOwn' /\ FrozenTogether' /\ ArtifactOfWhatRan' /\ SampleOfItsPage'
  BY DEF RowInv, ActiveIsOwn, FrozenTogether, ArtifactOfWhatRan, SampleOfItsPage, rowVars,
         VersionsOf
<1>4. RowsGrow
  <2>1. Len(versions) <= Len(versions')
    BY DEF RowInv, RowsTyped, rowVars
  <2> QED BY <2>1 DEF RowsGrow, Known, rowVars
<1> QED BY <1>2, <1>3, <1>4 DEF RowInv

(* A version is appended to the rows.                                      *)
LEMMA VersionWritten ==
  ASSUME RowInv, UNCHANGED <<page, identities, jobs, artifacts, samples, envVars, spent>>,
         NEW new \in VersionRows, new.no <= Len(versions) + 1, versions' = Append(versions, new)
  PROVE  /\ RowInv' /\ RowsGrow
         /\ Len(versions') = Len(versions) + 1 /\ Len(versions) + 1 \in VersionsOf(new.page)'
<1> DEFINE last == Len(versions) + 1
<1>0. /\ RowsTyped /\ Len(versions) \in Nat /\ DOMAIN versions = 1 .. Len(versions)
      /\ versions \in Seq(VersionRows)
  BY DEF RowInv, RowsTyped
<1>1. /\ versions' \in Seq(VersionRows) /\ Len(versions') = last
      /\ DOMAIN versions' = 1 .. last /\ versions'[last] = new
      /\ \A i \in 1 .. Len(versions) : versions'[i] = versions[i]
  BY <1>0
<1>2. RowsGrow
  BY <1>0, <1>1 DEF RowsGrow, Known
<1>3. RowsTyped'
  <2>1. \A i \in DOMAIN versions' : versions'[i].no <= Len(versions')
    <3>1. SUFFICES ASSUME NEW i \in 1 .. last PROVE versions'[i].no <= last
      BY <1>1
    <3>2. CASE i = last
      BY <1>1, <3>2
    <3>3. CASE i # last
      <4>1. i \in 1 .. Len(versions)
        BY <1>0, <3>3
      <4>2. versions[i].no <= Len(versions) /\ versions[i] \in VersionRows
        <5>1. i \in DOMAIN versions
          BY <1>0, <4>1
        <5>2. versions[i].no <= Len(versions)
          BY <1>0, <5>1 DEF RowsTyped
        <5> QED BY <1>0, <4>1, <5>2
      <4> QED BY <1>0, <1>1, <4>1, <4>2 DEF VersionRows
    <3> QED BY <3>2, <3>3
  <2>2. jobs' \subseteq [version : DOMAIN versions', label : Nat \ {0}]
    <3>1. DOMAIN versions \subseteq DOMAIN versions'
      BY <1>0, <1>1
    <3> QED BY <3>1 DEF RowInv, RowsTyped
  <2> QED BY <1>0, <1>1, <2>1, <2>2 DEF RowsTyped, Known, envVars
<1>4. ActiveIsOwn'
  BY <1>0, <1>2, <1>3, VersionsGrow DEF RowInv, ActiveIsOwn
<1>5. FrozenTogether'
  <2>1. \A j \in jobs : versions'[j.version] = versions[j.version]
    BY <1>0, <1>1 DEF RowsTyped
  <2>2. FrozenTogether /\ jobs' = jobs /\ identities' = identities
    BY DEF RowInv
  <2> QED BY ZenonT(60), <2>1, <2>2 DEF FrozenTogether
<1>6. last \in VersionsOf(new.page)'
  BY <1>0, <1>1 DEF VersionsOf
<1> QED
  BY <1>1, <1>2, <1>3, <1>4, <1>5, <1>6 DEF RowInv, ArtifactOfWhatRan, SampleOfItsPage

(* The version row a request inserts: what the body leaves out comes from  *)
(* the version it has read as active.                                      *)
NewVersion(r) ==
  [page |-> r.page, no |-> r.no, prompt |-> Inherit(r.in.prompt, ContentOf(r.seen).prompt),
   etl |-> Inherit(r.in.etl, ContentOf(r.seen).etl), notes |-> Inherit(r.in.notes, Blank)]

(* A new version takes from the body or inherits, and is a version.        *)
LEMMA NewVersionType ==
  ASSUME RowsTyped, NEW q \in CallRecords, q.page \in Pages, Accepted(q.in), q.no # 0,
         q.seen <= Len(versions)
  PROVE  NewVersion(q) \in VersionRows
<1>1. q.seen \in Nat /\ q.no \in Nat /\ q.in \in Inputs
  BY DEF CallRecords
<1>2. /\ q.in.etl \in Etls \cup {Unset} /\ q.in.notes \in {Note, Unset, Null, Blank}
      /\ q.in.prompt \in Texts \cup {Unset, Null} /\ q.in.prompt # Null /\ q.in.notes # Null
  BY <1>1 DEF Inputs, Accepted
<1>3. ContentOf(q.seen).etl \in Etls /\ ContentOf(q.seen).prompt \in Prompts
  <2>1. CASE q.seen = 0
    BY <2>1, ConfigConstants DEF ContentOf, DefaultContent
  <2>2. CASE q.seen # 0
    <3>1. versions[q.seen] \in VersionRows
      BY <1>1, <2>2 DEF RowsTyped
    <3> QED BY <2>2, <3>1 DEF ContentOf, VersionRows
  <2> QED BY <2>1, <2>2
<1>4. Inherit(q.in.etl, ContentOf(q.seen).etl) \in Etls
  BY <1>2, <1>3 DEF Inherit
<1>5. Inherit(q.in.prompt, ContentOf(q.seen).prompt) \in Prompts
  BY <1>2, <1>3 DEF Inherit, Texts
<1>6. Inherit(q.in.notes, Blank) \in {Blank, Note}
  BY <1>2 DEF Inherit
<1> QED BY <1>1, <1>4, <1>5, <1>6 DEF NewVersion, VersionRows

(* The insert of a version, or its conflict with one of that number.       *)
LEMMA VersionWriterWrites ==
  ASSUME RowInv, CallsHold, NEW c \in Clients, CreateVersion(c)
  PROVE  Written(c)
<1> PICK q : q = call[c]
  OBVIOUS
<1>0. /\ q \in CallRecords /\ CallHolds(q)
      /\ RequestHolds(q) /\ PreviewHolds(q) /\ ReplyHolds(q)
  BY DEF CallsHold, CallHolds
<1>1. RowsTyped /\ Len(versions) \in Nat /\ q.seen \in Nat /\ q.no \in Nat /\ q.id \in Nat
  BY <1>0 DEF RowInv, RowsTyped, CallRecords
<1>2. /\ q.pc = "insert" /\ q.page \in Pages /\ Accepted(q.in) /\ q.seen <= Len(versions)
      /\ q.no # 0 /\ q.no <= Len(versions) + 1 /\ Known(q.page)
      /\ q.op \in {"create", "register", "activate"}
  BY <1>0 DEF CreateVersion, RequestHolds, Stepping
<1>3. CASE Taken(q.page, q.no)
  <2>1. Refuse(c, "conflict") /\ UNCHANGED <<rowVars, samples, envVars, spent>>
    BY <1>3 DEF CreateVersion, rowVars
  <2>2. RowInv' /\ RowsGrow
    <3>1. samples' \subseteq SampleRows /\ samples' = samples /\ clock <= clock'
      BY <2>1 DEF RowInv, RowsTyped, envVars
    <3> QED BY <2>1, <3>1, QuietRows DEF RowInv, RowsTyped, envVars
  <2>3. PICK r : CallHolds(r) /\ Move(c, r)
    BY <1>1, <2>1, RefusalHolds DEF Refuse, Answer, Errors
  <2>4. CallHolds(r)'
    BY <1>1, <2>2, <2>3, CallGrows DEF RowInv
  <2> QED BY <2>2, <2>3, <2>4 DEF Written
<1>4. CASE ~Taken(q.page, q.no)
  <2> PICK to : to = AfterInsert(q)
    OBVIOUS
  <2> PICK id : id = Len(versions) + 1
    OBVIOUS
  <2> DEFINE r == [q EXCEPT !.id = id, !.pc = to]
  <2>1. /\ versions' = Append(versions, NewVersion(q)) /\ Move(c, r)
        /\ UNCHANGED <<page, identities, jobs, artifacts, samples, envVars, spent>>
    BY <1>4 DEF CreateVersion, NewVersion
  <2>2. NewVersion(q) \in VersionRows /\ NewVersion(q).page = q.page /\ NewVersion(q).no = q.no
    BY <1>0, <1>1, <1>2, NewVersionType DEF NewVersion
  <2>3. RowInv' /\ RowsGrow /\ Len(versions') = id /\ id \in VersionsOf(q.page)' /\ id \in Nat
    BY <1>1, <1>2, <2>1, <2>2, VersionWritten
  <2>4. /\ to \in {"activate", "flags", "detail"}
        /\ to = "flags" => q.in.analysis # Unset
    BY DEF AfterInsert
  <2>5. r \in CallRecords
    BY <1>0, <2>3, <2>4 DEF CallRecords, Points
  <2>6. /\ r.op = q.op /\ r.pc = to /\ r.page = q.page /\ r.in = q.in
        /\ r.seen = q.seen /\ r.id = id /\ r.out = q.out
    BY <1>0 DEF CallRecords
  <2> HIDE DEF r
  <2>7. CallHolds(q)' /\ Known(q.page)'
    BY <1>0, <1>1, <1>2, <2>3, CallGrows DEF RowInv, RowsGrow
  <2>8. RequestHolds(r)' /\ PreviewHolds(r)' /\ ReplyHolds(r)'
    BY <1>2, <2>3, <2>4, <2>6, <2>7
       DEF CallHolds, RequestHolds, PreviewHolds, ReplyHolds, Stepping, Accepted
  <2>9. CallHolds(r)'
    BY <2>5, <2>8 DEF CallHolds
  <2> QED BY <2>1, <2>3, <2>9 DEF Written
<1> QED BY <1>3, <1>4

(* The writes of jobs and previews.                                        *)
LEMMA PromptWritersWrite ==
  ASSUME RowInv, CallsHold, NEW c \in Clients,
         IdentifyForJob(c) \/ FreezeJob(c) \/ IdentifyForPreview(c) \/ AnalyseSample(c)
  PROVE  Written(c)
<1> PICK q : q = call[c]
  OBVIOUS
<1>0. /\ q \in CallRecords /\ CallHolds(q)
      /\ RequestHolds(q) /\ PreviewHolds(q) /\ ReplyHolds(q)
  BY DEF CallsHold, CallHolds
<1>1. /\ RowsTyped /\ Len(versions) \in Nat /\ DOMAIN versions = 1 .. Len(versions)
      /\ q.in \in Inputs /\ q.seen \in Nat /\ q.no \in Nat /\ q.id \in Nat /\ q.in.id \in Nat
  BY SMTT(30), <1>0 DEF RowInv, RowsTyped, CallRecords, Inputs
<1>2. /\ q.page \in Pages /\ Known(q.page) /\ Stepping(q) /\ Accepted(q.in)
      /\ q.seen <= Len(versions)
  BY <1>0 DEF IdentifyForJob, FreezeJob, IdentifyForPreview, AnalyseSample, At, RequestHolds,
              Stepping
(* A request that answers, or goes on, when rows were written.             *)
<1>3. ASSUME RowInv', RowsGrow, NEW r, CallHolds(r), Move(c, r)
      PROVE  Written(c)
  BY <1>1, <1>3, CallGrows DEF Written, RowInv
<1>4. CASE IdentifyForJob(c)
  <2> PICK ids : ids = Identify(q.page, JobPrompt(q))
    OBVIOUS
  <2> PICK label : label = LabelIn(ids, q.page, JobPrompt(q))
    OBVIOUS
  <2> DEFINE r == [q EXCEPT !.pc = "freeze", !.no = label]
  <2>1. /\ q.op = "execute" /\ q.pc = "identity" /\ identities' = ids /\ Move(c, r)
        /\ UNCHANGED <<page, versions, jobs, artifacts, samples, envVars, spent>>
    BY <1>4 DEF IdentifyForJob, At
  <2>2. q.seen \in VersionsOf(q.page)
    BY <1>0, <2>1 DEF RequestHolds, Stepping
  <2>3. JobPrompt(q) = versions[q.seen].prompt /\ JobPrompt(q) \in Texts
    <3>1. versions[q.seen] \in VersionRows
      BY <1>1, <2>2 DEF VersionsOf, RowsTyped
    <3> QED BY <3>1 DEF JobPrompt, VersionRows, Texts
  <2>4. /\ ids \subseteq IdentityRows /\ IsFiniteSet(ids) /\ identities \subseteq ids
        /\ \E i \in ids : i.page = q.page /\ i.prompt = JobPrompt(q) /\ i.label = label
    BY ZenonT(60), <1>1, <1>2, <2>3, Identified
  <2>5. label \in Nat
    BY <2>4 DEF IdentityRows
  <2>6. RowInv' /\ RowsGrow
    <3>1. FrozenTogether'
      BY <2>1, <2>4, FrozenStays DEF RowInv
    <3>2. ArtifactOfWhatRan' /\ SampleOfItsPage'
      BY <2>1 DEF RowInv, ArtifactOfWhatRan, SampleOfItsPage
    <3> QED BY <1>1, <2>1, <2>4, <3>1, <3>2, OtherRowsWritten DEF RowsTyped, envVars
  <2>7. r \in CallRecords
    BY ZenonT(60), <1>0, <2>5 DEF CallRecords, Points
  <2>8. /\ r.op = q.op /\ r.pc = "freeze" /\ r.page = q.page /\ r.in = q.in
        /\ r.seen = q.seen /\ r.id = q.id /\ r.out = q.out /\ r.no = label
    BY <1>0 DEF CallRecords
  <2> HIDE DEF r
  <2>9. CallHolds(q)'
    BY <1>0, <1>1, <2>6, CallGrows DEF RowInv
  <2>10. Labelled(r)'
    BY <2>1, <2>2, <2>3, <2>4, <2>8 DEF Labelled, VersionsOf
  <2>11. RequestHolds(r)' /\ PreviewHolds(r)' /\ ReplyHolds(r)'
    BY <1>2, <2>1, <2>8, <2>9, <2>10
       DEF CallHolds, RequestHolds, PreviewHolds, ReplyHolds, Stepping, Accepted
  <2>12. CallHolds(r)'
    BY <2>7, <2>11 DEF CallHolds
  <2> QED BY <2>1, <2>6, <2>12 DEF Written
<1>5. CASE FreezeJob(c)
  <2> DEFINE job == [version |-> q.seen, label |-> q.no]
  <2>1. /\ q.op = "execute" /\ q.pc = "freeze" /\ jobs' = jobs \cup {job}
        /\ Answer(c, NoReply)
        /\ UNCHANGED <<page, versions, identities, artifacts, samples, envVars, spent>>
    BY <1>5 DEF FreezeJob, At
  <2>2. q.seen \in VersionsOf(q.page) /\ Labelled(q)
    BY <1>0, <2>1 DEF RequestHolds, Stepping
  <2>3. q.no \in Nat \ {0}
    BY <1>1, <2>2 DEF Labelled, RowsTyped, IdentityRows
  <2>4. jobs' \subseteq [version : DOMAIN versions, label : Nat \ {0}]
    BY <1>1, <2>1, <2>2, <2>3 DEF RowsTyped, VersionsOf
  <2>5. FrozenTogether'
    <3>1. \A j \in jobs : \E i \in identities : /\ i.page = versions[j.version].page
                                                /\ i.prompt = versions[j.version].prompt
                                                /\ i.label = j.label
      BY DEF RowInv, FrozenTogether
    <3>2. \E i \in identities : /\ i.page = versions[job.version].page
                                /\ i.prompt = versions[job.version].prompt
                                /\ i.label = job.label
      BY <2>2 DEF Labelled
    <3> HIDE DEF job
    <3> QED BY <2>1, <3>1, <3>2 DEF FrozenTogether
  <2>6. RowInv' /\ RowsGrow
    <3>1. ArtifactOfWhatRan' /\ SampleOfItsPage'
      BY <2>1 DEF RowInv, ArtifactOfWhatRan, SampleOfItsPage
    <3> QED BY <1>1, <2>1, <2>4, <2>5, <3>1, OtherRowsWritten DEF RowsTyped, envVars
  <2>7. CallHolds(Answered(c, NoReply))
    <3>1. NoReply \in Replies /\ NoReply.detail = NoDetail /\ NoReply.pages = {}
      BY RequestTypes DEF NoReply
    <3>2. DetailHolds(NoDetail)
      BY <1>1 DEF NoDetail, DetailHolds
    <3> QED BY <1>1, <2>1, <3>1, <3>2, AnswerHolds
  <2> QED BY <1>3, <2>1, <2>6, <2>7 DEF Answer
<1>6. CASE IdentifyForPreview(c)
  <2> PICK ids : ids = Identify(q.page, PreviewedPrompt(q))
    OBVIOUS
  <2> DEFINE r == [q EXCEPT !.pc = "probe"]
  <2>1. /\ q.op = "preview" /\ q.pc = "identity" /\ identities' = ids /\ Move(c, r)
        /\ UNCHANGED <<page, versions, jobs, artifacts, samples, envVars, spent>>
    BY <1>6 DEF IdentifyForPreview, At, Goto
  <2>2. PreviewedPrompt(q) \in Texts
    BY <1>1, <1>2, <2>1, PreviewedType
  <2>3. ids \subseteq IdentityRows /\ IsFiniteSet(ids) /\ identities \subseteq ids
    BY <1>1, <1>2, <2>2, Identified
  <2>4. RowInv' /\ RowsGrow
    <3>1. FrozenTogether'
      BY <2>1, <2>3, FrozenStays DEF RowInv
    <3>2. ArtifactOfWhatRan' /\ SampleOfItsPage'
      BY <2>1 DEF RowInv, ArtifactOfWhatRan, SampleOfItsPage
    <3> QED BY <1>1, <2>1, <2>3, <3>1, <3>2, OtherRowsWritten DEF RowsTyped, envVars
  <2>5. r \in CallRecords
    BY <1>0 DEF CallRecords, Points
  <2>6. /\ r.op = q.op /\ r.pc = "probe" /\ r.page = q.page /\ r.in = q.in
        /\ r.seen = q.seen /\ r.id = q.id /\ r.out = q.out /\ r.sample = q.sample
        /\ r.got = q.got
    BY <1>0 DEF CallRecords
  <2> HIDE DEF r
  <2>7. RequestHolds(r) /\ PreviewHolds(r)
    BY <1>0, <2>1, <2>6 DEF RequestHolds, PreviewHolds, Stepping
  <2>8. CallHolds(r)
    BY <1>0, <2>5, <2>6, <2>7, StepHolds
  <2> QED BY <1>3, <2>1, <2>4, <2>8
<1>7. CASE AnalyseSample(c)
  <2> PICK ran : ran = <<PreviewedPrompt(q), release>>
    OBVIOUS
  <2> PICK concurrent : concurrent = Find(q.page, ran, q.in.id)
    OBVIOUS
  <2> DEFINE new == [page |-> q.page, hash |-> ran, key |-> q.in.id, ran |-> ran,
                     of |-> q.sample.page]
             found == (CHOOSE a \in concurrent : TRUE).ran
  <2>1. /\ q.op = "preview" /\ q.pc = "analyse"
        /\ UNCHANGED <<page, versions, identities, jobs, samples, envVars, spent>>
        /\ \/ concurrent # {} /\ NextPrompt(c, found) /\ UNCHANGED artifacts
           \/ artifacts' = artifacts \cup {new} /\ NextPrompt(c, ran)
           \/ Refuse(c, "service") /\ UNCHANGED artifacts
    BY <1>7 DEF AnalyseSample, At, StoredHash
  <2>2. ran \in Outcomes
    <3>1. PreviewedPrompt(q) \in Texts /\ release \in Nat
      BY <1>1, <1>2, <2>1, PreviewedType DEF RowsTyped
    <3> QED BY <3>1 DEF Outcomes
  <2>3. concurrent # {} => found \in Outcomes
    <3>1. concurrent # {} => (CHOOSE a \in concurrent : TRUE) \in concurrent
      OBVIOUS
    <3>2. \A a \in concurrent : a.ran \in Outcomes
      BY <1>1 DEF Find, RowsTyped, ArtifactRows
    <3> QED BY <3>1, <3>2
  <2>4. new \in ArtifactRows /\ new.hash = new.ran /\ new.of = new.page
    <3>1. q.sample.page = q.page
      BY <1>0, <1>2, <2>1 DEF PreviewHolds
    <3> QED BY <1>1, <1>2, <2>2, <3>1 DEF ArtifactRows
  <2> HIDE DEF new, found
  <2>5. \/ concurrent # {} /\ NextPrompt(c, found)
        \/ NextPrompt(c, ran)
        \/ Refuse(c, "service")
    BY <2>1
  <2>6. PICK r : CallHolds(r) /\ Move(c, r)
    <3>1. call[c].op = "preview" /\ Stepping(call[c])
      BY <1>2, <2>1
    <3>2. CASE concurrent # {} /\ NextPrompt(c, found)
      BY <1>1, <2>3, <3>1, <3>2, PreviewMoves
    <3>3. CASE NextPrompt(c, ran)
      BY <1>1, <2>2, <3>1, <3>3, PreviewMoves
    <3>4. CASE Refuse(c, "service")
      BY <1>1, <3>4, RefusalHolds DEF Refuse, Answer, Errors
    <3> QED BY <2>5, <3>2, <3>3, <3>4
  <2>7. artifacts' = artifacts \/ artifacts' = artifacts \cup {new}
    BY <2>1
  <2>8. RowInv' /\ RowsGrow
    <3>1. artifacts' \subseteq ArtifactRows /\ ArtifactOfWhatRan' /\ SampleOfItsPage'
      BY <2>4, <2>7 DEF RowInv, RowsTyped, ArtifactOfWhatRan, SampleOfItsPage
    <3>2. FrozenTogether'
      BY <2>1, FrozenStays DEF RowInv
    <3> QED BY <1>1, <2>1, <3>1, <3>2, OtherRowsWritten DEF RowsTyped, envVars
  <2> QED BY <1>3, <2>6, <2>8
<1> QED BY <1>4, <1>5, <1>6, <1>7

(* Every handler: the rows stay sound and grow, and its request moves on.  *)
LEMMA HandlerWrites == ASSUME RowInv, CallsHold, NEW c \in Clients, Handle(c) PROVE Written(c)
<1>0. RowsTyped /\ ActiveIsOwn
  BY DEF RowInv
<1>1. ASSUME NEW r, CallHolds(r), Move(c, r), UNCHANGED <<rowVars, envVars, spent>>,
             samples' \subseteq SampleRows,
             \A s \in samples' : s \in samples \/ (Known(s.page) /\ s.expires <= clock + TTL)
      PROVE  Written(c)
  <2>1. RowInv' /\ RowsGrow
    <3>1. clock <= clock' /\ clock' \in Nat /\ release' \in Nat
      BY <1>0, <1>1 DEF RowsTyped, envVars
    <3> QED BY <1>1, <3>1, QuietRows DEF RowInv, RowsTyped
  <2>2. CallHolds(r)'
    BY <1>0, <1>1, <2>1, CallGrows DEF RowInv
  <2> QED BY <1>1, <2>1, <2>2 DEF Written
<1>2. CASE \/ RefuseRequest(c) \/ GetPage(c) \/ ListPages(c) \/ ReadForCreate(c)
           \/ FindForRegister(c) \/ ReadActive(c) \/ NumberVersion(c) \/ AnswerDetail(c)
           \/ CheckActivation(c) \/ AnswerOnboarding(c)
  <2>1. PICK r : CallHolds(r) /\ Move(c, r)
    BY <1>0, <1>2, PageReadersMove
  <2>2. UNCHANGED <<rowVars, samples, envVars, spent>>
    BY <1>2 DEF RefuseRequest, GetPage, ListPages, ReadForCreate, FindForRegister, ReadActive,
                NumberVersion, AnswerDetail, CheckActivation, AnswerOnboarding
  <2> QED BY <1>0, <1>1, <2>1, <2>2 DEF RowsTyped
<1>3. CASE ReadForJob(c) \/ ReadForSample(c) \/ StoreSample(c) \/ ReadSample(c) \/ ProbeService(c)
  <2>1. PICK r : CallHolds(r) /\ Move(c, r)
    BY <1>0, <1>3, SampleReadersMove
  <2>2. UNCHANGED <<rowVars, envVars, spent>>
    BY <1>3 DEF ReadForJob, ReadForSample, StoreSample, ReadSample, ProbeService
  <2>3. /\ samples' \subseteq SampleRows
        /\ \A s \in samples' : s \in samples \/ (Known(s.page) /\ s.expires <= clock + TTL)
    <3>1. CASE ReadForJob(c) \/ ReadForSample(c) \/ ReadSample(c) \/ ProbeService(c)
      <4>1. samples' \subseteq samples
        BY <3>1 DEF ReadForJob, ReadForSample, ReadSample, ProbeService
      <4> QED BY <1>0, <4>1 DEF RowsTyped
    <3>2. CASE StoreSample(c)
      <4> PICK new : new = [key |-> call[c].no, page |-> call[c].page, expires |-> clock + TTL,
                            etl |-> Inherit(call[c].in.etl, ContentOf(call[c].seen).etl)]
        OBVIOUS
      <4>1. call[c] \in CallRecords /\ RequestHolds(call[c]) /\ call[c].pc = "worker"
        BY <3>2 DEF CallsHold, CallHolds, StoreSample, At
      <4>2. Known(call[c].page) /\ call[c].seen <= Len(versions)
        BY <4>1 DEF RequestHolds, Stepping
      <4>3. new \in SampleRows
        BY <1>0, <4>1, <4>2, SampleMade
      <4>4. clock + TTL \in Nat
        BY SMTT(30), <1>0, ConfigConstants DEF RowsTyped
      <4>5. Known(new.page) /\ new.expires <= clock + TTL
        BY <4>2, <4>4
      <4>6. samples' \subseteq samples \cup {new}
        BY <3>2 DEF StoreSample
      <4> QED BY <1>0, <4>3, <4>5, <4>6 DEF RowsTyped
    <3> QED BY <1>3, <3>1, <3>2
  <2> QED BY <1>1, <2>1, <2>2, <2>3
<1>4. CASE UpsertPage(c) \/ ActivateVersion(c) \/ UpdateFlags(c)
  BY <1>4, PageWritersWrite
<1>5. CASE CreateVersion(c)
  BY <1>5, VersionWriterWrites
<1>6. CASE IdentifyForJob(c) \/ FreezeJob(c) \/ IdentifyForPreview(c) \/ AnalyseSample(c)
  BY <1>6, PromptWritersWrite
<1> QED BY <1>2, <1>3, <1>4, <1>5, <1>6 DEF Handle

(* One request moves, and the others hold what they held.                  *)
LEMMA CallsMove ==
  ASSUME RowInv, CallsHold, RowInv', RowsGrow, NEW c \in Clients, NEW r, CallHolds(r)',
         Move(c, r)
  PROVE  CallsHold'
<1>1. RowsTyped /\ RowsTyped' /\ r \in CallRecords
  BY DEF RowInv, CallHolds
<1>2. call \in [Clients -> CallRecords]
  BY DEF CallsHold
<1>3. call' \in [Clients -> CallRecords] /\ call'[c] = r
      /\ \A d \in Clients : d # c => call'[d] = call[d]
  BY <1>1, <1>2 DEF Move
<1>4. ASSUME NEW d \in Clients PROVE CallHolds(call[d])'
  <2>1. CASE d = c
    BY <1>3, <2>1
  <2>2. CASE d # c
    <3> PICK q : q = call[d]
      OBVIOUS
    <3>1. CallHolds(q)'
      BY <1>1, CallGrows DEF CallsHold
    <3> QED BY <1>3, <2>2, <3>1
  <2> QED BY <2>1, <2>2
<1> QED BY <1>3, <1>4 DEF CallsHold

(* The environment: time, releases of the service, restarts.               *)
LEMMA EnvironmentStep ==
  ASSUME RowInv, CallsHold, Tick \/ Upgrade \/ Restart
  PROVE  /\ RowInv' /\ CallsHold' /\ RowsGrow
         /\ \A c \in Clients :
              call'[c].op = call[c].op \/ (c \notin Screens /\ call'[c].pc = "gone")
<1>0. RowsTyped /\ clock \in Nat /\ release \in Nat
  BY DEF RowInv, RowsTyped
<1>1. UNCHANGED <<rowVars, spent>> /\ clock' \in Nat /\ clock <= clock' /\ release' \in Nat
      /\ samples' \subseteq samples
  BY <1>0 DEF Tick, Upgrade, Restart
<1>2. RowInv' /\ RowsGrow
  BY <1>0, <1>1, QuietRows DEF RowInv, RowsTyped
<1>3. ASSUME NEW r, CallHolds(r) PROVE CallHolds(r)'
  BY <1>0, <1>2, <1>3, CallGrows DEF RowInv
<1>4. CASE UNCHANGED call
  <2>1. ASSUME NEW d \in Clients PROVE CallHolds(call[d])'
    <3> PICK q : q = call[d]
      OBVIOUS
    <3> QED BY <1>3, <1>4 DEF CallsHold
  <2>2. CallsHold'
    BY <1>4, <2>1 DEF CallsHold
  <2> QED BY <1>2, <1>4, <2>2
<1>5. CASE Restart
  <2>1. call' = [c \in Clients |-> Cut(c)]
    BY <1>5 DEF Restart
  <2>2. ASSUME NEW d \in Clients
        PROVE  /\ CallHolds(Cut(d))
               /\ Cut(d).op = call[d].op \/ (d \notin Screens /\ Cut(d).pc = "gone")
    <3>1. CallHolds(call[d])
      BY DEF CallsHold
    <3>2. CallHolds(Answered(d, [NoReply EXCEPT !.error = "lost"]))
      BY <1>0, RefusalHolds DEF Errors
    <3>3. \A e : Answered(d, e).op = call[d].op
                 \/ (d \notin Screens /\ Answered(d, e).pc = "gone")
      BY RequestTypes DEF Answered, CallRecords
    <3> QED BY <3>1, <3>2, <3>3 DEF Cut
  <2>3. ASSUME NEW d \in Clients PROVE CallHolds(call[d])'
    <3> PICK q : q = Cut(d)
      OBVIOUS
    <3>1. CallHolds(q)'
      BY <1>3, <2>2
    <3> QED BY <2>1, <3>1
  <2>4. CallsHold'
    <3>1. call' \in [Clients -> CallRecords]
      BY <2>1, <2>2 DEF CallHolds
    <3> QED BY <2>3, <3>1 DEF CallsHold
  <2> QED BY <1>2, <2>1, <2>2, <2>4
<1> QED BY <1>4, <1>5 DEF Tick, Upgrade

------------------------------------------------------------------------------
(* The screen.                                                             *)

(* A request is sent: nothing but its record and the count of requests     *)
(* changes.                                                                *)
LEMMA RequestSent ==
  ASSUME RowInv, CallsHold, NEW c \in Clients, NEW op \in Operations,
         NEW p \in Pages \cup {NoPage}, NEW in \in Inputs,
         op \in {"register", "onboard"} => p \in Pages,
         op = "preview" => in.prompt \in Texts,
         spent' \in [DOMAIN Budget -> Nat], Send(c, op, p, in)
  PROVE  /\ RowInv' /\ CallsHold' /\ RowsGrow /\ UNCHANGED rowVars
         /\ call'[c].op = op /\ \A d \in Clients : d # c => call'[d] = call[d]
<1> PICK no : no = IF op = "sample" THEN spent'[op] ELSE 0
  OBVIOUS
<1> DEFINE r == [Idle EXCEPT !.op = op, !.pc = "open", !.page = p, !.in = in, !.no = no]
<1>0. RowsTyped /\ Len(versions) \in Nat
  BY DEF RowInv, RowsTyped
<1>1. Move(c, r) /\ UNCHANGED <<rowVars, samples, envVars>>
  BY DEF Send
<1>2. no \in Nat
  BY ConfigConstants
<1>3. RowInv' /\ RowsGrow
  <2>1. samples' \subseteq SampleRows /\ clock <= clock' /\ clock' \in Nat /\ release' \in Nat
    BY <1>0, <1>1 DEF RowsTyped, envVars
  <2> QED BY <1>1, <2>1, QuietRows
<1>4. r \in CallRecords
  BY <1>2, RequestTypes DEF CallRecords, Points
<1>5. /\ r.op = op /\ r.pc = "open" /\ r.page = p /\ r.in = in
      /\ r.seen = Idle.seen /\ r.id = Idle.id /\ r.out = Idle.out /\ r.got = Idle.got
  BY RequestTypes DEF CallRecords
<1> HIDE DEF r
<1>6. Idle.seen = 0 /\ Idle.id = 0 /\ Idle.out = NoReply /\ NoReply.id = 0 /\ Idle.got = <<>>
  BY DEF Idle, NoReply
<1>7. CallHolds(r)
  <2>1. CallHolds(Idle)
    BY <1>0, IdleHolds
  <2>2. RequestHolds(r)
    BY <1>0, <1>5, <1>6 DEF RequestHolds, Stepping
  <2>3. PreviewHolds(r)
    <3>1. Len(r.got) <= 1
      BY <1>5, <1>6
    <3> QED BY <1>5, <3>1 DEF PreviewHolds, Stepping
  <2>4. ReplyHolds(r)
    BY <1>0, <1>5, <1>6, <2>1 DEF CallHolds, ReplyHolds
  <2> QED BY <1>4, <2>2, <2>3, <2>4 DEF CallHolds
<1>8. CallHolds(r)'
  BY <1>0, <1>3, <1>7, CallGrows DEF RowInv
<1>9. call'[c] = r /\ \A d \in Clients : d # c => call'[d] = call[d]
  BY <1>1 DEF CallsHold, Move
<1> QED BY <1>1, <1>3, <1>5, <1>8, <1>9, CallsMove

(* A handler carried by the screen keeps the kind of its request.          *)
LEMMA OperationKept ==
  ASSUME CallsHold, NEW c \in Clients, Handle(c)
  PROVE  /\ c \in Screens => call'[c].op = call[c].op
         /\ \A d \in Clients : d # c => call'[d] = call[d]
<1>0. call \in [Clients -> CallRecords] /\ call[c] \in CallRecords
  BY DEF CallsHold
<1> DEFINE Kept == /\ c \in Screens => call'[c].op = call[c].op
                   /\ \A d \in Clients : d # c => call'[d] = call[d]
<1>1. ASSUME NEW r, Move(c, r), r.op = call[c].op \/ c \notin Screens PROVE Kept
  BY <1>0, <1>1 DEF Move
<1>2. ASSUME NEW x, Move(c, [call[c] EXCEPT !.pc = x]) PROVE Kept
  <2>1. [call[c] EXCEPT !.pc = x].op = call[c].op
    BY <1>0 DEF CallRecords
  <2> QED BY <1>1, <1>2, <2>1
<1>3. ASSUME NEW x, NEW y, Move(c, [call[c] EXCEPT !.pc = x, !.seen = y]) PROVE Kept
  <2>1. [call[c] EXCEPT !.pc = x, !.seen = y].op = call[c].op
    BY <1>0 DEF CallRecords
  <2> QED BY <1>1, <1>3, <2>1
<1>4. ASSUME NEW x, NEW y, Move(c, [call[c] EXCEPT !.seen = x, !.pc = y]) PROVE Kept
  <2>1. [call[c] EXCEPT !.seen = x, !.pc = y].op = call[c].op
    BY <1>0 DEF CallRecords
  <2> QED BY <1>1, <1>4, <2>1
<1>5. ASSUME NEW x, NEW y, Move(c, [call[c] EXCEPT !.pc = x, !.flag = y]) PROVE Kept
  <2>1. [call[c] EXCEPT !.pc = x, !.flag = y].op = call[c].op
    BY <1>0 DEF CallRecords
  <2> QED BY <1>1, <1>5, <2>1
<1>6. ASSUME NEW x, NEW y, Move(c, [call[c] EXCEPT !.pc = x, !.no = y]) PROVE Kept
  <2>1. [call[c] EXCEPT !.pc = x, !.no = y].op = call[c].op
    BY <1>0 DEF CallRecords
  <2> QED BY <1>1, <1>6, <2>1
<1>7. ASSUME NEW x, NEW y, Move(c, [call[c] EXCEPT !.pc = x, !.id = y]) PROVE Kept
  <2>1. [call[c] EXCEPT !.pc = x, !.id = y].op = call[c].op
    BY <1>0 DEF CallRecords
  <2> QED BY <1>1, <1>7, <2>1
<1>8. ASSUME NEW x, NEW y, Move(c, [call[c] EXCEPT !.id = x, !.pc = y]) PROVE Kept
  <2>1. [call[c] EXCEPT !.id = x, !.pc = y].op = call[c].op
    BY <1>0 DEF CallRecords
  <2> QED BY <1>1, <1>8, <2>1
<1>9. ASSUME NEW x, NEW y, Move(c, [call[c] EXCEPT !.pc = x, !.got = y]) PROVE Kept
  <2>1. [call[c] EXCEPT !.pc = x, !.got = y].op = call[c].op
    BY <1>0 DEF CallRecords
  <2> QED BY <1>1, <1>9, <2>1
<1>10. ASSUME NEW x, NEW y, NEW z,
              Move(c, [call[c] EXCEPT !.pc = x, !.seen = y, !.sample = z])
       PROVE  Kept
  <2>1. [call[c] EXCEPT !.pc = x, !.seen = y, !.sample = z].op = call[c].op
    BY <1>0 DEF CallRecords
  <2> QED BY <1>1, <1>10, <2>1
<1>20. ASSUME NEW e, Answer(c, e) PROVE Kept
  <2>1. Answered(c, e).op = call[c].op \/ c \notin Screens
    BY RequestTypes DEF Answered, CallRecords
  <2> QED BY <1>1, <1>20, <2>1 DEF Answer
<1>21. ASSUME NEW ran, NextPrompt(c, ran) PROVE Kept
  BY <1>9, <1>20, <1>21 DEF NextPrompt
<1> SUFFICES Kept
  OBVIOUS
<1> HIDE DEF Kept
<1>30. CASE RefuseRequest(c)
  BY <1>20, <1>30 DEF RefuseRequest, Refuse
<1>31. CASE GetPage(c)
  BY <1>20, <1>31 DEF GetPage
<1>32. CASE ListPages(c)
  BY <1>20, <1>32 DEF ListPages
<1>33. CASE AnswerDetail(c)
  BY <1>20, <1>33 DEF AnswerDetail
<1>34. CASE AnswerOnboarding(c)
  BY <1>20, <1>34 DEF AnswerOnboarding
<1>35. CASE FreezeJob(c)
  BY <1>20, <1>35 DEF FreezeJob
<1>36. CASE StoreSample(c)
  BY <1>20, <1>36 DEF StoreSample, Refuse
<1>37. CASE ReadForCreate(c)
  BY <1>3, <1>37 DEF ReadForCreate
<1>38. CASE FindForRegister(c)
  BY <1>5, <1>38 DEF FindForRegister
<1>39. CASE UpsertPage(c)
  BY <1>2, <1>39 DEF UpsertPage, Goto
<1>40. CASE ReadActive(c)
  BY <1>4, <1>40 DEF ReadActive
<1>41. CASE NumberVersion(c)
  BY <1>6, <1>41 DEF NumberVersion
<1>42. CASE CreateVersion(c)
  BY <1>8, <1>20, <1>42 DEF CreateVersion, Refuse
<1>43. CASE ActivateVersion(c)
  BY <1>2, <1>43 DEF ActivateVersion, Goto
<1>44. CASE UpdateFlags(c)
  BY <1>2, <1>44 DEF UpdateFlags, Goto
<1>45. CASE CheckActivation(c)
  BY <1>7, <1>20, <1>45 DEF CheckActivation, Refuse
<1>46. CASE ReadForJob(c)
  BY <1>3, <1>20, <1>46 DEF ReadForJob, Refuse
<1>47. CASE IdentifyForJob(c)
  BY <1>6, <1>47 DEF IdentifyForJob
<1>48. CASE ReadForSample(c)
  BY <1>3, <1>48 DEF ReadForSample
<1>49. CASE ReadSample(c)
  BY <1>10, <1>20, <1>49 DEF ReadSample, Refuse
<1>50. CASE IdentifyForPreview(c)
  BY <1>2, <1>50 DEF IdentifyForPreview, Goto
<1>51. CASE ProbeService(c)
  BY <1>21, <1>6, <1>51 DEF ProbeService, Refuse
<1>52. CASE AnalyseSample(c)
  BY <1>21, <1>20, <1>52 DEF AnalyseSample, Refuse
<1> QED
  BY <1>30, <1>31, <1>32, <1>33, <1>34, <1>35, <1>36, <1>37, <1>38, <1>39, <1>40, <1>41,
     <1>42, <1>43, <1>44, <1>45, <1>46, <1>47, <1>48, <1>49, <1>50, <1>51, <1>52
     DEF Handle

(* The draft is filled with a version.                                     *)
LEMMA FilledHolds ==
  ASSUME RowsTyped, NEW w, WorkspaceHolds(w), NEW id \in Nat, id <= Len(versions)
  PROVE  WorkspaceHolds(Filled(w, id))
<1>1. DraftOf(id) \in [prompt : Texts, etl : Etls, notes : {Blank, Note}]
  <2>1. CASE id = 0
    BY <2>1, WorkspaceConstants DEF DraftOf, Texts
  <2>2. CASE id # 0
    <3>1. versions[id] \in VersionRows
      BY <2>2 DEF RowsTyped
    <3> QED BY <2>2, <3>1 DEF DraftOf, VersionRows, Texts
  <2> QED BY <2>1, <2>2
<1>2. w \in Workspaces
  BY DEF WorkspaceHolds
<1>3. Filled(w, id) \in Workspaces /\ Filled(w, id).page = w.page
  BY <1>1, <1>2 DEF Filled, Workspaces
<1> QED BY <1>3 DEF WorkspaceHolds

(* The version a page is opened with is one of its own, or none.           *)
LEMMA ActiveOrLatestHolds ==
  ASSUME RowsTyped, NEW d \in Details, DetailHolds(d)
  PROVE  ActiveOrLatest(d) \in Nat /\ ActiveOrLatest(d) <= Len(versions)
<1> PICK S : S = ListedVersions(d)
  OBVIOUS
<1>1. Len(versions) \in Nat /\ DOMAIN versions = 1 .. Len(versions)
  BY DEF RowsTyped
<1>2. S \in SUBSET (0 .. Len(versions))
  BY <1>1 DEF ListedVersions, VersionsOf
<1>3. S # {} => Max(S) \in S
  BY <1>1, <1>2, GreatestExists
<1>4. Latest(S) \in 0 .. Len(versions)
  BY <1>1, <1>2, <1>3 DEF Latest
<1>5. d.active \in 0 .. Len(versions)
  BY <1>1, <1>2 DEF DetailHolds
<1> QED BY <1>1, <1>4, <1>5 DEF ActiveOrLatest

(* The workspace bound to a page that was shown.                           *)
LEMMA BoundHolds ==
  ASSUME RowsTyped, NEW w, WorkspaceHolds(w), NEW d \in Details, DetailHolds(d)
  PROVE  WorkspaceHolds(Bound(w, d))
<1>1. ActiveOrLatest(d) \in Nat
  BY ActiveOrLatestHolds
<1>2. w \in Workspaces /\ d.page \in Pages \cup {NoPage} /\ d.analysis \in BOOLEAN
  BY DEF WorkspaceHolds, Details
<1>3. Bound(w, d) \in Workspaces /\ Bound(w, d).page = d.page
  BY <1>1, <1>2 DEF Bound, Workspaces
<1> QED BY <1>3 DEF WorkspaceHolds, DetailHolds

(* A workspace reconciled with the list is bound to a page of the list.    *)
LEMMA ReconciledHolds ==
  ASSUME NEW w \in Workspaces, NEW pages, \A p \in pages : p \in Pages /\ Known(p)
  PROVE  /\ WorkspaceHolds(Reconciled(w, pages))
         /\ Reconciled(w, pages).etl = w.etl /\ Reconciled(w, pages).prompt = w.prompt
<1> PICK wanted : wanted = IF w.pancake # NoPage THEN w.pancake ELSE w.page
  OBVIOUS
<1> PICK p : p = IF wanted \in pages THEN wanted ELSE NoPage
  OBVIOUS
<1>1. Reconciled(w, pages) = [w EXCEPT !.page = p]
  BY DEF Reconciled
<1>2. p \in Pages \cup {NoPage} /\ (p = NoPage \/ Known(p))
  OBVIOUS
<1>3. /\ [w EXCEPT !.page = p] \in Workspaces /\ [w EXCEPT !.page = p].page = p
      /\ [w EXCEPT !.page = p].etl = w.etl /\ [w EXCEPT !.page = p].prompt = w.prompt
  BY <1>2 DEF Workspaces
<1> QED BY <1>1, <1>2, <1>3 DEF WorkspaceHolds

(* What a handler refreshes is fresh.                                      *)
Fresh(w, s, x) ==
  /\ s.key # 0 /\ ~s.stale => s.mark = <<w.etl, s.judged>>
  /\ x.key # 0 /\ x.mark # Null => x.mark = <<w.prompt, s.key>>

(* A refresh leaves evidence that is fresh for the draft it was made with. *)
LEMMA RefreshFreshens ==
  ASSUME NEW w \in Workspaces, NEW s \in SampleViews, NEW x \in Comparisons,
         x.key # 0 /\ x.mark # Null => s.key # 0, Refresh(w, s, x)
  PROVE  /\ EvidenceTyped' /\ Fresh(w, sample', comparison')
         /\ comparison'.key # 0 /\ comparison'.mark # Null => sample'.key # 0
<1> PICK stale : stale = StaleSample(w, s)
  OBVIOUS
<1>1. stale \in BOOLEAN
  BY DEF StaleSample
<1>2. sample' = [s EXCEPT !.stale = stale, !.judged = w.limit] /\ w.limit \in Limits
  BY DEF Refresh, Workspaces
<1>3. /\ sample' \in SampleViews /\ sample'.key = s.key /\ sample'.mark = s.mark
      /\ sample'.stale = stale /\ sample'.judged = w.limit
  BY <1>1, <1>2 DEF SampleViews
<1>4. NoComparison \in Comparisons /\ NoComparison.key = 0
  BY DEF NoComparison, Comparisons, Texts
<1>5. comparison' = NoComparison \/ (comparison' = x /\ ~StaleComparison(w, s, x))
  BY DEF Refresh
<1>6. EvidenceTyped'
  BY <1>3, <1>4, <1>5 DEF EvidenceTyped
<1>7. Fresh(w, sample', comparison')
  <2>1. sample'.key # 0 /\ ~sample'.stale => sample'.mark = <<w.etl, sample'.judged>>
    BY <1>3 DEF StaleSample, SampleMark
  <2>2. comparison'.key # 0 /\ comparison'.mark # Null =>
          comparison'.mark = <<w.prompt, sample'.key>>
    BY <1>3, <1>4, <1>5 DEF StaleComparison
  <2> QED BY <2>1, <2>2 DEF Fresh
<1>8. comparison'.key # 0 /\ comparison'.mark # Null => sample'.key # 0
  BY <1>3, <1>4, <1>5
<1> QED BY <1>6, <1>7, <1>8

(* No evidence is fresh.                                                   *)
LEMMA NoEvidenceTypes ==
  /\ NoEvidence \in SampleViews /\ NoComparison \in Comparisons
  /\ NoEvidence.key = 0 /\ NoComparison.key = 0
<1>1. DefaultLimit \in Limits /\ EmptyEtl \in Etls
  BY WorkspaceConstants DEF DefaultLimit
<1> QED BY <1>1 DEF NoEvidence, NoComparison, SampleViews, Comparisons, Texts

(* Nothing is a task too, and so is what a handler starts with.            *)
LEMMA TaskTypes ==
  /\ NoTask \in Tasks /\ NoTask.id = 0 /\ NoTask.kind = "none"
  /\ \A k \in Kinds : Task(k) \in Tasks /\ Task(k).id = 0 /\ Task(k).kind = k
<1>1. DefaultLimit \in Limits
  BY WorkspaceConstants DEF DefaultLimit
<1>2. NoTask \in Tasks /\ NoTask.id = 0 /\ NoTask.kind = "none"
  BY <1>1 DEF NoTask, Tasks, Kinds
<1> QED BY <1>2, Zenon DEF Task, Tasks, NoTask

(* A draft that is refreshed against the evidence it had.                  *)
LEMMA RefreshKeeps ==
  ASSUME EvidenceTyped, EvidenceFresh, ws' \in Workspaces, Refresh(ws', sample, comparison)
  PROVE  EvidenceTyped' /\ EvidenceFresh'
<1>1. sample \in SampleViews /\ comparison \in Comparisons
      /\ (comparison.key # 0 /\ comparison.mark # Null => sample.key # 0)
  BY DEF EvidenceTyped, EvidenceFresh
<1>2. /\ EvidenceTyped' /\ Fresh(ws', sample', comparison')
      /\ comparison'.key # 0 /\ comparison'.mark # Null => sample'.key # 0
  BY <1>1, RefreshFreshens
<1> QED BY <1>2 DEF Fresh, EvidenceFresh

(* A draft whose prompt and rules stay, with the evidence.                 *)
LEMMA EvidenceStays ==
  ASSUME EvidenceTyped, EvidenceFresh, UNCHANGED <<evidence, source>>,
         ws'.prompt = ws.prompt, ws'.etl = ws.etl
  PROVE  EvidenceTyped' /\ EvidenceFresh'
BY DEF EvidenceTyped, EvidenceFresh, evidence

(* A page is bound: the draft, the page shown, and no evidence.            *)
LEMMA BindHolds ==
  ASSUME RowsTyped, WorkspaceHolds(ws), NEW d \in Details, DetailHolds(d), NEW hydrate \in BOOLEAN,
         Bind(d, hydrate)
  PROVE  /\ WorkspaceHolds(ws') /\ detail' = d
         /\ EvidenceTyped' /\ EvidenceFresh'
<1> PICK w : w = Bound(ws, d)
  OBVIOUS
<1> PICK id : id = ActiveOrLatest(d)
  OBVIOUS
<1>1. WorkspaceHolds(w)
  BY BoundHolds
<1>2. id \in Nat /\ id <= Len(versions)
  BY ActiveOrLatestHolds
<1>3. WorkspaceHolds(Filled(w, id))
  BY <1>1, <1>2, FilledHolds
<1>4. detail' = d /\ ws' \in {w, Filled(w, id)} /\ Refresh(ws', NoEvidence, NoComparison)
  BY DEF Bind, Hydrate
<1>5. /\ EvidenceTyped' /\ Fresh(ws', sample', comparison')
      /\ comparison'.key # 0 /\ comparison'.mark # Null => sample'.key # 0
  <2>1. NoComparison.key # 0 /\ NoComparison.mark # Null => NoEvidence.key # 0
    BY NoEvidenceTypes
  <2>2. ws' \in Workspaces
    BY <1>1, <1>3, <1>4 DEF WorkspaceHolds
  <2> QED BY <1>4, <2>1, <2>2, NoEvidenceTypes, RefreshFreshens
<1> QED BY <1>1, <1>3, <1>4, <1>5 DEF Fresh, EvidenceFresh

(* What is shown stays true when the rows grow, or do not change.          *)
LEMMA ShownGrows ==
  ASSUME RowInv, RowInv', RowsGrow, WorkspaceHolds(ws), ShownHolds, UNCHANGED <<ws, detail, listed>>
  PROVE  ShownHolds'
<1>1. RowsTyped /\ RowsTyped' /\ \A p \in Pages : Known(p) => Known(p)'
  BY DEF RowInv, RowsGrow
<1>2. WorkspaceHolds(ws)'
  BY <1>1 DEF WorkspaceHolds, Workspaces, Known
<1>3. DetailHolds(detail)'
  <2> PICK d : d = detail
    OBVIOUS
  <2>1. DetailHolds(d)'
    BY <1>1, VersionsGrow DEF ShownHolds
  <2> QED BY <2>1
<1> QED BY <1>1, <1>2, <1>3 DEF ShownHolds

(* What the screen itself changes, while the rows stay.                    *)
LEMMA ShownHere ==
  ASSUME UNCHANGED rowVars, WorkspaceHolds(ws'), detail' \in Details, DetailHolds(detail'),
         \A p \in listed' : p \in Pages /\ Known(p)
  PROVE  ShownHolds'
BY DEF ShownHolds, WorkspaceHolds, DetailHolds, ListedVersions, VersionsOf, Known, rowVars

(* The operator edits.                                                     *)
LEMMA EditStep ==
  ASSUME IInv, EditDraft \/ ReadDraft \/ ChoosePage \/ UseVersion
  PROVE  IInv'
<1>0. /\ RowInv /\ CallsHold /\ ShownHolds /\ EvidenceTyped /\ TasksHold /\ EvidenceFresh
      /\ RowsTyped /\ WorkspaceHolds(ws) /\ ws \in Workspaces
      /\ detail \in Details /\ DetailHolds(detail) /\ detail.upTo \in Nat
  BY DEF IInv, ScreenInv, ShownHolds, WorkspaceHolds, RowInv, Details
<1>1. UNCHANGED <<controlVars, detail, listed, task>>
  BY DEF EditDraft, ReadDraft, ChoosePage, UseVersion, EditTo
<1>2. RowInv' /\ CallsHold' /\ UNCHANGED rowVars
  <2>1. RowInv' /\ RowsGrow /\ UNCHANGED rowVars
    <3>1. samples' \subseteq SampleRows /\ samples' = samples /\ clock' \in Nat /\ clock <= clock'
          /\ release' \in Nat /\ spent' \in [DOMAIN Budget -> Nat] /\ UNCHANGED rowVars
      BY <1>0, <1>1 DEF RowsTyped, controlVars, envVars
    <3> QED BY <1>0, <3>1, QuietRows
  <2>2. ASSUME NEW c \in Clients PROVE CallHolds(call[c])'
    <3> PICK q : q = call[c]
      OBVIOUS
    <3>1. CallHolds(q)'
      BY <1>0, <2>1, CallGrows DEF CallsHold, RowInv
    <3> QED BY <1>1, <3>1 DEF controlVars
  <2> QED BY <1>0, <1>1, <2>1, <2>2 DEF CallsHold, controlVars
<1>3. TasksHold'
  BY <1>0, <1>1 DEF TasksHold, controlVars, rowVars
<1>4. ASSUME WorkspaceHolds(ws') PROVE ShownHolds'
  BY <1>0, <1>1, <1>2, <1>4, ShownHere DEF ShownHolds
<1>5. CASE EditDraft
  <2>1. WorkspaceHolds(ws')
    <3>1. \A t \in Prompts : WorkspaceHolds([ws EXCEPT !.prompt = t])
      BY <1>0 DEF WorkspaceHolds, Workspaces, Texts
    <3>2. \A e \in Etls : WorkspaceHolds([ws EXCEPT !.etl = e])
      BY <1>0 DEF WorkspaceHolds, Workspaces
    <3>3. WorkspaceHolds([ws EXCEPT !.notes = Note])
      BY <1>0 DEF WorkspaceHolds, Workspaces
    <3>4. WorkspaceHolds([ws EXCEPT !.activate = ~@])
      BY <1>0 DEF WorkspaceHolds, Workspaces
    <3>5. \A id \in ListedVersions(detail) : WorkspaceHolds([ws EXCEPT !.version = id])
      <4>1. ListedVersions(detail) \subseteq Nat
        BY <1>0 DEF ListedVersions, VersionsOf, RowsTyped
      <4>2. \A id \in Nat : WorkspaceHolds([ws EXCEPT !.version = id])
        BY <1>0 DEF WorkspaceHolds, Workspaces
      <4> QED BY <4>1, <4>2
    <3> QED BY <1>5, <3>1, <3>2, <3>3, <3>4, <3>5 DEF EditDraft, EditTo
  <2>2. EvidenceTyped' /\ EvidenceFresh'
    BY <1>0, <1>5, <2>1, RefreshKeeps DEF EditDraft, WorkspaceHolds
  <2> QED BY <1>2, <1>3, <1>4, <2>1, <2>2 DEF IInv, ScreenInv
<1>6. CASE ChoosePage
  <2>1. WorkspaceHolds(ws') /\ ws'.etl = ws.etl /\ ws'.prompt = ws.prompt
    <3>1. ASSUME NEW p \in listed, ws' = [ws EXCEPT !.page = p]
          PROVE  WorkspaceHolds(ws') /\ ws'.etl = ws.etl /\ ws'.prompt = ws.prompt
      <4>1. p \in Pages /\ Known(p)
        BY <1>0 DEF ShownHolds
      <4> QED BY <1>0, <3>1, <4>1 DEF WorkspaceHolds, Workspaces
    <3>2. ASSUME NEW p \in Pages, ws' = Reconciled([ws EXCEPT !.pancake = p], listed)
          PROVE  WorkspaceHolds(ws') /\ ws'.etl = ws.etl /\ ws'.prompt = ws.prompt
      <4> PICK w : w = [ws EXCEPT !.pancake = p]
        OBVIOUS
      <4>1. w \in Workspaces /\ w.etl = ws.etl /\ w.prompt = ws.prompt
        BY <1>0 DEF Workspaces
      <4> QED BY <1>0, <3>2, <4>1, ReconciledHolds DEF ShownHolds
    <3>3. ASSUME NEW n \in Limits, ws' = Reconciled([ws EXCEPT !.limit = n], listed)
          PROVE  WorkspaceHolds(ws') /\ ws'.etl = ws.etl /\ ws'.prompt = ws.prompt
      <4> PICK w : w = [ws EXCEPT !.limit = n]
        OBVIOUS
      <4>1. w \in Workspaces /\ w.etl = ws.etl /\ w.prompt = ws.prompt
        BY <1>0 DEF Workspaces
      <4> QED BY <1>0, <3>3, <4>1, ReconciledHolds DEF ShownHolds
    <3> QED BY <1>6, <3>1, <3>2, <3>3 DEF ChoosePage, EditTo
  <2>2. EvidenceTyped' /\ EvidenceFresh'
    BY <1>0, <1>6, <2>1, EvidenceStays DEF ChoosePage
  <2> QED BY <1>2, <1>3, <1>4, <2>1, <2>2 DEF IInv, ScreenInv
<1>7. CASE UseVersion
  <2>1. ws.version \in Nat /\ ws.version <= Len(versions)
    BY <1>0, <1>7 DEF UseVersion, ListedVersions, VersionsOf, RowsTyped
  <2>2. ws' = Filled(ws, ws.version) /\ Refresh(ws', sample, comparison)
    BY <1>7 DEF UseVersion, Hydrate
  <2>3. WorkspaceHolds(ws')
    BY <1>0, <2>1, <2>2, FilledHolds
  <2>4. EvidenceTyped' /\ EvidenceFresh'
    BY <1>0, <2>2, <2>3, RefreshKeeps DEF WorkspaceHolds
  <2> QED BY <1>2, <1>3, <1>4, <2>3, <2>4 DEF IInv, ScreenInv
<1>8. CASE ReadDraft
  <2>1. ws' = ws /\ source' = source /\ Refresh(ws', sample, comparison)
    BY <1>8 DEF ReadDraft, draftVars
  <2>2. EvidenceTyped' /\ EvidenceFresh'
    BY <1>0, <2>1, RefreshKeeps
  <2> QED BY <1>0, <1>2, <1>3, <1>4, <2>1, <2>2 DEF IInv, ScreenInv, WorkspaceHolds, Known, rowVars
<1> QED BY <1>5, <1>6, <1>7, <1>8

(* A handler begins.                                                       *)
LEMMA BeginStep ==
  ASSUME IInv, NEW c \in Screens, NEW op \in Operations, NEW p \in Pages \cup {NoPage},
         NEW in \in Inputs, NEW t \in Tasks, op \in {"register", "onboard"} => p \in Pages,
         op = "preview" => in.prompt \in Texts, t.id = 0,
         t.kind = "save" => op = "create", t.kind = "preview" => op = "preview",
         Begin(c, op, p, in, t), Stay \/ Synced
  PROVE  IInv'
<1>0. /\ RowInv /\ CallsHold /\ ShownHolds /\ EvidenceTyped /\ TasksHold /\ EvidenceFresh
      /\ RowsTyped /\ WorkspaceHolds(ws) /\ c \in Clients /\ Len(versions) \in Nat
  <2>1. c \in Clients
    BY ConfigConstants
  <2>2. Len(versions) \in Nat
    BY DEF IInv, RowInv, RowsTyped
  <2> QED BY <2>1, <2>2 DEF IInv, ScreenInv, ShownHolds, RowInv
<1>1. spent' \in [DOMAIN Budget -> Nat] /\ Send(c, op, p, in)
  <2> PICK kind : kind = Kind(c, op)
    OBVIOUS
  <2>1. spent' = [spent EXCEPT ![kind] = @ + 1] /\ Send(c, op, p, in)
    BY DEF Begin, Request
  <2>2. spent \in [DOMAIN Budget -> Nat]
    BY <1>0 DEF RowsTyped
  <2>3. \A k \in DOMAIN Budget : spent[k] + 1 \in Nat
    BY <2>2
  <2> QED BY <2>1, <2>2, <2>3
<1>2. /\ RowInv' /\ CallsHold' /\ RowsGrow /\ UNCHANGED rowVars
      /\ call'[c].op = op /\ \A d \in Clients : d # c => call'[d] = call[d]
  BY <1>0, <1>1, RequestSent
<1>3. TasksHold'
  <2>1. task' = [task EXCEPT ![c] = t]
    BY DEF Begin
  <2>2. task' \in [Screens -> Tasks] /\ task'[c] = t
        /\ \A d \in Screens : d # c => task'[d] = task[d]
    BY <1>0, <2>1 DEF TasksHold
  <2> QED BY <1>0, <1>2, <2>2, ConfigConstants DEF TasksHold, rowVars
<1>4. UNCHANGED <<draftVars, detail, listed>>
  BY DEF Begin, Stay, Synced
<1>5. ShownHolds'
  BY <1>0, <1>2, <1>4, ShownGrows DEF draftVars
<1>6. EvidenceTyped' /\ EvidenceFresh'
  <2>1. CASE Stay
    BY <1>0, <2>1, EvidenceStays DEF Stay, draftVars
  <2>2. CASE Synced
    BY <1>0, <1>4, <2>2, RefreshKeeps DEF Synced, draftVars, WorkspaceHolds
  <2> QED BY <2>1, <2>2
<1> QED BY <1>2, <1>3, <1>5, <1>6 DEF IInv, ScreenInv

(* Each handler begins with a request of its kind.                         *)
LEMMA StartStep == ASSUME IInv, NEW c \in Screens, Start(c) PROVE IInv'
<1>0. /\ ws \in Workspaces /\ detail \in Details /\ sample \in SampleViews
      /\ \A p \in listed : p \in Pages
  BY DEF IInv, ScreenInv, ShownHolds, WorkspaceHolds, EvidenceTyped
<1>1. /\ ws.page \in Pages \cup {NoPage} /\ ws.pancake \in Pages \cup {NoPage}
      /\ detail.page \in Pages \cup {NoPage} /\ sample.key \in Nat /\ ws.version \in Nat
      /\ ws.prompt \in Texts /\ ws.etl \in Etls /\ ws.activate \in BOOLEAN
  BY <1>0 DEF Workspaces, Details, SampleViews
<1>2. \A k \in Kinds : Task(k) \in Tasks /\ Task(k).id = 0 /\ Task(k).kind = k
  BY TaskTypes
<1>3. \A a \in BOOLEAN : DraftInput(ws, a) \in Inputs
  <2>1. NullWhenBlank(ws.notes) \in {Note, Unset, Null, Blank}
    BY <1>0 DEF NullWhenBlank, Workspaces
  <2> QED BY <1>0, <1>1, <2>1, RequestTypes DEF DraftInput, Inputs, Workspaces
<1>4. \A a \in BOOLEAN : RegisterInput(ws, a) \in Inputs
  <2>1. [NoInput EXCEPT !.prompt = Null, !.notes = Null, !.activate = TRUE,
                        !.analysis = ws.analysis] \in Inputs
    BY <1>0, RequestTypes DEF Inputs, Workspaces
  <2> QED BY <1>3, <2>1 DEF RegisterInput
<1>5. CASE LoadConnectedPage(c)
  <2>1. Task("load") \in Tasks /\ Task("load").id = 0 /\ Task("load").kind = "load"
    BY <1>2 DEF Kinds
  <2> QED BY <1>1, <1>5, <2>1, BeginStep, RequestTypes DEF LoadConnectedPage, Operations
<1>6. ASSUME NEW apply \in BOOLEAN, RegisterPage(c, apply) PROVE IInv'
  <2> DEFINE t == [Task("register") EXCEPT !.apply = apply, !.keep = HasConfiguredDraft(ws)]
  <2>1. t \in Tasks /\ t.id = 0 /\ t.kind = "register"
    BY ZenonT(60), <1>2 DEF Kinds, Tasks, HasConfiguredDraft
  <2>2. ws.pancake \in Pages
    BY <1>1, <1>6 DEF RegisterPage
  <2>3. Begin(c, "register", ws.pancake, RegisterInput(ws, apply), t) /\ (Stay \/ Synced)
    BY <1>6 DEF RegisterPage
  <2> HIDE DEF t
  <2> QED BY <1>4, <2>1, <2>2, <2>3, BeginStep DEF Operations
<1>7. CASE SaveDraft(c)
  <2>1. CASE ws.page = NoPage
    BY <1>6, <1>7, <2>1 DEF SaveDraft
  <2>2. CASE ws.page # NoPage
    <3>1. Task("save") \in Tasks /\ Task("save").id = 0 /\ Task("save").kind = "save"
      BY <1>2 DEF Kinds
    <3>2. Begin(c, "create", ws.page, DraftInput(ws, ws.activate), Task("save")) /\ Synced
      BY <1>7, <2>2 DEF SaveDraft
    <3> QED BY <1>1, <1>3, <3>1, <3>2, BeginStep DEF Operations
  <2> QED BY <2>1, <2>2
<1>8. CASE ActivateSelected(c)
  <2>1. Task("activate") \in Tasks /\ Task("activate").id = 0 /\ Task("activate").kind = "activate"
    BY <1>2 DEF Kinds
  <2>2. [NoInput EXCEPT !.id = ws.version] \in Inputs
    BY <1>1, RequestTypes DEF Inputs
  <2> QED BY <1>1, <1>8, <2>1, <2>2, BeginStep DEF ActivateSelected, Operations
<1>9. CASE LoadSample(c)
  <2> DEFINE t == [Task("sample") EXCEPT !.limit = ws.limit]
             in == [NoInput EXCEPT !.etl = ws.etl]
  <2>1. t \in Tasks /\ t.id = 0 /\ t.kind = "sample"
    <3>1. ws.limit \in Limits
      BY <1>0 DEF Workspaces
    <3> QED BY <1>2, <3>1 DEF Kinds, Tasks
  <2>2. in \in Inputs
    BY <1>1, RequestTypes DEF Inputs
  <2>3. Begin(c, "sample", detail.page, in, t) /\ Synced
    BY <1>9 DEF LoadSample
  <2> HIDE DEF t, in
  <2> QED BY <1>1, <2>1, <2>2, <2>3, BeginStep DEF Operations
<1>10. CASE RunPreview(c)
  <2> DEFINE t == [Task("preview") EXCEPT !.key = sample.key]
             in == [NoInput EXCEPT !.prompt = ws.prompt, !.id = sample.key]
  <2>1. t \in Tasks /\ t.id = 0 /\ t.kind = "preview"
    BY <1>1, <1>2 DEF Kinds, Tasks
  <2>2. in \in Inputs /\ in.prompt = ws.prompt
    BY <1>1, RequestTypes DEF Inputs
  <2>3. Begin(c, "preview", detail.page, in, t) /\ Synced
    BY <1>10 DEF RunPreview
  <2> HIDE DEF t, in
  <2> QED BY <1>1, <2>1, <2>2, <2>3, BeginStep DEF Operations
<1>11. CASE ClonePromptFromPage(c)
  <2>1. Task("clone") \in Tasks /\ Task("clone").id = 0 /\ Task("clone").kind = "clone"
    BY <1>2 DEF Kinds
  <2>2. PICK p \in listed : Begin(c, "get", p, NoInput, Task("clone")) /\ Synced
    BY <1>11 DEF ClonePromptFromPage
  <2>3. p \in Pages \cup {NoPage} /\ NoInput \in Inputs /\ "get" \in Operations
    BY <1>0, RequestTypes DEF Operations
  <2> QED BY <2>1, <2>2, <2>3, BeginStep
<1>12. CASE LoadOnboardingSample(c)
  <2>1. Task("onboard") \in Tasks /\ Task("onboard").id = 0 /\ Task("onboard").kind = "onboard"
    BY <1>2 DEF Kinds
  <2>2. ws.pancake \in Pages
    BY <1>1, <1>12 DEF LoadOnboardingSample
  <2> QED BY <1>12, <2>1, <2>2, BeginStep, RequestTypes DEF LoadOnboardingSample, Operations
<1> QED
  BY <1>5, <1>6, <1>7, <1>8, <1>9, <1>10, <1>11, <1>12 DEF Start

(* A handler ends, with its request.                                       *)
LEMMA FinishStep ==
  ASSUME IInv, NEW c \in Screens, Finish(c)
  PROVE  RowInv' /\ CallsHold' /\ RowsGrow /\ TasksHold' /\ UNCHANGED rowVars
<1>0. RowInv /\ CallsHold /\ TasksHold /\ RowsTyped /\ Len(versions) \in Nat
  <2>1. Len(versions) \in Nat
    BY DEF IInv, RowInv, RowsTyped
  <2> QED BY <2>1 DEF IInv, ScreenInv, RowInv
<1>1. c \in Clients
  BY ConfigConstants
<1>2. UNCHANGED <<rowVars, samples, envVars, spent>> /\ Move(c, Idle)
  BY DEF Finish, Move
<1>3. RowInv' /\ RowsGrow
  <2>1. samples' \subseteq SampleRows /\ samples' = samples /\ clock' \in Nat /\ clock <= clock'
        /\ release' \in Nat /\ spent' \in [DOMAIN Budget -> Nat]
    BY <1>0, <1>2 DEF RowsTyped, envVars
  <2> QED BY <1>0, <1>2, <2>1, QuietRows
<1>4. CallHolds(Idle)'
  <2> PICK r : r = Idle
    OBVIOUS
  <2>1. CallHolds(r)'
    BY <1>0, <1>3, CallGrows, IdleHolds DEF RowInv
  <2> QED BY <2>1
<1>5. CallsHold'
  <2> PICK r : r = Idle
    OBVIOUS
  <2>1. Move(c, r) /\ CallHolds(r)'
    BY <1>2, <1>4
  <2> QED BY <1>0, <1>1, <1>3, <2>1, CallsMove
<1>6. TasksHold'
  <2>1. task' = [task EXCEPT ![c] = NoTask] /\ call' = [call EXCEPT ![c] = Idle]
    BY DEF Finish
  <2>2. NoTask \in Tasks /\ NoTask.id = 0 /\ NoTask.kind = "none"
    BY TaskTypes
  <2>3. /\ task' \in [Screens -> Tasks] /\ task'[c] = NoTask
        /\ \A d \in Screens : d # c => task'[d] = task[d]
    BY <1>0, <2>1, <2>2 DEF TasksHold
  <2>4. \A d \in Clients : d # c => call'[d] = call[d]
    BY <1>0, <2>1 DEF CallsHold
  <2> QED BY <1>0, <1>2, <2>2, <2>3, <2>4, ConfigConstants DEF TasksHold, rowVars
<1> QED BY <1>2, <1>3, <1>5, <1>6

(* A handler that goes on with another request: its answer was read, and   *)
(* the task stays a task.                                                  *)
LEMMA SendOnStep ==
  ASSUME IInv, NEW c \in Screens, NEW op \in {"get", "list"}, NEW p \in Pages \cup {NoPage},
         UNCHANGED spent, Send(c, op, p, NoInput), NEW t \in Tasks,
         t.kind \in {"list", "saved"}, t.id <= Len(versions), task' = [task EXCEPT ![c] = t]
  PROVE  RowInv' /\ CallsHold' /\ RowsGrow /\ TasksHold' /\ UNCHANGED rowVars
<1>0. RowInv /\ CallsHold /\ TasksHold /\ RowsTyped
  BY DEF IInv, ScreenInv, RowInv
<1>1. c \in Clients /\ op \in Operations
  BY ConfigConstants DEF Operations
<1>2. spent' \in [DOMAIN Budget -> Nat]
  BY <1>0 DEF RowsTyped
<1>3. /\ RowInv' /\ CallsHold' /\ RowsGrow /\ UNCHANGED rowVars
      /\ call'[c].op = op /\ \A d \in Clients : d # c => call'[d] = call[d]
  BY <1>0, <1>1, <1>2, RequestSent, RequestTypes
<1>4. /\ task' \in [Screens -> Tasks] /\ task'[c] = t
      /\ \A d \in Screens : d # c => task'[d] = task[d]
  BY <1>0 DEF TasksHold
<1>5. TasksHold'
  BY <1>0, <1>3, <1>4, ConfigConstants DEF TasksHold, rowVars
<1> QED BY <1>3, <1>5

(* The rest of each handler, when its answer is there.                     *)
LEMMA ResumeStep == ASSUME IInv, NEW c \in Screens, Resume(c) PROVE IInv'
<1> PICK e : e = call[c].out
  OBVIOUS
<1>0. /\ RowInv /\ CallsHold /\ ShownHolds /\ EvidenceTyped /\ TasksHold /\ EvidenceFresh
      /\ RowsTyped /\ WorkspaceHolds(ws) /\ c \in Clients
      /\ ws \in Workspaces /\ detail \in Details /\ DetailHolds(detail)
      /\ \A p \in listed : p \in Pages /\ Known(p)
  BY ConfigConstants DEF IInv, ScreenInv, ShownHolds, RowInv, WorkspaceHolds
<1>1. /\ CallHolds(call[c]) /\ call[c] \in CallRecords /\ e \in Replies
      /\ e.detail \in Details /\ DetailHolds(e.detail) /\ e.id \in Nat
      /\ \A p \in e.pages : p \in Pages /\ Known(p)
  BY <1>0 DEF CallsHold, CallHolds, CallRecords, Replies, ReplyHolds
<1>2. /\ task[c] \in Tasks /\ task[c].id <= Len(versions) /\ task[c].id \in Nat
      /\ task[c].key \in Nat /\ task[c].keep \in BOOLEAN
      /\ task[c].kind = "save" => call[c].op = "create"
      /\ task[c].kind = "preview" => call[c].op = "preview"
  BY <1>0 DEF TasksHold, Tasks
<1>3. ASSUME Finish(c) \/ (RowInv' /\ CallsHold' /\ TasksHold' /\ UNCHANGED rowVars),
             WorkspaceHolds(ws'), detail' \in Details, DetailHolds(detail'),
             \A p \in listed' : p \in Pages /\ Known(p), EvidenceTyped', EvidenceFresh'
      PROVE  IInv'
  BY <1>3, FinishStep, ShownHere DEF IInv, ScreenInv
<1>4. CASE ResumeFailed(c)
  <2>1. EvidenceTyped' /\ EvidenceFresh'
    BY <1>0, <1>4, EvidenceStays DEF ResumeFailed, draftVars
  <2> QED BY <1>0, <1>3, <1>4, <2>1 DEF ResumeFailed, draftVars
<1>5. CASE ResumeLoad(c)
  <2>1. Bind(e.detail, TRUE) /\ Finish(c) /\ UNCHANGED listed
    BY <1>5 DEF ResumeLoad
  <2>2. WorkspaceHolds(ws') /\ detail' = e.detail /\ EvidenceTyped' /\ EvidenceFresh'
    BY <1>0, <1>1, <2>1, BindHolds
  <2> QED BY <1>0, <1>1, <1>3, <2>1, <2>2
<1>6. CASE ResumeRegister(c)
  <2>1. /\ UNCHANGED <<spent, listed>> /\ Send(c, "list", NoPage, NoInput)
        /\ task' = [task EXCEPT ![c] = Task("list")] /\ Bind(e.detail, ~task[c].keep)
    BY <1>6 DEF ResumeRegister
  <2>2. Task("list") \in Tasks /\ Task("list").kind = "list" /\ Task("list").id <= Len(versions)
    <3>1. Len(versions) \in Nat
      BY <1>0 DEF RowsTyped
    <3>2. Task("list") \in Tasks /\ Task("list").kind = "list" /\ Task("list").id = 0
      BY TaskTypes DEF Kinds
    <3> QED BY <3>1, <3>2
  <2>3. RowInv' /\ CallsHold' /\ TasksHold' /\ UNCHANGED rowVars
    BY <2>1, <2>2, SendOnStep
  <2>4. WorkspaceHolds(ws') /\ detail' = e.detail /\ EvidenceTyped' /\ EvidenceFresh'
    BY <1>0, <1>1, <2>1, BindHolds
  <2> QED BY <1>0, <1>1, <1>3, <2>1, <2>3, <2>4
<1>7. CASE ResumeList(c)
  <2>1. /\ Finish(c) /\ listed' = e.pages /\ ws' = Reconciled(ws, listed')
        /\ UNCHANGED <<source, evidence, detail>>
    BY <1>7 DEF ResumeList
  <2>2. WorkspaceHolds(ws') /\ ws'.etl = ws.etl /\ ws'.prompt = ws.prompt
    BY <1>0, <1>1, <2>1, ReconciledHolds
  <2>3. EvidenceTyped' /\ EvidenceFresh'
    BY <1>0, <2>1, <2>2, EvidenceStays
  <2> QED BY <1>0, <1>1, <1>3, <2>1, <2>2, <2>3
<1>8. CASE ResumeSave(c)
  <2> DEFINE t == [Task("saved") EXCEPT !.id = e.id]
  <2>1. /\ UNCHANGED <<spent, draftVars, evidence, detail, listed>>
        /\ Send(c, "get", ws.page, NoInput) /\ task' = [task EXCEPT ![c] = t]
        /\ task[c].kind = "save"
    BY <1>8 DEF ResumeSave, Resumes
  <2>2. e.id <= Len(versions)
    BY <1>1, <1>2, <2>1 DEF CallHolds, ReplyHolds
  <2>3. t \in Tasks /\ t.kind = "saved" /\ t.id <= Len(versions)
    <3>1. Task("saved") \in Tasks /\ Task("saved").kind = "saved"
      BY TaskTypes DEF Kinds
    <3> QED BY <1>1, <2>2, <3>1 DEF Tasks
  <2>4. ws.page \in Pages \cup {NoPage}
    BY <1>0 DEF Workspaces
  <2> HIDE DEF t
  <2>5. RowInv' /\ CallsHold' /\ TasksHold' /\ UNCHANGED rowVars
    BY <2>1, <2>3, <2>4, SendOnStep
  <2>6. EvidenceTyped' /\ EvidenceFresh'
    BY <1>0, <2>1, EvidenceStays DEF draftVars
  <2> QED BY <1>0, <1>3, <2>1, <2>5, <2>6 DEF draftVars
<1>9. CASE ResumeSaved(c)
  <2> PICK w : w = [ws EXCEPT !.version = task[c].id]
    OBVIOUS
  <2>1. /\ Finish(c) /\ detail' = e.detail /\ UNCHANGED listed
        /\ \E id \in {e.detail.active, task[c].id} :
             ws' = Filled(w, id) /\ Refresh(ws', sample, comparison)
    BY <1>9 DEF ResumeSaved, Hydrate
  <2>2. WorkspaceHolds(w)
    BY <1>0, <1>2 DEF WorkspaceHolds, Workspaces
  <2>3. e.detail.active \in Nat /\ e.detail.active <= Len(versions)
    BY <1>0, <1>1 DEF DetailHolds, ListedVersions, VersionsOf, RowsTyped, Details
  <2>4. WorkspaceHolds(ws') /\ Refresh(ws', sample, comparison)
    BY <1>0, <1>2, <2>1, <2>2, <2>3, FilledHolds
  <2>5. EvidenceTyped' /\ EvidenceFresh'
    BY <1>0, <2>4, RefreshKeeps DEF WorkspaceHolds
  <2> QED BY <1>0, <1>1, <1>3, <2>1, <2>4, <2>5
<1>10. CASE ResumeActivate(c)
  <2>1. /\ Finish(c) /\ detail' = e.detail /\ UNCHANGED listed
        /\ ws' = Filled(ws, e.detail.active) /\ Refresh(ws', sample, comparison)
    BY <1>10 DEF ResumeActivate, Hydrate
  <2>2. e.detail.active \in Nat /\ e.detail.active <= Len(versions)
    BY <1>0, <1>1 DEF DetailHolds, ListedVersions, VersionsOf, RowsTyped, Details
  <2>3. WorkspaceHolds(ws')
    BY <1>0, <2>1, <2>2, FilledHolds
  <2>4. EvidenceTyped' /\ EvidenceFresh'
    BY <1>0, <2>1, <2>3, RefreshKeeps DEF WorkspaceHolds
  <2> QED BY <1>0, <1>1, <1>3, <2>1, <2>3, <2>4
<1>11. CASE ResumeSample(c)
  <2>1. /\ Finish(c) /\ UNCHANGED <<draftVars, detail, listed>> /\ comparison' = NoComparison
        /\ sample' = [key |-> e.sample.key, page |-> e.sample.page, etl |-> e.sample.etl,
                      limit |-> task[c].limit, mark |-> <<ws.etl, ws.limit>>,
                      judged |-> ws.limit, stale |-> FALSE]
    BY <1>11 DEF ResumeSample, SampleMark
  <2>2. e.sample \in SampleRows /\ ws.etl \in Etls /\ ws.limit \in Limits
        /\ task[c].limit \in Limits
    BY <1>0, <1>1, <1>2 DEF Replies, Workspaces, Tasks
  <2>3. sample' \in SampleViews /\ sample'.mark = <<ws.etl, sample'.judged>>
    BY <2>1, <2>2 DEF SampleRows, SampleViews
  <2>4. EvidenceTyped' /\ EvidenceFresh'
    BY <2>1, <2>3, NoEvidenceTypes DEF EvidenceTyped, EvidenceFresh, draftVars
  <2> QED BY <1>0, <1>3, <2>1, <2>4 DEF draftVars
<1>12. CASE ResumePreview(c)
  <2>1. /\ Finish(c) /\ UNCHANGED <<draftVars, sample, detail, listed>>
        /\ comparison' = [key |-> task[c].key, prompt |-> e.ran[2][1],
                          mark |-> IF sample.key = 0 THEN Null ELSE <<ws.prompt, sample.key>>]
        /\ task[c].kind = "preview" /\ call[c].pc = "answered" /\ e.error = "none"
    BY <1>12 DEF ResumePreview, Resumes
  <2>2. e.ran \in Seq(Outcomes) /\ Len(e.ran) = 2
    BY <1>1, <1>2, <2>1 DEF CallHolds, ReplyHolds, Replies
  <2>3. e.ran[2][1] \in Texts
    <3>1. e.ran[2] \in Outcomes
      BY <2>2
    <3> QED BY <3>1 DEF Outcomes
  <2>4. ws.prompt \in Texts /\ sample.key \in Nat
    BY <1>0 DEF Workspaces, EvidenceTyped, SampleViews
  <2> PICK mark : mark = IF sample.key = 0 THEN Null ELSE <<ws.prompt, sample.key>>
    OBVIOUS
  <2>5. comparison' \in Comparisons /\ comparison'.mark = mark
    BY <1>2, <2>1, <2>3, <2>4 DEF Comparisons
  <2>6. EvidenceTyped' /\ EvidenceFresh'
    BY <1>0, <2>1, <2>5 DEF EvidenceTyped, EvidenceFresh, draftVars
  <2> QED BY <1>0, <1>3, <2>1, <2>6 DEF draftVars
<1>13. CASE ResumeClone(c)
  <2>1. Finish(c) /\ UNCHANGED <<source, detail, listed>>
    BY <1>13 DEF ResumeClone
  <2>2. CASE e.detail.active = 0
    <3>1. UNCHANGED <<ws, evidence>>
      BY <1>13, <2>2 DEF ResumeClone
    <3>2. EvidenceTyped' /\ EvidenceFresh'
      BY <1>0, <2>1, <3>1, EvidenceStays
    <3> QED BY <1>0, <1>3, <2>1, <3>1, <3>2
  <2>3. CASE e.detail.active # 0
    <3>1. /\ ws' = [ws EXCEPT !.prompt = versions[e.detail.active].prompt]
          /\ Refresh(ws', sample, comparison)
      BY <1>13, <2>3 DEF ResumeClone
    <3>2. versions[e.detail.active] \in VersionRows
      BY <1>0, <1>1, <2>3 DEF DetailHolds, ListedVersions, VersionsOf, RowsTyped
    <3>3. WorkspaceHolds(ws')
      BY <1>0, <3>1, <3>2 DEF WorkspaceHolds, Workspaces, VersionRows, Texts
    <3>4. EvidenceTyped' /\ EvidenceFresh'
      BY <1>0, <3>1, <3>3, RefreshKeeps DEF WorkspaceHolds
    <3> QED BY <1>0, <1>3, <2>1, <3>3, <3>4
  <2> QED BY <2>2, <2>3
<1>14. CASE ResumeOnboard(c)
  <2>1. PICK etl \in Etls :
          /\ Finish(c) /\ source' = "onboarding" /\ UNCHANGED <<evidence, detail, listed>>
          /\ ws' = Reconciled([ws EXCEPT !.prompt = Inherit(@, DefaultPrompt), !.etl = etl], listed)
    BY <1>14 DEF ResumeOnboard
  <2> PICK w : w = [ws EXCEPT !.prompt = Inherit(@, DefaultPrompt), !.etl = etl]
    OBVIOUS
  <2>2. Inherit(ws.prompt, DefaultPrompt) \in Texts
    BY <1>0, ConfigConstants DEF Inherit, Workspaces, Texts
  <2>3. w \in Workspaces
    BY <1>0, <2>2 DEF Workspaces
  <2>4. WorkspaceHolds(ws')
    BY <1>0, <2>1, <2>3, ReconciledHolds
  <2>5. EvidenceTyped' /\ EvidenceFresh'
    BY <1>0, <2>1 DEF EvidenceTyped, EvidenceFresh, evidence
  <2> QED BY <1>0, <1>3, <2>1, <2>4, <2>5
<1> QED BY <1>4, <1>5, <1>6, <1>7, <1>8, <1>9, <1>10, <1>11, <1>12, <1>13, <1>14 DEF Resume

(* What others do while the screen waits.                                  *)
LEMMA ScreenWaits ==
  ASSUME IInv, RowInv', CallsHold', RowsGrow, UNCHANGED screenVars,
         \A c \in Screens : call'[c].op = call[c].op
  PROVE  IInv'
<1>1. ShownHolds'
  BY ShownGrows DEF IInv, ScreenInv, ShownHolds, screenVars, draftVars
<1>2. EvidenceTyped' /\ EvidenceFresh'
  BY EvidenceStays DEF IInv, ScreenInv, screenVars, draftVars, evidence
<1>3. TasksHold'
  <2>1. TasksHold /\ task' = task
    BY DEF IInv, ScreenInv, screenVars
  <2>2. Len(versions) \in Nat /\ Len(versions') \in Nat /\ Len(versions) <= Len(versions')
    BY DEF IInv, RowInv, RowsTyped, RowsGrow
  <2>3. \A c \in Screens : task[c].id \in Nat
    BY <2>1 DEF TasksHold, Tasks
  <2>4. \A c \in Screens : task[c].id <= Len(versions')
    BY <2>1, <2>2, <2>3 DEF TasksHold
  <2> QED BY <2>1, <2>4 DEF TasksHold
<1> QED BY <1>1, <1>2, <1>3 DEF IInv, ScreenInv

(* The requests of others, the handlers of the backend, the environment.   *)
LEMMA OthersStep ==
  ASSUME IInv, UNCHANGED screenVars,
         \/ \E c \in Clients \ Screens : OthersRequest(c)
         \/ \E c \in Clients : Handle(c)
         \/ Tick \/ Upgrade \/ Restart
  PROVE  IInv'
<1>0. RowInv /\ CallsHold /\ RowsTyped /\ Screens \subseteq Clients
  BY ConfigConstants DEF IInv, RowInv
<1>1. ASSUME NEW c \in Clients \ Screens, OthersRequest(c) PROVE IInv'
  <2>1. ASSUME NEW op \in {"register", "create", "activate", "execute"}, NEW p \in Pages,
               NEW in \in Inputs, Request(c, op, p, in)
        PROVE  IInv'
    <3>1. op \in Operations /\ op # "preview"
      BY DEF Operations
    <3>2. spent' \in [DOMAIN Budget -> Nat] /\ Send(c, op, p, in)
      <4> PICK kind : kind = Kind(c, op)
        OBVIOUS
      <4>1. spent' = [spent EXCEPT ![kind] = @ + 1] /\ Send(c, op, p, in)
        BY <2>1 DEF Request
      <4>2. spent \in [DOMAIN Budget -> Nat]
        BY <1>0 DEF RowsTyped
      <4>3. \A k \in DOMAIN Budget : spent[k] + 1 \in Nat
        BY <4>2
      <4> QED BY <4>1, <4>2, <4>3
    <3>3. /\ RowInv' /\ CallsHold' /\ RowsGrow
          /\ \A d \in Clients : d # c => call'[d] = call[d]
      BY <1>0, <3>1, <3>2, RequestSent
    <3> QED BY <1>0, <3>3, ScreenWaits
  <2>2. NoInput \in Inputs /\ [NoInput EXCEPT !.activate = TRUE] \in Inputs
    BY RequestTypes DEF Inputs
  <2>3. \A t \in Prompts :
          [NoInput EXCEPT !.prompt = t, !.activate = TRUE, !.analysis = TRUE] \in Inputs
    BY RequestTypes DEF Inputs, Texts
  <2>4. \A id \in DOMAIN versions : [NoInput EXCEPT !.id = id] \in Inputs
    <3>1. \A id \in Nat : [NoInput EXCEPT !.id = id] \in Inputs
      BY RequestTypes DEF Inputs
    <3>2. DOMAIN versions \subseteq Nat
      BY <1>0 DEF RowsTyped
    <3> QED BY <3>1, <3>2
  <2>5. Registered \subseteq Pages
    BY ConfigConstants
  <2>6. CASE \E p \in Pages : Request(c, "register", p, [NoInput EXCEPT !.activate = TRUE])
    BY <2>1, <2>2, <2>6
  <2>7. CASE \E p \in Registered : \E t \in Prompts \ {DefaultPrompt} :
               Request(c, "create", p, [NoInput EXCEPT !.prompt = t, !.activate = TRUE,
                                                       !.analysis = TRUE])
    BY <2>1, <2>3, <2>5, <2>7
  <2>8. CASE \E p \in Registered : \E id \in DOMAIN versions :
               Request(c, "activate", p, [NoInput EXCEPT !.id = id])
    BY <2>1, <2>4, <2>5, <2>8
  <2>9. CASE \E p \in Registered : Request(c, "execute", p, NoInput)
    BY <2>1, <2>2, <2>5, <2>9
  <2> QED BY <1>1, <2>6, <2>7, <2>8, <2>9 DEF OthersRequest
<1>2. ASSUME NEW c \in Clients, Handle(c) PROVE IInv'
  <2>1. RowInv' /\ RowsGrow /\ \E r : CallHolds(r)' /\ Move(c, r)
    BY <1>0, <1>2, HandlerWrites DEF Written
  <2>2. CallsHold'
    BY <1>0, <2>1, CallsMove
  <2>3. \A d \in Screens : call'[d].op = call[d].op
    BY <1>0, <1>2, OperationKept
  <2> QED BY <2>1, <2>2, <2>3, ScreenWaits
<1>3. CASE Tick \/ Upgrade \/ Restart
  BY <1>0, <1>3, EnvironmentStep, ScreenWaits
<1> QED BY <1>1, <1>2, <1>3

(* The invariant is inductive.                                             *)
LEMMA IInvStep == IInv /\ [Next]_vars => IInv'
<1> SUFFICES ASSUME IInv, [Next]_vars PROVE IInv'
  OBVIOUS
<1>1. CASE EditDraft \/ ReadDraft \/ ChoosePage \/ UseVersion
  BY <1>1, EditStep
<1>2. CASE \E c \in Screens : Start(c) \/ Resume(c)
  BY <1>2, StartStep, ResumeStep
<1>3. CASE \/ \E c \in Clients \ Screens : OthersRequest(c) /\ UNCHANGED screenVars
           \/ \E c \in Clients : Handle(c) /\ UNCHANGED screenVars
           \/ (Tick \/ Upgrade \/ Restart) /\ UNCHANGED screenVars
  BY <1>3, OthersStep
<1>4. CASE UNCHANGED vars
  <2>1. UNCHANGED <<rowVars, samples, envVars, call, spent, screenVars>>
    BY <1>4 DEF vars, controlVars
  <2>2. RowInv' /\ RowsGrow
    <3>1. samples' \subseteq SampleRows /\ samples' = samples /\ clock' \in Nat
          /\ clock <= clock' /\ release' \in Nat /\ spent' \in [DOMAIN Budget -> Nat]
      BY <2>1 DEF IInv, RowInv, RowsTyped, envVars
    <3> QED BY <2>1, <3>1, QuietRows DEF IInv
  <2>3. CallsHold'
    <3>1. ASSUME NEW c \in Clients PROVE CallHolds(call[c])'
      <4> PICK q : q = call[c]
        OBVIOUS
      <4>1. CallHolds(q)'
        BY <2>2, CallGrows DEF IInv, RowInv, CallsHold
      <4> QED BY <2>1, <4>1
    <3> QED BY <2>1, <3>1 DEF IInv, CallsHold
  <2> QED BY <2>1, <2>2, <2>3, ScreenWaits
<1> QED BY <1>1, <1>2, <1>3, <1>4 DEF Next

(* The pages registered at the start each have one version.                *)
LEMMA RegisteredListed ==
  LET list == SetToSeq(Registered) n == Cardinality(Registered) IN
  /\ n \in Nat /\ list \in [1 .. n -> Registered]
  /\ \A i, j \in 1 .. n : list[i] = list[j] => i = j
  /\ \A p \in Registered : \E i \in 1 .. n : list[i] = p
<1> DEFINE n == Cardinality(Registered)
           list == SetToSeq(Registered)
<1>1. IsFiniteSet(Registered)
  BY ConfigConstants
<1>2. n \in Nat /\ ExistsBijection(1 .. n, Registered)
  BY <1>1, FS_CardinalityType
<1>3. \E f \in [1 .. n -> Registered] : IsInjective(f)
  BY <1>2 DEF ExistsBijection, Bijection, Injection
<1>4. list \in [1 .. n -> Registered] /\ IsInjective(list)
  BY <1>3 DEF SetToSeq
<1> HIDE DEF list
<1>5. list \in Injection(1 .. n, Registered)
  BY <1>4 DEF Injection
<1>6. Cardinality(1 .. n) = n
  <2>1. Cardinality(1 .. n) = IF 1 > n THEN 0 ELSE n - 1 + 1
    <3>1. 1 \in Int /\ n \in Int
      BY <1>2
    <3> HIDE DEF n
    <3> QED BY <3>1, FS_Interval
  <2> HIDE DEF n
  <2> QED BY <1>2, <2>1
<1>7. list \in Surjection(1 .. n, Registered)
  <2>1. Cardinality(1 .. n) = Cardinality(Registered)
    BY <1>6
  <2> QED BY <1>1, <1>5, <2>1, FS_Injection
<1>8. \A p \in Registered : \E i \in 1 .. n : list[i] = p
  BY <1>7 DEF Surjection
<1>9. \A i, j \in 1 .. n : list[i] = list[j] => i = j
  BY <1>4 DEF IsInjective
<1> QED BY <1>2, <1>4, <1>8, <1>9 DEF list

(* The rows at the start.                                                  *)
LEMMA InitRows ==
  ASSUME ControlInit
  PROVE  /\ RowInv /\ CallsHold
         /\ \A p \in Registered : Known(p) /\ page[p].active # 0
<1> PICK n : n = Cardinality(Registered)
  OBVIOUS
<1> PICK list : list = SetToSeq(Registered)
  OBVIOUS
<1>0. /\ n \in Nat /\ list \in [1 .. n -> Registered]
      /\ \A p \in Registered : \E i \in 1 .. n : list[i] = p
  BY RegisteredListed
<1>1. versions = [i \in 1 .. n |-> [page |-> list[i], no |-> 1, prompt |-> DefaultPrompt,
                                    etl |-> DefaultEtl, notes |-> Note]]
  BY DEF ControlInit
<1>2. \A i \in 1 .. n : versions[i] \in VersionRows /\ versions[i].page = list[i]
                        /\ versions[i].no = 1
  BY <1>0, <1>1, ConfigConstants DEF VersionRows
<1>3. versions \in Seq(VersionRows) /\ Len(versions) = n /\ DOMAIN versions = 1 .. n
  BY <1>0, <1>1, <1>2
<1>4. ASSUME NEW p \in Registered
      PROVE  LET a == CHOOSE i \in DOMAIN versions : versions[i].page = p
             IN a \in DOMAIN versions /\ versions[a].page = p /\ a \in Nat /\ a # 0
  <2>1. \E i \in DOMAIN versions : versions[i].page = p
    BY <1>0, <1>2, <1>3
  <2>2. \A i \in DOMAIN versions : i \in Nat /\ i # 0
    BY <1>0, <1>3
  <2> QED BY <2>1, <2>2
<1>5. ASSUME NEW p \in Pages
      PROVE  /\ \E k \in BOOLEAN : \E a : /\ k <=> p \in Registered
                                          /\ page[p] = [known |-> k, analysis |-> FALSE, active |-> a]
             /\ page[p].active = IF p \in Registered
                                 THEN CHOOSE i \in DOMAIN versions : versions[i].page = p ELSE 0
  <2>0. (p \in Registered) \in BOOLEAN
    OBVIOUS
  <2>1. PICK k \in BOOLEAN : k = (p \in Registered)
    BY <2>0, Zenon
  <2>2. PICK a : a = IF p \in Registered
                     THEN CHOOSE i \in DOMAIN versions : versions[i].page = p ELSE 0
    OBVIOUS
  <2>3. page[p] = [known |-> p \in Registered, analysis |-> FALSE,
                   active |-> IF p \in Registered
                              THEN CHOOSE i \in DOMAIN versions : versions[i].page = p ELSE 0]
    BY DEF ControlInit
  <2>4. page[p] = [known |-> k, analysis |-> FALSE, active |-> a]
    BY <2>1, <2>2, <2>3, Zenon
  <2>5. page[p].active = a
    BY <2>4
  <2> QED BY <2>1, <2>2, <2>4, <2>5
<1>6. ASSUME NEW p \in Pages
      PROVE  /\ page[p] \in [known : BOOLEAN, active : Nat, analysis : BOOLEAN]
             /\ page[p].active = 0 \/ page[p].active \in VersionsOf(p)
             /\ p \in Registered => page[p].known /\ page[p].active # 0
  <2>0. PICK k \in BOOLEAN : \E a : /\ k <=> p \in Registered
                                    /\ page[p] = [known |-> k, analysis |-> FALSE, active |-> a]
    BY <1>5
  <2>1. PICK a : /\ k <=> p \in Registered
                 /\ page[p] = [known |-> k, analysis |-> FALSE, active |-> a]
    BY <2>0
  <2>2. page[p].known = k /\ page[p].active = a
    BY <2>1
  <2>3. CASE p \in Registered
    <3>1. a \in DOMAIN versions /\ versions[a].page = p /\ a \in Nat /\ a # 0
      BY <1>4, <1>5, <2>2, <2>3
    <3> QED BY <2>1, <2>2, <2>3, <3>1 DEF VersionsOf
  <2>4. CASE p \notin Registered
    <3>1. a = 0
      BY <1>5, <2>2, <2>4
    <3> QED BY <2>1, <2>2, <2>4, <3>1
  <2> QED BY <2>3, <2>4
<1>7. page \in [Pages -> [known : BOOLEAN, active : Nat, analysis : BOOLEAN]]
  <2>1. DOMAIN page = Pages /\ page = [p \in Pages |-> page[p]]
    BY DEF ControlInit
  <2> QED BY <1>6, <2>1
<1>8. /\ identities = {} /\ jobs = {} /\ samples = {} /\ artifacts = {} /\ clock = 0
      /\ release = 1 /\ call = [c \in Clients |-> Idle]
      /\ spent \in [DOMAIN Budget -> Nat]
  BY DEF ControlInit
<1>9. RowsTyped
  <2>1. \A i \in DOMAIN versions : versions[i].no <= Len(versions)
    BY <1>0, <1>2, <1>3
  <2>2. IsFiniteSet(identities)
    BY <1>8, FS_EmptySet
  <2> QED BY <1>3, <1>7, <1>8, <2>1, <2>2 DEF RowsTyped
<1>10. ActiveIsOwn
  BY <1>6 DEF ActiveIsOwn
<1>11. RowInv
  BY <1>8, <1>9, <1>10 DEF RowInv, FrozenTogether, ArtifactOfWhatRan, SampleOfItsPage
<1>12. CallsHold
  BY <1>8, <1>9, IdleHolds, RequestTypes DEF CallsHold
<1> QED BY <1>6, <1>11, <1>12, ConfigConstants DEF Known

(* The rows and the screen as they start, with a page loaded or not.       *)
LEMMA InitIInv == Init => IInv
<1> SUFFICES ASSUME Init PROVE IInv
  OBVIOUS
<1>1. ControlInit /\ ScreenInit
  BY DEF Init
<1>2. /\ RowInv /\ CallsHold /\ RowsTyped /\ ActiveIsOwn /\ Len(versions) \in Nat
      /\ \A p \in Registered : Known(p) /\ page[p].active # 0
  BY <1>1, InitRows DEF RowInv, RowsTyped
<1>3. BlankWorkspace \in Workspaces /\ BlankWorkspace.page = NoPage
  BY WorkspaceConstants DEF BlankWorkspace, Workspaces, Texts, DefaultLimit
<1>4. WorkspaceHolds(ws) /\ detail \in Details /\ DetailHolds(detail)
  <2>1. CASE Opened = NoPage
    <3>1. ws = BlankWorkspace /\ detail = NoDetail
      BY <1>1, <2>1 DEF ScreenInit
    <3>2. DetailHolds(NoDetail)
      BY <1>2 DEF DetailHolds, NoDetail
    <3> QED BY <1>3, <3>1, <3>2, RequestTypes DEF WorkspaceHolds
  <2>2. CASE Opened # NoPage
    <3>1. Opened \in Registered /\ Opened \in Pages
      BY <2>2, WorkspaceConstants, ConfigConstants
    <3>2. detail = DetailOf(Opened) /\ ws = Filled(Bound(BlankWorkspace, detail), detail.active)
      BY <1>1, <2>2 DEF ScreenInit
    <3>3. detail \in Details /\ DetailHolds(detail)
      BY <1>2, <3>1, <3>2, PageRead DEF Known
    <3>4. detail.active \in Nat /\ detail.active <= Len(versions)
      BY <1>2, <3>1, <3>2, PageRead DEF DetailOf
    <3>5. WorkspaceHolds(BlankWorkspace)
      BY <1>3 DEF WorkspaceHolds
    <3> QED BY <1>2, <3>2, <3>3, <3>4, <3>5, BoundHolds, FilledHolds
  <2> QED BY <2>1, <2>2
<1>5. ShownHolds
  BY <1>1, <1>2, <1>4, ConfigConstants DEF ShownHolds, ScreenInit
<1>6. EvidenceTyped /\ EvidenceFresh
  BY <1>1, NoEvidenceTypes DEF ScreenInit, EvidenceTyped, EvidenceFresh
<1>7. TasksHold
  <2>1. NoTask \in Tasks /\ NoTask.id = 0 /\ NoTask.kind = "none"
    BY TaskTypes
  <2> QED BY <1>1, <1>2, <2>1 DEF ScreenInit, TasksHold
<1> QED BY <1>2, <1>5, <1>6, <1>7 DEF IInv, ScreenInv

(* So it holds throughout.                                                 *)
LEMMA InvariantHolds == Spec => []IInv
<1>1. Init => IInv
  BY InitIInv
<1>2. IInv /\ [Next]_vars => IInv'
  BY IInvStep
<1> QED BY <1>1, <1>2, PTL DEF Spec

------------------------------------------------------------------------------
(* What the runs check.                                                    *)

(* Every variable of the control plane and of the screen has its type, and *)
(* nothing shown points beyond the rows, however handlers interleave.      *)
THEOREM TypeCorrect == Spec => []TypeOK
<1>1. IInv => TypeOK
  <2> SUFFICES ASSUME IInv PROVE TypeOK
    OBVIOUS
  <2>1. /\ RowsTyped /\ ActiveIsOwn /\ ShownHolds /\ Len(versions) \in Nat
        /\ DOMAIN versions = 1 .. Len(versions)
    BY DEF IInv, RowInv, RowsTyped, ScreenInv
  <2>2. page \in [Pages -> [known : BOOLEAN, active : 0 .. Len(versions), analysis : BOOLEAN]]
    <3>1. ASSUME NEW p \in Pages
          PROVE  page[p] \in [known : BOOLEAN, active : 0 .. Len(versions), analysis : BOOLEAN]
      <4>1. page[p] \in [known : BOOLEAN, active : Nat, analysis : BOOLEAN]
        BY <2>1 DEF RowsTyped
      <4>2. page[p].active \in 0 .. Len(versions)
        BY <2>1, <4>1, PageRead
      <4> QED BY <4>1, <4>2
    <3> QED BY <2>1, <3>1 DEF RowsTyped
  <2>3. \A i \in DOMAIN versions :
          versions[i] \in [page : Pages, no : Nat \ {0}, prompt : Prompts, etl : Etls,
                           notes : {Blank, Note}]
    <3>1. versions \in Seq(VersionRows)
      BY <2>1 DEF RowsTyped
    <3>2. \A i \in DOMAIN versions : versions[i] \in VersionRows
      BY <3>1
    <3> QED BY <3>2 DEF VersionRows
  <2>4. identities \subseteq [page : Pages, prompt : Prompts \cup {Blank}, label : Nat \ {0}]
    BY <2>1 DEF RowsTyped, IdentityRows, Texts
  <2>5. \A s \in samples : Known(s.page) /\ s.etl \in Etls /\ s.expires <= clock + TTL
    BY <2>1 DEF RowsTyped, SampleRows
  <2>6. detail.upTo <= Len(versions) /\ detail.active \in ListedVersions(detail) \cup {0}
    BY <2>1 DEF ShownHolds, DetailHolds
  <2>7. listed \subseteq {p \in Pages : page[p].known}
    BY <2>1 DEF ShownHolds, Known
  <2>8. /\ ws.page = NoPage \/ Known(ws.page)
        /\ ws.prompt \in Prompts \cup {Blank} /\ ws.etl \in Etls
    BY <2>1 DEF ShownHolds, WorkspaceHolds, Workspaces, Texts
  <2> QED BY <2>1, <2>2, <2>3, <2>4, <2>5, <2>6, <2>7, <2>8 DEF TypeOK, RowsTyped
<1> QED BY <1>1, InvariantHolds, PTL

(* The active version of a page is one of its own, although activation     *)
(* takes the page and the version from a screen that may have moved on.    *)
THEOREM ActiveVersionIsOwn == Spec => []ActiveIsOwn
<1>1. IInv => ActiveIsOwn
  BY DEF IInv, RowInv
<1> QED BY <1>1, InvariantHolds, PTL

(* The version and the label a job froze belong together, whatever was     *)
(* activated, saved or previewed while the job was created.                *)
THEOREM JobsFreezeTogether == Spec => []FrozenTogether
<1>1. IInv => FrozenTogether
  BY DEF IInv, RowInv
<1> QED BY <1>1, InvariantHolds, PTL

(* An artifact is filed under the prompt and the release that produced it, *)
(* also when the service is upgraded between its probe and its answer.     *)
THEOREM ArtifactsSayWhatRan == Spec => []ArtifactOfWhatRan
<1>1. IInv => ArtifactOfWhatRan
  BY DEF IInv, RowInv
<1> QED BY <1>1, InvariantHolds, PTL

(* No artifact of a page was made from the messages of another.            *)
THEOREM SamplesStayHome == Spec => []SampleOfItsPage
<1>1. IInv => SampleOfItsPage
  BY DEF IInv, RowInv
<1> QED BY <1>1, InvariantHolds, PTL

(* Evidence shown as current has the rules and the prompt of the draft as  *)
(* it stands and the limit it was last judged by, whatever handlers and    *)
(* edits came after it; unless the draft changed while it was awaited, or  *)
(* an onboarding sample filled the draft.                                  *)
THEOREM EvidenceIsFresh == Spec => []FreshEvidence
<1>1. IInv => FreshEvidence
  <2> SUFFICES ASSUME IInv PROVE FreshEvidence
    OBVIOUS
  <2>1. /\ EvidenceFresh /\ comparison.key \in Nat /\ comparison.prompt \in Texts
        /\ Null \notin Texts \X Nat
    BY WorkspaceConstants DEF IInv, ScreenInv, EvidenceTyped, Comparisons, Texts
  <2>2. comparison.mark = <<comparison.prompt, comparison.key>> => comparison.mark # Null
    BY <2>1
  <2> QED BY <2>1, <2>2 DEF EvidenceFresh, FreshEvidence
<1> QED BY <1>1, InvariantHolds, PTL

------------------------------------------------------------------------------
(* The rows of the control plane implement the registry, for any number of *)
(* pages, clients and requests: one history per page that only grows, the  *)
(* active version a member of it, one label per prompt, in order and kept. *)
(*                                                                         *)
(* The history is read off the rows by their numbers, so the proof needs   *)
(* that these have no gap and no double, although a number is computed     *)
(* from a read that others have overtaken by the time of the insert.  What *)
(* was read is then too small, never too large (NumberRead), and the       *)
(* unique key refuses it.  Labels are given under the lock of the page     *)
(* row, in one step, and need no such reserve.                             *)

(* The identities of a page. *)
OwnIdentities(p) == {i \in identities : i.page = p}

(* The numbers of a page's versions run from one, and no two are alike.    *)
NumberedThrough(p) ==
  /\ NumbersOf(p) = 1 .. Cardinality(VersionsOf(p))
  /\ \A i, j \in VersionsOf(p) : versions[i].no = versions[j].no => i = j

(* So do its labels, and each stands for one prompt.                       *)
LabelledThrough(p) ==
  /\ LabelsOf(p) = 1 .. Cardinality(OwnIdentities(p))
  /\ \A i, j \in OwnIdentities(p) : i.label = j.label \/ i.prompt = j.prompt => i = j

(* A number was read before the insert: others may have used it since, but *)
(* none beyond it.                                                         *)
NumberRead(r) == r.pc = "insert" => r.no \in 1 .. Cardinality(VersionsOf(r.page)) + 1

(* What the rows have beside the invariant of ConfigProofs. *)
RegInv ==
  /\ \A p \in Pages : NumberedThrough(p) /\ LabelledThrough(p)
  /\ \A c \in Clients : NumberRead(call[c])

------------------------------------------------------------------------------
(* Counting rows.                                                          *)

(* The numbers up to n are n.                                              *)
LEMMA Counted == \A n \in Nat : IsFiniteSet(1 .. n) /\ Cardinality(1 .. n) = n
<1> SUFFICES ASSUME NEW n \in Nat PROVE IsFiniteSet(1 .. n) /\ Cardinality(1 .. n) = n
  OBVIOUS
<1>1. /\ IsFiniteSet(1 .. n)
      /\ Cardinality(1 .. n) = IF 1 > n THEN 0 ELSE n - 1 + 1
  <2>1. 1 \in Int /\ n \in Int
    OBVIOUS
  <2> QED BY <2>1, FS_Interval
<1> QED BY <1>1

(* A page has finitely many versions and identities.                       *)
RowsFinite ==
  \A p \in Pages :
    /\ IsFiniteSet(VersionsOf(p)) /\ Cardinality(VersionsOf(p)) \in Nat
    /\ IsFiniteSet(OwnIdentities(p)) /\ Cardinality(OwnIdentities(p)) \in Nat

(* It does, as there are finitely many rows.                               *)
LEMMA RowsCounted == RowsTyped => RowsFinite
<1> SUFFICES ASSUME RowsTyped, NEW p \in Pages
             PROVE  /\ IsFiniteSet(VersionsOf(p)) /\ Cardinality(VersionsOf(p)) \in Nat
                    /\ IsFiniteSet(OwnIdentities(p)) /\ Cardinality(OwnIdentities(p)) \in Nat
  BY DEF RowsFinite
<1>1. IsFiniteSet(DOMAIN versions)
  <2>1. Len(versions) \in Nat /\ DOMAIN versions = 1 .. Len(versions)
    BY DEF RowsTyped
  <2> QED BY <2>1, Counted
<1>2. VersionsOf(p) \subseteq DOMAIN versions /\ OwnIdentities(p) \subseteq identities
  BY DEF VersionsOf, OwnIdentities
<1>3. IsFiniteSet(VersionsOf(p)) /\ IsFiniteSet(OwnIdentities(p))
  BY <1>1, <1>2, FS_Subset DEF RowsTyped
<1> QED BY <1>3, FS_CardinalityType

(* The next label is the one after the last, as none is missing before.    *)
LEMMA NextLabelIsLast ==
  ASSUME RowsTyped, NEW p \in Pages, LabelledThrough(p)
  PROVE  NextLabel(p) = Cardinality(OwnIdentities(p)) + 1
<1> PICK k : k = Cardinality(OwnIdentities(p))
  OBVIOUS
<1>1. k \in Nat /\ LabelsOf(p) = 1 .. k
  BY RowsCounted DEF RowsFinite, LabelledThrough
<1>2. Cardinality(LabelsOf(p)) = k
  BY <1>1, Counted
<1>3. NextLabel(p) \in Nat \ {0} /\ NextLabel(p) \notin 1 .. k /\ NextLabel(p) <= k + 1
  BY <1>1, <1>2, FreeLabel
<1> QED BY <1>1, <1>3

(* The number read is that after the last one there was.                   *)
LEMMA NextNumberIsLast ==
  ASSUME RowsTyped, NEW p \in Pages, NumberedThrough(p)
  PROVE  NextNumber(p) = Cardinality(VersionsOf(p)) + 1
<1> PICK k : k = Cardinality(VersionsOf(p))
  OBVIOUS
<1>1. k \in Nat /\ NumbersOf(p) = 1 .. k
  BY RowsCounted DEF RowsFinite, NumberedThrough
<1>2. CASE k = 0
  BY <1>1, <1>2 DEF NextNumber
<1>3. CASE k # 0
  <2>1. k \in 1 .. k /\ (1 .. k) \in SUBSET (0 .. k) /\ 1 .. k # {} /\ \A x \in 1 .. k : x <= k
    BY <1>1, <1>3
  <2>2. Max(1 .. k) \in 1 .. k /\ \A x \in 1 .. k : x <= Max(1 .. k)
    BY <1>1, <2>1, GreatestExists
  <2>3. Max(1 .. k) = k
    BY <1>1, <2>1, <2>2
  <2> QED BY <1>1, <1>3, <2>1, <2>3 DEF NextNumber
<1> QED BY <1>2, <1>3

------------------------------------------------------------------------------
(* What is written.                                                        *)

(* The versions and identities of a page that no write concerns.           *)
LEMMA VersionsStay ==
  ASSUME RowsTyped, RowsTyped', RowsGrow, NEW p \in Pages, VersionsOf(p)' = VersionsOf(p),
         NumberedThrough(p)
  PROVE  NumberedThrough(p)' /\ NumbersOf(p)' = NumbersOf(p)
<1>1. \A i \in VersionsOf(p) : versions'[i] = versions[i]
  BY VersionsGrow DEF VersionsOf
<1>2. NumbersOf(p)' = NumbersOf(p)
  BY <1>1 DEF NumbersOf
<1> QED BY <1>1, <1>2 DEF NumberedThrough

(* A version is appended with a number that was read before, and is free.  *)
LEMMA NumberedAppend ==
  ASSUME RowInv, \A p \in Pages : NumberedThrough(p),
         UNCHANGED <<page, identities, jobs, artifacts, samples, envVars, spent>>,
         NEW new \in VersionRows, versions' = Append(versions, new), ~Taken(new.page, new.no),
         new.no \in 1 .. Cardinality(VersionsOf(new.page)) + 1, new.no <= Len(versions) + 1
  PROVE  /\ \A p \in Pages : NumberedThrough(p)'
         /\ \A p \in Pages : p # new.page => VersionsOf(p)' = VersionsOf(p)
         /\ VersionsOf(new.page)' = VersionsOf(new.page) \cup {Len(versions) + 1}
         /\ Cardinality(VersionsOf(new.page))' = Cardinality(VersionsOf(new.page)) + 1
         /\ new.no = Cardinality(VersionsOf(new.page)) + 1
<1> PICK last : last = Len(versions) + 1
  OBVIOUS
<1> PICK p : p = new.page
  OBVIOUS
<1> PICK k : k = Cardinality(VersionsOf(p))
  OBVIOUS
<1>0. /\ RowsTyped /\ Len(versions) \in Nat /\ DOMAIN versions = 1 .. Len(versions)
      /\ versions \in Seq(VersionRows) /\ p \in Pages
  BY DEF RowInv, RowsTyped, VersionRows
<1>1. /\ DOMAIN versions' = 1 .. last /\ versions'[last] = new /\ last \notin DOMAIN versions
      /\ \A i \in 1 .. Len(versions) : versions'[i] = versions[i]
  BY <1>0
<1>2. RowInv' /\ RowsGrow /\ RowsTyped'
  BY VersionWritten DEF RowInv
<1>3. /\ VersionsOf(p)' = VersionsOf(p) \cup {last}
      /\ \A o \in Pages : o # p => VersionsOf(o)' = VersionsOf(o)
  <2>1. \A i : i \in DOMAIN versions' <=> i \in DOMAIN versions \/ i = last
    BY <1>0, <1>1
  <2> QED BY <1>0, <1>1, <2>1 DEF VersionsOf
<1>4. k \in Nat /\ Cardinality(VersionsOf(p))' = k + 1
  <2>1. IsFiniteSet(VersionsOf(p)) /\ k \in Nat
    BY <1>0, RowsCounted DEF RowsFinite
  <2>2. last \notin VersionsOf(p)
    BY <1>1 DEF VersionsOf
  <2>3. Cardinality(VersionsOf(p) \cup {last}) = Cardinality(VersionsOf(p)) + 1
    BY <2>1, <2>2, FS_AddElement
  <2> QED BY <1>3, <2>1, <2>3
<1>5. NumbersOf(p) = 1 .. k /\ new.no = k + 1
  <2>1. NumbersOf(p) = 1 .. k /\ new.no \notin NumbersOf(p)
    BY <1>0 DEF NumberedThrough, Taken
  <2>2. new.no \in 1 .. k + 1
    OBVIOUS
  <2> QED BY <1>4, <2>1, <2>2
<1>6. NumberedThrough(p)'
  <2>1. \A i \in VersionsOf(p) : versions'[i] = versions[i]
    BY <1>0, <1>1 DEF VersionsOf
  <2>2. NumbersOf(p)' = NumbersOf(p) \cup {new.no}
    <3> PICK V : V = VersionsOf(p)
      OBVIOUS
    <3>1. NumbersOf(p)' = {versions'[i].no : i \in V \cup {last}}
      BY <1>3 DEF NumbersOf
    <3>2. @ = {versions'[i].no : i \in V} \cup {new.no}
      BY <1>1
    <3>3. {versions'[i].no : i \in V} = {versions[i].no : i \in V}
      BY <2>1
    <3>4. {versions[i].no : i \in V} = NumbersOf(p)
      BY DEF NumbersOf
    <3> QED BY <3>1, <3>2, <3>3, <3>4
  <2>3. NumbersOf(p)' = 1 .. k + 1
    BY <1>4, <1>5, <2>2
  <2>4. ASSUME NEW i \in VersionsOf(p)', NEW j \in VersionsOf(p)',
               versions'[i].no = versions'[j].no
        PROVE  i = j
    <3>1. \A x \in VersionsOf(p) : versions'[x].no \in NumbersOf(p)
      BY <2>1 DEF NumbersOf
    <3>2. new.no \notin NumbersOf(p)
      BY <1>4, <1>5
    <3>3. \A x, y \in VersionsOf(p) : versions'[x].no = versions'[y].no => x = y
      <4>1. \A x, y \in VersionsOf(p) : versions[x].no = versions[y].no => x = y
        BY <1>0 DEF NumberedThrough
      <4> QED BY <2>1, <4>1
    <3>4. i \in VersionsOf(p) \cup {last} /\ j \in VersionsOf(p) \cup {last}
      BY <1>3, <2>4
    <3>5. versions'[last].no = new.no
      BY <1>1
    <3> QED BY ZenonT(60), <2>4, <3>1, <3>2, <3>3, <3>4, <3>5
  <2> QED BY <1>4, <2>3, <2>4 DEF NumberedThrough
<1>7. \A o \in Pages : NumberedThrough(o)'
  <2>1. \A o \in Pages : o # p => NumberedThrough(o)'
    BY <1>0, <1>2, <1>3, VersionsStay
  <2> QED BY <1>6, <2>1
<1> QED BY <1>3, <1>4, <1>5, <1>7

(* A prompt is identified: with the identity it has, or with the next.     *)
LEMMA LabelledAppend ==
  ASSUME RowsTyped, \A p \in Pages : LabelledThrough(p), NEW p \in Pages, NEW prompt \in Texts,
         identities' = Identify(p, prompt)
  PROVE  /\ \A o \in Pages : LabelledThrough(o)'
         /\ \/ identities' = identities
            \/ \E new \in IdentityRows :
                 /\ new.page = p /\ new.label = Cardinality(OwnIdentities(p)) + 1
                 /\ \A i \in OwnIdentities(p) : i.prompt # new.prompt
                 /\ OwnIdentities(p)' = OwnIdentities(p) \cup {new}
                 /\ Cardinality(OwnIdentities(p))' = Cardinality(OwnIdentities(p)) + 1
                 /\ \A o \in Pages : o # p => OwnIdentities(o)' = OwnIdentities(o)
<1> PICK k : k = Cardinality(OwnIdentities(p))
  OBVIOUS
<1> PICK new : new = [page |-> p, prompt |-> prompt, label |-> NextLabel(p)]
  OBVIOUS
<1>0. k \in Nat /\ IsFiniteSet(OwnIdentities(p)) /\ LabelledThrough(p)
  BY RowsCounted DEF RowsFinite
<1>1. CASE identities' = identities
  BY <1>1 DEF LabelledThrough, OwnIdentities, LabelsOf
<1>2. CASE identities' = identities \cup {new} /\ IdentityOf(p, prompt) = {}
  <2>1. new.label = k + 1 /\ new.page = p /\ new.prompt = prompt /\ new \in IdentityRows
    <3>1. NextLabel(p) = k + 1
      BY NextLabelIsLast
    <3> QED BY <1>0, <3>1 DEF IdentityRows
  <2>2. \A i \in OwnIdentities(p) : i.prompt # prompt
    BY <1>2 DEF IdentityOf, OwnIdentities
  <2>3. /\ OwnIdentities(p)' = OwnIdentities(p) \cup {new}
        /\ \A o \in Pages : o # p => OwnIdentities(o)' = OwnIdentities(o)
    BY <1>2, <2>1 DEF OwnIdentities
  <2>4. Cardinality(OwnIdentities(p))' = k + 1
    <3>1. new \notin OwnIdentities(p)
      BY <2>1, <2>2
    <3>2. Cardinality(OwnIdentities(p) \cup {new}) = k + 1
      BY <1>0, <3>1, FS_AddElement
    <3> QED BY <2>3, <3>2
  <2>5. \A o \in Pages : LabelsOf(o) = {i.label : i \in OwnIdentities(o)}
                         /\ LabelsOf(o)' = {i.label : i \in OwnIdentities(o)'}
    BY DEF LabelsOf, OwnIdentities
  <2>6. LabelledThrough(p)'
    <3>1. LabelsOf(p) = 1 .. k
      BY <1>0 DEF LabelledThrough
    <3>2. LabelsOf(p)' = LabelsOf(p) \cup {k + 1}
      BY <2>1, <2>3, <2>5
    <3>3. LabelsOf(p)' = 1 .. k + 1
      BY <1>0, <3>1, <3>2
    <3>4. \A i \in OwnIdentities(p) : i.label # k + 1
      <4>1. \A i \in OwnIdentities(p) : i.label \in LabelsOf(p)
        BY <2>5
      <4> QED BY <1>0, <3>1, <4>1
    <3>5. \A i, j \in OwnIdentities(p)' : i.label = j.label \/ i.prompt = j.prompt => i = j
      BY <1>0, <2>1, <2>2, <2>3, <3>4 DEF LabelledThrough
    <3> QED BY <2>4, <3>3, <3>5 DEF LabelledThrough
  <2>7. ASSUME NEW o \in Pages, o # p PROVE LabelledThrough(o)'
    <3>1. LabelledThrough(o) /\ OwnIdentities(o)' = OwnIdentities(o)
      BY <2>3, <2>7
    <3>2. LabelsOf(o)' = LabelsOf(o)
      BY <2>5, <3>1
    <3> QED BY <3>1, <3>2 DEF LabelledThrough
  <2> QED BY <2>1, <2>2, <2>3, <2>4, <2>6, <2>7
<1> QED BY <1>1, <1>2 DEF Identify

------------------------------------------------------------------------------
(* What is read.                                                           *)

(* Only a number that was just read brings a request to its insert.        *)
LEMMA InsertsRead ==
  ASSUME CallsHold, NEW c \in Clients, Handle(c)
  PROVE  call'[c].pc = "insert" => NumberVersion(c)
<1>0. call \in [Clients -> CallRecords] /\ call[c] \in CallRecords
  BY DEF CallsHold
<1> DEFINE Kept == call'[c].pc = "insert" => NumberVersion(c)
<1>1. ASSUME NEW r, Move(c, r), r.pc # "insert" PROVE Kept
  BY <1>0, <1>1 DEF Move
<1>2. ASSUME NEW x, x # "insert",
             Move(c, [call[c] EXCEPT !.pc = x])
      PROVE  Kept
  <2>1. [call[c] EXCEPT !.pc = x].pc = x
    BY <1>0 DEF CallRecords
  <2> QED BY <1>1, <1>2, <2>1
<1>3. ASSUME NEW x, NEW y, x # "insert",
             Move(c, [call[c] EXCEPT !.pc = x, !.seen = y])
      PROVE  Kept
  <2>1. [call[c] EXCEPT !.pc = x, !.seen = y].pc = x
    BY <1>0 DEF CallRecords
  <2> QED BY <1>1, <1>3, <2>1
<1>4. ASSUME NEW x, NEW y, y # "insert",
             Move(c, [call[c] EXCEPT !.seen = x, !.pc = y])
      PROVE  Kept
  <2>1. [call[c] EXCEPT !.seen = x, !.pc = y].pc = y
    BY <1>0 DEF CallRecords
  <2> QED BY <1>1, <1>4, <2>1
<1>5. ASSUME NEW x, NEW y, x # "insert",
             Move(c, [call[c] EXCEPT !.pc = x, !.flag = y])
      PROVE  Kept
  <2>1. [call[c] EXCEPT !.pc = x, !.flag = y].pc = x
    BY <1>0 DEF CallRecords
  <2> QED BY <1>1, <1>5, <2>1
<1>6. ASSUME NEW x, NEW y, x # "insert",
             Move(c, [call[c] EXCEPT !.pc = x, !.no = y])
      PROVE  Kept
  <2>1. [call[c] EXCEPT !.pc = x, !.no = y].pc = x
    BY <1>0 DEF CallRecords
  <2> QED BY <1>1, <1>6, <2>1
<1>7. ASSUME NEW x, NEW y, x # "insert",
             Move(c, [call[c] EXCEPT !.pc = x, !.id = y])
      PROVE  Kept
  <2>1. [call[c] EXCEPT !.pc = x, !.id = y].pc = x
    BY <1>0 DEF CallRecords
  <2> QED BY <1>1, <1>7, <2>1
<1>8. ASSUME NEW x, NEW y, y # "insert",
             Move(c, [call[c] EXCEPT !.id = x, !.pc = y])
      PROVE  Kept
  <2>1. [call[c] EXCEPT !.id = x, !.pc = y].pc = y
    BY <1>0 DEF CallRecords
  <2> QED BY <1>1, <1>8, <2>1
<1>9. ASSUME NEW x, NEW y, x # "insert",
             Move(c, [call[c] EXCEPT !.pc = x, !.got = y])
      PROVE  Kept
  <2>1. [call[c] EXCEPT !.pc = x, !.got = y].pc = x
    BY <1>0 DEF CallRecords
  <2> QED BY <1>1, <1>9, <2>1
<1>10. ASSUME NEW x, NEW y, NEW z, x # "insert",
              Move(c, [call[c] EXCEPT !.pc = x, !.seen = y, !.sample = z])
       PROVE  Kept
  <2>1. [call[c] EXCEPT !.pc = x, !.seen = y, !.sample = z].pc = x
    BY <1>0 DEF CallRecords
  <2> QED BY <1>1, <1>10, <2>1
<1>20. ASSUME NEW e, Answer(c, e) PROVE Kept
  <2>1. Answered(c, e).pc \in {"answered", "gone"}
    BY RequestTypes DEF Answered, CallRecords
  <2> QED BY <1>1, <1>20, <2>1 DEF Answer
<1>21. ASSUME NEW ran, NextPrompt(c, ran) PROVE Kept
  BY <1>9, <1>20, <1>21 DEF NextPrompt
<1> SUFFICES Kept
  OBVIOUS
<1>41. CASE NumberVersion(c)
  BY <1>41
<1> HIDE DEF Kept
<1>30. CASE RefuseRequest(c)
  BY <1>20, <1>30 DEF RefuseRequest, Refuse
<1>31. CASE GetPage(c)
  BY <1>20, <1>31 DEF GetPage
<1>32. CASE ListPages(c)
  BY <1>20, <1>32 DEF ListPages
<1>33. CASE AnswerDetail(c)
  BY <1>20, <1>33 DEF AnswerDetail
<1>34. CASE AnswerOnboarding(c)
  BY <1>20, <1>34 DEF AnswerOnboarding
<1>35. CASE FreezeJob(c)
  BY <1>20, <1>35 DEF FreezeJob
<1>36. CASE StoreSample(c)
  BY <1>20, <1>36 DEF StoreSample, Refuse
<1>37. CASE ReadForCreate(c)
  BY <1>3, <1>37 DEF ReadForCreate
<1>38. CASE FindForRegister(c)
  BY <1>5, <1>38 DEF FindForRegister
<1>39. CASE UpsertPage(c)
  BY <1>2, <1>39 DEF UpsertPage, Goto
<1>40. CASE ReadActive(c)
  BY <1>4, <1>40 DEF ReadActive
<1>42. CASE CreateVersion(c)
  BY <1>8, <1>20, <1>42 DEF CreateVersion, AfterInsert, Refuse
<1>43. CASE ActivateVersion(c)
  BY <1>2, <1>43 DEF ActivateVersion, Goto
<1>44. CASE UpdateFlags(c)
  BY <1>2, <1>44 DEF UpdateFlags, Goto
<1>45. CASE CheckActivation(c)
  BY <1>7, <1>20, <1>45 DEF CheckActivation, Refuse
<1>46. CASE ReadForJob(c)
  BY <1>3, <1>20, <1>46 DEF ReadForJob, Refuse
<1>47. CASE IdentifyForJob(c)
  BY <1>6, <1>47 DEF IdentifyForJob
<1>48. CASE ReadForSample(c)
  BY <1>3, <1>48 DEF ReadForSample
<1>49. CASE ReadSample(c)
  BY <1>10, <1>20, <1>49 DEF ReadSample, Refuse
<1>50. CASE IdentifyForPreview(c)
  BY <1>2, <1>50 DEF IdentifyForPreview, Goto
<1>51. CASE ProbeService(c)
  BY <1>21, <1>6, <1>51 DEF ProbeService, Refuse
<1>52. CASE AnalyseSample(c)
  BY <1>21, <1>20, <1>52 DEF AnalyseSample, Refuse
<1> QED
  BY <1>30, <1>31, <1>32, <1>33, <1>34, <1>35, <1>36, <1>37, <1>38, <1>39, <1>40, <1>41,
     <1>42, <1>43, <1>44, <1>45, <1>46, <1>47, <1>48, <1>49, <1>50, <1>51, <1>52
     DEF Handle

(* A step that writes no row and brings no request to its insert.          *)
Aside == UNCHANGED rowVars /\ \A c \in Clients : call'[c].pc = "insert" => call'[c] = call[c]

(* Every step is one of a handler, or an aside.                            *)
LEMMA StepCases ==
  ASSUME IInv, [Next]_vars
  PROVE  (\E c \in Clients : Handle(c)) \/ Aside
<1>0. call \in [Clients -> CallRecords] /\ Screens \subseteq Clients
  BY ConfigConstants DEF IInv, CallsHold
<1>1. ASSUME NEW c \in Clients, NEW r, Move(c, r), r.pc # "insert", UNCHANGED rowVars
      PROVE  Aside
  BY <1>0, <1>1 DEF Aside, Move
<1>2. ASSUME NEW c \in Clients, NEW op, NEW p, NEW in, Send(c, op, p, in)
      PROVE  Aside
  <2> PICK no : no = IF op = "sample" THEN spent'[op] ELSE 0
    OBVIOUS
  <2> DEFINE r == [Idle EXCEPT !.op = op, !.pc = "open", !.page = p, !.in = in, !.no = no]
  <2>1. Move(c, r) /\ UNCHANGED rowVars
    BY <1>2 DEF Send
  <2>2. r.pc = "open"
    BY DEF Idle
  <2> HIDE DEF r
  <2> QED BY <1>1, <2>1, <2>2
<1>3. ASSUME UNCHANGED controlVars PROVE Aside
  BY <1>3 DEF Aside, controlVars
<1>4. CASE EditDraft \/ ReadDraft \/ ChoosePage \/ UseVersion
  <2>1. UNCHANGED controlVars
    BY <1>4 DEF EditDraft, ReadDraft, ChoosePage, UseVersion, EditTo
  <2> QED BY <1>3, <2>1
<1>5. ASSUME NEW c \in Screens, Start(c) PROVE Aside
  <2>1. ASSUME NEW op, NEW p, NEW in, Request(c, op, p, in) PROVE Aside
    BY <1>0, <1>2, <2>1 DEF Request
  <2>2. ASSUME NEW op, NEW p, NEW in, NEW t, Begin(c, op, p, in, t) PROVE Aside
    BY <2>1, <2>2 DEF Begin
  <2> HIDE DEF Aside
  <2>3. ASSUME NEW apply, RegisterPage(c, apply) PROVE Aside
    BY <2>2, <2>3 DEF RegisterPage
  <2> QED BY <1>5, <2>2, <2>3
          DEF Start, LoadConnectedPage, SaveDraft, ActivateSelected, LoadSample, RunPreview,
              ClonePromptFromPage, LoadOnboardingSample
<1>6. ASSUME NEW c \in Screens, Resume(c) PROVE Aside
  <2>1. ASSUME Finish(c) PROVE Aside
    <3>1. Idle.pc = "idle"
      BY DEF Idle
    <3> QED BY <1>0, <1>1, <2>1, <3>1 DEF Finish, Move, rowVars
  <2>2. \/ Finish(c) \/ Send(c, "list", NoPage, NoInput) \/ Send(c, "get", ws.page, NoInput)
    BY <1>6 DEF Resume, ResumeFailed, ResumeLoad, ResumeRegister, ResumeList, ResumeSave,
                ResumeSaved, ResumeActivate, ResumeSample, ResumePreview, ResumeClone,
                ResumeOnboard
  <2> QED BY <1>0, <1>2, <2>1, <2>2
<1>7. ASSUME NEW c \in Clients \ Screens, OthersRequest(c) PROVE Aside
  <2>1. ASSUME NEW op, NEW p, NEW in, Request(c, op, p, in) PROVE Aside
    BY <1>2, <2>1 DEF Request
  <2> QED BY <1>7, <2>1 DEF OthersRequest
<1>8. CASE Tick \/ Upgrade \/ Restart
  <2>1. CASE Tick \/ Upgrade
    BY <2>1 DEF Tick, Upgrade, Aside
  <2>2. CASE Restart
    <3>1. UNCHANGED rowVars /\ \A c \in Clients : call'[c] = Cut(c)
      BY <2>2 DEF Restart
    <3>2. ASSUME NEW c \in Clients PROVE Cut(c).pc = "insert" => Cut(c) = call[c]
      <4>1. \A e : Answered(c, e).pc \in {"answered", "gone"}
        BY RequestTypes DEF Answered, CallRecords
      <4> QED BY <4>1 DEF Cut
    <3> QED BY <3>1, <3>2 DEF Aside
  <2> QED BY <1>8, <2>1, <2>2
<1>9. CASE UNCHANGED vars
  BY <1>3, <1>9 DEF vars, controlVars
<1> QED BY <1>4, <1>5, <1>6, <1>7, <1>8, <1>9 DEF Next

(* Of the handlers, six write what the registry is read from.              *)
Writes(c) ==
  \/ UpsertPage(c) \/ ActivateVersion(c) \/ UpdateFlags(c) \/ CreateVersion(c)
  \/ IdentifyForJob(c) \/ IdentifyForPreview(c)

(* The other handlers leave all of that alone.                             *)
LEMMA WritersOnly ==
  ASSUME NEW c \in Clients, Handle(c)
  PROVE  Writes(c) \/ UNCHANGED <<page, versions, identities>>
BY DEF Handle, Writes, rowVars, RefuseRequest, GetPage, ListPages, ReadForCreate,
       FindForRegister, ReadActive, NumberVersion, AnswerDetail, CheckActivation, ReadForJob,
       FreezeJob, AnswerOnboarding, ReadForSample, StoreSample, ReadSample, ProbeService,
       AnalyseSample

(* Fewer versions were there when a number was read than are there later.  *)
LEMMA CountGrows ==
  ASSUME RowsTyped, RowsTyped', RowsGrow, NEW p \in Pages
  PROVE  Cardinality(VersionsOf(p)) <= Cardinality(VersionsOf(p))'
<1>1. VersionsOf(p) \subseteq VersionsOf(p)'
  BY VersionsGrow
<1>2. IsFiniteSet(VersionsOf(p)')
  <2>1. RowsFinite'
    BY RowsCounted, PTL
  <2> QED BY <2>1 DEF RowsFinite
<1> QED BY <1>1, <1>2, FS_Subset

------------------------------------------------------------------------------
(* What is written, and by which request.                                  *)

(* A version is inserted, with the number read, where that is free.        *)
LEMMA VersionCreated ==
  ASSUME IInv, RegInv, NEW c \in Clients, CreateVersion(c)
  PROVE  /\ UNCHANGED <<page, identities, jobs, artifacts, samples, envVars, spent>>
         /\ \/ versions' = versions
            \/ \E new \in VersionRows :
                 /\ versions' = Append(versions, new) /\ ~Taken(new.page, new.no)
                 /\ new.no \in 1 .. Cardinality(VersionsOf(new.page)) + 1
                 /\ new.no <= Len(versions) + 1
<1> PICK q : q = call[c]
  OBVIOUS
<1>0. /\ RowsTyped /\ q \in CallRecords /\ RequestHolds(q) /\ q.pc = "insert"
      /\ NumberRead(q)
  BY DEF IInv, RowInv, CallsHold, CallHolds, CreateVersion, RegInv
<1>1. /\ q.page \in Pages /\ Accepted(q.in) /\ q.seen <= Len(versions)
      /\ q.no # 0 /\ q.no <= Len(versions) + 1
      /\ q.no \in 1 .. Cardinality(VersionsOf(q.page)) + 1
  BY <1>0 DEF RequestHolds, Stepping, NumberRead
<1>2. CASE Taken(q.page, q.no)
  BY <1>2 DEF CreateVersion
<1>3. CASE ~Taken(q.page, q.no)
  <2>1. NewVersion(q) \in VersionRows /\ NewVersion(q).page = q.page /\ NewVersion(q).no = q.no
    BY <1>0, <1>1, NewVersionType DEF NewVersion
  <2>2. /\ versions' = Append(versions, NewVersion(q))
        /\ UNCHANGED <<page, identities, jobs, artifacts, samples, envVars, spent>>
    BY <1>3 DEF CreateVersion, NewVersion
  <2> QED BY <1>1, <1>3, <2>1, <2>2
<1> QED BY <1>2, <1>3

(* A prompt is identified for a page, for a job or for a preview.          *)
LEMMA PromptIdentified ==
  ASSUME IInv, NEW c \in Clients, IdentifyForJob(c) \/ IdentifyForPreview(c)
  PROVE  /\ UNCHANGED <<page, versions>>
         /\ \E p \in Pages, prompt \in Texts : identities' = Identify(p, prompt)
<1> PICK q : q = call[c]
  OBVIOUS
<1>0. /\ RowsTyped /\ q \in CallRecords /\ RequestHolds(q) /\ PreviewHolds(q)
      /\ q.pc = "identity"
  BY DEF IInv, RowInv, CallsHold, CallHolds, IdentifyForJob, IdentifyForPreview, At
<1>1. Stepping(q) /\ q.page \in Pages /\ q.seen <= Len(versions)
  BY <1>0 DEF RequestHolds, Stepping
<1>2. CASE IdentifyForJob(c)
  <2>1. /\ q.op = "execute" /\ identities' = Identify(q.page, JobPrompt(q))
        /\ UNCHANGED <<page, versions>>
    BY <1>2 DEF IdentifyForJob, At
  <2>2. versions[q.seen] \in VersionRows
    BY <1>0, <1>1, <2>1 DEF RequestHolds, VersionsOf, RowsTyped
  <2>3. JobPrompt(q) \in Texts
    BY <2>2 DEF JobPrompt, VersionRows, Texts
  <2> QED BY <1>1, <2>1, <2>3
<1>3. CASE IdentifyForPreview(c)
  <2>1. /\ q.op = "preview" /\ identities' = Identify(q.page, PreviewedPrompt(q))
        /\ UNCHANGED <<page, versions>>
    BY <1>3 DEF IdentifyForPreview, At
  <2>2. PreviewedPrompt(q) \in Texts
    BY <1>0, <1>1, <2>1, PreviewedType DEF IInv
  <2> QED BY <1>1, <2>1, <2>2
<1> QED BY <1>2, <1>3

(* The row of one page is written, and what it says is active is its own.  *)
LEMMA PageRowWritten ==
  ASSUME IInv, NEW c \in Clients, UpsertPage(c) \/ ActivateVersion(c) \/ UpdateFlags(c)
  PROVE  /\ UNCHANGED <<versions, identities>>
         /\ \E p \in Pages :
              /\ \A o \in Pages : o # p => page'[o].active = page[o].active
              /\ page'[p].active = page[p].active \/ page'[p].active \in VersionsOf(p)
<1> PICK q : q = call[c]
  OBVIOUS
<1>0. /\ RequestHolds(q) /\ Stepping(q) /\ q.page \in Pages
      /\ page \in [Pages -> [known : BOOLEAN, active : Nat, analysis : BOOLEAN]]
  BY DEF IInv, RowInv, RowsTyped, CallsHold, CallHolds, UpsertPage, ActivateVersion,
         UpdateFlags, At, RequestHolds, Stepping
<1>1. \A o \in Pages : o # q.page => page'[o].active = page[o].active
  BY <1>0 DEF UpsertPage, ActivateVersion, UpdateFlags
<1>2. page'[q.page].active = page[q.page].active \/ page'[q.page].active \in VersionsOf(q.page)
  <2>1. CASE UpsertPage(c) \/ UpdateFlags(c)
    BY <1>0, <2>1 DEF UpsertPage, UpdateFlags
  <2>2. CASE ActivateVersion(c)
    <3>1. q.pc = "activate" /\ page'[q.page].active = q.id
      BY <1>0, <2>2 DEF ActivateVersion
    <3> QED BY <1>0, <3>1 DEF RequestHolds
  <2> QED BY <2>1, <2>2
<1>3. UNCHANGED <<versions, identities>>
  BY DEF UpsertPage, ActivateVersion, UpdateFlags
<1> QED BY <1>0, <1>1, <1>2, <1>3

(* So the numbers and labels stay as they should be.                       *)
LEMMA RegInvStep == IInv /\ RegInv /\ [Next]_vars => RegInv'
<1> SUFFICES ASSUME IInv, RegInv, [Next]_vars PROVE RegInv'
  OBVIOUS
<1>0. IInv' /\ RowsTyped /\ RowsTyped' /\ RowInv /\ CallsHold
  BY IInvStep DEF IInv, RowInv
<1>1. ASSUME UNCHANGED <<versions, identities>>, NEW p \in Pages
      PROVE  NumberedThrough(p)' /\ LabelledThrough(p)'
  <2>1. /\ VersionsOf(p)' = VersionsOf(p) /\ NumbersOf(p)' = NumbersOf(p)
        /\ OwnIdentities(p)' = OwnIdentities(p) /\ LabelsOf(p)' = LabelsOf(p)
    BY <1>1 DEF NumbersOf, VersionsOf, LabelsOf, OwnIdentities
  <2>2. NumberedThrough(p) /\ LabelledThrough(p)
    BY DEF RegInv
  <2> QED BY <1>1, <2>1, <2>2 DEF NumberedThrough, LabelledThrough
<1>2. CASE Aside
  <2>1. UNCHANGED <<versions, identities>>
    BY <1>2 DEF Aside, rowVars
  <2>2. ASSUME NEW c \in Clients PROVE NumberRead(call[c])'
    <3> PICK q : q = call[c]
      OBVIOUS
    <3>1. NumberRead(q)'
      BY <2>1 DEF RegInv, NumberRead, VersionsOf
    <3>2. call'[c].pc = "insert" => call'[c] = q
      BY <1>2 DEF Aside
    <3> QED BY <3>1, <3>2 DEF NumberRead
  <2> QED BY <1>1, <2>1, <2>2 DEF RegInv
<1>3. ASSUME NEW c \in Clients, Handle(c) PROVE RegInv'
  <2>1. RowsGrow
    BY <1>0, <1>3, HandlerWrites DEF Written
  <2>2. \A p \in Pages : NumberedThrough(p)' /\ LabelledThrough(p)'
    <3>1. CASE UNCHANGED <<versions, identities>>
      BY <1>1, <3>1
    <3>2. CASE CreateVersion(c)
      <4>1. UNCHANGED <<page, identities, jobs, artifacts, samples, envVars, spent>>
        BY <3>2, VersionCreated
      <4>2. \A p \in Pages : LabelledThrough(p)'
        BY <4>1 DEF RegInv, LabelledThrough, LabelsOf, OwnIdentities
      <4>3. CASE versions' # versions
        BY <1>0, <3>2, <4>1, <4>2, <4>3, VersionCreated, NumberedAppend DEF RegInv
      <4> QED BY <3>1, <4>1, <4>3
    <3>3. CASE IdentifyForJob(c) \/ IdentifyForPreview(c)
      <4>1. UNCHANGED <<page, versions>> /\ \A p \in Pages : LabelledThrough(p)'
        BY <1>0, <3>3, PromptIdentified, LabelledAppend DEF RegInv
      <4> QED BY <4>1 DEF RegInv, NumberedThrough, NumbersOf, VersionsOf
    <3>4. CASE UpsertPage(c) \/ ActivateVersion(c) \/ UpdateFlags(c)
      BY <3>1, <3>4, PageRowWritten
    <3> QED BY <1>3, <3>1, <3>2, <3>3, <3>4, WritersOnly DEF Writes
  <2>3. ASSUME NEW d \in Clients PROVE NumberRead(call[d])'
    <3> PICK q : q = call[d]
      OBVIOUS
    <3>1. q \in CallRecords /\ RequestHolds(q) /\ NumberRead(q) /\ q.no \in Nat
      BY DEF IInv, CallsHold, CallHolds, RegInv, CallRecords
    <3>2. CASE d # c
      <4>1. call'[d] = q
        BY <1>0, <1>3, <3>2, OperationKept
      <4>2. ASSUME q.pc = "insert" PROVE q.no \in 1 .. Cardinality(VersionsOf(q.page))' + 1
        <5>1. q.page \in Pages /\ q.no \in 1 .. Cardinality(VersionsOf(q.page)) + 1
          BY <3>1, <4>2 DEF RequestHolds, Stepping, NumberRead
        <5> PICK n : n = Cardinality(VersionsOf(q.page))
          OBVIOUS
        <5> PICK m : m = Cardinality(VersionsOf(q.page))'
          OBVIOUS
        <5>2. n \in Nat /\ n <= m
          BY <1>0, <2>1, <5>1, CountGrows, RowsCounted DEF RowsFinite
        <5>3. m \in Nat
          <6>1. RowsFinite'
            BY <1>0, RowsCounted, PTL
          <6> QED BY <5>1, <6>1 DEF RowsFinite
        <5> QED BY <3>1, <5>1, <5>2, <5>3
      <4> QED BY <4>1, <4>2 DEF NumberRead
    <3>3. CASE d = c
      <4>1. SUFFICES ASSUME NumberVersion(c) PROVE NumberRead(call[c])'
        BY <1>0, <1>3, <3>3, InsertsRead DEF NumberRead
      <4> PICK n : n = NextNumber(q.page)
        OBVIOUS
      <4> DEFINE r == [q EXCEPT !.pc = "insert", !.no = n]
      <4>2. q.pc = "number" /\ call'[c] = r /\ versions' = versions
        BY <3>3, <4>1 DEF NumberVersion, Move, IInv, CallsHold, rowVars
      <4>3. r.no = n /\ r.page = q.page
        BY <3>1 DEF CallRecords
      <4>4. q.page \in Pages
        BY <3>1, <4>2 DEF RequestHolds, Stepping
      <4>5. n = Cardinality(VersionsOf(q.page)) + 1 /\ Cardinality(VersionsOf(q.page)) \in Nat
        BY <1>0, <4>4, NextNumberIsLast, RowsCounted DEF RegInv, RowsFinite
      <4> HIDE DEF r
      <4>6. r.no \in 1 .. Cardinality(VersionsOf(r.page))' + 1
        BY <4>2, <4>3, <4>5 DEF VersionsOf
      <4> QED BY <4>2, <4>6 DEF NumberRead
    <3> QED BY <3>2, <3>3
  <2> QED BY <2>2, <2>3 DEF RegInv
<1> QED BY <1>2, <1>3, StepCases

(* The pages registered at the start have one version each, numbered one.  *)
LEMMA InitRegInv == Init => RegInv
<1> SUFFICES ASSUME Init PROVE RegInv
  OBVIOUS
<1> PICK n : n = Cardinality(Registered)
  OBVIOUS
<1> PICK list : list = SetToSeq(Registered)
  OBVIOUS
<1>0. /\ n \in Nat /\ list \in [1 .. n -> Registered]
      /\ \A i, j \in 1 .. n : list[i] = list[j] => i = j
  BY RegisteredListed
<1>1. /\ identities = {} /\ call = [c \in Clients |-> Idle]
      /\ versions = [i \in 1 .. n |-> [page |-> list[i], no |-> 1, prompt |-> DefaultPrompt,
                                       etl |-> DefaultEtl, notes |-> Note]]
  BY DEF Init, ControlInit
<1>2. /\ DOMAIN versions = 1 .. n
      /\ \A i \in 1 .. n : versions[i].page = list[i] /\ versions[i].no = 1
  BY <1>0, <1>1
<1>3. ASSUME NEW p \in Pages PROVE NumberedThrough(p)
  <2>1. \A i, j \in VersionsOf(p) : i = j
    BY <1>0, <1>2 DEF VersionsOf
  <2>2. \A i \in VersionsOf(p) : versions[i].no = 1
    BY <1>2 DEF VersionsOf
  <2>3. CASE VersionsOf(p) = {}
    <3>1. Cardinality(VersionsOf(p)) = 0 /\ NumbersOf(p) = {}
      BY <2>3, FS_EmptySet DEF NumbersOf
    <3> QED BY <2>3, <3>1 DEF NumberedThrough
  <2>4. CASE VersionsOf(p) # {}
    <3>1. PICK i : VersionsOf(p) = {i}
      BY <2>1, <2>4
    <3>2. Cardinality(VersionsOf(p)) = 1
      BY <3>1, FS_Singleton
    <3>3. NumbersOf(p) = {1}
      BY <2>2, <3>1 DEF NumbersOf
    <3>4. {1} = 1 .. 1
      OBVIOUS
    <3> QED BY <2>1, <3>2, <3>3, <3>4 DEF NumberedThrough
  <2> QED BY <2>3, <2>4
<1>4. ASSUME NEW p \in Pages PROVE LabelledThrough(p)
  <2>1. OwnIdentities(p) = {} /\ LabelsOf(p) = {}
    BY <1>1 DEF OwnIdentities, LabelsOf
  <2>2. Cardinality(OwnIdentities(p)) = 0
    BY <2>1, FS_EmptySet
  <2> QED BY <2>1, <2>2 DEF LabelledThrough
<1>5. \A c \in Clients : NumberRead(call[c])
  BY <1>1 DEF NumberRead, Idle
<1> QED BY <1>3, <1>4, <1>5 DEF RegInv

(* The invariant of the registry holds throughout.                         *)
LEMMA RegInvHolds == Spec => [](IInv /\ RegInv)
<1>1. Init => IInv /\ RegInv
  BY InitIInv, InitRegInv
<1>2. IInv /\ RegInv /\ [Next]_vars => IInv' /\ RegInv'
  BY IInvStep, RegInvStep
<1> QED BY <1>1, <1>2, PTL DEF Spec

------------------------------------------------------------------------------
(* The registry as it is read from the rows.                               *)
Contents == [prompt : Prompts, etl : Etls]
ContentAt(i) == [prompt |-> versions[i].prompt, etl |-> versions[i].etl]

(* The history of a page has the content of each version at its number.    *)
HistoryFits ==
  \A p \in Pages :
    /\ HistoryOf(p) \in Seq(Contents)
    /\ Len(HistoryOf(p)) = Cardinality(VersionsOf(p)) /\ Len(HistoryOf(p)) \in Nat
    /\ \A i \in VersionsOf(p) : /\ versions[i].no \in 1 .. Len(HistoryOf(p))
                                /\ HistoryOf(p)[versions[i].no] = ContentAt(i)
    /\ \A n \in 1 .. Len(HistoryOf(p)) : \E i \in VersionsOf(p) : versions[i].no = n

(* It does, because numbers have no gap and no double.                     *)
LEMMA HistoryRead == RowsTyped /\ RegInv => HistoryFits
<1> SUFFICES ASSUME RowsTyped, RegInv, NEW p \in Pages
             PROVE  /\ HistoryOf(p) \in Seq(Contents)
                    /\ Len(HistoryOf(p)) = Cardinality(VersionsOf(p)) /\ Len(HistoryOf(p)) \in Nat
                    /\ \A i \in VersionsOf(p) :
                         /\ versions[i].no \in 1 .. Len(HistoryOf(p))
                         /\ HistoryOf(p)[versions[i].no] = ContentAt(i)
                    /\ \A n \in 1 .. Len(HistoryOf(p)) :
                         \E i \in VersionsOf(p) : versions[i].no = n
  BY DEF HistoryFits
<1> PICK k : k = Cardinality(VersionsOf(p))
  OBVIOUS
<1>1. /\ k \in Nat /\ NumbersOf(p) = 1 .. k
      /\ \A i, j \in VersionsOf(p) : versions[i].no = versions[j].no => i = j
  BY RowsCounted DEF RegInv, NumberedThrough, RowsFinite
<1>2. /\ \A i \in VersionsOf(p) : versions[i].no \in 1 .. k
      /\ \A n \in 1 .. k : \E i \in VersionsOf(p) : versions[i].no = n
  BY <1>1 DEF NumbersOf
<1>3. \A i \in VersionsOf(p) : ContentAt(i) \in Contents
  <2>1. \A i \in VersionsOf(p) : versions[i] \in VersionRows
    BY DEF VersionsOf, RowsTyped
  <2> QED BY <2>1 DEF ContentAt, Contents, VersionRows
<1>4. ASSUME NEW n \in 1 .. k
      PROVE  \A i \in VersionsOf(p) : versions[i].no = n => HistoryOf(p)[n] = ContentAt(i)
  <2> SUFFICES ASSUME NEW i \in VersionsOf(p), versions[i].no = n
               PROVE  HistoryOf(p)[n] = ContentAt(i)
    OBVIOUS
  <2>1. Numbered(p, n) = {i}
    BY <1>1 DEF Numbered
  <2>2. (CHOOSE j \in Numbered(p, n) : TRUE) = i
    BY <2>1
  <2>3. HistoryOf(p)[n] = IF Numbered(p, n) = {} THEN Null
                          ELSE ContentAt(CHOOSE j \in Numbered(p, n) : TRUE)
    BY DEF HistoryOf, ContentAt
  <2> QED BY <2>1, <2>2, <2>3
<1>5. /\ HistoryOf(p) = [n \in 1 .. k |-> HistoryOf(p)[n]]
      /\ \A n \in 1 .. k : HistoryOf(p)[n] \in Contents
  <2>1. HistoryOf(p) = [n \in 1 .. k |-> HistoryOf(p)[n]]
    BY DEF HistoryOf
  <2> QED BY <1>2, <1>3, <1>4, <2>1
<1>6. HistoryOf(p) \in Seq(Contents) /\ Len(HistoryOf(p)) = k
  <2> PICK h : h = HistoryOf(p)
    OBVIOUS
  <2>1. h = [n \in 1 .. k |-> h[n]] /\ \A n \in 1 .. k : h[n] \in Contents
    BY <1>5
  <2>2. h \in [1 .. k -> Contents]
    BY <2>1
  <2> QED BY <1>1, <2>2
<1> QED BY <1>1, <1>2, <1>4, <1>6

(* The list of a page's prompts has each at its label.                     *)
LabelsFit ==
  \A p \in Pages :
    /\ LabelledOf(p) \in Seq(Texts)
    /\ Len(LabelledOf(p)) = Cardinality(OwnIdentities(p)) /\ Len(LabelledOf(p)) \in Nat
    /\ \A i \in OwnIdentities(p) : /\ i.label \in 1 .. Len(LabelledOf(p))
                                   /\ LabelledOf(p)[i.label] = i.prompt
    /\ \A n \in 1 .. Len(LabelledOf(p)) : \E i \in OwnIdentities(p) : i.label = n

(* It does, because labels have neither.                                   *)
LEMMA LabelsRead == RowsTyped /\ RegInv => LabelsFit
<1> SUFFICES ASSUME RowsTyped, RegInv, NEW p \in Pages
             PROVE  /\ LabelledOf(p) \in Seq(Texts)
                    /\ Len(LabelledOf(p)) = Cardinality(OwnIdentities(p))
                    /\ Len(LabelledOf(p)) \in Nat
                    /\ \A i \in OwnIdentities(p) : /\ i.label \in 1 .. Len(LabelledOf(p))
                                                   /\ LabelledOf(p)[i.label] = i.prompt
                    /\ \A n \in 1 .. Len(LabelledOf(p)) :
                         \E i \in OwnIdentities(p) : i.label = n
  BY DEF LabelsFit
<1> PICK k : k = Cardinality(OwnIdentities(p))
  OBVIOUS
<1>1. /\ k \in Nat /\ LabelsOf(p) = 1 .. k
      /\ \A i, j \in OwnIdentities(p) : i.label = j.label => i = j
  BY RowsCounted DEF RegInv, LabelledThrough, RowsFinite
<1>2. /\ \A i \in OwnIdentities(p) : i.label \in 1 .. k
      /\ \A n \in 1 .. k : \E i \in OwnIdentities(p) : i.label = n
  <2>1. LabelsOf(p) = {i.label : i \in OwnIdentities(p)}
    BY DEF LabelsOf, OwnIdentities
  <2> QED BY <1>1, <2>1
<1>3. \A i \in OwnIdentities(p) : i \in identities /\ i.page = p /\ i.prompt \in Texts
  BY DEF OwnIdentities, RowsTyped, IdentityRows
<1>4. ASSUME NEW n \in 1 .. k
      PROVE  \A i \in OwnIdentities(p) : i.label = n => LabelledOf(p)[n] = i.prompt
  <2> SUFFICES ASSUME NEW i \in OwnIdentities(p), i.label = n PROVE LabelledOf(p)[n] = i.prompt
    OBVIOUS
  <2> PICK j : j = CHOOSE x \in identities : x.page = p /\ x.label = n
    OBVIOUS
  <2>1. j \in identities /\ j.page = p /\ j.label = n
    BY <1>3
  <2>2. j = i
    BY <1>1, <2>1 DEF OwnIdentities
  <2>3. LabelledOf(p)[n] = j.prompt
    BY DEF LabelledOf, PromptLabelled, OwnIdentities
  <2> QED BY <2>2, <2>3
<1>5. /\ LabelledOf(p) = [n \in 1 .. k |-> LabelledOf(p)[n]]
      /\ \A n \in 1 .. k : LabelledOf(p)[n] \in Texts
  <2>1. LabelledOf(p) = [n \in 1 .. k |-> LabelledOf(p)[n]]
    BY DEF LabelledOf, OwnIdentities
  <2> QED BY <1>2, <1>3, <1>4, <2>1
<1>6. LabelledOf(p) \in Seq(Texts) /\ Len(LabelledOf(p)) = k
  <2> PICK h : h = LabelledOf(p)
    OBVIOUS
  <2>1. h = [n \in 1 .. k |-> h[n]] /\ \A n \in 1 .. k : h[n] \in Texts
    BY <1>5
  <2>2. h \in [1 .. k -> Texts]
    BY <2>1
  <2> QED BY <1>1, <2>2
<1> QED BY <1>1, <1>2, <1>4, <1>6

------------------------------------------------------------------------------
(* Every step of the rows is one of the registry, or none.                 *)

(* Sequences with the same elements are the same.                          *)
LEMMA Alike ==
  ASSUME NEW S, NEW s \in Seq(S), NEW t \in Seq(S), Len(s) = Len(t),
         \A n \in 1 .. Len(s) : s[n] = t[n]
  PROVE  s = t
OBVIOUS

(* A sequence that has grown by an element at its end.                     *)
LEMMA Appended ==
  ASSUME NEW S, NEW s \in Seq(S), NEW t \in Seq(S), NEW e \in S, Len(t) = Len(s) + 1,
         \A n \in 1 .. Len(s) : t[n] = s[n], t[Len(t)] = e
  PROVE  t = Append(s, e) /\ t # s
<1>1. Len(s) \in Nat /\ Append(s, e) \in Seq(S) /\ Len(Append(s, e)) = Len(s) + 1
  OBVIOUS
<1>2. \A n \in 1 .. Len(t) : t[n] = Append(s, e)[n]
  BY <1>1
<1>3. t = Append(s, e)
  BY <1>1, <1>2, Alike
<1> QED BY <1>1, <1>3

(* A page whose versions stay keeps its history.                           *)
LEMMA HistoryStays ==
  ASSUME HistoryFits, HistoryFits', NEW p \in Pages, VersionsOf(p)' = VersionsOf(p),
         \A i \in VersionsOf(p) : versions'[i] = versions[i]
  PROVE  HistoryOf(p)' = HistoryOf(p)
<1> PICK h : h = HistoryOf(p)
  OBVIOUS
<1> PICK t : t = HistoryOf(p)'
  OBVIOUS
<1>1. /\ h \in Seq(Contents) /\ t \in Seq(Contents) /\ Len(t) = Len(h)
  BY DEF HistoryFits
<1>2. ASSUME NEW n \in 1 .. Len(h) PROVE h[n] = t[n]
  <2>1. PICK i \in VersionsOf(p) : versions[i].no = n
    BY DEF HistoryFits
  <2>2. h[n] = ContentAt(i)
    BY <2>1 DEF HistoryFits
  <2>3. versions'[i].no = n /\ t[n] = ContentAt(i)'
    BY <2>1 DEF HistoryFits
  <2> QED BY <2>2, <2>3 DEF ContentAt
<1> QED BY <1>1, <1>2, Alike

(* And one whose identities stay keeps its labels.                         *)
LEMMA LabelsStay ==
  ASSUME LabelsFit, LabelsFit', NEW p \in Pages, OwnIdentities(p)' = OwnIdentities(p)
  PROVE  LabelledOf(p)' = LabelledOf(p)
<1> PICK h : h = LabelledOf(p)
  OBVIOUS
<1> PICK t : t = LabelledOf(p)'
  OBVIOUS
<1>1. /\ h \in Seq(Texts) /\ t \in Seq(Texts) /\ Len(t) = Len(h)
  BY DEF LabelsFit
<1>2. ASSUME NEW n \in 1 .. Len(h) PROVE h[n] = t[n]
  <2>1. PICK i \in OwnIdentities(p) : i.label = n
    BY DEF LabelsFit
  <2> QED BY <2>1 DEF LabelsFit
<1> QED BY <1>1, <1>2, Alike

(* The number of the active version is one of the history, or none.        *)
LEMMA ActiveRead ==
  ASSUME RowsTyped, ActiveIsOwn, HistoryFits, NEW p \in Pages
  PROVE  ActiveNumber(p) \in Nat /\ ActiveNumber(p) <= Len(HistoryOf(p))
<1>1. page[p].active = 0 \/ page[p].active \in VersionsOf(p)
  BY DEF ActiveIsOwn
<1> QED BY <1>1 DEF ActiveNumber, HistoryFits

(* It stays while the row of the page names the same version.              *)
LEMMA ActiveStays ==
  ASSUME RowsTyped, RowsTyped', RowsGrow, ActiveIsOwn, NEW p \in Pages,
         page'[p].active = page[p].active
  PROVE  ActiveNumber(p)' = ActiveNumber(p)
<1>1. page[p].active = 0 \/ page[p].active \in DOMAIN versions
  BY DEF ActiveIsOwn, VersionsOf
<1>2. \A i \in DOMAIN versions : versions'[i] = versions[i]
  BY VersionsGrow
<1> QED BY <1>1, <1>2 DEF ActiveNumber

(* What the registry is made of, named.                                    *)
Histories == [p \in Pages |-> HistoryOf(p)]
Actives == [p \in Pages |-> ActiveNumber(p)]
Labellings == [p \in Pages |-> LabelledOf(p)]
Simulated ==
  \/ \E p \in Pages : Registry!Save(p) \/ Registry!Activate(p) \/ Registry!Label(p)
  \/ UNCHANGED Registry!registryVars

(* The rows start as a registry does.                                      *)
LEMMA InitSimulated == Init /\ IInv /\ RegInv => Registry!Init
<1> SUFFICES ASSUME Init, IInv, RegInv PROVE Registry!Init
  OBVIOUS
<1>0. HistoryFits /\ LabelsFit /\ RowsTyped /\ ActiveIsOwn
  BY HistoryRead, LabelsRead DEF IInv, RowInv
<1>1. Histories \in [Pages -> Seq(Contents)]
  BY <1>0 DEF Histories, HistoryFits
<1>2. ASSUME NEW p \in Pages PROVE LabelledOf(p) = <<>>
  <2>1. OwnIdentities(p) = {}
    BY DEF Init, ControlInit, OwnIdentities
  <2>2. LabelledOf(p) \in Seq(Texts) /\ Len(LabelledOf(p)) = 0
    BY <1>0, <2>1, FS_EmptySet DEF LabelsFit
  <2> QED BY <2>2
<1>3. \A p \in Pages : ActiveNumber(p) \in Nat /\ ActiveNumber(p) <= Len(HistoryOf(p))
  BY <1>0, ActiveRead
<1>4. Labellings = [p \in Pages |-> <<>>]
  BY <1>2 DEF Labellings
<1>5. Actives \in [Pages -> Nat] /\ \A p \in Pages : Actives[p] <= Len(Histories[p])
  BY <1>3 DEF Actives, Histories
<1> QED BY <1>1, <1>4, <1>5 DEF Registry!Init, Histories, Actives, Labellings, Contents

(* An insert saves, a write of a page row activates or says nothing new,   *)
(* an identification labels or finds the label, and the rest is no step.   *)
LEMMA StepSimulated == IInv /\ RegInv /\ IInv' /\ RegInv' /\ [Next]_vars => Simulated
<1> SUFFICES ASSUME IInv, RegInv, IInv', RegInv', [Next]_vars PROVE Simulated
  OBVIOUS
<1>0. /\ HistoryFits /\ LabelsFit /\ RowsTyped /\ ActiveIsOwn /\ RowInv /\ CallsHold
      /\ RowsTyped' /\ ActiveIsOwn'
  BY HistoryRead, LabelsRead DEF IInv, RowInv
<1>1. HistoryFits' /\ LabelsFit'
  <2>1. HistoryFits'
    BY <1>0, HistoryRead, PTL
  <2>2. LabelsFit'
    BY <1>0, LabelsRead, PTL
  <2> QED BY <2>1, <2>2
<1>2. /\ UNCHANGED versions => Histories' = Histories
      /\ UNCHANGED identities => Labellings' = Labellings
  <2>1. ASSUME UNCHANGED versions, NEW p \in Pages PROVE HistoryOf(p)' = HistoryOf(p)
    <3>1. VersionsOf(p)' = VersionsOf(p)
      BY <2>1 DEF VersionsOf
    <3> QED BY <1>0, <1>1, <2>1, <3>1, HistoryStays
  <2>2. ASSUME UNCHANGED identities, NEW p \in Pages PROVE LabelledOf(p)' = LabelledOf(p)
    <3>1. OwnIdentities(p)' = OwnIdentities(p)
      BY <2>2 DEF OwnIdentities
    <3> QED BY <1>0, <1>1, <3>1, LabelsStay
  <2> QED BY <2>1, <2>2 DEF Histories, Labellings
<1>3. CASE UNCHANGED <<page, versions, identities>>
  <2>1. \A p \in Pages : ActiveNumber(p)' = ActiveNumber(p)
    BY <1>3 DEF ActiveNumber
  <2>2. Actives' = Actives
    BY <2>1 DEF Actives
  <2> QED BY <1>2, <1>3, <2>2
          DEF Simulated, Registry!registryVars, Histories, Actives, Labellings
<1>4. ASSUME NEW c \in Clients, Handle(c) PROVE Simulated
  <2>0. RowsGrow
    BY <1>0, <1>4, HandlerWrites DEF Written
  <2>1. CASE CreateVersion(c)
    <3>1. /\ UNCHANGED <<page, identities, jobs, artifacts, samples, envVars, spent>>
          /\ Labellings' = Labellings
      BY <1>2, <2>1, VersionCreated
    <3>2. Actives' = Actives
      <4>1. \A p \in Pages : ActiveNumber(p)' = ActiveNumber(p)
        BY <1>0, <2>0, <3>1, ActiveStays
      <4> QED BY <4>1 DEF Actives
    <3>3. ASSUME NEW new \in VersionRows, versions' = Append(versions, new),
                 ~Taken(new.page, new.no),
                 new.no \in 1 .. Cardinality(VersionsOf(new.page)) + 1,
                 new.no <= Len(versions) + 1
          PROVE  Simulated
      <4> PICK p : p = new.page
        OBVIOUS
      <4> PICK h : h = HistoryOf(p)
        OBVIOUS
      <4> PICK t : t = HistoryOf(p)'
        OBVIOUS
      <4> PICK last : last = Len(versions) + 1
        OBVIOUS
      <4>1. /\ \A o \in Pages : o # p => VersionsOf(o)' = VersionsOf(o)
            /\ VersionsOf(p)' = VersionsOf(p) \cup {last}
            /\ Cardinality(VersionsOf(p))' = Cardinality(VersionsOf(p)) + 1
            /\ new.no = Cardinality(VersionsOf(p)) + 1
        BY <1>0, <3>1, <3>3, NumberedAppend DEF RegInv
      <4>2. /\ \A i \in DOMAIN versions : versions'[i] = versions[i] /\ versions'[last] = new
            /\ p \in Pages /\ versions'[last] = new
        <5>1. versions \in Seq(VersionRows) /\ p \in Pages
          BY <1>0 DEF RowsTyped, VersionRows
        <5> QED BY <3>3, <5>1
      <4>3. \A o \in Pages : o # p => HistoryOf(o)' = HistoryOf(o)
        <5>1. \A o \in Pages : \A i \in VersionsOf(o) : versions'[i] = versions[i]
          BY <4>2 DEF VersionsOf
        <5> QED BY <1>0, <1>1, <4>1, <5>1, HistoryStays
      <4>4. t = Append(h, ContentAt(last)') /\ t # h /\ ContentAt(last)' \in Contents
        <5> PICK e : e = ContentAt(last)'
          OBVIOUS
        <5>1. /\ h \in Seq(Contents) /\ t \in Seq(Contents) /\ Len(t) = Len(h) + 1
              /\ Len(h) \in Nat /\ new.no = Len(t)
          BY <1>0, <1>1, <4>1, <4>2 DEF HistoryFits
        <5>2. ASSUME NEW n \in 1 .. Len(h) PROVE t[n] = h[n]
          <6>1. PICK i \in VersionsOf(p) : versions[i].no = n /\ h[n] = ContentAt(i)
            BY <1>0, <4>2 DEF HistoryFits
          <6>2. i \in VersionsOf(p)' /\ versions'[i] = versions[i]
            BY <4>1, <4>2 DEF VersionsOf
          <6>3. t[n] = ContentAt(i)'
            BY <1>1, <4>2, <6>1, <6>2 DEF HistoryFits
          <6> QED BY <6>1, <6>2, <6>3 DEF ContentAt
        <5>3. t[Len(t)] = e
          <6>1. last \in VersionsOf(p)' /\ versions'[last].no = Len(t)
            BY <4>1, <4>2, <5>1
          <6> QED BY <1>1, <4>2, <6>1 DEF HistoryFits
        <5>4. e \in Contents
          BY <4>2 DEF ContentAt, Contents, VersionRows
        <5> QED BY <5>1, <5>2, <5>3, <5>4, Appended
      <4>5. /\ Histories' = [Histories EXCEPT ![p] = Append(@, ContentAt(last)')]
            /\ Histories' # Histories
        BY <4>2, <4>3, <4>4 DEF Histories
      <4>6. Registry!Save(p)
        BY <3>1, <3>2, <4>4, <4>5
           DEF Registry!Save, Histories, Actives, Labellings, Contents
      <4> QED BY <4>2, <4>6 DEF Simulated
    <3>4. CASE versions' = versions
      BY <1>3, <3>1, <3>4
    <3> QED BY <2>1, <3>3, <3>4, VersionCreated
  <2>2. CASE UpsertPage(c) \/ ActivateVersion(c) \/ UpdateFlags(c)
    <3>1. UNCHANGED <<versions, identities>> /\ Histories' = Histories /\ Labellings' = Labellings
      BY <1>2, <2>2, PageRowWritten
    <3>2. PICK p \in Pages :
            /\ \A o \in Pages : o # p => page'[o].active = page[o].active
            /\ page'[p].active = page[p].active \/ page'[p].active \in VersionsOf(p)
      BY <2>2, PageRowWritten
    <3>3. \A o \in Pages : o # p => ActiveNumber(o)' = ActiveNumber(o)
      BY <1>0, <2>0, <3>2, ActiveStays
    <3>4. CASE ActiveNumber(p)' = ActiveNumber(p)
      <4>1. Actives' = Actives
        BY <3>3, <3>4 DEF Actives
      <4> QED BY <3>1, <4>1 DEF Simulated, Registry!registryVars, Histories, Actives, Labellings
    <3>5. CASE ActiveNumber(p)' # ActiveNumber(p)
      <4>1. page'[p].active \in VersionsOf(p) /\ page'[p].active # 0
        <5>1. page'[p].active # page[p].active
          BY <1>0, <2>0, <3>5, ActiveStays
        <5>2. \A i \in VersionsOf(p) : i # 0
          BY <1>0 DEF VersionsOf, RowsTyped
        <5> QED BY <3>2, <5>1, <5>2
      <4>2. ActiveNumber(p)' \in 1 .. Len(HistoryOf(p))
        BY <1>0, <3>1, <4>1 DEF HistoryFits, ActiveNumber
      <4>3. DOMAIN Histories[p] = 1 .. Len(HistoryOf(p))
        BY <1>0 DEF Histories, HistoryFits
      <4>4. Actives' = [Actives EXCEPT ![p] = ActiveNumber(p)'] /\ Actives' # Actives
        BY <3>3, <3>5 DEF Actives
      <4>5. Registry!Activate(p)
        BY <3>1, <4>2, <4>3, <4>4 DEF Registry!Activate, Histories, Actives, Labellings
      <4> QED BY <4>5 DEF Simulated
    <3> QED BY <3>4, <3>5
  <2>3. CASE IdentifyForJob(c) \/ IdentifyForPreview(c)
    <3>1. UNCHANGED <<page, versions>> /\ Histories' = Histories
      BY <1>2, <2>3, PromptIdentified
    <3>2. Actives' = Actives
      <4>1. \A p \in Pages : ActiveNumber(p)' = ActiveNumber(p)
        BY <3>1 DEF ActiveNumber
      <4> QED BY <4>1 DEF Actives
    <3>3. PICK p \in Pages, prompt \in Texts : identities' = Identify(p, prompt)
      BY <2>3, PromptIdentified
    <3>4. ASSUME NEW new \in IdentityRows,
                 new.page = p, new.label = Cardinality(OwnIdentities(p)) + 1,
                 \A i \in OwnIdentities(p) : i.prompt # new.prompt,
                 OwnIdentities(p)' = OwnIdentities(p) \cup {new},
                 Cardinality(OwnIdentities(p))' = Cardinality(OwnIdentities(p)) + 1,
                 \A o \in Pages : o # p => OwnIdentities(o)' = OwnIdentities(o)
          PROVE  Simulated
      <4> PICK h : h = LabelledOf(p)
        OBVIOUS
      <4> PICK t : t = LabelledOf(p)'
        OBVIOUS
      <4>1. \A o \in Pages : o # p => LabelledOf(o)' = LabelledOf(o)
        BY <1>0, <1>1, <3>4, LabelsStay
      <4>2. /\ h \in Seq(Texts) /\ t \in Seq(Texts) /\ Len(t) = Len(h) + 1
            /\ Len(h) \in Nat /\ new.label = Len(t) /\ new.prompt \in Texts
        BY <1>0, <1>1, <3>4 DEF LabelsFit, IdentityRows
      <4>3. ASSUME NEW n \in 1 .. Len(h)
            PROVE  t[n] = h[n] /\ h[n] # new.prompt
        <5>1. PICK i \in OwnIdentities(p) : i.label = n /\ h[n] = i.prompt
          BY <1>0 DEF LabelsFit
        <5>2. i \in OwnIdentities(p)'
          BY <3>4
        <5>3. t[n] = i.prompt
          BY <1>1, <5>1, <5>2 DEF LabelsFit
        <5> QED BY <3>4, <5>1, <5>3
      <4>4. t[Len(t)] = new.prompt
        <5>1. new \in OwnIdentities(p)'
          BY <3>4
        <5> QED BY <1>1, <4>2, <5>1 DEF LabelsFit
      <4>5. t = Append(h, new.prompt) /\ t # h
        BY <4>2, <4>3, <4>4, Appended
      <4>6. /\ Labellings' = [Labellings EXCEPT ![p] = Append(@, new.prompt)]
            /\ Labellings' # Labellings
            /\ \A n \in DOMAIN Labellings[p] : Labellings[p][n] # new.prompt
        <5>1. Labellings[p] = h /\ DOMAIN h = 1 .. Len(h)
          BY <4>2 DEF Labellings
        <5>2. \A n \in DOMAIN Labellings[p] : Labellings[p][n] # new.prompt
          BY <4>3, <5>1
        <5>3. /\ Labellings' = [Labellings EXCEPT ![p] = Append(@, new.prompt)]
              /\ Labellings' # Labellings
          BY <4>1, <4>5 DEF Labellings
        <5> QED BY <5>2, <5>3
      <4>7. Registry!Label(p)
        BY <3>1, <3>2, <4>2, <4>6
           DEF Registry!Label, Histories, Actives, Labellings, Texts
      <4> QED BY <4>7 DEF Simulated
    <3>5. CASE identities' = identities
      BY <1>3, <3>1, <3>5
    <3> QED BY <1>0, <3>3, <3>4, <3>5, LabelledAppend DEF RegInv
  <2> QED BY <1>3, <1>4, <2>1, <2>2, <2>3, WritersOnly DEF Writes
<1> QED BY <1>3, <1>4, StepCases DEF Aside, rowVars

(* The rows implement the registry: one history of versions per page,      *)
(* labels given in order and kept, whatever saves, activations, jobs and   *)
(* previews do at the same time.                                           *)
THEOREM RowsImplementRegistry == Spec => ImplementsRegistry
<1>1. Init => Registry!Init
  BY InitIInv, InitRegInv, InitSimulated
<1>2. IInv /\ RegInv /\ IInv' /\ RegInv' /\ [Next]_vars
        => [\E p \in Pages : Registry!Save(p) \/ Registry!Activate(p)
                             \/ Registry!Label(p)]_(Registry!registryVars)
  BY StepSimulated DEF Simulated
<1> QED BY <1>1, <1>2, RegInvHolds, PTL DEF Spec, ImplementsRegistry, Registry!Spec
=============================================================================
