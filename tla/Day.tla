--------------------------------- MODULE Day ---------------------------------
(***************************************************************************)
(* One business day on its way from the conversations at Pancake to the    *)
(* figures on the dashboard: the request is split into child runs, the     *)
(* worker extracts and transforms the conversations of one of them, the AI *)
(* service analyses them, the mart is written, the run is published, and   *)
(* somebody looks at the dashboard meanwhile.  Earlier runs of the page    *)
(* are already on the board.                                               *)
(*                                                                         *)
(* How several runs, batches and retries share the database is the subject *)
(* of RunGroup, Analysis and Publish; here each of those stages is a step, *)
(* and what is followed is the data.                                       *)
(***************************************************************************)
EXTENDS Extraction, Dashboard

CONSTANTS Requests,    \* what may be asked of the planner: [start, end] or [day]
          Worlds,      \* [source, etl, mode, caps, earlier]: what the run finds, earlier
                       \* being the [board, mart, staffMart] of former runs
          FirstTick,   \* the time at which the run is asked for
          MaxTicks     \* bound: ticks of the clock

Snapshots == [day : Nat, channel : {"official", "provisional"}, run : Nat]

(* Former runs, not numbered as the one followed, left what this one does: *)
(* one snapshot a day and channel, one fact a conversation, facts of the   *)
(* day of the snapshot, and never a revisit as a need.                     *)
Former(runs) ==
  /\ runs.board \subseteq Snapshots /\ \A s \in runs.board : s.run # 1
  /\ \A s, o \in runs.board : s.day = o.day /\ s.channel = o.channel => s = o
  /\ \A f \in runs.mart : f.run # 1 /\ f.need # "revisit"
  /\ \A f, g \in runs.mart : f.run = g.run /\ f.thread = g.thread => f = g
  /\ \A s \in runs.board, f \in runs.mart : f.run = s.run => f.day = s.day
  /\ \A f \in runs.staffMart : \E g \in runs.mart : f.run = g.run /\ f.thread = g.thread

(* Conversations as they stand when the run is asked for: newest first,    *)
(* each message with a number of its own below those of NewMessage.        *)
Standing(conversation) ==
  LET messages == conversation.messages
  IN /\ conversation \in Conversations
     /\ \A i \in DOMAIN messages : messages[i].at <= FirstTick /\ messages[i].id < 100
     /\ \A i, j \in DOMAIN messages :
          i < j => messages[j].at <= messages[i].at /\ messages[j].id # messages[i].id

ASSUME DayConstants ==
  /\ {FirstTick, MaxTicks} \subseteq Nat
  /\ Requests \subseteq [day : Nat] \cup [start : Nat, end : Nat]
  /\ \A world \in Worlds :
       /\ DOMAIN world.source = Threads
       /\ \A t \in Threads : Standing(world.source[t])
       /\ world.etl \in Policies /\ world.caps \in Caps /\ Former(world.earlier)

VARIABLES asked,       \* the request the plan was made for
          plan,        \* its child runs
          setup,       \* the ETL config and the mode of the AI service
          days,        \* thread -> its conversation day, for those that have one
          unsaved,     \* the thread days the run's metrics name as not saved
          results      \* thread -> the result of its analysis

pipelineVars == <<asked, plan, setup, days, unsaved, results>>
vars == <<extractionVars, dashboardVars, pipelineVars>>

Nothing == [t \in {} |-> 0]

Init ==
  \E world \in Worlds :
    /\ now = FirstTick
    /\ source = world.source
    /\ arrivals = 0
    /\ job = [id |-> 1, stage |-> "none", day |-> 0, full |-> FALSE, eligibility |-> "none",
              window |-> [start |-> 0, end |-> 0], caps |-> world.caps]
    /\ scan = NewScan
    /\ setup = [etl |-> world.etl, mode |-> world.mode]
    /\ asked = <<>> /\ plan = <<>>
    /\ days = Nothing /\ unsaved = {} /\ results = Nothing
    /\ board = world.earlier.board
    /\ mart = world.earlier.mart /\ staffMart = world.earlier.staffMart
    /\ view = NoView

(***************************************************************************)
(* The pipeline.                                                           *)
(***************************************************************************)
PlanOf(request) == IF "day" \in DOMAIN request THEN <<FullDayRun(request.day, now)>>
                   ELSE SplitByTargetDate(request.start, request.end, now)

(* The child runs are executed one after the other; one of them is         *)
(* followed here.                                                          *)
PlanJob(request) ==
  /\ job.stage = "none"
  /\ asked' = request
  /\ plan' = PlanOf(request)
  /\ \E i \in DOMAIN plan' :
       job' = [job EXCEPT !.stage = "queued", !.day = plan'[i].day,
                          !.full = plan'[i].full, !.eligibility = plan'[i].eligibility,
                          !.window = [start |-> plan'[i].start, end |-> plan'[i].end]]
  /\ UNCHANGED <<now, source, arrivals, scan, setup, days, unsaved, results, dashboardVars>>

(* A conversation with no message in the window leaves no conversation day.*)
WithMessages == {t \in Threads : scan.found[t] # {}}

(* Each conversation day is saved in a transaction of its own.  One that   *)
(* cannot be saved is left out and named in the run's metrics, and the run *)
(* goes on unless none could be saved.                                     *)
LoadDays ==
  /\ job.stage = "extracted"
  /\ \E saved \in SUBSET WithMessages :
       /\ days' = [t \in saved |->
                     BuildConversationDay(source[t], scan.found[t], job.window, setup.etl)]
       /\ unsaved' = WithMessages \ saved
       /\ job' = [job EXCEPT !.stage = IF saved = {} /\ WithMessages # {} THEN "failed"
                                       ELSE "loaded"]
  /\ UNCHANGED <<now, source, arrivals, scan, asked, plan, setup, results, dashboardVars>>

(* All units of the run; one that fails leaves the run failed.             *)
Analyse ==
  /\ job.stage = "loaded"
  /\ results' \in Results(setup.mode, days)
  /\ job' = [job EXCEPT !.stage = IF \E t \in DOMAIN results' : results'[t].status = "failed"
                                  THEN "failed" ELSE "analysed"]
  /\ UNCHANGED <<now, source, arrivals, scan, asked, plan, setup, days, unsaved, dashboardVars>>

Materialize ==
  /\ job.stage = "analysed"
  /\ mart' = {f \in mart : f.run # job.id} \cup ThreadFacts(job, days, results)
  /\ staffMart' = {f \in staffMart : f.run # job.id} \cup StaffFacts(job, days, results)
  /\ job' = [job EXCEPT !.stage = "materialized"]
  /\ UNCHANGED <<now, source, arrivals, scan, board, view, pipelineVars>>

ReplacedNone(channel) == {}       \* mutant: the former snapshot stays

(* The snapshots of its day that a run replaces: an official run those of  *)
(* both channels, a provisional run its own channel only.                  *)
Replaced(channel) == {s \in board : s.day = job.day /\ (channel = "official" \/ s.channel = channel)}

PublishAs(channel) ==
  board' = (board \ Replaced(channel)) \cup {[day |-> job.day, channel |-> channel, run |-> job.id]}

Publish ==
  /\ job.stage = "materialized"
  /\ \E f \in mart : f.run = job.id
  /\ \/ job.eligibility = "official_full_day" /\ PublishAs("official")
     \/ job.eligibility = "provisional_current_day_partial" /\ PublishAs("provisional")
  /\ job' = [job EXCEPT !.stage = "published"]
  /\ UNCHANGED <<now, source, arrivals, scan, mart, staffMart, view, pipelineVars>>

(***************************************************************************)
(* The surroundings.                                                       *)
(***************************************************************************)
Tick ==
  /\ now < FirstTick + MaxTicks
  /\ now' = now + 1
  /\ UNCHANGED <<source, arrivals, job, scan, dashboardVars, pipelineVars>>

(* Bound: a request that is answered before the mart of the run is written *)
(* reads nothing of it, so requests are made from then on.                 *)
Look(ask) == job.stage \in {"materialized", "published"} /\ OpenView(ask)

ViewStep == \/ ListSnapshots \/ ResolveSlice(BusinessDay(now))
            \/ ListFactThreadDays \/ ListFactStaffThreadDays

ScanStep == Extract \/ \E t \in Threads, kind \in Arriving : Arrive(t, kind)

Next ==
  \/ \E request \in Requests : PlanJob(request)
  \/ ScanStep /\ UNCHANGED <<dashboardVars, pipelineVars>>
  \/ LoadDays \/ Analyse \/ Materialize \/ Publish
  \/ Tick
  \/ (ViewStep \/ \E ask \in Asks : Look(ask)) /\ UNCHANGED <<extractionVars, pipelineVars>>

Spec == Init /\ [][Next]_vars

------------------------------------------------------------------------------
Stages == {"none", "queued", "listing", "paging", "extracted", "loaded", "analysed",
           "materialized", "published", "failed"}
(* The stage of the run, its days, its results and the rows of its mart    *)
(* belong together: results only of conversation days, facts only of       *)
(* results that can be used, and at most one snapshot a day and channel.   *)
TypeOK ==
  /\ job.stage \in Stages
  /\ scan.whole \subseteq Threads /\ DOMAIN days \cup unsaved \subseteq Threads
  /\ results # Nothing => DOMAIN results = DOMAIN days
  /\ {f.thread : f \in {x \in mart : x.run = job.id}} \subseteq DOMAIN results
  /\ {[run |-> f.run, thread |-> f.thread] : f \in staffMart}
       \subseteq {[run |-> f.run, thread |-> f.thread] : f \in mart}
  /\ board \subseteq Snapshots
  /\ \A s, o \in board : s.day = o.day /\ s.channel = o.channel => s = o
  /\ view.stage \in {"none", "listing", "resolving", "reading", "answered"}

(* The child runs of a request cover it without a gap or an overlap, each  *)
(* lies within the business day it is labelled with, so that the worker    *)
(* does not refuse it, and exactly those that span the day from midnight   *)
(* to midnight count as full days, the only ones that may be published as  *)
(* official.                                                               *)
WindowsTile ==
  LET from == IF "day" \in DOMAIN asked THEN DayStart(asked.day) ELSE asked.start
      to == IF "day" \in DOMAIN asked THEN DayStart(asked.day + 1) ELSE asked.end
  IN plan # <<>> =>
       /\ plan[1].start = from /\ plan[Len(plan)].end = to
       /\ \A i \in DOMAIN plan :
            /\ plan[i].start < plan[i].end
            /\ i < Len(plan) => plan[i].end = plan[i + 1].start
            /\ \A t \in plan[i].start..(plan[i].end - 1) : BusinessDay(t) = plan[i].day
            /\ Validated(plan[i].day, [start |-> plan[i].start, end |-> plan[i].end])
            /\ (plan[i].eligibility = "official_full_day")
                 <=> (plan[i].end - plan[i].start = DayLength)

(* A conversation read to its end, that is, not cut by a cap, has every    *)
(* message that lay in the window when its first page was read, whatever   *)
(* arrived while it was read; its day has each of them once and nothing    *)
(* from outside the window.                                                *)
NothingMissed ==
  /\ job.stage \notin {"none", "queued", "listing", "paging", "failed"} =>
       \A t \in scan.whole : scan.due[t] \subseteq Ids(scan.found[t])
  /\ \A t \in DOMAIN days :
       LET messages == days[t].messages
       IN /\ Len(messages) = Cardinality(Ids(Range(messages)))
          /\ \A i \in DOMAIN messages : InWindow(messages[i], job.window)
          /\ \A i, j \in DOMAIN messages : i < j => messages[i].at <= messages[j].at

(* The first response is the time from the first message of a customer to  *)
(* the first message of staff after it, and the average is over the waits  *)
(* a customer really had: from the first message after the staff fell      *)
(* silent to their next one.                                               *)
ResponseTimesAreReal ==
  \A t \in DOMAIN days :
    LET m == days[t].messages
        customers == {i \in DOMAIN m : m[i].role = "customer"}
        staff == {i \in DOMAIN m : m[i].role = "staff_via_pancake"}
        between(S, i, j) == {k \in S : i < k /\ k < j}
        lastStaff(i) == {k \in staff : k < i}
        opens(i) == \A k \in customers : k < i => between(staff, k, i) # {}
        waits == {w \in customers \X staff :
                    w[1] < w[2] /\ opens(w[1]) /\ between(staff, w[1], w[2]) = {}}
        length(w) == m[w[2]].at - m[w[1]].at
    IN IF waits = {} THEN days[t].first = NoTime /\ days[t].average = NoTime
       ELSE /\ \E w \in waits : /\ \A o \in waits : w[1] <= o[1]
                                /\ days[t].first = length(w)
            /\ days[t].average = SumFunction([w \in waits |-> length(w)]) \div Cardinality(waits)

(* An explicit signal has its source: a tag of the conversation mapped to  *)
(* its role, or an opening rule matched by a message before the human      *)
(* conversation starts; and a mapped tag is not lost: without a signal no  *)
(* tag has a code that counts.  Which of the two wins is left open: the    *)
(* builder takes the tag, the design the opening selection.                *)
Speaks(tag, role, code) ==
  \E e \in Range(EntryOf(tag, setup.etl.mapping)) : e.role = role /\ e.code = code

SignalsAreExplained ==
  \A t \in DOMAIN days :
    LET m == days[t].messages
        tags == source[t].tags \cup source[t].tagHistory
        codes == {e.code : e \in Range(setup.etl.mapping)} \ {Blank}
        human(i) == /\ m[i].role \in HumanRoles /\ m[i].kind.text # Blank
                    /\ \A j \in DOMAIN m : m[i].kind.text \notin m[j].kind.buttons
        chosen(role, code) ==
          \E i \in DOMAIN m, r \in Range(setup.etl.rules) :
            /\ r.role = role /\ r.code = code
            /\ r.texts \cap ({m[i].kind.text} \cup m[i].kind.buttons) # {}
            /\ \A j \in 1..i : ~human(j)
        silent(role, counting) == \A tag \in tags, c \in counting : ~Speaks(tag, role, c)
        explained(role, code, counting) ==
          IF code = Blank THEN silent(role, counting)
          ELSE \/ \E tag \in tags : code \in counting /\ Speaks(tag, role, code)
               \/ chosen(role, code)
    IN /\ explained("journey", days[t].revisit, codes \cap {"revisit"})
       /\ explained("need", days[t].need, codes)
       /\ explained("outcome", days[t].outcome, codes)

(* A day is "unknown" to the deterministic service exactly when neither a  *)
(* customer nor a member of staff said anything beyond pressing buttons;   *)
(* a conversation left unanswered is of high risk.                         *)
SilenceIsUnknown ==
  setup.mode = "deterministic_dev" =>
    \A t \in DOMAIN results :
      LET m == days[t].messages
          pressed == UNION {m[i].kind.buttons : i \in DOMAIN m}
          said == {i \in DOMAIN m : /\ m[i].role \in HumanRoles
                                    /\ m[i].kind.text \notin pressed \cup {Blank}}
      IN /\ (results[t].status = "unknown") <=> (said = {})
         /\ (\A i \in said : m[i].role = "customer") /\ said # {}
              /\ (\A i \in DOMAIN m : m[i].role # "staff_via_pancake")
              => results[t].risk = "high"

(* Being a revisit is never the need of a conversation on the dashboard,   *)
(* whatever the tags, the rules or the model say.                          *)
RevisitIsNoNeed == \A f \in mart : f.need # "revisit"

(* The staff facts of a conversation are those of the people who wrote in  *)
(* it that day, account for all their messages, and share out its cost     *)
(* without exceeding it or losing more than the remainder; exactly one of  *)
(* them is credited with a first response, when there was one.             *)
StaffFactsAddUp ==
  \A f \in {x \in mart : x.run = job.id} :
    LET m == days[f.thread].messages
        wrote == {i \in DOMAIN m : m[i].role = "staff_via_pancake"}
        own == {s \in staffMart : s.run = f.run /\ s.thread = f.thread}
        spent == SumFunction([s \in own |-> s.cost])
    IN /\ {s.staff : s \in own} = {m[i].kind.staff : i \in wrote}
       /\ SumFunction([s \in own |-> s.messages]) = Cardinality(wrote)
       /\ own # {} => spent <= f.cost /\ f.cost - spent < Cardinality(own)
       /\ Cardinality({s \in own : s.first # NoTime}) = IF f.first = NoTime THEN 0 ELSE 1

(* An answer counts a conversation once a day: one run a day, and no day   *)
(* both in the range and in the one it is compared with.                   *)
DayCountedOnce ==
  view.stage # "none" =>
    LET shown == view.slice["current"] \cup view.slice["previous"]
    IN /\ \A s, o \in shown : s.day = o.day => s = o
       /\ \A f, g \in view.threads["current"] \cup view.threads["previous"] :
            f.thread = g.thread /\ f.day = g.day => f = g
       /\ view.slice["current"] \cap view.slice["previous"] = {}

(* Facts of a provisional run are only shown to a reader who did not ask   *)
(* for official figures, only for the day that was today when the slice    *)
(* was resolved, and then the slice says that it is temporary.             *)
ProvisionalIsFlagged ==
  view.stage # "none" =>
    \A s \in view.slice["current"] : s.channel = "provisional" =>
      /\ view.ask.snapshot = "provisional" /\ s.day = view.today["current"]
      /\ Temporary /\ view.ask.kind # "export"

(* A line of the export is made of the facts of a run that covered the     *)
(* whole day.                                                              *)
ExportIsOfficial ==
  view.stage = "answered" /\ view.ask.kind = "export" =>
    \A row \in ExportRows : row.run = job.id => job.full /\ job.day = row.day

(* No conversation of a published day goes missing without a record: of    *)
(* those read to their end that had a message in the window when they were *)
(* read, the overview misses exactly the ones that the run's metrics name  *)
(* as not saved, and each of the others counts with all of its messages.   *)
EveryConversationCounted ==
  view.stage = "answered" /\ view.ask.kind = "overview" /\ view.ask.staff = NoStaff
  /\ view.ask.inbox = "all" =>
    \A s \in view.slice["current"] : s.run = job.id =>
      LET rows == {f \in Rows("current") : f.run = job.id}
          wrote == {t \in scan.whole : scan.due[t] # {}}
      IN /\ wrote \ {f.thread : f \in rows} = wrote \cap unsaved
         /\ \A f \in rows : f.thread \in scan.whole =>
              f.messages >= Cardinality(scan.due[f.thread])
         /\ Overview(rows).total >= Cardinality(wrote \ unsaved)

(* The overview says of its card "Ty le chot hen": official_closing_outcome*)
(* = booked.  Every conversation that the AI service found to have ended   *)
(* with an appointment should then be on it.                               *)
BookingsAreCounted ==
  view.stage = "answered" /\ view.ask.kind = "overview" =>
    LET rows == {f \in Rows("current") : f.run = job.id}
    IN Overview(rows).booked
         = Cardinality({f \in rows : results[f.thread].outcome = "appointment_booked"})
=============================================================================
