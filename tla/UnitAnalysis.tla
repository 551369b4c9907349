---------------------------- MODULE UnitAnalysis ----------------------------
(***************************************************************************)
(* What the AI service answers for one conversation day                    *)
(* (service/analysis_executor.py).  In development a deterministic adapter *)
(* reads the signals and the transcript; in production a model answers,    *)
(* here any of ProviderAnswers.  Either way the answer is normalised: the  *)
(* codes to the service's vocabulary, the staff to those who took part.    *)
(* Topics, mood, explanations and evidence are left out.                   *)
(***************************************************************************)
EXTENDS ThreadDay

CONSTANTS Says,            \* text -> the codes its key words stand for
          ProviderAnswers  \* what the model may answer

NoAnswer == [status |-> "none"]     \* no JSON object, an HTTP error, a timeout

(* Whatever object the model answers with is recorded as succeeded.         *)
ASSUME AnswersSucceed ==
  \A answer \in ProviderAnswers :
    answer # NoAnswer => answer.status = "succeeded" /\ answer.cost \in Int

Canonical(code, allowed, alias) ==
  IF code \in allowed THEN code
  ELSE IF code \in DOMAIN alias THEN alias[code]
  ELSE "unknown"

Journeys == {"new_to_clinic", "revisit"}
JourneyAlias == [tai_kham |-> "revisit", khach_moi |-> "new_to_clinic"]
Outcomes == {"appointment_booked", "follow_up", "not_closed"}
OutcomeAlias == [booked |-> "appointment_booked", followup |-> "follow_up",
                 chua_chot |-> "not_closed"]
Risks == {"low", "medium", "high"}
RiskAlias == [cao |-> "high"]
Qualities == {"strong", "adequate", "needs_attention"}
QualityAlias == [tot |-> "strong"]

Code(value) == IF value = Blank THEN "unknown" ELSE value

WholeDayTranscript(day) == Range(day.messages)   \* mutant: the opening block is analysed too

(* The transcript is the day without its opening block.                    *)
Transcript(day) == {m \in Range(day.messages) : ~m.opening}

By(role, transcript) == {m \in transcript : m.role = role}

IfSaid(transcript, code) ==
  IF \E m \in transcript : m.kind.text # Blank /\ code \in Says[m.kind.text]
  THEN code ELSE Blank

DeterministicNeed(day, transcript) ==
  LET need == OrElse(day.need, OrElse(IfSaid(transcript, "appointment_booking"),
                                      IfSaid(transcript, "consultation")))
  IN IF need = "revisit" THEN "unknown" ELSE Code(need)

DeterministicJourney(day, transcript) ==
  CASE day.revisit = "revisit" -> "revisit"
    [] day.revisit # "revisit" /\ day.journey \in Journeys -> day.journey
    [] day.revisit # "revisit" /\ day.journey \notin Journeys ->
         Code(OrElse(IfSaid(transcript, "revisit"), IfSaid(transcript, "new_to_clinic")))

DeterministicStaff(day, transcript) ==
  LET customers == By("customer", transcript)
      staff == By("staff_via_pancake", transcript)
      quality == IF customers = {} THEN "unknown"
                 ELSE IF staff = {} THEN "needs_attention" ELSE "adequate"
      names == SetToSortSeq(DOMAIN day.staff, LAMBDA a, b : a < b)
  IN [i \in DOMAIN names |-> [staff |-> names[i], quality |-> quality]]

DeterministicAnswer(day) ==
  LET transcript == Transcript(day)
      unanswered == By("customer", transcript) # {} /\ By("staff_via_pancake", transcript) = {}
  IN [status |-> IF transcript = {} THEN "unknown" ELSE "succeeded",
      need |-> DeterministicNeed(day, transcript),
      journey |-> DeterministicJourney(day, transcript),
      outcome |-> Code(OrElse(day.outcome, OrElse(IfSaid(transcript, "appointment_booked"),
                                              IfSaid(transcript, "follow_up")))),
      risk |-> IF unanswered THEN "high"
               ELSE IF IfSaid(transcript, "medium") # Blank THEN "medium" ELSE "low",
      staff |-> DeterministicStaff(day, transcript),
      cost |-> 0]

(* Only the staff of the day, each once, the first assessment kept.        *)
StaffAssessments(day, answered) ==
  LET kept == {i \in DOMAIN answered :
                 /\ answered[i].staff \in DOMAIN day.staff
                 /\ \A j \in 1..(i - 1) : answered[j].staff # answered[i].staff}
  IN {[staff |-> answered[i].staff,
       quality |-> Canonical(answered[i].quality, Qualities, QualityAlias)] : i \in kept}

FailedResult == [status |-> "failed", need |-> "unknown", journey |-> "unknown",
                 outcome |-> "unknown", risk |-> "unknown", staff |-> {}, cost |-> 0]

(* A revisit is a journey, never a need.                                   *)
Rejected(answer) == answer = NoAnswer \/ answer.need = "revisit"

NormalizedResult(day, answer) ==
  IF Rejected(answer) THEN FailedResult
  ELSE [status |-> answer.status,
        need |-> Code(answer.need),
        journey |-> Canonical(answer.journey, Journeys, JourneyAlias),
        outcome |-> Canonical(answer.outcome, Outcomes, OutcomeAlias),
        risk |-> Canonical(answer.risk, Risks, RiskAlias),
        staff |-> StaffAssessments(day, answer.staff),
        cost |-> Max({0, answer.cost})]

(* The results one request may bring back for the days of a batch.         *)
Answers(mode, day) ==
  IF mode = "deterministic_dev" THEN {DeterministicAnswer(day)} ELSE ProviderAnswers

Results(mode, days) ==
  {r \in [DOMAIN days -> UNION {{NormalizedResult(days[t], a) : a \in Answers(mode, days[t])} :
                                  t \in DOMAIN days}] :
     \A t \in DOMAIN days : \E a \in Answers(mode, days[t]) : r[t] = NormalizedResult(days[t], a)}
=============================================================================
