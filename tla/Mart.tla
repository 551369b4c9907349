-------------------------------- MODULE Mart --------------------------------
(***************************************************************************)
(* From the results of an analysis to the rows the dashboard reads         *)
(* (read_models.builder.ts): one fact per conversation day and one per     *)
(* conversation day and member of staff.                                   *)
(***************************************************************************)
EXTENDS UnitAnalysis

(* An explicit signal wins over what the AI inferred.                      *)
RevisitLabel(day, result) ==
  IF "revisit" \in {day.revisit, result.journey} THEN "revisit" ELSE "not_revisit"

BuildFactThreadDay(run, t, day, result) ==
  [run |-> run.id, day |-> run.day, thread |-> t,
   isNew |-> day.isNew,
   revisit |-> RevisitLabel(day, result),
   need |-> result.need,
   outcome |-> result.outcome,
   risk |-> result.risk,
   messages |-> Len(day.messages),
   first |-> day.first, average |-> day.average,
   cost |-> result.cost]

(* Those the service assessed and those who wrote.                         *)
StaffNames(day, result) == {a.staff : a \in result.staff} \cup DOMAIN day.staff

(* Whoever wrote first in the day, by time and then by name, is credited   *)
(* with the first response.                                                *)
FirstResponseOwner(names, day) ==
  LET wrote == names \cap DOMAIN day.staff
  IN IF wrote # {}
     THEN CHOOSE s \in wrote : \A o \in wrote :
            \/ day.staff[s].firstAt < day.staff[o].firstAt
            \/ day.staff[s].firstAt = day.staff[o].firstAt /\ s <= o
     ELSE IF Cardinality(names) = 1 THEN CHOOSE s \in names : TRUE ELSE NoStaff

WholeCostEach(total, staffCount) == total    \* mutant: everyone is charged the whole cost

StaffCost(total, staffCount) == IF staffCount = 0 THEN 0 ELSE total \div staffCount

QualityOf(name, result) ==
  LET own == {a \in result.staff : a.staff = name}
  IN IF own = {} THEN "unknown" ELSE (CHOOSE a \in own : TRUE).quality

BuildFactStaffThreadDays(run, t, day, result) ==
  LET names == StaffNames(day, result)
      owner == FirstResponseOwner(names, day)
  IN {[run |-> run.id, day |-> run.day, thread |-> t, staff |-> s,
       need |-> result.need, risk |-> result.risk,
       quality |-> QualityOf(s, result),
       messages |-> IF s \in DOMAIN day.staff THEN day.staff[s].messages ELSE 0,
       first |-> IF s = owner THEN day.first ELSE NoTime,
       cost |-> StaffCost(result.cost, Cardinality(names))] : s \in names}

UsableSucceeded(results) ==                  \* mutant: "unknown" days are left out
  {t \in DOMAIN results : results[t].status = "succeeded"}

(* Only conversation days with a usable result become facts.               *)
Usable(results) == {t \in DOMAIN results : results[t].status \in {"succeeded", "unknown"}}

ThreadFacts(run, days, results) ==
  {BuildFactThreadDay(run, t, days[t], results[t]) : t \in Usable(results)}

StaffFacts(run, days, results) ==
  UNION {BuildFactStaffThreadDays(run, t, days[t], results[t]) : t \in Usable(results)}
=============================================================================
