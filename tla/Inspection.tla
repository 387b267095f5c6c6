------------------------------- MODULE Inspection -------------------------------
(***************************************************************************)
(* The daily inspection (inspection.py): build_daily_report turns the      *)
(* measures of a source over 24 hours into findings and a status.  The     *)
(* report keeps no state: what moves is what it is given, one measure at a *)
(* time, as the window moves on and things get better or worse.            *)
(***************************************************************************)
EXTENDS Integers

CONSTANTS
  MaxRuns,       \* bound: runs of either outcome in the window
  MaxItemCount,  \* bound: items of a source
  Baselines      \* baseline_item_count; NoBaseline when there is none

NoBaseline == -1

ASSUME InspectionAssumption ==
  MaxRuns \in Nat /\ MaxItemCount \in Nat /\ Baselines \subseteq Nat \cup {NoBaseline}

VARIABLES
  inReport,  \* the document has the source
  health     \* its SourceHealthInput

inspectionVars == <<inReport, health>>

\* What is compared with a limit is a member of "over": the parser failures,
\* the HTTP statuses, the queue and the circuit.
Limits == {"snapshots", "refused", "queue", "circuit"}

\* The last success: within the window, older, or never.
LastSuccess == <<"recent", "old", "never">>

Distance(a, b) == IF a < b THEN b - a ELSE a - b

(* A faulty variant of HighFailureRate: a mistake the property must find. *)

\* Failures are compared with successes.
HighFailureRatio(h) == h.succeeded > 0 /\ 5 * h.failed >= h.succeeded

\* failure_rate >= _MAX_FAILURE_RATE, a fifth
HighFailureRate(h) == h.succeeded + h.failed > 0 /\ 5 * h.failed >= h.succeeded + h.failed

\* _item_count_is_abnormal: off by half of the baseline or more
AbnormalItems(h) ==
  h.baseline \notin {NoBaseline, 0} /\ 2 * Distance(h.items, h.baseline) >= h.baseline

\* _inspect_source
Findings(h) ==
  h.over \cup {f \in {"no runs", "failure rate", "last success", "items"} :
    \/ f = "no runs" /\ h.succeeded + h.failed = 0
    \/ f = "failure rate" /\ HighFailureRate(h)
    \/ f = "last success" /\ LastSuccess[h.success] # "recent"
    \/ f = "items" /\ AbnormalItems(h)}

\* build_daily_report
Status ==
  IF ~inReport THEN "no_data" ELSE IF Findings(health) # {} THEN "attention" ELSE "healthy"

InspectionInit ==
  /\ inReport = FALSE
  /\ health = [succeeded |-> 0, failed |-> 0, success |-> 3, items |-> 0,
               baseline |-> NoBaseline, over |-> {}]

\* The source appears in the document, with the baseline it has.
Appear ==
  /\ ~inReport /\ inReport' = TRUE
  /\ \E b \in Baselines : health' = [health EXCEPT !.baseline = b]

\* One measure is worse than on the day before: a run failed or is missing, the
\* last success is longer ago, the items are farther from the baseline, or a
\* limit is passed.
Worsens ==
  /\ inReport /\ UNCHANGED inReport
  /\ \/ health.failed < MaxRuns /\ health' = [health EXCEPT !.failed = @ + 1]
     \/ health.succeeded > 0 /\ health' = [health EXCEPT !.succeeded = @ - 1]
     \/ health.success < 3 /\ health' = [health EXCEPT !.success = @ + 1]
     \/ \E n \in 0..MaxItemCount :
          /\ Distance(n, health.baseline) > Distance(health.items, health.baseline)
          /\ health' = [health EXCEPT !.items = n]
     \/ \E l \in Limits \ health.over : health' = [health EXCEPT !.over = @ \cup {l}]

Improves ==
  /\ inReport /\ UNCHANGED inReport
  /\ \/ health.failed > 0 /\ health' = [health EXCEPT !.failed = @ - 1]
     \/ health.succeeded < MaxRuns
          /\ health' = [health EXCEPT !.succeeded = @ + 1, !.success = 1]
     \/ \E n \in 0..MaxItemCount :
          /\ Distance(n, health.baseline) <= Distance(health.items, health.baseline)
          /\ health' = [health EXCEPT !.items = n]
     \/ \E l \in health.over : health' = [health EXCEPT !.over = @ \ {l}]

InspectionNext == Appear \/ Worsens \/ Improves

InspectionSpec == InspectionInit /\ [][InspectionNext]_inspectionVars

-----------------------------------------------------------------------------
\* A source that needs attention does not become healthy by getting worse, at
\* whatever combination of measures: no rule hides what another one shows.
WorseIsNotHealthier ==
  [][Worsens /\ Status = "attention" => Status' = "attention"]_inspectionVars
=============================================================================
