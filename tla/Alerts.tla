-------------------------------- MODULE Alerts --------------------------------
(***************************************************************************)
(* AlertEvaluator (alerts.py) for one source.  evaluate() goes through the *)
(* rules: it reads the stored state of a rule, writes it when the          *)
(* condition crossed its threshold, and returns the events of all rules at *)
(* the end.  The store may raise at any call; the events are then lost.    *)
(* Nothing keeps two evaluations of the source from overlapping.           *)
(***************************************************************************)
EXTENDS Naturals, FiniteSets

CONSTANTS
  Evaluators,  \* processes that evaluate the source
  NumRules,    \* the rules of _conditions, in their order
  KindOf       \* how a rule compares: "atLeast", "above", "atMost"

Rules == 1..NumRules
Kinds == {"atLeast", "above", "atMost"}

ASSUME AlertsAssumption ==
  NumRules \in Nat \ {0} /\ KindOf \in [Rules -> Kinds]

VARIABLES
  alert,      \* Redis: state of a rule; "unset" when the key is absent
  rule,       \* the rule an evaluation is at; 0 when there is none
  firing,     \* the rules whose condition holds in its scenario
  previous,   \* what it read for its rule; "unread" before
  changed,    \* the rules whose transition it stored: the events to return
  notified,   \* history: the last event returned for a rule
  judged,     \* history: what the last evaluation that passed a rule found;
              \* "overtaken" when it kept a state that was no longer stored
  crossed,    \* history: evaluations that have overlapped another one
  unsure      \* history: rules an event of which was lost, or stored by a crossed
              \* evaluation, and of which no other has returned an event since

alertVars == <<alert, rule, firing, previous, changed, notified, judged, crossed, unsure>>

\* A measure is absent, or lies below, at or above the threshold of its rule.
Levels == {"absent", "below", "at", "above"}

\* _conditions: a rule without a measure does not fire.
Fires(kind, level) ==
  level \in CASE kind = "atLeast" -> {"at", "above"}
              [] kind = "above"   -> {"above"}
              [] kind = "atMost"  -> {"below", "at"}
Conditions(scenario) == {r \in Rules : Fires(KindOf[r], scenario[r])}

\* The state an evaluation calls for.
Outcome(e, r) == IF r \in firing[e] THEN "active" ELSE "resolved"

(* Faulty variants of Transition: mistakes the properties must find. *)

\* A rule that does not fire is resolved whatever it was.
TransitionAlways(e, r, old) == IF r \in firing[e] THEN old # "active" ELSE old # "resolved"

\* Only the first activation is a transition.
TransitionOnce(e, r, old) == IF r \in firing[e] THEN old = "unset" ELSE old = "active"

\* The state changes: a rule that was never active is not resolved.
Transition(e, r, old) == IF r \in firing[e] THEN old # "active" ELSE old = "active"

AlertsInit ==
  /\ alert = [r \in Rules |-> "unset"]
  /\ rule = [e \in Evaluators |-> 0]
  /\ firing = [e \in Evaluators |-> {}]
  /\ previous = [e \in Evaluators |-> "unread"]
  /\ changed = [e \in Evaluators |-> {}]
  /\ notified = [r \in Rules |-> "unset"]
  /\ judged = [r \in Rules |-> "unset"]
  /\ crossed = {} /\ unsure = {}

Evaluating == {e \in Evaluators : rule[e] # 0}

\* evaluate() is called with the aggregates of the moment.
Evaluate(e) ==
  /\ rule[e] = 0
  /\ rule' = [rule EXCEPT ![e] = 1]
  /\ \E scenario \in [Rules -> Levels] :
       firing' = [firing EXCEPT ![e] = Conditions(scenario)]
  /\ crossed' = IF Evaluating = {} THEN {} ELSE Evaluating \cup {e}
  /\ UNCHANGED <<alert, previous, changed, notified, judged, unsure>>

ReadAlert(e) ==
  /\ rule[e] \in Rules /\ previous[e] = "unread"
  /\ previous' = [previous EXCEPT ![e] = alert[rule[e]]]
  /\ UNCHANGED <<alert, rule, firing, changed, notified, judged, crossed, unsure>>

NextRule(e) ==
  /\ rule' = [rule EXCEPT ![e] = @ + 1]
  /\ previous' = [previous EXCEPT ![e] = "unread"]

Judge(e, verdict) == judged' = [judged EXCEPT ![rule[e]] = verdict]

(* A faulty variant of StoreAlert. *)

\* The event is returned, the state is not stored.
StoreAlertForgets(e) ==
  /\ rule[e] \in Rules /\ previous[e] # "unread"
  /\ Transition(e, rule[e], previous[e])
  /\ changed' = [changed EXCEPT ![e] = @ \cup {rule[e]}]
  /\ NextRule(e) /\ Judge(e, Outcome(e, rule[e]))
  /\ unsure' = IF e \in crossed THEN unsure \cup {rule[e]} ELSE unsure
  /\ UNCHANGED <<alert, firing, notified, crossed>>

\* A transition is stored and its event is kept for the end ...
StoreAlert(e) ==
  /\ rule[e] \in Rules /\ previous[e] # "unread"
  /\ Transition(e, rule[e], previous[e])
  /\ alert' = [alert EXCEPT ![rule[e]] = Outcome(e, rule[e])]
  /\ changed' = [changed EXCEPT ![e] = @ \cup {rule[e]}]
  /\ NextRule(e) /\ Judge(e, Outcome(e, rule[e]))
  /\ unsure' = IF e \in crossed THEN unsure \cup {rule[e]} ELSE unsure
  /\ UNCHANGED <<firing, notified, crossed>>

\* ... and nothing is done when the state stays.
KeepAlert(e) ==
  /\ rule[e] \in Rules /\ previous[e] # "unread"
  /\ ~Transition(e, rule[e], previous[e])
  /\ NextRule(e)
  /\ Judge(e, IF previous[e] = alert[rule[e]] THEN Outcome(e, rule[e]) ELSE "overtaken")
  /\ UNCHANGED <<alert, firing, changed, notified, crossed, unsure>>

Idle(e) ==
  /\ rule' = [rule EXCEPT ![e] = 0]
  /\ firing' = [firing EXCEPT ![e] = {}]
  /\ previous' = [previous EXCEPT ![e] = "unread"]
  /\ changed' = [changed EXCEPT ![e] = {}]
  /\ crossed' = crossed \ {e}

\* The list of events reaches the caller.
ReturnEvents(e) ==
  /\ rule[e] = NumRules + 1
  /\ notified' = [r \in Rules |-> IF r \in changed[e] THEN Outcome(e, r) ELSE notified[r]]
  /\ unsure' = IF e \in crossed THEN unsure ELSE unsure \ changed[e]
  /\ Idle(e)
  /\ UNCHANGED <<alert, judged>>

\* get() or set() raises, or the process dies; a set() may have been applied.
EvaluationFails(e) ==
  /\ rule[e] # 0
  /\ \/ /\ unsure' = unsure \cup changed[e]
        /\ UNCHANGED <<alert, judged>>
     \/ /\ rule[e] \in Rules /\ previous[e] # "unread"
        /\ Transition(e, rule[e], previous[e])
        /\ alert' = [alert EXCEPT ![rule[e]] = Outcome(e, rule[e])]
        /\ Judge(e, Outcome(e, rule[e]))
        /\ unsure' = unsure \cup changed[e] \cup {rule[e]}
  /\ Idle(e)
  /\ UNCHANGED notified

AlertsNext ==
  \E e \in Evaluators :
    Evaluate(e) \/ ReadAlert(e) \/ StoreAlert(e) \/ KeepAlert(e)
      \/ ReturnEvents(e) \/ EvaluationFails(e)

AlertsSpec == AlertsInit /\ [][AlertsNext]_alertVars

-----------------------------------------------------------------------------
\* The types of the alert state and of the evaluations.
AlertsTypeOK ==
  /\ alert \in [Rules -> {"unset", "active", "resolved"}]
  /\ rule \in [Evaluators -> 0..NumRules + 1]
  /\ firing \in [Evaluators -> SUBSET Rules]
  /\ previous \in [Evaluators -> {"unread", "unset", "active", "resolved"}]
  /\ changed \in [Evaluators -> SUBSET Rules]
  /\ notified \in [Rules -> {"unset", "active", "resolved"}]
  /\ judged \in [Rules -> {"unset", "active", "resolved", "overtaken"}]
  /\ crossed \subseteq Evaluators /\ unsure \subseteq Rules

Pending(r) == \E e \in Evaluators : r \in changed[e]

\* The stored state of a rule is the last event its readers were given, or an
\* evaluation is about to return one.  An evaluation that fails, or stores while
\* another one is under way, ends that for its rules; the next one that has the
\* source to itself and returns an event of them restores it.
NotifiedIsStored ==
  \A r \in Rules : Pending(r) \/ r \in unsure \/ notified[r] = alert[r]

\* A rule is stored as active exactly if its condition held when it was last
\* looked at, wherever evaluations failed or overlapped; the exception is one that
\* kept a state another evaluation had meanwhile replaced.
StoredIsJudged ==
  \A r \in Rules : judged[r] # "overtaken" => (alert[r] = "active" <=> judged[r] = "active")

\* Repeated evaluation of an unchanged condition is silent: what is returned
\* for a rule alternates, beginning with active, until an event of it is lost or
\* two evaluations overlap.
EventsAlternate ==
  [][\A e \in Evaluators : ReturnEvents(e) =>
       \A r \in changed[e] \ unsure :
         IF r \in firing[e] THEN notified[r] # "active" ELSE notified[r] = "active"]_alertVars
=============================================================================
