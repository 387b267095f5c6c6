--------------------------- MODULE MonitoringProofs ---------------------------
(***************************************************************************)
(* Theorems about monitoring: Alerts for any evaluators and rules, Metrics *)
(* for any recorders, FailureSnapshots for any runs and cleanups, and the  *)
(* judgement of Inspection for any thresholds.                             *)
(***************************************************************************)
EXTENDS Alerts, Metrics, FailureSnapshots, Inspection, FiniteSetTheorems, Induction

-----------------------------------------------------------------------------
(* Type correctness.                                                       *)

\* The rules are the positions of an evaluation between the first and the end.
LEMMA Positions ==
  /\ 0 \in 0..NumRules + 1 /\ 1 \in 0..NumRules + 1
  /\ \A r \in Rules : r \in 0..NumRules + 1 /\ r + 1 \in 0..NumRules + 1
  BY AlertsAssumption DEF Rules

\* What an evaluation calls for is a state of an alert.
LEMMA OutcomeType ==
  ASSUME NEW e \in Evaluators, NEW r \in Rules
  PROVE  Outcome(e, r) \in {"active", "resolved"}
  BY DEF Outcome

\* Passing to the next rule, or back to idleness, keeps the types.
LEMMA NextRuleType ==
  ASSUME AlertsTypeOK, NEW e \in Evaluators, rule[e] \in Rules, NextRule(e)
  PROVE  /\ rule' \in [Evaluators -> 0..NumRules + 1]
         /\ previous' \in [Evaluators -> {"unread", "unset", "active", "resolved"}]
<1>1. rule' \in [Evaluators -> 0..NumRules + 1]
  BY Positions DEF NextRule, AlertsTypeOK
<1>2. previous' \in [Evaluators -> {"unread", "unset", "active", "resolved"}]
  BY DEF NextRule, AlertsTypeOK
<1> QED
  BY <1>1, <1>2

\* What is found of a rule is a state, or nothing.
LEMMA JudgeType ==
  ASSUME AlertsTypeOK, NEW e \in Evaluators, NEW v \in {"active", "resolved", "overtaken"},
         Judge(e, v)
  PROVE  judged' \in [Rules -> {"unset", "active", "resolved", "overtaken"}]
  BY DEF Judge, AlertsTypeOK

\* An evaluation that ends leaves every evaluation within its types.
LEMMA IdleType ==
  ASSUME AlertsTypeOK, NEW e \in Evaluators, Idle(e)
  PROVE  /\ rule' \in [Evaluators -> 0..NumRules + 1]
         /\ firing' \in [Evaluators -> SUBSET Rules]
         /\ previous' \in [Evaluators -> {"unread", "unset", "active", "resolved"}]
         /\ changed' \in [Evaluators -> SUBSET Rules]
         /\ crossed' \subseteq Evaluators
  BY Positions DEF Idle, AlertsTypeOK

\* Every step of an evaluation keeps the types.
LEMMA AlertsTypeStep == ASSUME AlertsTypeOK, [AlertsNext]_alertVars PROVE AlertsTypeOK'
<1>1. ASSUME NEW e \in Evaluators, Evaluate(e) PROVE AlertsTypeOK'
  <2>1. rule' \in [Evaluators -> 0..NumRules + 1]
    BY <1>1, Positions DEF Evaluate, AlertsTypeOK
  <2>2. firing' \in [Evaluators -> SUBSET Rules]
    BY <1>1 DEF Evaluate, AlertsTypeOK, Conditions
  <2>3. crossed' \subseteq Evaluators
    BY <1>1 DEF Evaluate, Evaluating
  <2> QED
    BY <1>1, <2>1, <2>2, <2>3 DEF Evaluate, AlertsTypeOK
<1>2. ASSUME NEW e \in Evaluators, ReadAlert(e) PROVE AlertsTypeOK'
  BY <1>2 DEF ReadAlert, AlertsTypeOK
<1>3. ASSUME NEW e \in Evaluators, StoreAlert(e) PROVE AlertsTypeOK'
  <2>1. alert' \in [Rules -> {"unset", "active", "resolved"}]
    BY <1>3, OutcomeType DEF StoreAlert, AlertsTypeOK
  <2>2. changed' \in [Evaluators -> SUBSET Rules]
    BY <1>3 DEF StoreAlert, AlertsTypeOK
  <2>3. unsure' \subseteq Rules
    BY <1>3 DEF StoreAlert, AlertsTypeOK
  <2>4. judged' \in [Rules -> {"unset", "active", "resolved", "overtaken"}]
    BY <1>3, OutcomeType, JudgeType DEF StoreAlert
  <2>5. /\ rule' \in [Evaluators -> 0..NumRules + 1]
        /\ previous' \in [Evaluators -> {"unread", "unset", "active", "resolved"}]
    BY <1>3, NextRuleType DEF StoreAlert
  <2> QED
    BY <1>3, <2>1, <2>2, <2>3, <2>4, <2>5 DEF StoreAlert, AlertsTypeOK
<1>4. ASSUME NEW e \in Evaluators, KeepAlert(e) PROVE AlertsTypeOK'
  <2>1. PICK v : v = IF previous[e] = alert[rule[e]] THEN Outcome(e, rule[e]) ELSE "overtaken"
    OBVIOUS
  <2>2. v \in {"active", "resolved", "overtaken"}
    BY <2>1 DEF Outcome
  <2>3. Judge(e, v)
    BY <1>4, <2>1 DEF KeepAlert
  <2>4. judged' \in [Rules -> {"unset", "active", "resolved", "overtaken"}]
    BY <2>2, <2>3, JudgeType
  <2>5. /\ rule' \in [Evaluators -> 0..NumRules + 1]
        /\ previous' \in [Evaluators -> {"unread", "unset", "active", "resolved"}]
    BY <1>4, NextRuleType DEF KeepAlert
  <2> QED
    BY <1>4, <2>4, <2>5 DEF KeepAlert, AlertsTypeOK
<1>5. ASSUME NEW e \in Evaluators, ReturnEvents(e) PROVE AlertsTypeOK'
  <2>1. notified' \in [Rules -> {"unset", "active", "resolved"}]
    BY <1>5, OutcomeType DEF ReturnEvents, AlertsTypeOK
  <2>2. unsure' \subseteq Rules
    BY <1>5 DEF ReturnEvents, AlertsTypeOK
  <2> QED
    BY <1>5, <2>1, <2>2, IdleType DEF ReturnEvents, AlertsTypeOK
<1>6. ASSUME NEW e \in Evaluators, EvaluationFails(e) PROVE AlertsTypeOK'
  <2>1. /\ alert' \in [Rules -> {"unset", "active", "resolved"}]
        /\ judged' \in [Rules -> {"unset", "active", "resolved", "overtaken"}]
    BY <1>6, OutcomeType, JudgeType DEF EvaluationFails, AlertsTypeOK
  <2>2. unsure' \subseteq Rules
    BY <1>6 DEF EvaluationFails, AlertsTypeOK
  <2> QED
    BY <1>6, <2>1, <2>2, IdleType DEF EvaluationFails, AlertsTypeOK
<1>7. CASE UNCHANGED alertVars
  BY <1>7 DEF alertVars, AlertsTypeOK
<1> QED
  BY <1>1, <1>2, <1>3, <1>4, <1>5, <1>6, <1>7 DEF AlertsNext

\* The alert state and the evaluations stay within their types, however the
\* evaluations of the source interleave and wherever they fail.
THEOREM AlertsTypeCorrect == AlertsSpec => []AlertsTypeOK
<1>1. AlertsInit => AlertsTypeOK
  BY Positions DEF AlertsInit, AlertsTypeOK
<1> QED
  BY <1>1, AlertsTypeStep, PTL DEF AlertsSpec

-----------------------------------------------------------------------------
(* What is stored, judged and reported.                                    *)

\* An evaluation that nobody crossed finds stored what it read and what it stored;
\* of a rule that is not in doubt, what it stored is news to the readers.
Sound(e) ==
  /\ rule[e] = 0 => previous[e] = "unread" /\ changed[e] = {} /\ e \notin crossed
  /\ previous[e] # "unread" => rule[e] \in Rules
  /\ e \notin crossed /\ previous[e] # "unread" => previous[e] = alert[rule[e]]
  /\ \A r \in changed[e] :
       /\ r < rule[e]
       /\ e \notin crossed \/ r \notin unsure => alert[r] = Outcome(e, r)
       /\ r \notin unsure => IF r \in firing[e] THEN notified[r] # "active"
                                                ELSE notified[r] = "active"

\* Two evaluations under way have crossed each other, and what both have stored is
\* in doubt.
CrossedApart ==
  \A d, e \in Evaluators :
    rule[d] # 0 /\ rule[e] # 0 /\ d # e => e \in crossed /\ changed[d] \cap changed[e] \subseteq unsure

AlertsInvariant ==
  /\ \A e \in Evaluators : Sound(e)
  /\ CrossedApart /\ NotifiedIsStored

\* An evaluation that nobody crossed has the source to itself.
LEMMA OthersIdle ==
  ASSUME AlertsInvariant, NEW e \in Evaluators, rule[e] # 0, e \notin crossed
  PROVE  \A d \in Evaluators \ {e} :
           rule[d] = 0 /\ previous[d] = "unread" /\ changed[d] = {} /\ d \notin crossed
  BY DEF AlertsInvariant, CrossedApart, Sound

\* An evaluation that begins has judged nothing yet.
LEMMA EvaluateStep ==
  ASSUME AlertsTypeOK, AlertsInvariant, NEW e \in Evaluators, Evaluate(e)
  PROVE  AlertsInvariant'
<1> USE DEF AlertsInvariant, AlertsTypeOK
<1>1. rule[e] = 0 /\ previous[e] = "unread" /\ changed[e] = {}
  BY DEF Evaluate, Sound
<1>2. crossed' = IF Evaluating = {} THEN {} ELSE Evaluating \cup {e}
  BY DEF Evaluate
<1>3. crossed \subseteq Evaluating
  BY DEF Sound, Evaluating
<1>4. ASSUME NEW d \in Evaluators PROVE Sound(d)'
  <2>1. CASE d = e
    BY <1>1, <2>1 DEF Evaluate, Sound
  <2>2. CASE d # e
    <3>1. /\ rule'[d] = rule[d] /\ firing'[d] = firing[d]
          /\ UNCHANGED <<alert, previous, changed, notified, unsure>>
      BY <2>2 DEF Evaluate
    <3>2. rule[d] = 0 => d \notin crossed'
      BY <1>2, <2>2 DEF Evaluating
    <3>3. rule[d] # 0 => d \in crossed'
      BY <1>2 DEF Evaluating
    <3> QED
      BY <3>1, <3>2, <3>3 DEF Sound, Outcome
  <2> QED
    BY <2>1, <2>2
<1>5. CrossedApart'
  <2> SUFFICES ASSUME NEW d \in Evaluators, NEW f \in Evaluators,
                      rule'[d] # 0, rule'[f] # 0, d # f
               PROVE  f \in crossed' /\ changed'[d] \cap changed'[f] \subseteq unsure'
    BY DEF CrossedApart
  <2>1. changed' = changed /\ unsure' = unsure
    BY DEF Evaluate
  <2>2. d = e \/ rule[d] # 0
    BY DEF Evaluate
  <2>3. f = e \/ rule[f] # 0
    BY DEF Evaluate
  <2>4. Evaluating # {} /\ f \in crossed'
    BY <1>2, <2>2, <2>3 DEF Evaluating
  <2> QED
    BY <1>1, <2>1, <2>2, <2>3, <2>4 DEF CrossedApart
<1>6. NotifiedIsStored'
  BY DEF Evaluate, NotifiedIsStored, Pending
<1> QED
  BY <1>4, <1>5, <1>6

\* Reading an alert copies what is stored.
LEMMA ReadStep ==
  ASSUME AlertsTypeOK, AlertsInvariant, NEW e \in Evaluators, ReadAlert(e)
  PROVE  AlertsInvariant'
<1> USE DEF AlertsInvariant, AlertsTypeOK
<1>1. ASSUME NEW d \in Evaluators PROVE Sound(d)'
  <2>1. rule[e] \in Rules /\ 0 \notin Rules
    BY DEF ReadAlert, Rules
  <2> QED
    BY <2>1 DEF ReadAlert, Sound, Outcome
<1>2. CrossedApart' /\ NotifiedIsStored'
  BY DEF ReadAlert, CrossedApart, NotifiedIsStored, Pending
<1> QED
  BY <1>1, <1>2

\* An alert that is stored becomes the transition the evaluation will return; one
\* that a crossed evaluation stores is in doubt.
LEMMA StoreStep ==
  ASSUME AlertsTypeOK, AlertsInvariant, NEW e \in Evaluators, StoreAlert(e)
  PROVE  AlertsInvariant'
<1> USE DEF AlertsInvariant, AlertsTypeOK
<1> DEFINE r == rule[e]
<1>1. /\ r \in Rules /\ r \in Nat \ {0} /\ r \notin changed[e] /\ r # 0
      /\ Transition(e, r, previous[e]) /\ previous[e] # "unread"
  BY AlertsAssumption DEF StoreAlert, Sound, Rules
<1>2. /\ alert' = [alert EXCEPT ![r] = Outcome(e, r)]
      /\ changed' = [changed EXCEPT ![e] = @ \cup {r}]
      /\ rule' = [rule EXCEPT ![e] = r + 1]
      /\ previous' = [previous EXCEPT ![e] = "unread"]
      /\ unsure' = IF e \in crossed THEN unsure \cup {r} ELSE unsure
      /\ UNCHANGED <<firing, notified, crossed>>
  BY DEF StoreAlert, NextRule
<1>3. e \notin crossed => r \in unsure \/ notified[r] = alert[r]
  BY <1>1, OthersIdle DEF NotifiedIsStored, Pending
<1>4. e \notin crossed => previous[e] = alert[r]
  BY <1>1 DEF Sound
<1>5. changed[e] \subseteq Rules /\ \A q \in changed[e] : q < r /\ q # r /\ q < r + 1
  <2>1. \A q \in changed[e] : q < r
    BY DEF Sound
  <2> QED
    BY <1>1, <2>1, AlertsAssumption DEF Rules
<1>6. ASSUME NEW d \in Evaluators \ {e}, rule[d] # 0
      PROVE  d \in crossed /\ e \in crossed
  BY <1>1, <1>6 DEF CrossedApart
<1> HIDE DEF r
<1>7. ASSUME NEW d \in Evaluators \ {e} PROVE Sound(d)'
  <2>1. rule'[d] = rule[d] /\ previous'[d] = previous[d] /\ changed'[d] = changed[d]
    BY <1>2
  <2>2. CASE rule[d] = 0
    BY <1>2, <2>1, <2>2 DEF Sound
  <2>3. CASE rule[d] # 0
    <3>1. d \in crossed' /\ unsure' = unsure \cup {r}
      BY <1>2, <1>6, <2>3
    <3>2. ASSUME NEW q \in changed[d]
          PROVE  /\ q < rule'[d]
                 /\ q \notin unsure' => alert'[q] = Outcome(d, q)'
                 /\ q \notin unsure' => IF q \in firing'[d] THEN notified'[q] # "active"
                                                            ELSE notified'[q] = "active"
      BY <1>2, <2>1, <3>1 DEF Sound, Outcome
    <3> QED
      BY <1>2, <2>1, <2>3, <3>1, <3>2 DEF Sound
  <2> QED
    BY <2>2, <2>3
<1>8. ASSUME NEW q \in changed'[e]
      PROVE  /\ q < rule'[e]
             /\ (e \notin crossed' \/ q \notin unsure') => alert'[q] = Outcome(e, q)'
             /\ q \notin unsure' => IF q \in firing'[e] THEN notified'[q] # "active"
                                                        ELSE notified'[q] = "active"
  <2>1. Outcome(e, q)' = Outcome(e, q)
    BY <1>2 DEF Outcome
  <2>2. CASE q = r
    <3>1. q < rule'[e] /\ alert'[q] = Outcome(e, q)
      BY <1>1, <1>2, <2>2
    <3>2. ASSUME q \notin unsure' PROVE notified[r] = alert[r] /\ Transition(e, r, alert[r])
      BY <1>1, <1>2, <1>3, <1>4, <2>2, <3>2
    <3> QED
      BY <1>2, <2>1, <2>2, <3>1, <3>2 DEF Transition
  <2>3. CASE q # r
    <3>1. q \in changed[e] /\ q \in Rules /\ q < r + 1
      BY <1>2, <1>5, <2>3
    <3>2. alert'[q] = alert[q] /\ (q \notin unsure' => q \notin unsure)
      BY <1>2, <2>3
    <3> QED
      BY <1>2, <2>1, <3>1, <3>2 DEF Sound
  <2> QED
    BY <2>2, <2>3
<1>9. Sound(e)'
  <2>1. rule'[e] # 0 /\ previous'[e] = "unread"
    BY <1>1, <1>2
  <2> QED
    BY <2>1, <1>8 DEF Sound
<1>10. CrossedApart'
  <2> SUFFICES ASSUME NEW d \in Evaluators, NEW f \in Evaluators,
                      rule'[d] # 0, rule'[f] # 0, d # f
               PROVE  f \in crossed' /\ changed'[d] \cap changed'[f] \subseteq unsure'
    BY DEF CrossedApart
  <2>1. rule[d] # 0 /\ rule[f] # 0
    BY <1>1, <1>2 DEF r
  <2>2. f \in crossed /\ changed[d] \cap changed[f] \subseteq unsure
    BY <2>1 DEF CrossedApart
  <2>3. d = e \/ f = e => e \in crossed
    BY <2>1 DEF CrossedApart
  <2> QED
    BY <1>2, <2>2, <2>3
<1>11. NotifiedIsStored'
  BY <1>1, <1>2 DEF NotifiedIsStored, Pending
<1> QED
  BY <1>7, <1>9, <1>10, <1>11

\* A rule whose alert does not change is passed by.
LEMMA KeepStep ==
  ASSUME AlertsTypeOK, AlertsInvariant, NEW e \in Evaluators, KeepAlert(e)
  PROVE  AlertsInvariant'
<1> USE DEF AlertsInvariant, AlertsTypeOK
<1> DEFINE r == rule[e]
<1>1. r \in Rules /\ r \in Nat \ {0} /\ r + 1 # 0
  BY AlertsAssumption DEF KeepAlert, Rules
<1>2. /\ rule' = [rule EXCEPT ![e] = r + 1]
      /\ previous' = [previous EXCEPT ![e] = "unread"]
      /\ UNCHANGED <<alert, firing, changed, notified, crossed, unsure>>
  BY DEF KeepAlert, NextRule
<1>3. \A q \in changed[e] : q < r + 1
  <2>1. changed[e] \subseteq Rules /\ \A q \in changed[e] : q < r
    BY DEF Sound
  <2> QED
    BY <1>1, <2>1, AlertsAssumption DEF Rules
<1> HIDE DEF r
<1>4. ASSUME NEW d \in Evaluators \ {e} PROVE Sound(d)'
  BY <1>2 DEF Sound, Outcome
<1>5. Sound(e)'
  BY <1>1, <1>2, <1>3 DEF Sound, Outcome, r
<1>6. CrossedApart'
  BY <1>1, <1>2 DEF CrossedApart, r
<1>7. NotifiedIsStored'
  BY <1>2 DEF NotifiedIsStored, Pending
<1> QED
  BY <1>4, <1>5, <1>6, <1>7

\* An evaluation that is over is sound again; the others go on.
LEMMA IdleStep ==
  ASSUME AlertsTypeOK, AlertsInvariant, NEW e \in Evaluators, Idle(e)
  PROVE  /\ rule'[e] = 0 /\ previous'[e] = "unread" /\ changed'[e] = {} /\ e \notin crossed'
         /\ \A d \in Evaluators \ {e} :
              /\ rule'[d] = rule[d] /\ previous'[d] = previous[d] /\ changed'[d] = changed[d]
              /\ firing'[d] = firing[d]
              /\ d \in crossed' <=> d \in crossed
  BY DEF Idle, AlertsTypeOK

\* Returning the events tells the readers every transition stored since.
LEMMA ReturnStep ==
  ASSUME AlertsTypeOK, AlertsInvariant, NEW e \in Evaluators, ReturnEvents(e)
  PROVE  AlertsInvariant'
<1> USE DEF AlertsInvariant, AlertsTypeOK
<1>1. rule[e] # 0
  BY AlertsAssumption DEF ReturnEvents
<1>2. /\ rule'[e] = 0 /\ previous'[e] = "unread" /\ changed'[e] = {} /\ e \notin crossed'
      /\ \A d \in Evaluators \ {e} :
           /\ rule'[d] = rule[d] /\ previous'[d] = previous[d] /\ changed'[d] = changed[d]
           /\ firing'[d] = firing[d]
           /\ d \in crossed' <=> d \in crossed
  BY IdleStep DEF ReturnEvents
<1>3. /\ notified' = [r \in Rules |-> IF r \in changed[e] THEN Outcome(e, r) ELSE notified[r]]
      /\ unsure' = IF e \in crossed THEN unsure ELSE unsure \ changed[e]
      /\ alert' = alert
  BY DEF ReturnEvents
<1>4. ASSUME NEW d \in Evaluators \ {e} PROVE Sound(d)'
  <2>1. CASE rule[d] = 0
    BY <1>2, <2>1 DEF Sound
  <2>2. CASE rule[d] # 0
    <3>1. d \in crossed /\ e \in crossed /\ changed[d] \cap changed[e] \subseteq unsure
      BY <1>1, <2>2 DEF CrossedApart
    <3>2. unsure' = unsure /\ d \in crossed'
      BY <1>2, <1>3, <3>1
    <3>3. ASSUME NEW q \in changed[d]
          PROVE  /\ q < rule'[d]
                 /\ q \notin unsure' => alert'[q] = Outcome(d, q)'
                 /\ q \notin unsure' => IF q \in firing'[d] THEN notified'[q] # "active"
                                                            ELSE notified'[q] = "active"
      <4>1. q \in Rules /\ (q \notin unsure => notified'[q] = notified[q])
        BY <1>3, <3>1
      <4> QED
        BY <1>2, <1>3, <3>2, <4>1 DEF Sound, Outcome
    <3> QED
      BY <1>2, <2>2, <3>2, <3>3 DEF Sound
  <2> QED
    BY <2>1, <2>2
<1>5. Sound(e)'
  BY <1>2 DEF Sound
<1>6. CrossedApart'
  <2> SUFFICES ASSUME NEW d \in Evaluators, NEW f \in Evaluators,
                      rule'[d] # 0, rule'[f] # 0, d # f
               PROVE  f \in crossed' /\ changed'[d] \cap changed'[f] \subseteq unsure'
    BY DEF CrossedApart
  <2>1. d # e /\ f # e
    BY <1>2
  <2>2. e \in crossed /\ f \in crossed /\ changed[d] \cap changed[f] \subseteq unsure
    BY <1>1, <1>2, <2>1 DEF CrossedApart
  <2> QED
    BY <1>2, <1>3, <2>1, <2>2
<1>7. NotifiedIsStored'
  <2> SUFFICES ASSUME NEW r \in Rules, r \notin unsure', ~Pending(r)'
               PROVE  notified'[r] = alert'[r]
    BY DEF NotifiedIsStored
  <2>1. CASE r \in changed[e]
    <3>1. e \notin crossed \/ r \notin unsure
      BY <1>3
    <3> QED
      BY <1>3, <2>1, <3>1 DEF Sound
  <2>2. CASE r \notin changed[e]
    <3>1. r \notin unsure /\ ~Pending(r)
      BY <1>2, <1>3, <2>2 DEF Pending
    <3> QED
      BY <1>3, <2>2, <3>1 DEF NotifiedIsStored
  <2> QED
    BY <2>1, <2>2
<1> QED
  BY <1>4, <1>5, <1>6, <1>7

\* A failure loses the transitions stored so far, which are in doubt from then on.
LEMMA FailStep ==
  ASSUME AlertsTypeOK, AlertsInvariant, NEW e \in Evaluators, EvaluationFails(e)
  PROVE  AlertsInvariant'
<1> USE DEF AlertsInvariant, AlertsTypeOK
<1>1. rule[e] # 0 /\ notified' = notified
  BY DEF EvaluationFails
<1>2. /\ rule'[e] = 0 /\ previous'[e] = "unread" /\ changed'[e] = {} /\ e \notin crossed'
      /\ \A d \in Evaluators \ {e} :
           /\ rule'[d] = rule[d] /\ previous'[d] = previous[d] /\ changed'[d] = changed[d]
           /\ firing'[d] = firing[d]
           /\ d \in crossed' <=> d \in crossed
  BY IdleStep DEF EvaluationFails
<1>3. /\ unsure \subseteq unsure' /\ changed[e] \subseteq unsure'
      /\ \A r \in Rules \ unsure' : alert'[r] = alert[r]
  BY DEF EvaluationFails
<1>4. ASSUME NEW d \in Evaluators \ {e} PROVE Sound(d)'
  <2>1. CASE rule[d] = 0
    BY <1>2, <2>1 DEF Sound
  <2>2. CASE rule[d] # 0
    <3>1. d \in crossed'
      BY <1>1, <1>2, <2>2 DEF CrossedApart
    <3>2. ASSUME NEW q \in changed[d]
          PROVE  /\ q < rule'[d]
                 /\ q \notin unsure' => alert'[q] = Outcome(d, q)'
                 /\ q \notin unsure' => IF q \in firing'[d] THEN notified'[q] # "active"
                                                            ELSE notified'[q] = "active"
      BY <1>1, <1>2, <1>3 DEF Sound, Outcome
    <3> QED
      BY <1>2, <2>2, <3>1, <3>2 DEF Sound
  <2> QED
    BY <2>1, <2>2
<1>5. Sound(e)'
  BY <1>2 DEF Sound
<1>6. CrossedApart'
  BY <1>2, <1>3 DEF CrossedApart
<1>7. NotifiedIsStored'
  BY <1>1, <1>2, <1>3 DEF NotifiedIsStored, Pending
<1> QED
  BY <1>4, <1>5, <1>6, <1>7

\* Every step of the evaluations keeps the invariant.
LEMMA AlertsStep ==
  ASSUME AlertsTypeOK, AlertsInvariant, [AlertsNext]_alertVars
  PROVE  AlertsInvariant'
<1>1. CASE UNCHANGED alertVars
  BY <1>1 DEF alertVars, AlertsInvariant, Sound, CrossedApart, Outcome, NotifiedIsStored, Pending
<1> QED
  BY <1>1, EvaluateStep, ReadStep, StoreStep, KeepStep, ReturnStep, FailStep DEF AlertsNext

\* The invariant of every reachable state, however evaluations overlap and fail.
LEMMA AlertsAreSound == AlertsSpec => []AlertsInvariant
<1>1. AlertsInit => AlertsInvariant
  BY DEF AlertsInit, AlertsInvariant, Sound, CrossedApart, NotifiedIsStored
<1> QED
  BY <1>1, AlertsStep, AlertsTypeCorrect, PTL DEF AlertsSpec

\* The readers of the events know what is stored, but for the transitions an
\* evaluation is about to return, and for rules an event of which was lost or
\* stored by overlapping evaluations, until one that has the source to itself
\* returns the next (alerts.py:112-129).
THEOREM ReadersKnowAlerts == AlertsSpec => []NotifiedIsStored
<1>1. AlertsInvariant => NotifiedIsStored
  BY DEF AlertsInvariant
<1> QED
  BY <1>1, AlertsAreSound, PTL

\* Every step leaves a rule stored as it was found, unless it was overtaken.
LEMMA JudgedStep ==
  ASSUME AlertsTypeOK, StoredIsJudged, [AlertsNext]_alertVars PROVE StoredIsJudged'
<1> USE DEF StoredIsJudged, AlertsTypeOK
<1>1. ASSUME NEW e \in Evaluators, StoreAlert(e) PROVE StoredIsJudged'
  BY <1>1 DEF StoreAlert, Judge
<1>2. ASSUME NEW e \in Evaluators, KeepAlert(e) PROVE StoredIsJudged'
  <2>1. PICK v : v = IF previous[e] = alert[rule[e]] THEN Outcome(e, rule[e]) ELSE "overtaken"
    OBVIOUS
  <2>2. judged' = [judged EXCEPT ![rule[e]] = v] /\ alert' = alert
    BY <1>2, <2>1 DEF KeepAlert, Judge
  <2>3. v # "overtaken" => (alert[rule[e]] = "active" <=> v = "active")
    BY <1>2, <2>1 DEF KeepAlert, Transition, Outcome
  <2> QED
    BY <2>2, <2>3
<1>3. ASSUME NEW e \in Evaluators, EvaluationFails(e) PROVE StoredIsJudged'
  BY <1>3 DEF EvaluationFails, Judge
<1>4. CASE UNCHANGED <<alert, judged>>
  BY <1>4
<1> QED
  BY <1>1, <1>2, <1>3, <1>4 DEF AlertsNext, Evaluate, ReadAlert, ReturnEvents, alertVars

\* A rule is active exactly when it was last found to hold, unless what that
\* evaluation had read was replaced before it passed on (alerts.py:112-122).
THEOREM AlertsFollowConditions == AlertsSpec => []StoredIsJudged
<1>1. AlertsInit => StoredIsJudged
  BY DEF AlertsInit, StoredIsJudged
<1> QED
  BY <1>1, JudgedStep, AlertsTypeCorrect, PTL DEF AlertsSpec

\* The events of a rule alternate for their readers, but for those that were lost
\* or stored by overlapping evaluations (alerts.py:115-128).
THEOREM EventsTakeTurns == AlertsSpec => EventsAlternate
<1> DEFINE Alternates ==
             \A e \in Evaluators : ReturnEvents(e) =>
               \A r \in changed[e] \ unsure :
                 IF r \in firing[e] THEN notified[r] # "active" ELSE notified[r] = "active"
<1>1. AlertsInvariant /\ [AlertsNext]_alertVars => [Alternates]_alertVars
  BY DEF AlertsInvariant, Sound
<1> QED
  BY <1>1, AlertsAreSound, PTL DEF AlertsSpec, EventsAlternate

-----------------------------------------------------------------------------
(* Metrics.                                                                 *)

Fields == Totals \cup Gauges

MetricsTypeOK ==
  /\ hash \in [Fields -> Nat] /\ exposed \in [Fields -> Nat]
  /\ commands \in [Recorders -> Seq(Fields \cup {"register"})]
  /\ made \in [Recorders -> Nat] /\ calls \in Nat

\* A failure is sent right after its run, a success after its run.
InOrder(c, succeeded) ==
  \A k \in 1..Len(c) :
    /\ c[k] = "run_failed_total" => k = 1 \/ c[k - 1] = "run_total:failed"
    /\ c[k] = "last_success_timestamp" =>
         succeeded \/ \E j \in 1..k - 1 : c[j] = "run_total:succeeded"

\* The recorders that have counted a failed run and not yet its failure.
Owing == {r \in Recorders : commands[r] # <<>> /\ Head(commands[r]) = "run_failed_total"}

Adds(h) ==
  /\ h["run_failed_total"] <= h["run_total:failed"]
  /\ h["last_success_timestamp"] > 0 => h["run_total:succeeded"] > 0

\* What is in the hash adds up with what is owed.
HashAddsUp ==
  /\ \A r \in Recorders : InOrder(commands[r], hash["run_total:succeeded"] > 0)
  /\ hash["run_failed_total"] + Cardinality(Owing) <= hash["run_total:failed"]
  /\ hash["last_success_timestamp"] > 0 => hash["run_total:succeeded"] > 0

MetricsInvariant == MetricsTypeOK /\ HashAddsUp /\ Adds(exposed)

\* The elements of two sequences one after the other.
LEMMA Joined ==
  ASSUME NEW S, NEW s \in Seq(S), NEW t \in Seq(S)
  PROVE  /\ s \o t \in Seq(S) /\ Len(s) \in Nat /\ Len(t) \in Nat
         /\ Len(s \o t) = Len(s) + Len(t)
         /\ \A i \in 1..Len(s) : (s \o t)[i] = s[i]
         /\ \A i \in 1..Len(t) : (s \o t)[Len(s) + i] = t[i]
OBVIOUS

\* The commands of a run follow the order, whatever its outcome.
LEMMA RunInOrder ==
  ASSUME NEW outcome \in {"succeeded", "failed", "skipped"}
  PROVE  /\ RunCommands(outcome) \in Seq(Fields \cup {"register"})
         /\ RunCommands(outcome) # <<>> /\ RunCommands(outcome)[1] = "register"
         /\ InOrder(RunCommands(outcome), FALSE)
<1> DEFINE S == Fields \cup {"register"}
           start == <<"register", Total(outcome)>>
           failure == If(outcome = "failed", "run_failed_total")
           counted == start \o failure
           measured == counted \o RunGauges
           success == If(outcome = "succeeded", "last_success_timestamp")
           sent == measured \o success
<1>1. start \in Seq(S) /\ Len(start) = 2 /\ start[1] = "register" /\ start[2] = Total(outcome)
  BY DEF Total, Fields, Totals
<1>2. /\ failure \in Seq(S)
      /\ outcome # "failed" => Len(failure) = 0
      /\ outcome = "failed" => Len(failure) = 1 /\ failure[1] = "run_failed_total"
  <2>1. /\ outcome # "failed" => failure = <<>>
        /\ outcome = "failed" => failure = <<"run_failed_total">>
    BY DEF If
  <2>2. "run_failed_total" \in S
    BY DEF Fields, Totals
  <2> HIDE DEF S, failure
  <2>3. CASE outcome # "failed"
    <3>1. failure = <<>> /\ <<>> \in Seq(S) /\ Len(<<>>) = 0
      BY <2>1, <2>3
    <3> QED
      BY <2>3, <3>1
  <2>4. CASE outcome = "failed"
    <3>1. failure = <<"run_failed_total">>
      BY <2>1, <2>4
    <3> QED
      BY <2>2, <2>4, <3>1
  <2> QED
    BY <2>3, <2>4
<1>3. /\ RunGauges \in Seq(S) /\ Len(RunGauges) = 3 /\ RunGauges[1] = "run_duration_seconds"
      /\ RunGauges[2] = "items_found" /\ RunGauges[3] = "last_run_id"
  BY DEF RunGauges, Fields, Gauges
<1>4. /\ success \in Seq(S)
      /\ outcome # "succeeded" => Len(success) = 0
      /\ outcome = "succeeded" => Len(success) = 1 /\ success[1] = "last_success_timestamp"
  <2>1. /\ outcome # "succeeded" => success = <<>>
        /\ outcome = "succeeded" => success = <<"last_success_timestamp">>
    BY DEF If
  <2>2. "last_success_timestamp" \in S
    BY DEF Fields, Gauges
  <2> HIDE DEF S, success
  <2>3. CASE outcome # "succeeded"
    <3>1. success = <<>> /\ <<>> \in Seq(S) /\ Len(<<>>) = 0
      BY <2>1, <2>3
    <3> QED
      BY <2>3, <3>1
  <2>4. CASE outcome = "succeeded"
    <3>1. success = <<"last_success_timestamp">>
      BY <2>1, <2>4
    <3> QED
      BY <2>2, <2>4, <3>1
  <2> QED
    BY <2>3, <2>4
<1>5. RunCommands(outcome) = sent
  BY DEF RunCommands
<1> HIDE DEF S, start, failure, success
<1>6. /\ counted \in Seq(S) /\ counted[1] = "register" /\ counted[2] = Total(outcome)
      /\ outcome # "failed" => Len(counted) = 2
      /\ outcome = "failed" => Len(counted) = 3 /\ counted[3] = "run_failed_total"
  <2>1. /\ counted \in Seq(S) /\ Len(counted) = 2 + Len(failure)
        /\ \A i \in 1..2 : counted[i] = start[i]
        /\ \A i \in 1..Len(failure) : counted[2 + i] = failure[i]
    BY <1>1, <1>2, Joined
  <2> HIDE DEF counted
  <2> QED
    BY <1>1, <1>2, <2>1
<1> HIDE DEF counted
<1>7. /\ measured \in Seq(S) /\ measured[1] = "register" /\ measured[2] = Total(outcome)
      /\ outcome # "failed" => /\ Len(measured) = 5 /\ measured[3] = "run_duration_seconds"
                               /\ measured[4] = "items_found" /\ measured[5] = "last_run_id"
      /\ outcome = "failed" => /\ Len(measured) = 6 /\ measured[3] = "run_failed_total"
                               /\ measured[4] = "run_duration_seconds"
                               /\ measured[5] = "items_found" /\ measured[6] = "last_run_id"
  <2>1. /\ measured \in Seq(S) /\ Len(measured) = Len(counted) + 3
        /\ \A i \in 1..Len(counted) : measured[i] = counted[i]
        /\ \A i \in 1..3 : measured[Len(counted) + i] = RunGauges[i]
    <3> DEFINE gauges == RunGauges
    <3>1. gauges \in Seq(S) /\ Len(gauges) = 3
      BY <1>3
    <3> HIDE DEF gauges
    <3>2. /\ counted \o gauges \in Seq(S) /\ Len(counted \o gauges) = Len(counted) + 3
          /\ \A i \in 1..Len(counted) : (counted \o gauges)[i] = counted[i]
          /\ \A i \in 1..3 : (counted \o gauges)[Len(counted) + i] = gauges[i]
      BY <1>6, <3>1, Joined, SMTT(60)
    <3> QED
      BY <3>2 DEF gauges
  <2> HIDE DEF measured
  <2> QED
    BY <1>3, <1>6, <2>1, SMTT(60)
<1> HIDE DEF measured
<1>8. /\ sent \in Seq(S) /\ Len(sent) = Len(measured) + Len(success)
      /\ \A i \in 1..Len(measured) : sent[i] = measured[i]
      /\ \A i \in 1..Len(success) : sent[Len(measured) + i] = success[i]
  BY <1>4, <1>7, Joined, SMTT(60)
<1> HIDE DEF sent
<1>9. sent # <<>> /\ sent[1] = "register" /\ sent[2] = Total(outcome)
  <2>1. /\ Len(measured) \in Nat /\ Len(measured) >= 2
        /\ Len(success) \in Nat /\ Len(success) >= 0
    BY <1>4, <1>7
  <2>2. 1 \in 1..Len(measured) /\ 2 \in 1..Len(measured) /\ Len(sent) # 0
    <3>1. Len(sent) = Len(measured) + Len(success)
      BY <1>8
    <3> QED
      BY <2>1, <3>1
  <2>3. sent[1] = measured[1] /\ sent[2] = measured[2]
    BY <1>8, <2>2
  <2>4. sent # <<>>
    BY <2>2
  <2> QED
    BY <1>7, <2>3, <2>4
<1>10. ASSUME NEW k \in 1..Len(sent)
       PROVE  /\ sent[k] = "run_failed_total" => sent[k - 1] = "run_total:failed"
              /\ sent[k] = "last_success_timestamp" =>
                   \E j \in 1..k - 1 : sent[j] = "run_total:succeeded"
  <2>1. CASE outcome = "failed"
    <3>1. Total(outcome) = "run_total:failed"
      BY <2>1 DEF Total
    <3>2. Len(success) = 0
      BY <1>4, <2>1
    <3>3. Len(measured) = 6
      BY <1>7, <2>1
    <3>4. Len(sent) = 6 /\ k \in 1..6
      BY <1>8, <3>2, <3>3
    <3> QED
      BY <1>7, <1>8, <1>9, <2>1, <3>1, <3>3, <3>4
  <2>2. CASE outcome = "succeeded"
    <3>1. Total(outcome) = "run_total:succeeded"
      BY <2>2 DEF Total
    <3>2. Len(success) = 1
      BY <1>4, <2>2
    <3>3. Len(measured) = 5
      BY <1>7, <2>2
    <3>4. Len(sent) = 6 /\ k \in 1..6
      BY <1>8, <3>2, <3>3
    <3> QED
      BY <1>4, <1>7, <1>8, <1>9, <2>2, <3>1, <3>2, <3>3, <3>4
  <2>3. CASE outcome = "skipped"
    <3>1. Total(outcome) = "run_total:skipped"
      BY <2>3 DEF Total
    <3>2. Len(success) = 0
      BY <1>4, <2>3
    <3>3. Len(measured) = 5
      BY <1>7, <2>3
    <3>4. Len(sent) = 5 /\ k \in 1..5
      BY <1>8, <3>2, <3>3
    <3> QED
      BY <1>7, <1>8, <1>9, <2>3, <3>1, <3>3, <3>4
  <2> QED
    BY <2>1, <2>2, <2>3
<1> QED
  BY <1>5, <1>8, <1>9, <1>10 DEF InOrder, S

\* So do those of every call.
LEMMA CommandsInOrder ==
  ASSUME NEW call \in DOMAIN CommandsOf
  PROVE  /\ CommandsOf[call] \in Seq(Fields \cup {"register"})
         /\ CommandsOf[call] # <<>> /\ CommandsOf[call][1] = "register"
         /\ InOrder(CommandsOf[call], FALSE)
<1>1. CASE call \in {"succeeded", "failed", "skipped"}
  <2>1. CommandsOf[call] = RunCommands(call)
    BY <1>1 DEF CommandsOf
  <2> QED
    BY <1>1, <2>1, RunInOrder
<1>2. CASE call = "items"
  <2>1. CommandsOf[call] = <<"register", "items_created", "items_updated">>
    BY <1>2 DEF CommandsOf
  <2> QED
    BY <2>1 DEF InOrder, Fields, Totals
<1>3. CASE call \in {"http_status", "parse_error", "lock_skip", "circuit_breaker"}
  <2>1. PICK field \in Fields : /\ CommandsOf[call] = <<"register", field>>
                                /\ field \notin {"run_failed_total", "last_success_timestamp"}
    BY <1>3 DEF CommandsOf, Fields, Totals, Gauges
  <2> QED
    BY <2>1 DEF InOrder
<1> QED
  BY <1>1, <1>2, <1>3 DEF CommandsOf

\* What is left in order after the first command was sent.
LEMMA RestInOrder ==
  ASSUME NEW S, NEW c \in Seq(S), c # <<>>, NEW before, InOrder(c, before),
         NEW after, before \/ Head(c) = "run_total:succeeded" => after
  PROVE  /\ Tail(c) \in Seq(S) /\ Head(c) \in S /\ Head(c) = c[1]
         /\ InOrder(Tail(c), after)
         /\ Tail(c) # <<>> /\ Head(Tail(c)) = "run_failed_total" =>
              Head(c) = "run_total:failed"
<1> DEFINE rest == Tail(c)
<1>1. /\ rest \in Seq(S) /\ Len(c) \in Nat \ {0} /\ Len(rest) = Len(c) - 1
      /\ \A i \in 1..Len(rest) : rest[i] = c[i + 1]
      /\ Head(c) = c[1] /\ Head(c) \in S
  OBVIOUS
<1>2. rest # <<>> => Head(rest) = c[2] /\ 2 \in 1..Len(c)
  BY <1>1
<1> HIDE DEF rest
<1>3. ASSUME NEW k \in 1..Len(rest)
      PROVE  /\ rest[k] = "run_failed_total" => k = 1 \/ rest[k - 1] = "run_total:failed"
             /\ rest[k] = "last_success_timestamp" =>
                  after \/ \E j \in 1..k - 1 : rest[j] = "run_total:succeeded"
  <2>1. k + 1 \in 1..Len(c) /\ rest[k] = c[k + 1] /\ (k + 1) - 1 = k /\ k + 1 # 1
    BY <1>1
  <2>2. k # 1 => k - 1 \in 1..Len(rest) /\ rest[k - 1] = c[k]
    BY <1>1
  <2>3. rest[k] = "run_failed_total" => k = 1 \/ rest[k - 1] = "run_total:failed"
    BY <2>1, <2>2 DEF InOrder
  <2>4. ASSUME rest[k] = "last_success_timestamp", ~after
        PROVE  \E j \in 1..k - 1 : rest[j] = "run_total:succeeded"
    <3>1. PICK j \in 1..k : c[j] = "run_total:succeeded"
      BY <2>1, <2>4 DEF InOrder
    <3>2. j # 1
      BY <1>1, <2>4, <3>1
    <3>3. j - 1 \in 1..k - 1 /\ rest[j - 1] = c[j]
      BY <1>1, <3>2
    <3> QED
      BY <3>1, <3>3
  <2> QED
    BY <2>3, <2>4
<1>4. rest # <<>> /\ Head(rest) = "run_failed_total" => Head(c) = "run_total:failed"
  <2>1. 2 - 1 = 1 /\ 2 # 1
    OBVIOUS
  <2> QED
    BY <1>1, <1>2, <2>1 DEF InOrder
<1> QED
  BY <1>1, <1>3, <1>4 DEF InOrder, rest

\* The number of recorders that owe a failure, when only one of them changes.
LEMMA OneOwes ==
  ASSUME NEW r \in Recorders,
         \A s \in Recorders \ {r} : commands'[s] = commands[s]
  PROVE  /\ Cardinality(Owing) \in Nat /\ Cardinality(Owing') \in Nat
         /\ r \in Owing /\ r \notin Owing' => Cardinality(Owing') = Cardinality(Owing) - 1
         /\ r \notin Owing /\ r \in Owing' => Cardinality(Owing') = Cardinality(Owing) + 1
         /\ (r \in Owing <=> r \in Owing') => Owing' = Owing
<1>1. IsFiniteSet(Owing) /\ IsFiniteSet(Owing')
  BY FS_Subset, MetricsAssumption DEF Owing
<1>2. \A s \in Recorders \ {r} : s \in Owing' <=> s \in Owing
  BY DEF Owing
<1>3. Owing \subseteq Recorders /\ Owing' \subseteq Recorders
  BY DEF Owing
<1>4. ASSUME r \in Owing, r \notin Owing' PROVE Cardinality(Owing') = Cardinality(Owing) - 1
  <2>1. Owing' = Owing \ {r}
    BY <1>2, <1>3, <1>4
  <2> QED
    BY <1>1, <1>4, <2>1, FS_RemoveElement
<1>5. ASSUME r \notin Owing, r \in Owing' PROVE Cardinality(Owing') = Cardinality(Owing) + 1
  <2>1. Owing' = Owing \cup {r}
    BY <1>2, <1>3, <1>5
  <2> QED
    BY <1>1, <1>5, <2>1, FS_AddElement
<1>6. (r \in Owing <=> r \in Owing') => Owing' = Owing
  BY <1>2, <1>3
<1> QED
  BY <1>1, <1>4, <1>5, <1>6, FS_CardinalityType

\* A call owes nothing at its start: it registers the source first.
LEMMA CallStoreAdds ==
  ASSUME MetricsInvariant, NEW r \in Recorders, CallStore(r) PROVE MetricsInvariant'
<1>1. MetricsTypeOK /\ HashAddsUp /\ Adds(exposed)
  BY DEF MetricsInvariant
<1>2. PICK c \in DOMAIN CommandsOf :
        /\ commands' = [commands EXCEPT ![r] = CommandsOf[c]]
        /\ UNCHANGED <<registered, hash, exposed>>
  BY DEF CallStore
<1>3. PICK sent : /\ sent = CommandsOf[c] /\ sent \in Seq(Fields \cup {"register"})
                  /\ sent # <<>> /\ sent[1] = "register" /\ InOrder(sent, FALSE)
  BY CommandsInOrder
<1>4. commands'[r] = sent /\ \A s \in Recorders \ {r} : commands'[s] = commands[s]
  BY <1>1, <1>2, <1>3 DEF MetricsTypeOK
<1>5. MetricsTypeOK'
  BY <1>1, <1>2, <1>3 DEF MetricsTypeOK, CallStore
<1>6. \A s \in Recorders : InOrder(commands'[s], hash'["run_total:succeeded"] > 0)
  <2>1. InOrder(sent, hash["run_total:succeeded"] > 0)
    BY <1>3 DEF InOrder
  <2> QED
    BY <1>1, <1>2, <1>4, <2>1 DEF HashAddsUp
<1>7. r \notin Owing /\ r \notin Owing'
  <2>1. Head(sent) = "register"
    BY <1>3
  <2> QED
    BY <1>4, <2>1 DEF Owing, CallStore
<1>8. Owing' = Owing
  BY <1>4, <1>7, OneOwes
<1> QED
  BY <1>1, <1>2, <1>5, <1>6, <1>8 DEF MetricsInvariant, HashAddsUp, Adds

\* A command that is sent moves what is owed into the hash.
LEMMA SendCommandAdds ==
  ASSUME MetricsInvariant, NEW r \in Recorders, SendCommand(r) PROVE MetricsInvariant'
<1>1. MetricsTypeOK /\ HashAddsUp /\ Adds(exposed)
  BY DEF MetricsInvariant
<1>2. PICK c : c = commands[r]
  OBVIOUS
<1>3. /\ c \in Seq(Fields \cup {"register"}) /\ c # <<>>
      /\ InOrder(c, hash["run_total:succeeded"] > 0)
  BY <1>1, <1>2 DEF SendCommand, MetricsTypeOK, HashAddsUp
<1>4. PICK field : field = Head(c)
  OBVIOUS
<1>5. /\ commands' = [commands EXCEPT ![r] = Tail(c)]
      /\ UNCHANGED <<made, calls, exposed>>
      /\ field = "register" => UNCHANGED hash
      /\ field # "register" =>
           hash' = [hash EXCEPT ![field] = IF field \in Totals THEN @ + 1 ELSE made[r]]
  BY <1>2, <1>4 DEF SendCommand
<1>6. field \in Fields \cup {"register"}
  BY <1>3, <1>4
<1>7. /\ hash \in [Fields -> Nat] /\ hash' \in [Fields -> Nat] /\ made[r] \in Nat
      /\ \A f \in Fields : hash'[f] = IF f # field THEN hash[f]
                                      ELSE IF f \in Totals THEN hash[f] + 1 ELSE made[r]
  <2>1. hash \in [Fields -> Nat] /\ made[r] \in Nat
    BY <1>1 DEF MetricsTypeOK
  <2>2. CASE field = "register"
    <3>1. field \notin Fields
      BY <2>2 DEF Fields, Totals, Gauges
    <3> QED
      BY <1>5, <2>1, <2>2, <3>1
  <2>3. CASE field # "register"
    <3>1. hash[field] \in Nat /\ field \in Fields
      BY <1>6, <2>1, <2>3
    <3> QED
      BY <1>5, <2>1, <2>3, <3>1
  <2> QED
    BY <2>2, <2>3
<1>8. /\ hash'["run_failed_total"] =
           IF field = "run_failed_total" THEN hash["run_failed_total"] + 1 ELSE hash["run_failed_total"]
      /\ hash'["run_total:failed"] =
           IF field = "run_total:failed" THEN hash["run_total:failed"] + 1 ELSE hash["run_total:failed"]
      /\ hash'["run_total:succeeded"] =
           IF field = "run_total:succeeded" THEN hash["run_total:succeeded"] + 1
           ELSE hash["run_total:succeeded"]
      /\ field # "last_success_timestamp" =>
           hash'["last_success_timestamp"] = hash["last_success_timestamp"]
      /\ \A f \in {"run_failed_total", "run_total:failed", "run_total:succeeded",
                   "last_success_timestamp"} : hash[f] \in Nat /\ hash'[f] \in Nat
  <2>1. /\ {"run_failed_total", "run_total:failed", "run_total:succeeded"} \subseteq Fields \cap Totals
        /\ "last_success_timestamp" \in Fields
    BY DEF Fields, Totals, Gauges
  <2> QED
    BY <1>7, <2>1
<1>9. hash["run_total:succeeded"] > 0 \/ field = "run_total:succeeded" =>
        hash'["run_total:succeeded"] > 0
  BY <1>8
<1>10. PICK rest : /\ rest = Tail(c) /\ rest \in Seq(Fields \cup {"register"})
                   /\ InOrder(rest, hash'["run_total:succeeded"] > 0)
                   /\ rest # <<>> /\ Head(rest) = "run_failed_total" => field = "run_total:failed"
  <2> DEFINE S == Fields \cup {"register"}
             before == hash["run_total:succeeded"] > 0
             after == hash'["run_total:succeeded"] > 0
             rest == Tail(c)
  <2>1. c \in Seq(S) /\ c # <<>> /\ InOrder(c, before)
    BY <1>3
  <2>2. before \/ Head(c) = "run_total:succeeded" => after
    BY <1>4, <1>9
  <2> HIDE DEF S, before, after
  <2>3. /\ Tail(c) \in Seq(S) /\ InOrder(Tail(c), after)
        /\ Tail(c) # <<>> /\ Head(Tail(c)) = "run_failed_total" => Head(c) = "run_total:failed"
    BY <2>1, <2>2, RestInOrder
  <2>4. rest \in Seq(S) /\ InOrder(rest, after)
    BY <2>3
  <2>5. rest # <<>> /\ Head(rest) = "run_failed_total" => field = "run_total:failed"
    BY <1>4, <2>3
  <2>6. rest = Tail(c)
    OBVIOUS
  <2> HIDE DEF rest
  <2> USE DEF S, after
  <2> QED
    BY <2>4, <2>5, <2>6
<1>11. commands'[r] = rest /\ \A s \in Recorders \ {r} : commands'[s] = commands[s]
  BY <1>1, <1>5, <1>10 DEF MetricsTypeOK
<1>12. MetricsTypeOK'
  BY <1>1, <1>5, <1>7, <1>10 DEF MetricsTypeOK
<1>13. \A s \in Recorders : InOrder(commands'[s], hash'["run_total:succeeded"] > 0)
  <2>1. ASSUME NEW s \in Recorders \ {r}
        PROVE  InOrder(commands'[s], hash'["run_total:succeeded"] > 0)
    BY <1>1, <1>9, <1>11 DEF HashAddsUp, InOrder
  <2> QED
    BY <1>10, <1>11, <2>1
<1>14. hash'["run_failed_total"] + Cardinality(Owing') <= hash'["run_total:failed"]
  <2>1. r \in Owing <=> field = "run_failed_total"
    BY <1>2, <1>3, <1>4 DEF Owing
  <2>2. r \in Owing' => field = "run_total:failed"
    BY <1>10, <1>11 DEF Owing
  <2>3. hash["run_failed_total"] + Cardinality(Owing) <= hash["run_total:failed"]
    BY <1>1 DEF HashAddsUp
  <2>4. /\ Cardinality(Owing) \in Nat /\ Cardinality(Owing') \in Nat
        /\ r \in Owing /\ r \notin Owing' => Cardinality(Owing') = Cardinality(Owing) - 1
        /\ r \notin Owing /\ r \in Owing' => Cardinality(Owing') = Cardinality(Owing) + 1
        /\ (r \in Owing <=> r \in Owing') => Cardinality(Owing') = Cardinality(Owing)
    BY <1>11, OneOwes
  <2>5. PICK owed \in Nat, owes \in Nat : owed = Cardinality(Owing) /\ owes = Cardinality(Owing')
    BY <2>4
  <2>6. CASE field = "run_failed_total"
    <3>1. owes = owed - 1 /\ hash'["run_failed_total"] = hash["run_failed_total"] + 1
          /\ hash'["run_total:failed"] = hash["run_total:failed"]
      BY <1>8, <2>1, <2>2, <2>4, <2>5, <2>6
    <3> QED
      BY <1>8, <2>3, <2>5, <3>1
  <2>7. CASE field # "run_failed_total"
    <3>1. /\ hash'["run_failed_total"] = hash["run_failed_total"]
          /\ owes = owed \/ (owes = owed + 1 /\ field = "run_total:failed")
      BY <1>8, <2>1, <2>2, <2>4, <2>5, <2>7
    <3> QED
      BY <1>8, <2>3, <2>5, <3>1
  <2> QED
    BY <2>6, <2>7
<1>15. hash'["last_success_timestamp"] > 0 => hash'["run_total:succeeded"] > 0
  <2>1. CASE field = "last_success_timestamp"
    <3>1. 1 \in 1..Len(c) /\ c[1] = field /\ \A j \in 1..1 - 1 : FALSE
      BY <1>3, <1>4
    <3>2. hash["run_total:succeeded"] > 0
      BY <1>3, <2>1, <3>1 DEF InOrder
    <3> QED
      BY <1>9, <3>2
  <2>2. CASE field # "last_success_timestamp"
    BY <1>1, <1>8, <1>9, <2>2 DEF HashAddsUp
  <2> QED
    BY <2>1, <2>2
<1> QED
  BY <1>1, <1>5, <1>12, <1>13, <1>14, <1>15 DEF MetricsInvariant, HashAddsUp, Adds

\* A call that is cut off owes nothing any more.
LEMMA CallEndsAdds ==
  ASSUME MetricsInvariant, NEW r \in Recorders, CallEnds(r) PROVE MetricsInvariant'
<1>1. MetricsTypeOK /\ HashAddsUp /\ Adds(exposed)
  BY DEF MetricsInvariant
<1>2. /\ commands' = [commands EXCEPT ![r] = <<>>]
      /\ UNCHANGED <<registered, hash, made, calls, exposed>>
  BY DEF CallEnds
<1>3. commands'[r] = <<>> /\ \A s \in Recorders \ {r} : commands'[s] = commands[s]
  BY <1>1, <1>2 DEF MetricsTypeOK
<1>4. MetricsTypeOK'
  <2>1. <<>> \in Seq(Fields \cup {"register"})
    OBVIOUS
  <2> QED
    BY <1>1, <1>2, <2>1 DEF MetricsTypeOK
<1>5. \A s \in Recorders : InOrder(commands'[s], hash'["run_total:succeeded"] > 0)
  <2>1. InOrder(<<>>, hash["run_total:succeeded"] > 0)
    BY DEF InOrder
  <2> QED
    BY <1>1, <1>2, <1>3, <2>1 DEF HashAddsUp
<1>6. hash["run_failed_total"] + Cardinality(Owing') <= hash["run_total:failed"]
  <2>1. /\ hash["run_failed_total"] + Cardinality(Owing) <= hash["run_total:failed"]
        /\ hash["run_failed_total"] \in Nat /\ hash["run_total:failed"] \in Nat
    BY <1>1 DEF HashAddsUp, MetricsTypeOK, Fields, Totals
  <2>2. r \notin Owing'
    BY <1>3 DEF Owing
  <2>3. PICK owed \in Nat, owes \in Nat : /\ owed = Cardinality(Owing) /\ owes = Cardinality(Owing')
                                          /\ owes = owed \/ owes = owed - 1
    BY <1>3, <2>2, OneOwes
  <2> QED
    BY <2>1, <2>3
<1> QED
  BY <1>1, <1>2, <1>4, <1>5, <1>6 DEF MetricsInvariant, HashAddsUp, Adds

\* Whatever calls are made and wherever they are cut off: a scrape adds up
\* (metrics.py:47-182).
THEOREM ScrapesAlwaysAddUp == MetricsSpec => []ScrapesAddUp
<1>1. MetricsInit => MetricsInvariant
  <2> SUFFICES ASSUME MetricsInit PROVE MetricsInvariant
    OBVIOUS
  <2>1. Unset \in [Fields -> Nat] /\ \A f \in Fields : Unset[f] = 0
    BY DEF Unset, Fields
  <2>2. /\ {"run_failed_total", "run_total:failed", "run_total:succeeded",
            "last_success_timestamp"} \subseteq Fields
    BY DEF Fields, Totals, Gauges
  <2>3. MetricsTypeOK
    <3>1. <<>> \in Seq(Fields \cup {"register"})
      OBVIOUS
    <3> QED
      BY <2>1, <3>1 DEF MetricsInit, MetricsTypeOK
  <2>4. Owing = {}
    BY DEF MetricsInit, Owing
  <2>5. Cardinality(Owing) = 0
    BY <2>4, FS_EmptySet
  <2>6. \A r \in Recorders : commands[r] = <<>> /\ Len(commands[r]) = 0
    BY DEF MetricsInit
  <2>7. HashAddsUp
    BY <2>1, <2>2, <2>5, <2>6 DEF MetricsInit, HashAddsUp, InOrder
  <2> QED
    BY <2>1, <2>2, <2>3, <2>7 DEF MetricsInit, MetricsInvariant, Adds
<1>2. MetricsInvariant /\ [MetricsNext]_metricsVars => MetricsInvariant'
  <2> SUFFICES ASSUME MetricsInvariant, [MetricsNext]_metricsVars PROVE MetricsInvariant'
    OBVIOUS
  <2>1. CASE Scrape
    <3>1. Adds(exposed')
      <4>1. CASE registered
        <5>1. exposed' = hash /\ Cardinality(Owing) \in Nat
          <6>1. IsFiniteSet(Owing)
            BY FS_Subset, MetricsAssumption DEF Owing
          <6> QED
            BY <2>1, <4>1, <6>1, FS_CardinalityType DEF Scrape
        <5>2. hash["run_failed_total"] \in Nat /\ hash["run_total:failed"] \in Nat
          BY DEF MetricsInvariant, MetricsTypeOK, Fields, Totals
        <5> QED
          BY <5>1, <5>2 DEF MetricsInvariant, HashAddsUp, Adds
      <4>2. CASE ~registered
        <5>1. exposed' = Unset
          BY <2>1, <4>2 DEF Scrape
        <5> QED
          BY <5>1 DEF Adds, Unset, Totals, Gauges
      <4> QED
        BY <4>1, <4>2
    <3>2. Unset \in [Fields -> Nat]
      BY DEF Unset, Fields
    <3>3. MetricsTypeOK'
      BY <2>1, <3>2 DEF Scrape, MetricsInvariant, MetricsTypeOK
    <3>4. HashAddsUp'
      <4>1. Owing' = Owing
        BY <2>1 DEF Scrape, Owing
      <4> QED
        BY <2>1, <4>1 DEF Scrape, MetricsInvariant, HashAddsUp
    <3> QED
      BY <3>1, <3>3, <3>4 DEF MetricsInvariant
  <2>2. CASE UNCHANGED metricsVars
    BY <2>2 DEF metricsVars, MetricsInvariant, MetricsTypeOK, HashAddsUp, Adds, Owing
  <2> QED
    BY <2>1, <2>2, CallStoreAdds, SendCommandAdds, CallEndsAdds DEF MetricsNext
<1>3. MetricsInvariant => ScrapesAddUp
  BY DEF MetricsInvariant, Adds, ScrapesAddUp
<1> QED
  BY <1>1, <1>2, <1>3, PTL DEF MetricsSpec

-----------------------------------------------------------------------------
(* FailureSnapshots.                                                        *)

SnapshotsTypeOK ==
  /\ day \in Nat
  /\ written \in [SnapshotRuns -> Int]
  /\ present \subseteq SnapshotRuns
  /\ cutoff \in [Cleaners -> Int]
  /\ listed \in [Cleaners -> SUBSET SnapshotRuns]
  /\ expired \in [Cleaners -> SnapshotRuns \cup {"none"}]

\* What a cleanup has to remove it has listed, or is about to remove.  Its
\* cutoff lies behind, so that no file comes to expire during the cleanup.
NothingIsMissed ==
  \A c \in Cleaners : Running(c) =>
    /\ cutoff[c] <= day
    /\ \A r \in present : Expired(c, r) => r \in listed[c] \/ expired[c] = r

SnapshotsInvariant == SnapshotsTypeOK /\ NothingIsMissed

\* The end of a cleanup keeps the invariant.
LEMMA EndOfCleanup ==
  ASSUME SnapshotsInvariant, NEW c \in Cleaners, EndCleanup(c),
         UNCHANGED <<day, written, present>>
  PROVE  SnapshotsInvariant'
<1>1. SnapshotsTypeOK'
  BY SnapshotsAssumption DEF SnapshotsInvariant, SnapshotsTypeOK, EndCleanup, NotRunning
<1>2. ASSUME NEW other \in Cleaners, Running(other)'
      PROVE  /\ cutoff'[other] <= day'
             /\ \A r \in present' : Expired(other, r)' =>
                  r \in listed'[other] \/ expired'[other] = r
  <2>1. other # c
    BY <1>2 DEF SnapshotsInvariant, SnapshotsTypeOK, EndCleanup, Running, NotRunning
  <2>2. /\ cutoff'[other] = cutoff[other] /\ listed'[other] = listed[other]
        /\ expired'[other] = expired[other]
    BY <2>1 DEF SnapshotsInvariant, SnapshotsTypeOK, EndCleanup
  <2> QED
    BY <1>2, <2>2 DEF SnapshotsInvariant, NothingIsMissed, Running, Expired, NotRunning
<1> QED
  BY <1>1, <1>2 DEF SnapshotsInvariant, NothingIsMissed

\* Every step keeps what a cleanup has still to remove within its reach.
LEMMA SnapshotsStep == ASSUME SnapshotsInvariant, SnapshotsNext PROVE SnapshotsInvariant'
<1>1. SnapshotsTypeOK /\ NothingIsMissed
  BY DEF SnapshotsInvariant
<1>2. CASE DayPasses
  BY <1>1, <1>2 DEF DayPasses, SnapshotsInvariant, SnapshotsTypeOK, NothingIsMissed,
                    Running, Expired
<1>3. ASSUME NEW r \in SnapshotRuns, WriteSnapshot(r) PROVE SnapshotsInvariant'
  <2>1. SnapshotsTypeOK'
    BY <1>1, <1>3 DEF WriteSnapshot, SnapshotsTypeOK
  <2>2. ASSUME NEW c \in Cleaners, Running(c)', NEW s \in present', Expired(c, s)'
        PROVE  s \in listed'[c] \/ expired'[c] = s
    <3>1. s # r
      BY <1>1, <1>3, <2>2 DEF WriteSnapshot, SnapshotsTypeOK, NothingIsMissed, Running, Expired
    <3> QED
      BY <1>1, <1>3, <2>2, <3>1 DEF WriteSnapshot, SnapshotsTypeOK, NothingIsMissed, Running, Expired
  <2> QED
    BY <1>1, <1>3, <2>1, <2>2 DEF WriteSnapshot, SnapshotsInvariant, NothingIsMissed, Running
<1>4. ASSUME NEW r \in SnapshotRuns, Attach(r) PROVE SnapshotsInvariant'
  BY <1>1, <1>4 DEF Attach, SnapshotsInvariant, SnapshotsTypeOK, NothingIsMissed,
                    Running, Expired
<1>5. ASSUME NEW c \in Cleaners, BeginCleanup(c) PROVE SnapshotsInvariant'
  BY <1>1, <1>5, SnapshotsAssumption
     DEF BeginCleanup, SnapshotsInvariant, SnapshotsTypeOK, NothingIsMissed, Running, Expired
<1>6. ASSUME NEW c \in Cleaners, NEW r \in SnapshotRuns, LookAt(c, r) PROVE SnapshotsInvariant'
  <2>1. SnapshotsTypeOK'
    BY <1>1, <1>6 DEF LookAt, SnapshotsTypeOK
  <2>2. ASSUME NEW d \in Cleaners, Running(d)', NEW s \in present', Expired(d, s)'
        PROVE  s \in listed'[d] \/ expired'[d] = s
    <3>1. s \in listed[d] \/ expired[d] = s
      BY <1>1, <1>6, <2>2 DEF LookAt, NothingIsMissed, Running, Expired
    <3>2. s # "none" /\ s \in present /\ Expired(d, s)
      BY <1>1, <1>6, <2>2, SnapshotsAssumption DEF LookAt, SnapshotsTypeOK, Expired
    <3> QED
      BY <1>1, <1>6, <3>1, <3>2 DEF LookAt, SnapshotsTypeOK
  <2> QED
    BY <1>1, <1>6, <2>1, <2>2 DEF LookAt, SnapshotsInvariant, NothingIsMissed, Running
<1>7. ASSUME NEW c \in Cleaners, Remove(c) PROVE SnapshotsInvariant'
  <2>1. SnapshotsTypeOK'
    BY <1>1, <1>7 DEF Remove, SnapshotsTypeOK
  <2>2. ASSUME NEW d \in Cleaners, Running(d)', NEW s \in present', Expired(d, s)'
        PROVE  s \in listed'[d] \/ expired'[d] = s
    BY <1>1, <1>7, <2>2 DEF Remove, SnapshotsTypeOK, NothingIsMissed, Running, Expired
  <2> QED
    BY <1>1, <1>7, <2>1, <2>2 DEF Remove, SnapshotsInvariant, NothingIsMissed, Running
<1>8. ASSUME NEW c \in Cleaners, CleanupFails(c) \/ CleanupReturns(c) PROVE SnapshotsInvariant'
  BY <1>8, EndOfCleanup DEF CleanupFails, CleanupReturns
<1> QED
  BY <1>2, <1>3, <1>4, <1>5, <1>6, <1>7, <1>8 DEF SnapshotsNext

\* A cleanup that returns has removed every file that had expired when it began,
\* whatever other cleanups and runs did meanwhile (failure_snapshots.py:73-89).
THEOREM CleanupsAreComplete == SnapshotsSpec => CleanupIsComplete
<1>1. SnapshotsInit => SnapshotsInvariant
  <2>1. NotRunning \in Int /\ Never \in Int
    BY SnapshotsAssumption DEF NotRunning, Never
  <2> QED
    BY <2>1 DEF SnapshotsInit, SnapshotsInvariant, SnapshotsTypeOK, NothingIsMissed, Running
<1>2. SnapshotsInvariant /\ UNCHANGED snapshotVars => SnapshotsInvariant'
  BY DEF snapshotVars, SnapshotsInvariant, SnapshotsTypeOK, NothingIsMissed, Running, Expired
<1>3. SnapshotsInvariant =>
        \A c \in Cleaners : CleanupReturns(c) => \A r \in present : ~Expired(c, r)
  BY SnapshotsAssumption
     DEF SnapshotsInvariant, SnapshotsTypeOK, NothingIsMissed, CleanupReturns
<1> QED
  BY <1>1, <1>2, <1>3, SnapshotsStep, PTL DEF SnapshotsSpec, CleanupIsComplete

-----------------------------------------------------------------------------
(* Inspection.                                                              *)

InspectionTypeOK ==
  /\ inReport \in BOOLEAN
  /\ health \in [succeeded : Nat, failed : Nat, success : 1..3, items : Nat,
                 baseline : Nat \cup {NoBaseline}, over : SUBSET Limits]

\* The measures keep their types.
LEMMA MeasuresAreTyped == InspectionSpec => []InspectionTypeOK
<1>1. InspectionInit => InspectionTypeOK
  <2> SUFFICES ASSUME InspectionInit PROVE InspectionTypeOK
    OBVIOUS
  <2>1. 0 \in Nat /\ 3 \in 1..3 /\ NoBaseline \in Nat \cup {NoBaseline} /\ {} \in SUBSET Limits
    OBVIOUS
  <2>2. inReport = FALSE
    BY DEF InspectionInit
  <2>3. health = [succeeded |-> 0, failed |-> 0, success |-> 3, items |-> 0,
                  baseline |-> NoBaseline, over |-> {}]
    BY DEF InspectionInit
  <2>4. health \in [succeeded : Nat, failed : Nat, success : 1..3, items : Nat,
                    baseline : Nat \cup {NoBaseline}, over : SUBSET Limits]
    BY ONLY <2>1, <2>3
  <2> QED
    BY <2>2, <2>4 DEF InspectionTypeOK
<1>2. InspectionTypeOK /\ [InspectionNext]_inspectionVars => InspectionTypeOK'
  <2> SUFFICES ASSUME InspectionTypeOK, [InspectionNext]_inspectionVars
               PROVE  InspectionTypeOK'
    OBVIOUS
  <2>1. CASE Appear
    BY <2>1, InspectionAssumption DEF InspectionTypeOK, Appear
  <2>2. CASE Worsens
    BY <2>2, InspectionAssumption DEF InspectionTypeOK, Worsens
  <2>3. CASE Improves
    <3>1. CASE health.failed > 0 /\ health' = [health EXCEPT !.failed = @ - 1]
      BY <2>3, <3>1 DEF InspectionTypeOK, Improves
    <3>2. CASE health' = [health EXCEPT !.succeeded = @ + 1, !.success = 1]
      <4>1. health.succeeded + 1 \in Nat /\ 1 \in 1..3
        BY DEF InspectionTypeOK
      <4> QED
        BY <2>3, <3>2, <4>1 DEF InspectionTypeOK, Improves
    <3>3. ASSUME NEW n \in 0..MaxItemCount, health' = [health EXCEPT !.items = n]
          PROVE  InspectionTypeOK'
      <4>1. n \in Nat
        BY InspectionAssumption
      <4> QED
        BY <2>3, <3>3, <4>1 DEF InspectionTypeOK, Improves
    <3>4. ASSUME NEW l \in health.over, health' = [health EXCEPT !.over = @ \ {l}]
          PROVE  InspectionTypeOK'
      <4>1. health.over \ {l} \in SUBSET Limits
        BY DEF InspectionTypeOK
      <4> QED
        BY <2>3, <3>4, <4>1 DEF InspectionTypeOK, Improves
    <3> QED
      BY <2>3, <3>1, <3>2, <3>3, <3>4 DEF Improves
  <2>4. CASE UNCHANGED inspectionVars
    BY <2>4 DEF InspectionTypeOK, inspectionVars
  <2> QED
    BY <2>1, <2>2, <2>3, <2>4 DEF InspectionNext
<1> QED
  BY <1>1, <1>2, PTL DEF InspectionSpec

\* A source needs attention for one of the rules.
LEMMA FindingsByRule ==
  ASSUME NEW h
  PROVE  Findings(h) # {} <=>
           \/ h.over # {}
           \/ h.succeeded + h.failed = 0
           \/ HighFailureRate(h)
           \/ LastSuccess[h.success] # "recent"
           \/ AbnormalItems(h)
<1> DEFINE Judged == {f \in {"no runs", "failure rate", "last success", "items"} :
    \/ f = "no runs" /\ h.succeeded + h.failed = 0
    \/ f = "failure rate" /\ HighFailureRate(h)
    \/ f = "last success" /\ LastSuccess[h.success] # "recent"
    \/ f = "items" /\ AbnormalItems(h)}
<1>1. Findings(h) = h.over \cup Judged
  BY DEF Findings
<1>2. Judged # {} <=>
           \/ h.succeeded + h.failed = 0
           \/ HighFailureRate(h)
           \/ LastSuccess[h.success] # "recent"
           \/ AbnormalItems(h)
  OBVIOUS
<1> QED
  BY <1>1, <1>2

\* Whatever the measures: none of them can get worse and take away the findings
\* of a source (inspection.py:253-301).
THEOREM WorseStaysUnhealthy == InspectionSpec => WorseIsNotHealthier
<1>1. ASSUME InspectionTypeOK, Worsens, Status = "attention" PROVE Status' = "attention"
  <2>1. inReport /\ inReport' /\ Findings(health) # {}
    BY <1>1 DEF Worsens, Status
  <2> SUFFICES Findings(health') # {}
    BY <2>1 DEF Status
  <2>2. PICK h : h = health
    OBVIOUS
  <2>3. h \in [succeeded : Nat, failed : Nat, success : 1..3, items : Nat,
               baseline : Nat \cup {NoBaseline}, over : SUBSET Limits]
    BY <1>1, <2>2 DEF InspectionTypeOK
  <2>4. \/ h.over # {} \/ h.succeeded + h.failed = 0 \/ HighFailureRate(h)
        \/ LastSuccess[h.success] # "recent" \/ AbnormalItems(h)
    BY <2>1, <2>2, FindingsByRule
  <2>5. SUFFICES \/ health'.over # {} \/ health'.succeeded + health'.failed = 0
                 \/ HighFailureRate(health') \/ LastSuccess[health'.success] # "recent"
                 \/ AbnormalItems(health')
    BY FindingsByRule
  <2>6. CASE health' = [h EXCEPT !.failed = @ + 1]
    BY <2>3, <2>4, <2>6 DEF HighFailureRate, AbnormalItems
  <2>7. CASE h.succeeded > 0 /\ health' = [h EXCEPT !.succeeded = @ - 1]
    BY <2>3, <2>4, <2>7 DEF HighFailureRate, AbnormalItems
  <2>8. CASE h.success < 3 /\ health' = [h EXCEPT !.success = @ + 1]
    BY <2>3, <2>4, <2>8 DEF LastSuccess
  <2>9. ASSUME NEW n \in 0..MaxItemCount, Distance(n, h.baseline) > Distance(h.items, h.baseline),
               health' = [h EXCEPT !.items = n]
        PROVE  \/ health'.over # {} \/ health'.succeeded + health'.failed = 0
               \/ HighFailureRate(health') \/ LastSuccess[health'.success] # "recent"
               \/ AbnormalItems(health')
    BY <2>3, <2>4, <2>9, InspectionAssumption DEF HighFailureRate, AbnormalItems, Distance, NoBaseline
  <2>10. ASSUME NEW l \in Limits \ h.over, health' = [h EXCEPT !.over = @ \cup {l}]
         PROVE  health'.over # {}
    BY <2>3, <2>10
  <2> QED
    BY <1>1, <2>2, <2>6, <2>7, <2>8, <2>9, <2>10 DEF Worsens
<1> QED
  BY <1>1, MeasuresAreTyped, PTL DEF WorseIsNotHealthier, InspectionSpec
=============================================================================
