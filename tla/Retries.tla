-------------------------------- MODULE Retries --------------------------------
(***************************************************************************)
(* run_with_retry under a RetryPolicy (resilience.py): one request, the    *)
(* answers of a site to its attempts, and the waits between them.  Delays  *)
(* are counted in halves of the unit of the policy, for the jitter.        *)
(***************************************************************************)
EXTENDS Naturals, Sequences

CONSTANTS
  MaxAttempts,  \* bound: max_attempts of a policy
  BaseDelay,    \* base_delay_seconds
  MaxDelay,     \* max_delay_seconds
  RetryAfters   \* the delays a site asks for with Retry-After

ASSUME RetriesAssumption ==
  /\ MaxAttempts \in Nat /\ BaseDelay \in Nat /\ MaxDelay \in Nat
  /\ RetryAfters \subseteq Nat

VARIABLES
  budget,   \* max_attempts
  answers,  \* what the attempts were answered
  waits,    \* the delays slept, in half units, and who chose them
  result    \* "none" while the loop runs; what its caller gets

retryVars == <<budget, answers, waits, result>>

\* What an attempt may come to: a value, an exception, or a response that is
\* no success, with its status (0 for the rest), whether its body asks for a
\* human, and whether it has a Retry-After of digits.
Answers ==
  [kind : {"value", "ConnectionError", "other error"},
   status : {0}, review : {FALSE}, after : {FALSE}]
    \cup [kind : {"response"}, status : {401, 403, 404, 429, 502, 503},
          review : BOOLEAN, after : BOOLEAN]

\* base_delay_seconds doubled n times.
Growth[n \in Nat] == IF n = 0 THEN BaseDelay ELSE 2 * Growth[n - 1]

(* Faulty variants of definitions below: mistakes the properties must find. *)

\* An access problem may pass.
ShouldRetryRefused(answer) ==
  \/ answer.kind = "ConnectionError"
  \/ ~answer.review /\ answer.status \in {403, 429, 502, 503}

\* The delay grows without its maximum.
BackoffsUnbounded(attempt) == {Growth[attempt - 1] * k : k \in 1..3}

\* RetryPolicy.should_retry and should_request_human_review
ShouldRetry(answer) ==
  \/ answer.kind = "ConnectionError"
  \/ ~answer.review /\ answer.status \in {429, 502, 503}

\* RetryPolicy.delay_seconds: random_value is 0, 1/2, or the 1 it stays below.
Backoffs(attempt) ==
  LET growth == Growth[attempt - 1]
      delay == IF growth < MaxDelay THEN growth ELSE MaxDelay
  IN  {delay * k : k \in 1..3}

Attempt == Len(answers)
Answer == answers[Attempt]

RetriesInit ==
  /\ budget = 0 /\ answers = <<>> /\ waits = <<>> /\ result = "not called"

\* run_with_retry is called with some policy.
RunWithRetry ==
  /\ result = "not called" /\ result' = "none"
  /\ budget' \in 0..MaxAttempts
  /\ UNCHANGED <<answers, waits>>

\* operation() is called and returns or raises.
Operate ==
  /\ result = "none" /\ Len(waits) = Attempt /\ Attempt < budget
  /\ \E answer \in Answers :
       /\ answers' = Append(answers, answer)
       /\ result' = IF answer.kind = "value" THEN "returned"
                    ELSE IF ShouldRetry(answer) /\ Attempt + 1 < budget THEN "none"
                    ELSE "raised"
  /\ UNCHANGED <<budget, waits>>

\* The delay before the next attempt: the one the site asked for, if it did.
Sleep ==
  /\ result = "none" /\ Len(waits) < Attempt
  /\ \E d \in IF Answer.after THEN {2 * s : s \in RetryAfters} ELSE Backoffs(Attempt) :
       waits' = Append(waits, [halves |-> d, asked |-> Answer.after])
  /\ UNCHANGED <<budget, answers, result>>

\* A policy without attempts never calls the operation.
Exhausted ==
  /\ result = "none" /\ Attempt = budget /\ Len(waits) = Attempt
  /\ result' = "exhausted"
  /\ UNCHANGED <<budget, answers, waits>>

RetriesNext == RunWithRetry \/ Operate \/ Sleep \/ Exhausted

RetriesSpec == RetriesInit /\ [][RetriesNext]_retryVars

-----------------------------------------------------------------------------
\* A site that refused, or asked for a human, is not called again.
RefusalIsFinal ==
  \A i \in 1..Attempt - 1 :
    answers[i].status \notin {401, 403} /\ ~answers[i].review

\* The request waits only between attempts, and not longer than one and a half
\* maximal delays unless the site asked for more; waits do not shrink but by
\* jitter (a wait is at least a third of an earlier one).
WaitsAreBounded ==
  /\ result \in {"returned", "raised"} => Len(waits) = Attempt - 1
  /\ \A i \in DOMAIN waits : waits[i].asked \/ waits[i].halves <= 3 * MaxDelay
  /\ \A i, j \in DOMAIN waits :
       i < j /\ ~waits[i].asked /\ ~waits[j].asked => waits[i].halves <= 3 * waits[j].halves
=============================================================================
