-------------------------------- MODULE Metrics --------------------------------
(***************************************************************************)
(* RedisMetricsStore (metrics.py) for one source: every call is a sequence *)
(* of Redis commands on one hash, which calls of other processes come      *)
(* between and which an error or a crash cuts off.  A scrape reads the     *)
(* register of sources, then the hash, and renders what is in it.          *)
(***************************************************************************)
EXTENDS Naturals, Sequences, FiniteSets

CONSTANTS
  Recorders,  \* processes that record metrics of the source
  MaxCalls    \* bound: calls in a behaviour

ASSUME MetricsAssumption == MaxCalls \in Nat /\ IsFiniteSet(Recorders)

VARIABLES
  registered,  \* Redis: the source is a member of crawler:metrics:sources
  hash,        \* Redis: field -> value, 0 when absent
  commands,    \* what a recorder has left to send
  made,        \* the time of its call: calls are numbered in their order
  calls,       \* the number of calls so far
  exposed      \* the values of the last scrape; those of an empty hash before

metricsVars == <<registered, hash, commands, made, calls, exposed>>

Totals == {"run_total:succeeded", "run_total:failed", "run_total:skipped",
           "run_failed_total", "http_status", "items_created", "items_updated",
           "parse_error_total", "lock_skip_total"}
Gauges == {"run_duration_seconds", "items_found", "last_run_id",
           "last_success_timestamp", "circuit_breaker_state"}

RunGauges == <<"run_duration_seconds", "items_found", "last_run_id">>

Total(outcome) ==
  [succeeded |-> "run_total:succeeded", failed |-> "run_total:failed",
   skipped |-> "run_total:skipped"][outcome]
If(condition, command) == IF condition THEN <<command>> ELSE <<>>

(* A faulty variant of RunCommands: a mistake the property must find. *)

\* The total of failures is counted before the run.
RunCommandsSwapped(outcome) ==
  <<"register">> \o If(outcome = "failed", "run_failed_total")
    \o <<Total(outcome)>> \o RunGauges
    \o If(outcome = "succeeded", "last_success_timestamp")

\* record_run
RunCommands(outcome) ==
  <<"register", Total(outcome)>> \o If(outcome = "failed", "run_failed_total")
    \o RunGauges \o If(outcome = "succeeded", "last_success_timestamp")

\* The commands of each call.  Amounts are one; a call with values that are
\* refused sends none.
CommandsOf ==
  [succeeded |-> RunCommands("succeeded"), failed |-> RunCommands("failed"),
   skipped |-> RunCommands("skipped"),
   http_status |-> <<"register", "http_status">>,
   items |-> <<"register", "items_created", "items_updated">>,
   parse_error |-> <<"register", "parse_error_total">>,
   lock_skip |-> <<"register", "lock_skip_total">>,
   circuit_breaker |-> <<"register", "circuit_breaker_state">>]

Unset == [f \in Totals \cup Gauges |-> 0]

MetricsInit ==
  /\ registered = FALSE /\ hash = Unset /\ exposed = Unset
  /\ commands = [r \in Recorders |-> <<>>]
  /\ made = [r \in Recorders |-> 0] /\ calls = 0

CallStore(r) ==
  /\ commands[r] = <<>> /\ calls < MaxCalls
  /\ \E c \in DOMAIN CommandsOf : commands' = [commands EXCEPT ![r] = CommandsOf[c]]
  /\ calls' = calls + 1
  /\ made' = [made EXCEPT ![r] = calls + 1]
  /\ UNCHANGED <<registered, hash, exposed>>

\* SADD, HINCRBY or HSET; a gauge is known by the time of its call.
SendCommand(r) ==
  /\ commands[r] # <<>>
  /\ LET field == Head(commands[r]) IN
       IF field = "register"
         THEN registered' = TRUE /\ UNCHANGED hash
         ELSE /\ hash' = [hash EXCEPT ![field] = IF field \in Totals THEN @ + 1 ELSE made[r]]
              /\ UNCHANGED registered
  /\ commands' = [commands EXCEPT ![r] = Tail(@)]
  /\ UNCHANGED <<made, calls, exposed>>

\* A command raises, or the process dies: the rest of the call is not sent.
CallEnds(r) ==
  /\ commands[r] # <<>>
  /\ commands' = [commands EXCEPT ![r] = <<>>]
  /\ UNCHANGED <<registered, hash, made, calls, exposed>>

\* GET /metrics: an unregistered source is left out, an absent field reads 0.
Scrape ==
  /\ exposed' = IF registered THEN hash ELSE Unset
  /\ UNCHANGED <<registered, hash, commands, made, calls>>

MetricsNext == Scrape \/ \E r \in Recorders : CallStore(r) \/ SendCommand(r) \/ CallEnds(r)

MetricsSpec == MetricsInit /\ [][MetricsNext]_metricsVars

-----------------------------------------------------------------------------
\* What a scrape shows adds up, wherever calls were cut off: no more failures
\* than failed runs, and a last success only of a source with a success.
ScrapesAddUp ==
  /\ exposed["run_failed_total"] <= exposed["run_total:failed"]
  /\ exposed["last_success_timestamp"] > 0 => exposed["run_total:succeeded"] > 0
=============================================================================
