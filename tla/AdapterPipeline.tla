---------------------------- MODULE AdapterPipeline ----------------------------
(***************************************************************************)
(* AdapterRunner.run (adapters/base.py): fetch, parse, then normalize and  *)
(* fingerprint item by item, each a call of the adapter, and the           *)
(* classification of what goes wrong.  The calls may do anything a Python  *)
(* function may; DemoApiAdapter is one that does part of it.               *)
(***************************************************************************)
EXTENDS Naturals

CONSTANT MaxItems  \* bound: raw items of a response

ASSUME PipelineAssumption == MaxItems \in Nat

VARIABLES
  stage,    \* the call that is next; "over" at the end
  parsed,   \* raw items of the response
  left,     \* those not yet normalized
  kept,     \* items of the collection
  fault,    \* history: what went wrong first
  raised    \* what run() raises; "none" while it runs and when it returns

pipelineVars == <<stage, parsed, left, kept, fault, raised>>

Stages == {"fetch", "parse", "normalize", "encode", "fingerprint", "digest"}

\* The exceptions of base.py, by name, with their base classes.
AdapterContractErrors == {"AdapterContractError", "NormalizationError"}
AdapterRunErrors == AdapterContractErrors \cup {"FetchError", "ParseError", "AdapterRunError"}

\* Every other exception is its class as the handlers see it.
Exceptions == AdapterRunErrors \cup {"ValidationError", "ConnectionError", "ValueError", "Exception"}
NotExceptions == {"BaseException"}  \* KeyboardInterrupt, SystemExit

\* What a call may come to besides a good value: an exception, a value of the
\* wrong type, and from fingerprint a wrong hash.  The encoding of an item
\* (canonical_json_bytes) refuses what is no JSON with a ValueError; data nested
\* too deeply for it raise RecursionError, an "Exception" here, and so does the
\* hash of a body that is not bytes.
Faults(s) ==
  IF s = "encode" THEN {"ValueError", "Exception"}
  ELSE IF s = "digest" THEN {"Exception"}
  ELSE Exceptions \cup NotExceptions \cup {"bad value"}

\* What _fetch, _parse and _normalize make of an exception that is not their own.
StageError ==
  [fetch |-> "FetchError", parse |-> "ParseError",
   normalize |-> "NormalizationError", fingerprint |-> "AdapterContractError"]

(* A faulty variant of Classified: a mistake the properties must find. *)

\* The adapter's own errors are taken for errors of the stage.
ClassifiedByStage(s, f) ==
  IF f = "bad value" \/ (s = "encode" /\ f = "ValueError") THEN "AdapterContractError"
  ELSE IF s \in {"encode", "digest"} \/ f \in NotExceptions THEN f
  ELSE StageError[s]

\* The except clauses of _fetch, _parse and _normalize, and their checks.
Classified(s, f) ==
  LET refused == f = "bad value" \/ (s = "encode" /\ f = "ValueError")
      passed == \/ s \in {"encode", "digest"} \/ f \in NotExceptions
                \/ s # "fingerprint" /\ f \in AdapterRunErrors
  IN  IF refused THEN "AdapterContractError" ELSE IF passed THEN f ELSE StageError[s]

PipelineInit ==
  /\ stage = "fetch" /\ parsed = 0 /\ left = 0 /\ kept = 0
  /\ fault = [at |-> "none", kind |-> "none"] /\ raised = "none"

Fetch ==
  /\ stage = "fetch" /\ stage' = "parse"
  /\ UNCHANGED <<parsed, left, kept, fault, raised>>

\* The next item or, after the last one, the hash of the body.
NextItem(n) == stage' = (IF n = 0 THEN "digest" ELSE "normalize") /\ left' = n

Parse ==
  /\ stage = "parse" /\ parsed' \in 0..MaxItems /\ NextItem(parsed')
  /\ UNCHANGED <<kept, fault, raised>>

Normalize ==
  /\ stage = "normalize" /\ stage' = "encode"
  /\ UNCHANGED <<parsed, left, kept, fault, raised>>

Encode ==
  /\ stage = "encode" /\ stage' = "fingerprint"
  /\ UNCHANGED <<parsed, left, kept, fault, raised>>

Fingerprint ==
  /\ stage = "fingerprint" /\ kept' = kept + 1 /\ NextItem(left - 1)
  /\ UNCHANGED <<parsed, fault, raised>>

Return ==
  /\ stage = "digest" /\ stage' = "over"
  /\ UNCHANGED <<parsed, left, kept, fault, raised>>

(* A faulty variant of StageFails. *)

\* An item that fails a check is left out.
StageFailsSkips ==
  /\ stage \in {"normalize", "encode", "fingerprint"}
  /\ NextItem(left - 1)
  /\ UNCHANGED <<parsed, kept, fault, raised>>

\* A call fails: run() raises and nothing of the collection is returned.
StageFails ==
  /\ stage \in Stages /\ stage' = "over"
  /\ \E f \in Faults(stage) :
       fault' = [at |-> stage, kind |-> f] /\ raised' = Classified(stage, f)
  /\ UNCHANGED <<parsed, left, kept>>

PipelineNext == Fetch \/ Parse \/ Normalize \/ Encode \/ Fingerprint \/ Return \/ StageFails

PipelineSpec == PipelineInit /\ [][PipelineNext]_pipelineVars

-----------------------------------------------------------------------------
\* An error tells the stage, unless the adapter chose it itself, which it can
\* in fetch, parse and normalize: an error of its own is passed on unchanged.
ErrorTellsStage ==
  LET own == fault.kind \in AdapterRunErrors IN
  /\ raised = "FetchError" /\ ~own => fault.at = "fetch"
  /\ raised = "ParseError" /\ ~own => fault.at = "parse"
  /\ raised = "NormalizationError" /\ ~own => fault.at = "normalize"
  /\ own /\ fault.at # "fingerprint" => raised = fault.kind

\* A collection that is returned has every item of the response: one that failed
\* a check fails the run instead of leaving a hole, which the persistence would
\* take for a record that is gone.
ResultIsComplete == stage = "over" /\ raised = "none" => kept = parsed
=============================================================================
