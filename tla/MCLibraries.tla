------------------------------ MODULE MCLibraries ------------------------------
(***************************************************************************)
(* One instance for TLC of the components that do not act on each other:   *)
(* a behaviour is one of one of them, chosen at the start; the others stay *)
(* as they begin.                                                          *)
(***************************************************************************)
EXTENDS CircuitBreaker, RedisCircuitBreaker, Retries, RateLimiter, AdapterPipeline,
        SafeFragment, BrowserSession, EdgeRuntime, EdgeSupervisor, Alerts, Metrics,
        FailureSnapshots, Inspection

CONSTANTS
  c1, c2, c3, c4,  \* callers of a circuit
  o1, o2,          \* observers of a profile
  e1, e2,          \* evaluators of alerts
  r1, r2,          \* recorders of metrics
  s1, s2, k1, k2   \* failed runs and cleanups of their snapshots

\* crawler_consecutive_failures and crawler_disk_low
RuleKinds == <<"atLeast", "atMost">>

\* Sources without a baseline, with one of no items, and with one of two.
BaselineCounts == {NoBaseline, 0, 2}

VARIABLE part

componentVars ==
  <<vars, redisVars, retryVars, limiterVars, pipelineVars, fragmentVars, sessionVars,
    edgeVars, supervisorVars, alertVars, metricsVars, snapshotVars, inspectionVars>>
libraryVars == <<part, componentVars>>

LibrariesInit ==
  /\ part \in {"circuit", "redis circuit", "retries", "limiter", "adapter", "fragment", "session",
              "edge", "supervisor", "alerts", "metrics", "snapshots", "inspection"}
  /\ Init /\ RedisInit /\ RetriesInit /\ LimiterInit
  /\ PipelineInit /\ FragmentInit /\ SessionInit /\ EdgeInit
  /\ SupervisorInit /\ AlertsInit /\ MetricsInit /\ SnapshotsInit
  /\ InspectionInit

LibrariesNext ==
  \/ part = "circuit" /\ Next /\ UNCHANGED
       <<part, redisVars, retryVars, limiterVars, pipelineVars,
         fragmentVars, sessionVars, edgeVars, supervisorVars, alertVars,
         metricsVars, snapshotVars, inspectionVars>>
  \/ part = "redis circuit" /\ RedisNext /\ UNCHANGED
       <<part, vars, retryVars, limiterVars, pipelineVars, fragmentVars,
         sessionVars, edgeVars, supervisorVars, alertVars, metricsVars,
         snapshotVars, inspectionVars>>
  \/ part = "retries" /\ RetriesNext /\ UNCHANGED
       <<part, vars, redisVars, limiterVars, pipelineVars, fragmentVars,
         sessionVars, edgeVars, supervisorVars, alertVars, metricsVars,
         snapshotVars, inspectionVars>>
  \/ part = "limiter" /\ LimiterNext /\ UNCHANGED
       <<part, vars, redisVars, retryVars, pipelineVars, fragmentVars,
         sessionVars, edgeVars, supervisorVars, alertVars, metricsVars,
         snapshotVars, inspectionVars>>
  \/ part = "adapter" /\ PipelineNext /\ UNCHANGED
       <<part, vars, redisVars, retryVars, limiterVars, fragmentVars,
         sessionVars, edgeVars, supervisorVars, alertVars, metricsVars,
         snapshotVars, inspectionVars>>
  \/ part = "fragment" /\ FragmentNext /\ UNCHANGED
       <<part, vars, redisVars, retryVars, limiterVars, pipelineVars,
         sessionVars, edgeVars, supervisorVars, alertVars, metricsVars,
         snapshotVars, inspectionVars>>
  \/ part = "session" /\ SessionNext /\ UNCHANGED
       <<part, vars, redisVars, retryVars, limiterVars, pipelineVars,
         fragmentVars, edgeVars, supervisorVars, alertVars, metricsVars,
         snapshotVars, inspectionVars>>
  \/ part = "edge" /\ EdgeNext /\ UNCHANGED
       <<part, vars, redisVars, retryVars, limiterVars, pipelineVars,
         fragmentVars, sessionVars, supervisorVars, alertVars,
         metricsVars, snapshotVars, inspectionVars>>
  \/ part = "supervisor" /\ SupervisorNext /\ UNCHANGED
       <<part, vars, redisVars, retryVars, limiterVars, pipelineVars,
         fragmentVars, sessionVars, edgeVars, alertVars, metricsVars,
         snapshotVars, inspectionVars>>
  \/ part = "alerts" /\ AlertsNext /\ UNCHANGED
       <<part, vars, redisVars, retryVars, limiterVars, pipelineVars,
         fragmentVars, sessionVars, edgeVars, supervisorVars,
         metricsVars, snapshotVars, inspectionVars>>
  \/ part = "metrics" /\ MetricsNext /\ UNCHANGED
       <<part, vars, redisVars, retryVars, limiterVars, pipelineVars,
         fragmentVars, sessionVars, edgeVars, supervisorVars, alertVars,
         snapshotVars, inspectionVars>>
  \/ part = "snapshots" /\ SnapshotsNext /\ UNCHANGED
       <<part, vars, redisVars, retryVars, limiterVars, pipelineVars,
         fragmentVars, sessionVars, edgeVars, supervisorVars, alertVars,
         metricsVars, inspectionVars>>
  \/ part = "inspection" /\ InspectionNext /\ UNCHANGED
       <<part, vars, redisVars, retryVars, limiterVars, pipelineVars,
         fragmentVars, sessionVars, edgeVars, supervisorVars, alertVars,
         metricsVars, snapshotVars>>

\* The fairness of each component, as its own specification states it.
LibrariesSpec ==
  /\ LibrariesInit /\ [][LibrariesNext]_libraryVars
  /\ WF_vars(Tick) /\ \A c \in Callers : WF_vars(Record(c))
  /\ WF_redisVars(RedisTick)
  /\ WF_supervisorVars(SupervisorSteps) /\ WF_supervisorVars(~usable /\ WorkerExits)
=============================================================================
