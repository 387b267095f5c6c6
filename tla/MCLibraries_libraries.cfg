\* Callers of the circuit may vanish, the one with the probe excepted; callers
\* of the Redis circuit may vanish.
CONSTANTS
  c1 = c1  c2 = c2  c3 = c3  c4 = c4
  o1 = o1  o2 = o2  e1 = e1  e2 = e2  r1 = r1  r2 = r2
  s1 = s1  s2 = s2  k1 = k1  k2 = k2
  Callers = {c1, c2, c3, c4}  Threshold = 3  Recovery = 4  ProbesReport = TRUE
  RedisCallers = {c1, c2, c3}  RedisThreshold = 2  RedisRecovery = 2  Abandons = TRUE
  MaxAttempts = 3  BaseDelay = 2  MaxDelay = 3  RetryAfters = {0, 9}
  MaxRequests = 2  Window = 3  LastMoment = 6
  MaxItems = 2
  Tags = {"table", "td", "select", "option", "input", "br"}
  RemovedTags = {"select", "option", "input"}  VoidTags = {"input", "br"}
  MaxDepth = 5
  Observers = {o1, o2}
  MaxRestarts = 2  RestartCount = 1  MaxKills = 2
  Evaluators = {e1, e2}  NumRules = 2  KindOf <- RuleKinds
  Recorders = {r1, r2}  MaxCalls = 2
  SnapshotRuns = {s1, s2}  Cleaners = {k1, k2}  Retention = 1  LastDay = 3
  MaxRuns = 3  MaxItemCount = 4  Baselines <- BaselineCounts
SPECIFICATION LibrariesSpec
INVARIANTS OneProbe FailuresAreCounted RefusalIsFinal WaitsAreBounded TwoWindowsAtMost
INVARIANTS ErrorTellsStage ResultIsComplete RemovedStaysOut OutputFollowsFragment TableIsKept
INVARIANTS  CauseReachesCaller ProfileIsReleased
INVARIANTS NotifiedIsStored StoredIsJudged ScrapesAddUp
PROPERTIES RejectionEnds RedisRejectionEnds BrokenWorkerIsGivenUp
PROPERTIES EventsAlternate CleanupIsComplete WorseIsNotHealthier
CHECK_DEADLOCK FALSE
