\* Enforced time limits; failing Redis calls, crashes and late threads.
CONSTANTS
  s1 = s1  r1 = r1  r2 = r2  r3 = r3  NoRun = NoRun
  Sources = {s1}
  Runs = {r1, r2}
  SourceOf <- SameSource
  LeaseTtl = 3  RenewEvery = 1  SoftLimit = 1  HardLimit = 2
  Limited = TRUE  Prompt = FALSE  RedisFaults = TRUE  MetricFaults = FALSE
  SoftPoints <- GuardedPoints
SPECIFICATION FairSpec
INVARIANTS TypeOK OperationHoldsLease
PROPERTIES ImplementsExclusion LeaseIsRecovered EveryRunEnds
