\* No time limits, late threads, failing calls: leases lapse under running operations.
CONSTANTS
  s1 = s1  r1 = r1  r2 = r2  r3 = r3  NoRun = NoRun
  Sources = {s1}
  Runs = {r1, r2}
  SourceOf <- SameSource
  LeaseTtl = 2  RenewEvery = 1  SoftLimit = 0  HardLimit = 0
  Limited = FALSE  Prompt = FALSE  RedisFaults = TRUE  MetricFaults = TRUE
  SoftPoints <- OperationOnly
SYMMETRY SymmetricRuns
SPECIFICATION Spec
INVARIANTS ReturnedRunIsSettled
PROPERTIES OnlyOwnerEndsLease
