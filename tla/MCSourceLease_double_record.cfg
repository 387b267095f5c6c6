\* A metric store that may raise.
CONSTANTS
  s1 = s1  r1 = r1  r2 = r2  r3 = r3  NoRun = NoRun
  Sources = {s1}
  Runs = {r1, r2}
  SourceOf <- SameSource
  LeaseTtl = 3  RenewEvery = 1  SoftLimit = 1  HardLimit = 2
  Limited = TRUE  Prompt = FALSE  RedisFaults = FALSE  MetricFaults = TRUE
  SoftPoints <- OperationOnly
SYMMETRY SymmetricRuns
SPECIFICATION Spec
INVARIANTS OneTerminalRecord
