\* A worker dies; its task is redelivered while its lease lives on.
CONSTANTS
  s1 = s1  r1 = r1  r2 = r2  m1 = m1  m2 = m2
  NoRun = NoRun  NoMessage = NoMessage
  Sources = {s1}
  Runs = {r1, r2}
  SourceOf <- SameSource
  Messages = {m1}
  MessageSource <- SameQueue
  LeaseTtl = 2  RenewEvery = 1  SoftLimit = 1  HardLimit = 1
  Limited = TRUE  Prompt = FALSE  RedisFaults = FALSE  MetricFaults = FALSE
  SoftPoints <- OperationOnly
  MaxRetries = 1  MaxExtra = 0  MaxCrashes = 1
SPECIFICATION DeliverySpec
INVARIANTS NoWorkIsLost
