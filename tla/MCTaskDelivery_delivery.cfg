\* Two messages of one source, two deliveries, and every fault: lease commands
\* and metrics that fail, interrupts anywhere, a worker that dies, a delivery
\* that is given back or retried.
CONSTANTS
  s1 = s1  r1 = r1  r2 = r2  m1 = m1  m2 = m2
  NoRun = NoRun  NoMessage = NoMessage
  Sources = {s1}
  Runs = {r1, r2}
  SourceOf <- SameSource
  Messages = {m1, m2}
  MessageSource <- SameQueue
  LeaseTtl = 2  RenewEvery = 1  SoftLimit = 1  HardLimit = 1
  Limited = TRUE  Prompt = FALSE  RedisFaults = TRUE  MetricFaults = TRUE
  SoftPoints <- AnyPoint
  MaxRetries = 1  MaxExtra = 1  MaxCrashes = 1
SPECIFICATION DeliverySpec
INVARIANTS LossNeedsLeftLease
SYMMETRY Interchangeable
