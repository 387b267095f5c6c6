\* Callers that report.
CONSTANTS
  c1 = c1  c2 = c2  c3 = c3
  RedisCallers = {c1, c2, c3}  RedisThreshold = 2  RedisRecovery = 2  Abandons = FALSE
SPECIFICATION RedisSpec
INVARIANTS OneRedisProbe
