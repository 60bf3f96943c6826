SPECIFICATION Spec
CONSTANTS
  Callers = {a, b}
  Rpm = 1
  MaxDepth = 1
  Window = 2
  Timeout = 1
  MaxRetries = 1
  DailyQuota = 2
  CircuitThreshold = 2
  Cooldown = 1
  ConcurrentMax = 1
  MaxDays = 1
INVARIANTS
  TypeOK
  QuotaSlack
  BreakerStopsCalls
  FailuresAreJudged
PROPERTIES
  ExecuteEnds
