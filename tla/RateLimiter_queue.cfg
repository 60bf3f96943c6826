SPECIFICATION LimiterSpec
CONSTANTS
  Callers = {a, b, c}
  Rpm = 2
  MaxDepth = 2
  Window = 3
  Timeout = 3
INVARIANTS
  LimiterTypeOK
  WindowBound
PROPERTIES
  FirstComeFirstServed
