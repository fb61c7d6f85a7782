CONSTANTS
  Threads = {t1, t2}
  FailureThreshold = 2
  RecoveryTimeout = 3
  TicksPerSecond = 1
  MaxRetries = 2
  InitialBackoff = 1
  AgeBound = 3
SPECIFICATION LiveSpec
INVARIANTS LiveTypeOK BackoffIsExponential
PROPERTIES ImplementsBreaker
