CONSTANTS
  Threads = {t1, t2, t3}
  FailureThreshold = 2
  RecoveryTimeout = 3
  TicksPerSecond = 2
SPECIFICATION FairSpec
INVARIANTS TypeOK FieldsAgree HalfOpenHasTrial
PROPERTIES RetryAfterIsTight KeepsContract RecoversOnceHealthy
