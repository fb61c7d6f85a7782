CONSTANTS
  Clients = {c1, c2}
  Limit = 2
  Window = 3
  TicksPerSecond = 2
  MaxTime = 8
SYMMETRY Symmetry
SPECIFICATION Spec
INVARIANTS TypeOK WindowHolds RetryAfterSuffices
