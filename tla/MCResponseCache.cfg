CONSTANTS
  Threads = {t1, t2}
  Keys = {k1, k2, k3}
  TTL = 2
  MaxEntries = 2
  MaxTime = 4
  NoKey = NoKey
SYMMETRY Symmetry
SPECIFICATION Spec
INVARIANTS TypeOK LeastRecentFirst
PROPERTIES HitsAreFresh OnlyDeadOrOldestLeave
