CONSTANTS
  Slots = {s1, s2}
  Tenants = {contoso}
  Local = local
  Stranger = stranger
  TTL = 2
  Days = 1
  Limit = 2
  MaxTime = 2
  MaxRuns = 2
SPECIFICATION Spec
INVARIANTS RunsAreRecorded
