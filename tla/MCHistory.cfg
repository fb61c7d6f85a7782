CONSTANTS
  Slots = {s1, s2}
  Tenants = {contoso, fabrikam}
  Local = local
  Stranger = stranger
  TTL = 2
  Days = 0
  Limit = 1
  MaxTime = 1
  MaxRuns = 2
SYMMETRY Symmetry
SPECIFICATION Spec
INVARIANTS TypeOK QueriesMeetSchema MigrationLosesFew OwnRunsOnly
