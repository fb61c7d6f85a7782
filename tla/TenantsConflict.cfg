CONSTANTS
  Slots = {s1, s2}
  Users = {local, guest}
  LocalUser = local
  Places = {p1, p2}
  Names = {search}
  MaxTenants = 2
  MaxRows = 2
  MaxRuns = 1
  RolesGiven = {"viewer"}
SPECIFICATION Spec
PROPERTIES ConflictCreatesNothing
