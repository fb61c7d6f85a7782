CONSTANTS
  Configurations <- MCConfigurations
  Metrics <- MCMetrics
  Limits = {1, 20}
  Proposals <- MCProposals
  Requests <- MCRequests
  Retries <- MCRetries
  Sites <- MCSites
  Faults <- MCFaults
  Listings <- MCListings
SPECIFICATION Spec
INVARIANTS
  TypeOK FindingsAreActedOn UrgentAdviceSurvives CapacityCutIsFlagged
  AnswersAsLocal NotesTellTheTruth GivesUpInTime GapsAreNoted OutageIsNotFatal
PROPERTIES FollowingAdviceNeverCostsMore RequestsAreAnswered
CHECK_DEADLOCK FALSE
