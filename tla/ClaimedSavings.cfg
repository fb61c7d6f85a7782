CONSTANTS
  Configurations <- MCConfigurations
  Metrics <- MCMetrics
  Limits = {1, 20}
  Proposals <- MCProposals
  Requests <- MCRequests
  Retries <- MCRetries
  Sites <- MCSites
  Faults <- MCFaults
  Listings <- MCListings
SPECIFICATION Spec
INVARIANTS ReductionsSaveWhatTheyClaim
CHECK_DEADLOCK FALSE
