CONSTANTS
  replica_count = 3
  prepare_queue_max = 2
  prepare_queue_ceiling = 2
  MaxView = 2
  MaxOps = 1
  MaxMints = 2
  MaxRepairs = 2
SPECIFICATION Spec
INVARIANTS CommittedSurvivesViewChange MergeIsDecidable
PROPERTIES NothingAppliedIsRewritten
CHECK_DEADLOCK FALSE
