CONSTANTS
  replica_count = 3
  prepare_queue_max = 2
  prepare_queue_ceiling = 2
  MaxView = 1
  MaxOps = 2
  MaxMints = 2
  MaxRepairs = 2
SPECIFICATION Spec
INVARIANTS AppliedLogsAgree StartViewCoversCommitted ProvenLogsAgree AckedIsCertified HashChainHolds
CHECK_DEADLOCK FALSE
