SPECIFICATION FiveSpec
CONSTANTS
    replica_count = 5
    prepare_queue_max = 4
    prepare_queue_ceiling = 4
    MaxView = 2
    MaxOps = 4
    MaxMints = 4
    MaxRepairs = 0
CHECK_DEADLOCK FALSE
INVARIANTS CommittedSurvivesViewChange
