CONSTANTS
  Replicas = {0, 1, 2}
  Self = 0
  Clients = {c1, c2}
  NoClient = NoClient
  Drivers = {pump, submit}
  Pump = pump
  quorum_replication = 2
  PREPARE_QUEUE_MAX = 2
  REQUEST_QUEUE_MAX = 1
  MaxInherited = 2
  MaxPrepares = 3
SPECIFICATION FairSpec
INVARIANTS TypeOK PipelineIsChain CommittedIsReachable AdvanceIsSequential RollbackFindsItsTail
PROPERTIES LeavesAppliedOrUnacked EveryPrepareSettles
CHECK_DEADLOCK FALSE
