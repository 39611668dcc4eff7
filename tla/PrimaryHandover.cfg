CONSTANTS
  Replicas = {0, 1, 2}
  Self = 0
  Clients = {c1, c2}
  NoClient = NoClient
  Drivers = {pump, submit}
  Pump = pump
  quorum_replication = 2
  PREPARE_QUEUE_MAX = 2
  REQUEST_QUEUE_MAX = 1
  MaxInherited = 0
  MaxPrepares = 2
SPECIFICATION HandoverSpec
INVARIANTS AdvanceIsSequential
CHECK_DEADLOCK FALSE
