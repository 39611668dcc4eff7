SPECIFICATION LiveSpec
CONSTANTS
    Replicas = {r1, r2}
    Clients = {1}
    quorum_replication = 2
    COMMITTED_WINDOW_BITS = 2
    Capacity = 1
    PIPELINE_MAX = 2
    QUEUE_MAX = 1
    MAX_SESSIONS_PER_RETIREMENT = 1
    MaxRequest = 3
    MaxWrites = 3
    MaxOp = 5
    MaxMeta = 4
    MaxViews = 1
    MaxInstalls = 1
CHECK_DEADLOCK FALSE
INVARIANTS AtMostOnce CommittedIsRetained WindowIsExact SuccessorIsNotFenced
PROPERTY EndedIsFinalized
