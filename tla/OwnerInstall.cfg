SPECIFICATION Spec
CONSTANTS
    g1 = g1
    g2 = g2
    Replicas = {r1, r2, r3}
    Groups = {g1, g2}
    Decisions <- TwoGroups
    PIPELINE_MAX = 2
    QUEUE_MAX = 1
    MaxOp = 3
    MaxViews = 2
SYMMETRY Symmetry
INVARIANTS CommittedOpsApply LatchIsLive
CHECK_DEADLOCK FALSE
