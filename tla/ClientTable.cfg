SPECIFICATION Spec
CONSTANTS
    Replicas = {r1, r2}
    Clients = {c1, c2, c3}
    Users = {u1}
    Capacity = 2
    RingCapacity = 2
    MaxRequest = 2
    MaxOp = 4
    MaxViews = 1
    MaxRestarts = 1
    Nobody = Nobody
SYMMETRY Symmetry
INVARIANTS CommittedIsRetained AtMostOnce EndedSessionsAreInert TablesAgree
CHECK_DEADLOCK FALSE
