SPECIFICATION Spec
CONSTANTS
    Clients = {c1, c2}
    None = None
    MaxPartitions = 2
    MaxOp = 7
SYMMETRY Symmetry
INVARIANTS CachesAgree SettledAgrees InstallsNeverConflict SkipDrainIsSafe
PROPERTY RebalanceIsMinimal
CHECK_DEADLOCK FALSE
