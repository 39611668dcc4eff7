SPECIFICATION Spec
CONSTANTS
    SlotCount = 8
    Margin = 2
    Queue = 2
    MaxOp = 11
    MaxView = 1
    MaxErrors = 2
    MaxCrashes = 2
INVARIANTS RecoveryAccepts NothingStranded ActedViewIsDurable RoomToAppend
CHECK_DEADLOCK FALSE
