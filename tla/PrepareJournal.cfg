SPECIFICATION Spec
CONSTANTS
    SlotCount = 3
    MaxOp = 5
    Fork = 3
    MaxCrashes = 1
    MaxErrors = 2
    MaxSyncErrors = 1
    LedFirstView = FALSE
INVARIANTS IndexReadsBack RebootIsAccepted CompletedSurvive RemovedStayRemoved
CHECK_DEADLOCK FALSE
