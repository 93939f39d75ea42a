SPECIFICATION PairingSpec
CONSTANTS
    MaxOperations = 2
    MaxPreparing = 2
    MaxEdits = 0
    MaxCrashes = 1
INVARIANT NothingHalfApplied
CHECK_DEADLOCK FALSE
