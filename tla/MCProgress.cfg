SPECIFICATION ProgressSpec
CONSTANTS
    Callers = {c1, c2, c3}
    Owners = {o1, o2}
    MaxRuns = 3
    MaxReservations = 3
    MaxOperations = 2
    MaxPreparing = 1
    MaxEdits = 1
    MaxCrashes = 2
    Size = 5
    ChunkSize = 2
    MaxAttempts = 3
INVARIANTS
    ProgressTypeOK
    Exclusion
    AnswersAreFresh
    NothingHalfApplied
    EditsSurviveRecovery
PROPERTIES
    OwnersGetTheirTurn
    CallersReturn
    ConfirmationsEnd
    UploadsEnd
CHECK_DEADLOCK FALSE
