CONSTANTS
    Required <- MCRequired
    Prerequisites <- MCPrerequisites
    Steps <- MCSteps
    Budget = 1
    Repositories <- OneRevision
    Tier = "gate"
    ErrorText <- MCErrorText
    MAX_NUMERAL = 3
    MAX_SEQUENCE = 2
    MaxRuns = 3
    MaxInterruptions = 0
    MaxChanges = 2
SPECIFICATION Spec
CHECK_DEADLOCK FALSE
INVARIANT SealedMeansClean
