CONSTANTS
    Required <- MCRequired
    Prerequisites <- MCPrerequisites
    Steps <- MCSteps
    Budget = 1
    Repositories <- TwoRevisions
    Tier = "dev"
    ErrorText <- MCErrorText
    MAX_NUMERAL = 3
    MAX_SEQUENCE = 1
    MaxRuns = 3
    MaxInterruptions = 1
    MaxChanges = 0
SPECIFICATION Spec
CHECK_DEADLOCK FALSE
INVARIANT EarlierAttemptsKept
