CONSTANTS
    Required <- MCRequired
    Prerequisites <- MCPrerequisites
    Steps <- MCSteps
    Budget = 1
    Repositories <- TwoRevisions
    Tier = "dev"
    ErrorText <- MCErrorText
    MAX_NUMERAL = 3
    MAX_SEQUENCE = 2
    MaxRuns = 3
    MaxInterruptions = 1
    MaxChanges = 1
SPECIFICATION Spec
CHECK_DEADLOCK FALSE
INVARIANTS TypeOK SealedIsBacked EvidenceKept OneIdentity JournalReadsBack
PROPERTY RunEnds
