CONSTANTS
    Inputs <- MCInputs
    Admissions <- MCAdmissions
    MaxBytes = 37
    U16_MAX = 8
    U32_MAX = 40
    REQUIRED = 4
    Requests <- MCRequests
    Cells <- MCCells
    Id = 5
    Others = {7}
    Limits <- MCLimits
    AnswerMetadata <- MCAnswerMetadata
SPECIFICATION ExchangeSpec
INVARIANTS NeedIsExact KeepsInSync OwnDecodeAgrees CommandsAdmitted ReportsWhatWasDone RefusedMeansUnchanged ScopeTellsFate
PROPERTY VerdictStable
CHECK_DEADLOCK FALSE
