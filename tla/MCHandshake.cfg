CONSTANTS
    MAX_FRAME_SIZE = 40
    MAX_METADATA_SIZE = 6
    READ_CHUNK = 24
    U16_MAX = 65535
    U32_MAX = 1000000
    REQUIRED = 32768
    Configs <- MCConfigs
    Replies <- MCReplies
SPECIFICATION Spec
INVARIANTS TypeOK EndsAsDeserved UsableWithinBounds RequestUnderstood
PROPERTY ConnectReturns
CHECK_DEADLOCK FALSE
