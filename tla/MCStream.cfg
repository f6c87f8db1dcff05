CONSTANTS
    Ids = {1, 2}
    Frames <- MCFrames
    MaxFrames = 3
    ChunkSizes = {1, 19, 48}
    Limits <- MCLimits
SPECIFICATION Spec
INVARIANTS Aligned NothingLeft BufferBounded
PROPERTY ImplementsFrameOrder
CHECK_DEADLOCK FALSE
