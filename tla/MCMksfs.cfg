SPECIFICATION Spec
CONSTANTS
    FileSizes    <- MCFileSizes
    BlockOptions <- MCBlockOptions
    IndexOptions <- MCIndexOptions
    Labels       <- MCLabels
    None         = None
    MaxImages    = 2
INVARIANTS
    MksfsTypeOK
    MadeImagesMount
    IndexIsFresh
    FreeIsDataArea
CHECK_DEADLOCK FALSE
