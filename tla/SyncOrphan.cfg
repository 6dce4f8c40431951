\* A block whose parent no one knows, offered for block 1.
CONSTANTS
    MaxBlock = 3
    Blocks <- MCStrayBlocks
    prevHash <- MCStrayPrev
    Answers <- MCStrayAnswers
    signs <- MCStraySigns
    Validate = FALSE
    SaveToFiles = TRUE
    NodeTestOn = FALSE
    CacheSize = 1
    Budget <- MCNoFaults
    MaxFile = 5
SPECIFICATION Spec
INVARIANTS
    RootLinked
CHECK_DEADLOCK FALSE
