\* Servers that answer with blocks that do not belong there, and cut writes.
CONSTANTS
    MaxBlock = 3
    Blocks <- MCStrayBlocks
    prevHash <- MCStrayPrev
    Answers <- MCStrayAnswers
    signs <- MCStraySigns
    Validate = FALSE
    SaveToFiles = TRUE
    NodeTestOn = FALSE
    CacheSize = 1
    Budget <- MCCuts
    MaxFile = 5
SPECIFICATION Spec
INVARIANTS
    AskedForThatNumber
    ChainNumbered
    ChainLinked
    DumpNeverWrong
    DbIsChain
    CacheWithinLimit
PROPERTIES
    ServedHeadersStable
CHECK_DEADLOCK FALSE
