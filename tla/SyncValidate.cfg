\* Option validate: a block waits for the one that confirms it.
CONSTANTS
    MaxBlock = 4
    Blocks <- MCStrayBlocks
    prevHash <- MCStrayPrev
    Answers <- MCStrayAnswers
    signs <- MCStraySigns
    Validate = TRUE
    SaveToFiles = FALSE
    NodeTestOn = TRUE
    CacheSize = 1
    Budget <- MCCrashes
    MaxFile = 9
SPECIFICATION Spec
INVARIANTS
    InHandConfirmed
    AskedForThatNumber
CHECK_DEADLOCK FALSE
