\* One failing batch of saveBlockToLeveldb, then a restart.
CONSTANTS
    MaxBlock = 3
    Blocks <- MCHonestBlocks
    prevHash <- MCHonestPrev
    Answers <- MCHonestAnswers
    signs <- MCHonestSigns
    Validate = FALSE
    SaveToFiles = TRUE
    NodeTestOn = FALSE
    CacheSize = 0
    Budget <- MCSaveFault
    MaxFile = 9
SPECIFICATION Spec
INVARIANTS
    LoadedChainFits
