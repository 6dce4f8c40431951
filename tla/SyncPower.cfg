\* A power failure at any moment, nothing synced.
CONSTANTS
    MaxBlock = 2
    Blocks <- MCHonestBlocks
    prevHash <- MCHonestPrev
    Answers <- MCHonestAnswers
    signs <- MCHonestSigns
    Validate = FALSE
    SaveToFiles = TRUE
    NodeTestOn = TRUE
    CacheSize = 0
    Budget <- MCOneFailure
    MaxFile = 5
SPECIFICATION PowerFairSpec
INVARIANTS
    WorkersOnChain
    LeftIsChain
PROPERTIES
    EventuallyRecovered
