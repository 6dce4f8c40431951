\* Every block reaches the chain and the workers in the end, with each kind of fault
\* once, in any order and at any moment.  The thread may end (MayHaveEnded).
CONSTANTS
    MaxBlock = 2
    Blocks <- MCHonestBlocks
    prevHash <- MCHonestPrev
    Answers <- MCHonestAnswers
    signs <- MCHonestSigns
    Validate = FALSE
    SaveToFiles = TRUE
    NodeTestOn = TRUE
    CacheSize = 1
    Budget <- MCEachOnce
    MaxFile = 9
SPECIFICATION FairSpec
PROPERTIES
    EventuallyCaughtUp
CHECK_DEADLOCK FALSE
