\* Requests while the chain is loaded and extended, and a stop signal.  After main
\* has ended nothing goes on.
CONSTANTS
    MaxBlock = 2
    Blocks <- MCHonestBlocks
    prevHash <- MCHonestPrev
    Answers <- MCHonestAnswers
    signs <- MCHonestSigns
    Validate = FALSE
    SaveToFiles = TRUE
    NodeTestOn = FALSE
    CacheSize = 1
    Budget <- MCNoFaults
    MaxFile = 2
    h1 = h1
    h2 = h2
    Handlers <- MCHandlers
    Requests <- MCRequests
    Unlucky <- MCUnlucky
    MaxStored = 2
SPECIFICATION ServerFairSpec
INVARIANTS
    ServerTypeOK
    SyncOutlivesRequests
    RangeOnChain
    DumpOfThatBlock
PROPERTIES
    StopEnds
CHECK_DEADLOCK FALSE
