\* Honest servers; crashes, a network fault, a dump cut short, a worker whose batch
\* fails.  A network fault during the catching up ends the thread.
CONSTANTS
    MaxBlock = 3
    Blocks <- MCHonestBlocks
    prevHash <- MCHonestPrev
    Answers <- MCHonestAnswers
    signs <- MCHonestSigns
    Validate = FALSE
    SaveToFiles = TRUE
    NodeTestOn = TRUE
    CacheSize = 0
    Budget <- MCWorkerFaults
    MaxFile = 9
SPECIFICATION Spec
INVARIANTS
    TypeOK
    RootLinked
    LoadedChainFits
    WorkersOnChain
PROPERTIES
    LedgerSpec
    WorkersLeaveNoGap
CHECK_DEADLOCK FALSE
