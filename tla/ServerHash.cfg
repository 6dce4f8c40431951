\* Get-block by hash while a straying server offers blocks that do not fit.
CONSTANTS
    MaxBlock = 3
    Blocks <- MCStrayBlocks
    prevHash <- MCStrayPrev
    Answers <- MCStrayAnswers
    signs <- MCStraySigns
    Validate = FALSE
    SaveToFiles = TRUE
    NodeTestOn = FALSE
    CacheSize = 1
    Budget <- MCNoFaults
    MaxFile = 3
    h1 = h1
    h2 = h2
    Handlers <- MCOneHandler
    Requests <- MCHashRequest
    Unlucky <- MCUnlucky
    MaxStored = 0
SPECIFICATION ServerSpec
INVARIANTS
    NumberedByHash
CHECK_DEADLOCK FALSE
