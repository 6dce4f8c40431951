\* Two connections to two servers, exceptions of both kinds, calls with more
\* segments than the queue holds.  After an unknown exception, or with a full queue
\* and no thread left, the caller waits for ever.
CONSTANTS
    s1 = s1
    s2 = s2
    Servers <- MCServers
    CountConnections = 2
    MaxSegments = 3
    QueueSize = 2
    MaxUnknown = 1
    MaxSize = 4
    MinResponseSize = 2
    MaxServers = 4
    Braced <- MCBraced
SPECIFICATION DownloadFairSpec
INVARIANTS
    DownloadTypeOK
    Tiled
    NoEmptySegment
    SingleQuestions
    OnePlace
    OwnConnection
    JoinedIsDump
    OneServerSuffices
PROPERTIES
    EveryCallReturns
CHECK_DEADLOCK FALSE
