\* Either source: batches with a last part of one block and failing requests, or
\* files that another node writes meanwhile.
CONSTANTS
    s1 = s1
    s2 = s2
    Servers <- MCServers
    MaxBlock = 6
    MaxAdvanced = 5
    BatchSize = 2
    CountAdvanced = 3
    Big <- MCBig
    MaxFaults = 2
    MaxWritten = 3
    MaxFiles = 2
    MaxDeaths = 2
SPECIFICATION SourceFairSpec
INVARIANTS
    SourceTypeOK
    AskedServersHaveAll
    CachesFresh
    ParentsFirst
    NothingSkipped
PROPERTIES
    ServersBringAll
    FilesBringAll
