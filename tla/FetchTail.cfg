\* The header of the last part of one block.
CONSTANTS
    s1 = s1
    s2 = s2
    Servers <- MCServers
    MaxBlock = 6
    MaxAdvanced = 5
    BatchSize = 2
    CountAdvanced = 3
    Big <- MCBig
    MaxFaults = 2
SPECIFICATION Spec
INVARIANTS
    HeadersRight
