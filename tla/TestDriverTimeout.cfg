\* The alarm goes off while the parent is not blocked in wait.
CONSTANTS
    Concurrency = 1
    MaxCalls = 2
    MaxSigints = 0
SPECIFICATION FairSpec
CHECK_DEADLOCK FALSE
PROPERTIES
    TimeoutEnds
