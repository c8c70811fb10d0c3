\* Two supervisors of two calls each, one Ctrl-C and the alarm at any moment.
CONSTANTS
    Concurrency = 2
    MaxCalls = 2
    MaxSigints = 1
SPECIFICATION FairSpec
CHECK_DEADLOCK FALSE
INVARIANTS
    PidsCurrent
    AllReaped
PROPERTIES
    DriverEnds
