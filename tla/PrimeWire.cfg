\* Arrays of two numbers in 0 .. 2, three iterations, every way to cut the
\* streams.
CONSTANTS
    N = 2
    Iterations = 3
    MaxNum = 2
SPECIFICATION FairSpec
CHECK_DEADLOCK FALSE
INVARIANTS
    NoMutualWait
    OwnAnswer
PROPERTIES
    BothEnd
