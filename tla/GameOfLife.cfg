CONSTANTS
    Sizes <- MCSizes
    MaxThreads = 3
    Gens = 2
SPECIFICATION Spec
INVARIANTS FlushAlone
PROPERTIES SequentialStep Finishes
CHECK_DEADLOCK FALSE
