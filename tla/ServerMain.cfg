\* The process with its main thread, two connections and one or two SIGINTs.
CONSTANTS
    NumWorkers = 1
    SliceSize = 1
    Conns = {c1, c2}
    MaxLen = 2
    MaxReq = 1
    DirtyHeap = FALSE
    Free = Free
    MaxSigints = 2
SPECIFICATION MainFairSpec
CHECK_DEADLOCK FALSE
PROPERTIES
    ServiceSpec
    AtMostOneMore
    DrainsOrDies
    SigintEnds
