\* Two connections with two requests each, two workers, arrays of one or two slices.
CONSTANTS
    NumWorkers = 2
    SliceSize = 2
    Conns = {c1, c2}
    MaxLen = 3
    MaxReq = 2
    DirtyHeap = FALSE
    Free = Free
SPECIFICATION Spec
SYMMETRY Symmetry
INVARIANTS
    TypeOK
    MutualExclusion
    SliceDealtOnce
    NoSliceLost
    NoOrphanJob
    OneSliceReply
