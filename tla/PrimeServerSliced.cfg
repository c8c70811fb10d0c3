\* An array of more than one slice: the reply is sent although most entries of
\* the output array were never stored (multisrv.c:413).
CONSTANTS
    NumWorkers = 1
    SliceSize = 2
    Conns = {c1}
    MaxLen = 4
    MaxReq = 1
    DirtyHeap = FALSE
    Free = Free
SPECIFICATION Spec
INVARIANTS
    ReplyComplete
