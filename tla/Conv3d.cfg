CONSTANTS
    Sizes <- MCSizes
    Widths <- MCWidths
    MaxDiv = 3
SPECIFICATION Spec
INVARIANTS
    Convolves HeapHeld
CHECK_DEADLOCK FALSE
