\* Lines of at most three characters: two without a newline are cut.
CONSTANTS
    MaxLine = 3
    MaxBytes = 5
    MaxConns = 2
SPECIFICATION Spec
CHECK_DEADLOCK FALSE
INVARIANTS
    EchoExact
