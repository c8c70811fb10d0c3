\* Lines of at most three characters, clients that send up to five; every
\* argument from -3 to 130: all squares of primes up to 121 are in it; four
\* nodes, two kinds of job: queues of every length up to four, emptied and
\* refilled.
CONSTANTS
    MaxLine = 3
    MaxBytes = 5
    MaxConns = 2
    MaxNeg = 3
    MaxNum = 130
    Jobs = {a, b}
    NoJob = NoJob
    MaxNodes = 4
    Null = Null
SPECIFICATION ThreadSpec
CHECK_DEADLOCK FALSE
INVARIANTS
    EchoInOrder
    ShortLinesExact
    NoPrimeRejected
    OnlySquaresSlip
PROPERTIES
    EchoComplete
    FifoSpec
