SPECIFICATION SignalsSpec
CONSTANTS
    COUNT = 4
    MaxRound = 3
INVARIANT BlocksFreedOnce
PROPERTY BenchmarkEnds
CHECK_DEADLOCK FALSE
