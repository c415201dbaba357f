CONSTANTS
    workload <- MCworkload
    Gap <- MCGap
SPECIFICATION FairSpec
INVARIANTS InOrder EveryWakeupHasItem NoItemLeft
PROPERTY Succeeds
\* Both threads and main end.
CHECK_DEADLOCK FALSE
