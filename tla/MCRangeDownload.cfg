CONSTANTS
    THREAD_NUM <- MCThreads
    Lengths <- MCLengths
    Chunks <- MCChunks
    Width <- MCWidth
    Page = Page
SPECIFICATION MCSpec
INVARIANTS OneThreadPerSlice SlicesPartition ManySlicesPartition OkSlicesAreRight
PROPERTY Terminates
\* main returns.
CHECK_DEADLOCK FALSE
