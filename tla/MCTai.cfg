CONSTANTS
    Clocks <- MCClocks
    Daytimes <- MCDaytimes
    Amounts <- MCAmounts
    MaxCalls = 2
    Chars <- MCChars
    Dash <- D
    Blank <- B
    Colon <- C
    Texts <- MCTexts
    Numbers <- MCNumbers
    OutOfRange <- MCOutOfRange
    Now <- MCNow
    MaxOptions <- MCMaxOptions
SPECIFICATION MCSpec
INVARIANTS AcceptsRealDates LastOptionCounts
PROPERTIES MonthsExact YearsExactEarly RotationExact
\* A clock is rejected, the bound on the calls is reached, or time_conver ends.
CHECK_DEADLOCK FALSE
