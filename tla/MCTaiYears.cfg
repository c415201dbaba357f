CONSTANTS
    Clocks <- MCLateClocks
    Daytimes <- MCDaytimes
    Amounts <- MCLateAmounts
    MaxCalls = 1
    Chars <- MCChars
    Dash <- D
    Blank <- B
    Colon <- C
    Texts <- MCTexts
    Numbers <- MCNumbers
    OutOfRange <- MCOutOfRange
    Now <- MCNow
    MaxOptions <- MCMaxOptions
SPECIFICATION MCSpec
PROPERTY YearsExact
\* A clock is rejected, or the bound on the calls is reached.
CHECK_DEADLOCK FALSE
