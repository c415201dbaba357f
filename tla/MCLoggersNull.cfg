CONSTANTS
    n0 = n0
    n1 = n1
    Names <- MCNames
    reg_table <- MCreg_table
    FIRST_EXT_ID <- MCFirst
    LEVEL_DEBUG = 2
    Mega = 2
    Width = 8
    Limits <- MCLimits
    MaxLines = 4
    MaxTypes = 4
    Absent = Absent
    NoName = NoName
SPECIFICATION LoggersSpec
PROPERTY NullStreamIsStderr
CHECK_DEADLOCK FALSE
