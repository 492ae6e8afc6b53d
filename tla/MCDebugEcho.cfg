CONSTANTS
    c1 = c1
    c2 = c2
    Calls <- TwoCalls
    Capacity = 4
    ConfigValid = TRUE
    MaxChanges = 5
SPECIFICATION LiveSpec
\* Every stream dropped and every task ended is a state the handler can
\* really rest in.
CHECK_DEADLOCK FALSE
INVARIANT
    TypeOK
PROPERTY
    ReportConverges
