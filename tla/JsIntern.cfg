SPECIFICATION Spec
CONSTANTS
    Size = 15
    MinFree = 4
    Critical = 3
    Slack = 1
    TempWords = 2
    Pushed = 1
    Chars <- MCChars
    Numeric <- MCNumeric
    MaxRefs = 1
    MaxStack = 0
    MaxFields = 0
INVARIANTS
    UniqueSorted
CHECK_DEADLOCK FALSE
