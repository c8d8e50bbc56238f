SPECIFICATION Spec
CONSTANTS
    Size = 12
    MinFree = 4
    Critical = 3
    Slack = 1
    TempWords = 1
    Pushed = 1
    Chars <- MCString
    Numeric <- MCString
    MaxRefs = 1
    MaxStack = 1
    MaxFields = 2
INVARIANTS
    NoDangling
    StackClearOfHeap
PROPERTIES
    CollectionUnnoticed
CHECK_DEADLOCK FALSE
