SPECIFICATION Spec
CONSTANTS
    Datas <- MCDatas
    Text <- MCText
    ReadMax = 2
    RunMax = 2
    MaxCount = 2
    Missing = Missing
INVARIANTS
    NothingHeld
    WrittenSurvives
    CommittedKept
PROPERTIES
    OldOrBeginning
    ThrowsLeaveFile
CHECK_DEADLOCK FALSE
