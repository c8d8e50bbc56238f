SPECIFICATION DataSpec
CONSTANTS
Values = {1}
ShortIntMax = 4
Args <- MCArgs
Indexes <- MCIndexes
MaxEdits = 1
SortedBy <- MCSortedBy
Items <- MCItems
Tables <- MCTables
Comparisons <- Orders
Cmp <- SortCmp
CacheSize = 2
CacheMinLen = 7
Places = {1, 2}
StringLength = 3
SortLength = 6
DataParts = {"array", "cache", "string", "sort", "number"}
Radixes = {2, 3, 10}
INVARIANTS PositionsExact StringsAsUnits SortsStably TextReadsBack
PROPERTIES ImplementsArray
CHECK_DEADLOCK FALSE
