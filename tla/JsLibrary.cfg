SPECIFICATION Spec
CONSTANTS
Parts = {"pattern", "number", "script"}
SmallArray = 2
MaxStepBits = 8
Families = {"flow", "scope", "value"}
MaxDepth = 2
MaxOutcomes = 4
CharEnd = 20
ByteEnd = 7
Upper = 1
Lower = 3
Letters = 2
Digits <- MCDigits
Words <- MCWords
Spaces <- MCSpaces
Newlines <- MCNewlines
MaxSteps = 4
TextLength = 3
FSize = 8
MantSize = 2
ExpSize = 5
WideFSize = 16
WideMantSize = 9
WideExpSize = 6
WordSize = 8
ShortIntBits = 5
Tiny = 12
Huge = 120
INVARIANTS MatchesAsSpecified RewriteKeepsText ArithmeticRounds ConversionsRound ProgramsRunAsSpecified StackAsComputed
CHECK_DEADLOCK FALSE
