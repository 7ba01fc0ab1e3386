SPECIFICATION Spec
CONSTANTS
    Boards <- MCBoards
    Described <- MCDescribed
    Null = Null
    IdBits = 3
    PatternSize = 2
    MaxRegister = 9
    Limits = {0, 4}
    OneShot = FALSE
    Lengths = {2}
    MaxParts = 3
    MaxTotal = 10
INVARIANTS PartsFound DetectedInBypass ResetIntoBypass
PROPERTIES LengthsFound
CHECK_DEADLOCK FALSE
