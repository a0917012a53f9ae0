\* pages of at most 7 bytes, ranges and searches of at most 3 lines
CONSTANTS
    Texts <- MCTexts  NoText = NoText
    MaxPageBytes = 7  MaxLines = 3  DefaultBytes = 5  DefaultLimit = 2
    ByteSizes = {0, 1, 2, 4, 7, 8}  LineNumbers = {1, 2, 3, 4, 5, 9}  Limits = {0, 1, 2, 3, 4}
SPECIFICATION Spec
INVARIANTS PagesTile LinesAreComplete NeverStuck
CHECK_DEADLOCK FALSE
