\* a number drawn again after its record was committed
CONSTANTS
    Writers = {w1, w2}  Summaries = {}  Numbers = {1, 2}
    Sessions = {a}  Families = {"generic"}  All = All
    Rules = {"health", "tick"}  Outcomes <- One
    MaxRecords = 3  MayRepeat = TRUE  NoFile = NoFile
    Faults = {}
SPECIFICATION Spec
INVARIANTS EachInvocationCounts
CHECK_DEADLOCK FALSE
