\* two writers and one summary, no number drawn twice
CONSTANTS
    Writers = {w1, w2}  Summaries = {s1}  Numbers = {1, 2, 3}
    Sessions = {a, b}  Families = {"generic", "go"}  All = All
    Rules = {"health", "tick"}  Outcomes <- Every
    MaxRecords = 2  MayRepeat = FALSE  NoFile = NoFile
    Faults = {"io", "crash"}
SPECIFICATION Spec
SYMMETRY Symmetry
INVARIANTS NoneIsGarbled SummaryIsExact ReportAddsUp
CHECK_DEADLOCK FALSE
