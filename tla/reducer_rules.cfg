\* two rules that match the same lines
CONSTANTS
    Calls <- TwoRules  Line <- MCLine  Suffixed <- MCSuffixed  Bytes <- MCBytes  Match <- MCMatch
    Switches <- MCSwitches  Attached <- MCAttached
    MarkerSize = 5  BlankRun = 2  Nul = "nul"  MaxRules = 2  MaxIgnored = 2
SPECIFICATION ReducerSpec
INVARIANTS FirstRuleOwns
CHECK_DEADLOCK FALSE
