\* every text of up to four lines for each family with a loop of its own, and
\* every output size near a power of ten for the marker
CONSTANTS
    Calls <- MCCalls  Line <- MCLine  Suffixed <- MCSuffixed  Bytes <- MCBytes  Match <- MCMatch
    Switches <- MCSwitches  Attached <- MCAttached
    MarkerSize = 5  BlankRun = 2  Nul = "nul"  MaxRules = 2  MaxIgnored = 2
    Bodies <- MCBodies  Fixed <- MCFixed
SPECIFICATION TextSpec
INVARIANTS ReducerTypeOK GuardAccepts EveryLineCounted OnlySuccessOmitted DiagnosticBodyKept RuleEffectsMatch OmissionHasOneProducer AggregatedAlike MarkerIsTrue
CHECK_DEADLOCK FALSE
