\* every kind of request under every switch of one file, and some under two
CONSTANTS
    Requests <- AllRequests  Configs <- AllConfigs  Earlier <- MCEarlier
    HardCap = 40  MarkerBytes = 2  NoRecord = NoRecord
    Keys <- AllKeys  Default <- MCDefault  Number <- MCNumber  MaxInputBound = 1024
    Scenarios <- MCScenarios
SPECIFICATION CSpec
INVARIANTS NothingIsLost RecordIsTrue StoredCanBeRead SwitchesAreObeyed NothingElseIsOff
PROPERTIES DryRunTouchesNothing
CHECK_DEADLOCK FALSE
