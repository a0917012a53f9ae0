\* a compressor mode of its own for a family whose mode is forced
CONSTANTS
    Requests <- MCRequests  Configs <- FewConfigs  Earlier <- MCEarlier
    HardCap = 40  MarkerBytes = 2  NoRecord = NoRecord
SPECIFICATION Spec
INVARIANTS OffIsOff
CHECK_DEADLOCK FALSE
