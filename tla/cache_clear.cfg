\* `cache clear` against a hook that writes and sweeps, and a reader: system calls
\* fail and processes are killed
CONSTANTS
    a = a  b = b  c = c
    Hooks = {h1}  Pruners = {}  Clearers = {cl}  Readers = {rd}
    Originals = {a, b}  Refs = {1, 2}
    Garbage = Garbage  NoFile = NoFile  NoRef = NoRef
    Ref <- TwoRef  Length <- TwoLength  Packed <- TwoPacked
    MetaSize = 1  DefaultMax = 10
    Limit <- Tight  Retention <- Short  MaxTime = 0
    Faults = {"io", "crash"}
SPECIFICATION FairSpec
INVARIANTS ClearLeavesNothing
PROPERTIES EveryCallReturns
CHECK_DEADLOCK FALSE
