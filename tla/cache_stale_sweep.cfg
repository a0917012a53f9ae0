\* two hooks and retention only: a sweep that decides on a stale listing
CONSTANTS
    a = a  b = b  c = c
    Hooks = {h1, h2}  Pruners = {}  Clearers = {}  Readers = {}
    Originals = {a, b}  Refs = {1, 2}
    Garbage = Garbage  NoFile = NoFile  NoRef = NoRef
    Ref <- TwoRef  Length <- TwoLength  Packed <- TwoPacked
    MetaSize = 1  DefaultMax = 10
    Limit <- Unlimited  Retention <- Short  MaxTime = 2
    Faults = {}
SPECIFICATION Spec
PROPERTIES RetentionIsKept
CHECK_DEADLOCK FALSE
