\* a client that may write three lines, in any order and at any pace
CONSTANTS
    r1 = r1  NoId = NoId
    Ids = {1, 2}  Refs = {r1}  Calls <- MCCalls  Lines <- MCLines  MaxSent = 3
SPECIFICATION FairSpec
INVARIANTS RepliesMatch LifecycleIsKept
PROPERTIES EveryLineIsRead
CHECK_DEADLOCK FALSE
