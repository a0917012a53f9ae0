\* a writer, a reader and another program; delays 1, 2, 3 within a deadline of 6
CONSTANTS
    Writers = {w1}  Readers = {r1}  Strangers = {s1}
    Deadline = 6  FirstDelay = 1  MaxDelay = 3
    old = old  missing = missing  Faults = {"io", "crash"}
SPECIFICATION Spec
INVARIANTS AlwaysReadable WaitsToTheDeadline FewTries
PROPERTIES EveryCallReturns ReplacesOnceFree
CHECK_DEADLOCK FALSE
