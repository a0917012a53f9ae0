\* one scene for budgets, expiry and order, one for reads that may fail only if
\* their original is not there: no system call fails
CONSTANTS
    a = a  b = b  c = c  h1 = h1  pr = pr  h2 = h2  rd = rd
    Hooks = {h1, h2}  Pruners = {pr}  Clearers = {}  Readers = {rd}
    Originals = {a, b, c}  Refs = {1, 2, 3}
    Garbage = Garbage  NoFile = NoFile  NoRef = NoRef
    Ref <- ThreeRef  Length <- ThreeLength  Packed <- ThreePacked
    MetaSize = 1  DefaultMax = 10
    Limit <- SceneLimit  Retention <- Mixed  MaxTime = 1
    Faults = {"crash", "damage"}
SPECIFICATION SceneSpec
INVARIANTS TypeOK SweepMeetsBudget EmittedUnlessTaken
PROPERTIES SweepTakesOldest ImplementsPromise
CHECK_DEADLOCK FALSE
