\* Two goroutines wait on the same key for one Happen.
CONSTANTS
    Happeners = {h1}
    Waiters = {w1, w2}
    HappenRounds = 2
    BeforeRounds = 1
SPECIFICATION HBMSpec
INVARIANTS
    BeforeAfterHappen
CHECK_DEADLOCK FALSE
