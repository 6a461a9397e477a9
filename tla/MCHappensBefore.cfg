\* Two goroutines call Happen three times each while one goroutine calls
\* Before six times, as successive rounds of the package's tests do.
CONSTANTS
    Happeners = {h1, h2}
    Waiters = {w1}
    HappenRounds = 3
    BeforeRounds = 6
SPECIFICATION FairHBMSpec
INVARIANTS
    CounterBalance
    NoLostWakeup
    BeforeAfterHappen
    NoDoubleClose
PROPERTIES
    EveryBeforeReturns
CHECK_DEADLOCK FALSE
