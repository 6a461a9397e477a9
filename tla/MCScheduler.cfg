\* Two jobs, two builds, two workers; the buffer holds one job, so a second
\* send blocks; two locations are kept, so a third report evicts one.
CONSTANTS
    Jobs = {j1, j2}
    Builds = {b1, b2}
    Workers = {w1, w2}
    Outcomes = {ok}
    Nil = Nil
    NoJob = NoJob
    NoOwner = NoOwner
    Open = Open
    Capacity = 1
    MaxKept = 2
SPECIFICATION Spec
INVARIANTS
    TypeOK
    PushHoldsLock
    OfferedOnce
    Accounted
    RecordOnTheWay
PROPERTIES
    FirstResultWins
    ImplementsJobTable
CHECK_DEADLOCK FALSE
