\* Two jobs in two builds and two workers; nobody fails.
CONSTANTS
    j1 = j1
    j2 = j2
    j3 = j3
    b1 = b1
    b2 = b2
    Jobs = {j1, j2}
    Builds = {b1, b2}
    Workers = {w1, w2}
    Outcomes = {ok}
    Nil = Nil
    NoJob = NoJob
    NoOwner = NoOwner
    Open = Open
    Capacity = 1
    MaxKept = 4
    Slots = 2
    MaxDeaths = 0
    MaxGone = 0
    MayStop = FALSE
    JobSeq <- SharedSeqs
    Deps <- SharedDeps
SPECIFICATION CoordSpec
INVARIANTS
    EveryUpdateDelivered
CHECK_DEADLOCK FALSE
