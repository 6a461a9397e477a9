\* Two builds share job j1, j2 depends on it; two workers with two slots each;
\* the channel holds one job; one worker may die.
CONSTANTS
    j1 = j1
    j2 = j2
    j3 = j3
    b1 = b1
    b2 = b2
    Jobs = {j1, j2}
    Builds = {b1, b2}
    Workers = {w1, w2}
    Outcomes = {ok}
    Nil = Nil
    NoJob = NoJob
    NoOwner = NoOwner
    Open = Open
    Capacity = 2
    MaxKept = 4
    Slots = 1
    MaxDeaths = 0
    MaxGone = 0
    MayStop = FALSE
    JobSeq <- SharedSeqs
    Deps <- SharedDeps
SPECIFICATION FairCoordSpec
PROPERTIES
    EventuallyLocatable
    EventuallyOver
CHECK_DEADLOCK FALSE
