\* One build of three jobs, one worker with one slot, a channel of one job:
\* more jobs than the channel and the workers hold, as 10_000 + the slots + 1.
CONSTANTS
    j1 = j1
    j2 = j2
    j3 = j3
    b1 = b1
    b2 = b2
    Jobs = {j1, j2, j3}
    Builds = {b1}
    Workers = {w1}
    Outcomes = {ok}
    Nil = Nil
    NoJob = NoJob
    NoOwner = NoOwner
    Open = Open
    Capacity = 1
    MaxKept = 4
    Slots = 1
    MaxDeaths = 0
    MaxGone = 0
    MayStop = FALSE
    JobSeq <- FlatSeqs
    Deps <- FlatDeps
SPECIFICATION FairCoordSpec
PROPERTIES
    ScheduleReturns
CHECK_DEADLOCK FALSE
