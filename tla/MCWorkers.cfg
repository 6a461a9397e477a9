\* Two workers; jobs b and c need the artifact of a, and files of one path.
\* The system stops when every job has ended or is lost.
CHECK_DEADLOCK FALSE
SPECIFICATION WorkSpec
CONSTANTS
    w1 = w1
    w2 = w2
    a = a
    b = b
    c = c
    f = f
    g = g
    Old = old
    New = new
    Absent = absent
    Nothing = nothing
    Workers <- MCWorkers
    Jobs <- MCJobs
    Sources <- MCSources
    Entries <- MCEntries
    Procs <- MCProcs
    Contents <- MCContents
    Deps <- MCDeps
    SourceFiles <- MCSourceFiles
    Path <- MCPath
    Host <- MCHost
    Leftover <- MCLeftover
    MayFail <- MCMayFail
SYMMETRY MCSymmetry
INVARIANTS
    NoDepPanic
    SucceededIsStored
    LocksReturned
    
    InputsPresent
