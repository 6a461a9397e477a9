\* Two uploads, two downloads and one watcher of one file.
\* The system stops when all requests are over; EveryRequestEnds: not earlier.
CHECK_DEADLOCK FALSE
SPECIFICATION FairFilesSpec
CONSTANTS
    p1 = p1
    p2 = p2
    g1 = g1
    g2 = g2
    r1 = r1
    File = file
    Entries = {file}
    Old = old
    Nobody = nobody
    Absent = absent
    Puts <- MCPuts
    Gets <- MCGets
    Removers <- MCRemovers
    Procs <- MCProcs
    Contents <- MCContents
    MayFail <- MCAnyFails
INVARIANTS
    OneShot
    UploadsTakeTurns
    HandlersLeaveNothing
    AloneUnlessCloseFailed
PROPERTY EveryRequestEnds
