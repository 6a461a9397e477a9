\* Two uploads, two downloads and one watcher of one file; Close does not fail.
\* The system stops when all requests are over.
CHECK_DEADLOCK FALSE
SPECIFICATION FilesSpec
CONSTANTS
    p1 = p1
    p2 = p2
    g1 = g1
    g2 = g2
    r1 = r1
    File = file
    Entries = {file}
    Old = old
    Nobody = nobody
    Absent = absent
    Puts <- MCPuts
    Gets <- MCGets
    Removers <- MCRemovers
    Procs <- MCProcs
    Contents <- MCContents
    MayFail <- MCMayFail
INVARIANTS
    CacheOK
    GetsAreServed
PROPERTIES
    ReadersUndisturbed
    ImplementsStore
