\* Graphs of no, two and three jobs, with unknown dependencies or none, two
\* missing files, a stream of two updates.
\* The system stops when Build has returned, or is stuck as EndsOrStuck says.
CHECK_DEADLOCK FALSE
SPECIFICATION FairClientSpec
CONSTANTS
    f1 = f1
    f2 = f2
    Room = 2
    Files <- MCFiles
    Graphs <- MCGraphs
INVARIANTS
    SortedTopologically
    NilMeansHeard
PROPERTY EndsOrStuck
