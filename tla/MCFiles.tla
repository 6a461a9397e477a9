------------------------------ MODULE MCFiles ------------------------------
EXTENDS Files

CONSTANTS p1, p2, g1, g2, r1

MCPuts == {p1, p2}
MCGets == {g1, g2}
MCRemovers == {r1}
MCProcs == MCPuts \cup MCGets \cup MCRemovers
MCContents == MCPuts \cup {Old}
MCMayFail == {"mkdir", "removeall", "create", "stat"}
MCAnyFails == MCMayFail \cup {"close", "rename"}
=============================================================================
