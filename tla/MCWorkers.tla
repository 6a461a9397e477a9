----------------------------- MODULE MCWorkers -----------------------------
EXTENDS Workers, TLC

CONSTANTS w1, w2, a, b, c, f, g

MCWorkers == {w1, w2}
MCJobs == {a, b, c}
MCSources == {f, g}
MCEntries == MCWorkers \X (MCJobs \cup MCSources)
MCProcs == MCWorkers \X MCJobs
MCContents == {Old, New}
\* b and c need a; a and b have the same file, b and c have files of one path.
MCDeps == [j \in MCJobs |-> IF j = a THEN {} ELSE {a}]
MCSourceFiles == [j \in MCJobs |-> IF j = c THEN {g} ELSE {f}]
MCLeftover == {a}
MCPath == [s \in MCSources |-> "main.go"]
\* Both workers run on one host, as in the fixture of the system tests.
MCHost == [w \in MCWorkers |-> "localhost"]
MCMayFail == {"net", "mkdir", "command", "rename", "link", "render", "create",
              "stat", "removeall"}
\* Nothing tells the workers apart; the run has no liveness property.
MCSymmetry == Permutations(MCWorkers)
=============================================================================
