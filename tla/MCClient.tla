------------------------------ MODULE MCClient ------------------------------
EXTENDS Client

CONSTANTS f1, f2

MCFiles == {f1, f2}

\* Slices Deps without repetition over the jobs 1..n and perhaps Unknown.
Slices(S) == {<< >>} \cup {<<x>> : x \in S}
                     \cup {s \in S \X S : s[1] # s[2]}

\* Every graph of no, two or three jobs, with unknown dependencies or none.
MCGraphs == {g \in {<< >>} \cup [1..2 -> Slices({1, 2, Unknown})]
                           \cup [1..3 -> Slices({1, 2, 3, Unknown})] : IsGraph(g)}
=============================================================================
