------------------------------ MODULE TopSort ------------------------------
(***************************************************************************)
(* pkg/build/top_sort.go: the depth-first search that StartBuild orders    *)
(* the jobs of a build with.  The recursion of visit is a stack of the     *)
(* jobs whose call is in progress, each with its place in its Deps; jobs   *)
(* are named by their index in the slice TopSort is given.                 *)
(***************************************************************************)
EXTENDS Naturals, Sequences, Functions

CONSTANT Graphs   \* the slices: element i is the sequence Deps of job i

\* An ID in Deps that no job of the slice has.
Unknown == 0

\* Deps names jobs of the slice or unknown ones, and "dependency graph
\* contains no cycles", as the comment of TopSort asks for.
IsGraph(g) ==
    /\ g \in Seq(Seq(Nat))
    /\ \A i \in DOMAIN g : Range(g[i]) \subseteq DOMAIN g \cup {Unknown}
    /\ \E rank \in [DOMAIN g -> 1..Len(g)] :
           \A i \in DOMAIN g : \A d \in Range(g[i]) \ {Unknown} : rank[d] < rank[i]

ASSUME GraphsAssumption == \A g \in Graphs : IsGraph(g)

VARIABLES deps,     \* the argument
          visited,  \* jobs whose visit has begun
          stack,    \* jobs whose visit is in progress, the innermost last
          next,     \* next[j]: the dependency of j to be visited next
          outer,    \* index of the loop over all jobs
          sorted    \* the result so far

sortVars == <<deps, visited, stack, next, outer, sorted>>

SortInit == /\ deps \in Graphs
            /\ visited = {}
            /\ stack   = << >>
            /\ next    = [j \in DOMAIN deps |-> 1]
            /\ outer   = 1
            /\ sorted  = << >>

Top == stack[Len(stack)]

\* jobIDIndex[d]: the zero value, which is the first job, for an unknown ID.
Index(d) == IF d = Unknown THEN 1 ELSE d

\* visit(j)
Visit(j) == IF j \in visited
              THEN UNCHANGED <<visited, stack>>
              ELSE /\ visited' = visited \cup {j}
                   /\ stack' = Append(stack, j)

\* The loop over all jobs.
VisitNext == /\ stack = << >> /\ outer <= Len(deps)
             /\ Visit(outer)
             /\ outer' = outer + 1
             /\ UNCHANGED <<deps, next, sorted>>

\* A fault for DepsVisited: the last dependency is left out.
DepsVisitedEarly(j) == next[j] >= Len(deps[j])

DepsVisited(j) == next[j] > Len(deps[j])

VisitDep == /\ stack # << >> /\ ~DepsVisited(Top)
            /\ Visit(Index(deps[Top][next[Top]]))
            /\ next' = [next EXCEPT ![Top] = @ + 1]
            /\ UNCHANGED <<deps, outer, sorted>>

\* The call of visit for the innermost job returns.
VisitReturn == /\ stack # << >> /\ DepsVisited(Top)
               /\ sorted' = Append(sorted, Top)
               /\ stack' = SubSeq(stack, 1, Len(stack) - 1)
               /\ UNCHANGED <<deps, visited, next, outer>>

SortNext == VisitNext \/ VisitDep \/ VisitReturn

SortSpec == SortInit /\ [][SortNext]_sortVars

-----------------------------------------------------------------------------
SortDone == stack = << >> /\ outer > Len(deps)

\* Every job comes once, after all its dependencies, and none is left out;
\* an unknown dependency, which is looked up as the first job, does not spoil
\* the order of the others.  SignalBuild panics with "top sort does not work"
\* when the order is wrong, and for the unknown dependency itself (DepUnknown
\* of Client).
SortedTopologically ==
    /\ IsInjective(sorted)
    /\ \A i \in DOMAIN sorted : \A d \in Range(deps[sorted[i]]) \ {Unknown} :
           \E h \in 1..(i - 1) : sorted[h] = d
    /\ SortDone => Range(sorted) = DOMAIN deps
=============================================================================
