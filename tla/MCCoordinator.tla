--------------------------- MODULE MCCoordinator ---------------------------
(* Coordinators small enough for TLC: the builds, their jobs in            *)
(* topological order, and the dependencies between the jobs.               *)
EXTENDS Coordinator, TLC

CONSTANTS j1, j2, j3, b1, b2

\* j2 needs j1; both builds need j2's dependency, the first one both jobs.
SharedDeps == (j1 :> << >>) @@ (j2 :> <<j1>>)
SharedSeqs == (b1 :> <<j1, j2>>) @@ (b2 :> <<j1>>)

\* One build of three jobs that need nothing.
FlatDeps == (j1 :> << >>) @@ (j2 :> << >>) @@ (j3 :> << >>)
FlatSeqs == (b1 :> <<j1, j2, j3>>)
=============================================================================
