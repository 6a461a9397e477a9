------------------------------ MODULE JobTable ------------------------------
(***************************************************************************)
(* What the scheduler promises its callers, without its mutexes, its       *)
(* channel or its artifact lists: every job is offered to the workers at   *)
(* most once, is taken by at most one of them, and gets at most one        *)
(* outcome, which nothing can change afterwards.  A job whose outcome is   *)
(* already known is never offered.                                         *)
(***************************************************************************)
CONSTANTS Jobs,       \* job identifiers
          Outcomes,   \* what a job may end with
          Open        \* the outcome of a job that has none yet

VARIABLES phase,      \* phase[j]: where job j is on its way to a worker
          outcome     \* outcome[j]: Open, or what j ended with

vars == <<phase, outcome>>

Init == /\ phase   = [j \in Jobs |-> "absent"]
        /\ outcome = [j \in Jobs |-> Open]

\* A build asks for a job nobody has asked for and nobody has reported.
Offer(j) == /\ phase[j] = "absent"
            /\ outcome[j] = Open
            /\ phase' = [phase EXCEPT ![j] = "offered"]
            /\ UNCHANGED outcome

\* One worker receives the job.
Take(j) == /\ phase[j] = "offered"
           /\ phase' = [phase EXCEPT ![j] = "taken"]
           /\ UNCHANGED outcome

\* The first report about the job decides its outcome.
Settle(j, o) == /\ outcome[j] = Open
                /\ outcome' = [outcome EXCEPT ![j] = o]
                /\ UNCHANGED phase

Next == \E j \in Jobs : \/ Offer(j)
                        \/ Take(j)
                        \/ \E o \in Outcomes : Settle(j, o)

Spec == Init /\ [][Next]_vars

\* What workers rely on beside the table: no job is offered before the jobs it
\* needs have their outcomes.
OffersInOrder(deps) ==
    [][\A j \in Jobs : Offer(j) => \A d \in deps[j] : outcome[d] # Open]_vars
=============================================================================
