--------------------------- MODULE BuildContract ---------------------------
(***************************************************************************)
(* What the clients of the coordinator may observe, without goroutines,    *)
(* queue, workers or locks: a job gets one outcome, whichever builds asked *)
(* for it; each build is told that outcome at most once per job, and is    *)
(* told once that it is over, with an update sent when every one of its    *)
(* jobs has its outcome.                                                   *)
(***************************************************************************)
EXTENDS Sequences

CONSTANTS Jobs, Builds,
          JobsIn,     \* JobsIn[b]: the jobs of build b
          Outcomes,   \* what a job may end with
          Open        \* the outcome of a job that has none yet

VARIABLES outcome,    \* outcome[j]: Open, or what j ended with
          log,        \* log[b]: the updates build b was sent
          over        \* over[b]: build b was told that it is over

vars == <<outcome, log, over>>

Init == /\ outcome = [j \in Jobs |-> Open]
        /\ log     = [b \in Builds |-> << >>]
        /\ over    = [b \in Builds |-> FALSE]

Settle(j, o) == /\ outcome[j] = Open
                /\ outcome' = [outcome EXCEPT ![j] = o]
                /\ UNCHANGED <<log, over>>

\* Build b is told about job j, for the first time.
Tell(b, j, last) ==
    /\ outcome[j] # Open
    /\ \A i \in DOMAIN log[b] : log[b][i].job # j
    /\ log' = [log EXCEPT ![b] =
                 Append(@, [job |-> j, result |-> outcome[j], last |-> last])]
    /\ UNCHANGED outcome

TellMore(b, j) == Tell(b, j, FALSE) /\ UNCHANGED over

\* The update that also says BuildFinished.
TellOver(b, j) == /\ ~over[b]
                  /\ \A k \in JobsIn[b] : outcome[k] # Open
                  /\ Tell(b, j, TRUE)
                  /\ over' = [over EXCEPT ![b] = TRUE]

Next == \/ \E j \in Jobs, o \in Outcomes : Settle(j, o)
        \/ \E b \in Builds : \E j \in JobsIn[b] : TellMore(b, j) \/ TellOver(b, j)

Spec == Init /\ [][Next]_vars
=============================================================================
