---------------------------- MODULE Coordinator ----------------------------
(***************************************************************************)
(* The coordinator of pkg/dist: builds and workers share one scheduler.    *)
(* Every goroutine of BuildService and HeartbeatService is a process here; *)
(* they interact through the scheduler only.                               *)
(***************************************************************************)
EXTENDS BuildService, HeartbeatService

CONSTANT MayStop    \* whether Coordinator.Stop is ever called

ASSUME MayStopAssumption == MayStop \in BOOLEAN

coordVars == <<vars, hbVars, bsVars>>

CoordInit == Init /\ HBInit /\ BSInit

\* Coordinator.Stop
CoordStop == MayStop /\ Stop /\ UNCHANGED <<hbVars, bsVars>>

\* A panic outside an HTTP handler ends the process: nothing happens then.
CoordNext == /\ ~crashed
             /\ \/ BSNext /\ UNCHANGED hbVars
                \/ HBNext /\ UNCHANGED bsVars
                \/ CoordStop

CoordSpec == CoordInit /\ [][CoordNext]_coordVars

\* Goroutines that can run do run; a lock is granted to its oldest waiter
\* (SF); commands end, and an idle worker sends its next heartbeat.  Clients
\* need not start builds, signal, or stay; nobody has to die.
Running(A) == ~crashed /\ A

HandlerFairness ==
    \A w \in Workers :
        /\ WF_coordVars(Running(Beat(w) /\ UNCHANGED bsVars))
        /\ WF_coordVars(Running(HandlerStep(w) /\ UNCHANGED bsVars))
        /\ SF_coordVars(Running(ReportSettle(w) /\ UNCHANGED bsVars))

BuildFairness ==
    \A b \in Builds :
        /\ WF_coordVars(Running(StartReturn(b) /\ UNCHANGED hbVars))
        /\ WF_coordVars(Running(SignalStep(b) /\ UNCHANGED hbVars))
        /\ SF_coordVars(Running((ScheduleLock(b) \/ ScheduleReturn(b)) /\ UNCHANGED hbVars))
        /\ \A j \in JobsOf(b) : WF_coordVars(Running(WatchStep(b, j) /\ UNCHANGED hbVars))

FairCoordSpec == CoordSpec /\ HandlerFairness /\ BuildFairness

-----------------------------------------------------------------------------
(* Safety                                                                  *)

\* Each job a worker received and nobody settled is with exactly one worker,
\* or was dropped with a dead connection or a stopped handler: heartbeats
\* neither run a job twice nor forget one.
HeldOnce ==
    /\ \A j \in handed \ finished :
           j \in dropped \/ \E w \in Workers : j \in HeldBy(w)
    /\ \A v, w \in Workers : v # w => HeldBy(v) \cap HeldBy(w) = {}
    /\ \A w \in Workers : HeldBy(w) \subseteq handed \ (finished \cup dropped)

\* No heartbeat handler panics with "non schedule job finished": a worker
\* reports only jobs the scheduler knows, whatever happened in between.
ReportsKnownJobs == \A w \in Workers : at[w] = "record" => exist[w]

\* A job reaches the channel, and a worker, only after all its dependencies
\* have finished and can be located.
DepsReady ==
    \A j \in Range(queue) \cup handed : \A d \in Range(Deps[j]) :
        d \in finished /\ artifacts[d] # << >>

\* A PendingJob whose Finished channel is closed has a result, and done is
\* closed once: no watcher goroutine takes the coordinator's process down.
\* What remains is the write after the StartBuild handler returned.
CrashesOnlyLate ==
    /\ \A j \in finished : result[j] # Nil
    /\ crashed => \E b \in Builds : hpc[b] = "returned"

-----------------------------------------------------------------------------
(* What the code or its tests expect and the code does not keep            *)

\* LocateArtifact always knows a dependency whose Finished channel is closed:
\* panic("top sort does not work") in SignalBuild is out of reach.
FinishedIsLocatable == ~isStop => \A b \in Builds : bpc[b] # "panic"

\* A build that ended without an error has sent its client one update per job.
EveryUpdateDelivered ==
    \A b \in Builds : bpc[b] = "ok" =>
        \A j \in JobsOf(b) : \E i \in DOMAIN stream[b] : stream[b][i].job = j

\* A build that hands a job to the scheduler gets it scheduled: ScheduleJob
\* returns, so SignalBuild gets on.
ScheduleReturns == \A b \in Builds : at[b] = "push" ~> at[b] # "push" \/ crashed

-----------------------------------------------------------------------------
(* The coordinator implements BuildContract                                *)

Contract == INSTANCE BuildContract WITH JobsIn  <- [b \in Builds |-> JobsOf(b)],
                                        outcome <- outcomeOf,
                                        log     <- stream,
                                        over    <- done

\* Each client is told the scheduler's one result of each of its jobs at most
\* once, and that the build is over once, when every job has a result.
ImplementsContract == Contract!Spec

-----------------------------------------------------------------------------
(* Liveness                                                                *)

\* A job whose Finished channel is closed is eventually locatable: the report
\* that closed it reaches the artifact list.
EventuallyLocatable ==
    \A j \in Jobs : j \in finished ~> artifacts[j] # << >> \/ crashed

\* A build whose client stays is eventually over, unless SignalBuild hit the
\* window in which a finished dependency cannot be located yet.
EventuallyOver ==
    \A b \in Builds : bpc[b] = "loop" ~> \/ done[b] /\ hpc[b] = "returned"
                                         \/ bpc[b] = "panic" \/ crashed
=============================================================================
