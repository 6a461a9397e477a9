------------------------- MODULE CoordinatorProofs -------------------------
(***************************************************************************)
(* Proofs about the coordinator, for any builds, graphs and workers, any   *)
(* number of slots, deaths and departures.                                 *)
(*                                                                         *)
(* The services change the scheduler only by its calls, so its invariant   *)
(* IInv holds here.  Three more are added, one per service and one for the *)
(* watchers: a worker's place in the heartbeat says which jobs are its own *)
(* (BatchOK); SignalBuild is at a job whose dependencies are ready up to   *)
(* the one it looks at (SignalOK); and the counter of a build never counts *)
(* a watcher whose job has no result (WatchOK).                            *)
(***************************************************************************)
EXTENDS Coordinator, SchedulerProofs, FiniteSetTheorems

-----------------------------------------------------------------------------
(* The invariants                                                          *)

BatchTypes == /\ wpc \in [Workers -> {"run", "report", "pick", "fill", "off"}]
              /\ batch \in [Workers -> SUBSET Jobs]
              /\ todo \in [Workers -> SUBSET (Jobs \X Outcomes)]
              /\ slots \in [Workers -> 0..Slots]

\* Where the worker's loop or its handler is, it has no more than this.
Placed(w) ==
    /\ wpc[w] \in {"run", "off"} => at[w] = "idle"
    /\ wpc[w] = "off" => batch[w] = {}
    /\ wpc[w] # "report" => todo[w] = {}
    /\ wpc[w] = "report" => /\ at[w] \in {"idle", "complete", "record"}
                            /\ batch[w] = {}
    /\ wpc[w] = "pick" => at[w] = "pick" /\ batch[w] = {}
    /\ wpc[w] = "fill" => at[w] \in {"idle", "trypick"}
    /\ wpc[w] \in {"report", "pick"} \/ at[w] = "trypick" => slots[w] > 0

\* A request reports each job once, with a result, and none it does not have.
Reporting(w) ==
    /\ \A x, y \in todo[w] : x[1] = y[1] => x = y
    /\ at[w] = "complete" => arg[w] \notin Unreported(w) /\ res[w] \in Outcomes
    /\ at[w] = "record" => exist[w]

\* Only jobs that were received are reported or dropped.
Received == finished \cup dropped \subseteq handed

BatchOK == /\ BatchTypes
           /\ \A w \in Workers : Placed(w) /\ Reporting(w)
           /\ Received
           /\ HeldOnce
           /\ \A j \in finished : result[j] # Nil

Ready(d) == d \in finished /\ artifacts[d] # << >>

SignalTypes == /\ bpc \in [Builds -> {"none", "loop", "locate", "wait", "ok", "error", "panic"}]
               /\ pos \in [Builds -> Nat \ {0}] /\ dep \in [Builds -> Nat \ {0}]

\* SignalBuild is at a job of its build, which it schedules when it has seen
\* that all its dependencies are ready.
Signalling(b) ==
    /\ bpc[b] = "none" => pos[b] = 1 /\ dep[b] = 1
    /\ bpc[b] \in {"loop", "locate"} =>
          /\ pos[b] \in DOMAIN JobSeq[b]
          /\ \A i \in DOMAIN TheDeps(b) : i < dep[b] => Ready(TheDeps(b)[i])
    /\ bpc[b] = "locate" => /\ dep[b] \in DOMAIN TheDeps(b)
                            /\ TheDep(b) \in finished
                            /\ at[b] = "idle"
    /\ at[b] # "idle" => /\ bpc[b] = "loop" /\ dep[b] > Len(TheDeps(b))
                         /\ at[b] \in {"schedule", "push"} /\ arg[b] = TheJob(b)

SignalOK == /\ SignalTypes
            /\ \A b \in Builds : Signalling(b)
            /\ DepsReady

WatcherStates == {"none", "wait", "counted", "update", "last", "done"}
Updates(b)    == [job : JobsOf(b), result : Outcomes \cup {Nil}, last : BOOLEAN]

WatchTypes == /\ hpc \in [Builds -> {"none", "streaming", "returned"}]
              /\ count \in [Builds -> Nat]
              /\ done \in [Builds -> BOOLEAN]
              /\ DOMAIN watch = Builds /\ DOMAIN stream = Builds
              /\ \A b \in Builds : /\ watch[b] \in [JobsOf(b) -> WatcherStates]
                                   /\ stream[b] \in Seq(Updates(b))

\* Jobs of build b that its counter cannot have counted.
Pending(b) == {j \in JobsOf(b) : watch[b][j] \in {"none", "wait"} \/ j \notin finished}

Announcers(b) == {j \in JobsOf(b) : watch[b][j] = "last"}

\* The jobs SignalBuild has still to schedule have no watcher; those that are
\* counted have a result; the counter and the jobs it cannot have counted are
\* no more than there are jobs, so when it is full once it is never again.
Watching(b) ==
    /\ bpc[b] \in {"none", "loop", "locate"} =>
          \A i \in DOMAIN JobSeq[b] : i >= pos[b] => watch[b][JobSeq[b][i]] = "none"
    /\ \A j \in JobsOf(b) : watch[b][j] \in {"counted", "update", "last"} => j \in finished
    /\ count[b] + Cardinality(Pending(b)) <= Len(JobSeq[b])
    /\ done[b] \/ Announcers(b) # {} => count[b] = 0 /\ Pending(b) = {}
    /\ \A j, k \in Announcers(b) : j = k
    /\ done[b] => Announcers(b) = {}
    /\ \A i \in DOMAIN stream[b] : watch[b][stream[b][i].job] = "done"

WatchOK == /\ WatchTypes
           /\ \A b \in Builds : Watching(b)
           /\ crashed => \E b \in Builds : hpc[b] = "returned"

CInv == IInv /\ BatchOK /\ SignalOK /\ WatchOK

-----------------------------------------------------------------------------
(* Lemmas about builds and about the scheduler's calls                     *)

\* The jobs of a build are finitely many, no more than its sequence is long.
LEMMA JobsOfBuild ==
    ASSUME NEW b \in Builds
    PROVE  /\ JobSeq[b] \in Seq(Jobs) /\ JobsOf(b) \subseteq Jobs
           /\ IsFiniteSet(JobsOf(b)) /\ Cardinality(JobsOf(b)) <= Len(JobSeq[b])
           /\ Len(JobSeq[b]) \in Nat
           /\ \A j \in Jobs : Deps[j] \in Seq(Jobs)
<1>1. /\ JobSeq[b] \in Seq(Jobs) /\ Len(JobSeq[b]) \in Nat
      /\ DOMAIN JobSeq[b] = 1..Len(JobSeq[b])
      /\ JobSeq[b] \in [1..Len(JobSeq[b]) -> Jobs]
      /\ \A j \in Jobs : Deps[j] \in Seq(Jobs)
  BY JobSeqAssumption
<1>2. JobsOf(b) \subseteq Jobs
  BY <1>1 DEF JobsOf, Range
<1>3. JobSeq[b] \in Surjection(1..Len(JobSeq[b]), JobsOf(b))
  BY <1>1 DEF Surjection, JobsOf, Range
<1>4. /\ IsFiniteSet(1..Len(JobSeq[b]))
      /\ Cardinality(1..Len(JobSeq[b])) = Len(JobSeq[b])
  BY <1>1, FS_Interval
<1> QED BY <1>1, <1>2, <1>3, <1>4, FS_Surjection

\* A finished job that can be located stays finished and locatable.
LEMMA ReadyKept ==
    ASSUME IInv, [Next]_vars, NEW d \in Jobs, Ready(d)
    PROVE  Ready(d)'
<1> USE DEF Ready, IInv, TypeOK
<1>1. ASSUME NEW w \in Workers, CompleteRecord(w)
      PROVE  Ready(d)'
  <2>1. arg[w] \in Jobs
    BY <1>1 DEF CompleteRecord, ArgIsJob, Threads
  <2>2. WithWorker(artifacts[arg[w]], w) # << >>
    BY <2>1, WithWorkerBounded
  <2>3. artifacts'[d] # << >>
    BY <1>1, <2>1, <2>2 DEF CompleteRecord
  <2> QED BY <1>1, <2>3 DEF CompleteRecord, jobVars
<1>2. ASSUME NEW w \in Workers, CompleteSettle(w)
      PROVE  Ready(d)'
  BY <1>2 DEF CompleteSettle
<1>3. ASSUME UNCHANGED <<finished, artifacts>>
      PROVE  Ready(d)'
  BY <1>3
<1>4. \/ \E w \in Workers : CompleteSettle(w) \/ CompleteRecord(w)
      \/ UNCHANGED <<finished, artifacts>>
  BY DEF Next, ScheduleStep, WorkerStep, vars, jobVars, ScheduleEnter,
         ScheduleKnown, ScheduleNew, Push, CompleteEnter, PickEnter,
         TryPickEnter, Receive, TryPickNothing, PickCancel, Stop
<1> QED BY <1>1, <1>2, <1>3, <1>4

\* Only a send brings a new job to the workers.
LEMMA OfferedKept ==
    ASSUME IInv, [Next]_vars, \A t \in Builds : ~Push(t)
    PROVE  Range(queue') \cup handed' \subseteq Range(queue) \cup handed
<1>1. ASSUME NEW w \in Workers, Receive(w)
      PROVE  Range(queue') \cup handed' \subseteq Range(queue) \cup handed
  <2>1. Range(queue) = Range(queue') \cup {Head(queue)}
    BY <1>1, TailOnce DEF Receive, IInv, TypeOK
  <2> QED BY <1>1, <2>1 DEF Receive
<1>2. (\E w \in Workers : Receive(w)) \/ UNCHANGED <<queue, handed>>
  BY DEF Next, ScheduleStep, WorkerStep, vars, jobVars, ScheduleEnter,
         ScheduleKnown, ScheduleNew, CompleteEnter, CompleteSettle, CompleteRecord,
         PickEnter, TryPickEnter, TryPickNothing, PickCancel, Stop
<1> QED BY <1>1, <1>2
-----------------------------------------------------------------------------
(* The services use the scheduler through its calls                        *)

\* Where SignalBuild is tells its job and the dependencies of that.
LEMMA SignalsJob ==
    ASSUME SignalOK, NEW b \in Builds, bpc[b] \in {"loop", "locate"}
    PROVE  /\ pos[b] \in 1..Len(JobSeq[b]) /\ TheJob(b) \in JobsOf(b) /\ TheJob(b) \in Jobs
           /\ TheDeps(b) \in Seq(Jobs) /\ Len(TheDeps(b)) \in Nat
           /\ DOMAIN TheDeps(b) = 1..Len(TheDeps(b)) /\ dep[b] \in Nat \ {0}
<1>1. JobSeq[b] \in Seq(Jobs) /\ \A j \in Jobs : Deps[j] \in Seq(Jobs)
  BY JobsOfBuild
<1>2. pos[b] \in DOMAIN JobSeq[b] /\ DOMAIN JobSeq[b] = 1..Len(JobSeq[b])
  BY <1>1 DEF SignalOK, Signalling
<1>3. TheJob(b) \in JobsOf(b) /\ TheJob(b) \in Jobs
  BY <1>1, <1>2 DEF TheJob, JobsOf, Range
<1>4. dep[b] \in Nat \ {0}
  BY DEF SignalOK, SignalTypes
<1>5. TheDeps(b) \in Seq(Jobs)
  BY <1>1, <1>3 DEF TheDeps
<1> QED BY <1>2, <1>3, <1>4, <1>5

\* Every step of a build is a call of its SignalBuild or leaves the scheduler.
LEMMA BuildCalls ==
    ASSUME SignalOK, BSNext
    PROVE  [Next]_vars
<1>1. PICK b \in Builds : \/ StartStep(b)
                          \/ SignalBegin(b)
                          \/ SignalStep(b)
                          \/ ScheduleLock(b)
                          \/ ScheduleReturn(b)
                          \/ ClientGone(b)
                          \/ \E j \in JobsOf(b) : WatchStep(b, j)
  BY DEF BSNext
<1>2. CASE ScheduleBegin(b)
  <2>1. TheJob(b) \in Jobs
    BY <1>2, SignalsJob DEF ScheduleBegin
  <2> QED BY <1>2, <2>1 DEF ScheduleBegin, Next, ScheduleStep
<1>3. CASE ScheduleLock(b) \/ ScheduleReturn(b)
  BY <1>3 DEF ScheduleLock, ScheduleReturn, Next, ScheduleStep
<1>4. ScheduleBegin(b) \/ ScheduleLock(b) \/ ScheduleReturn(b) \/ UNCHANGED vars
  BY <1>1 DEF StartStep, StartBuild, StartFails, StartReturn, ClientGone,
              SignalBegin, SignalStep, DepFinished, DepCancelled, Locate,
              LocateNothing, SignalStopped, SignalReturn, WatchStep, WatchFinished,
              WatchCancelled, WatchSwap, WatchWrite, WatchWriteFails, WatchWriteLate
<1> QED BY <1>2, <1>3, <1>4

\* Every step of a worker or its handler is a call of that handler or leaves
\* the scheduler.
LEMMA HeartbeatCalls ==
    ASSUME BatchTypes, HBNext
    PROVE  [Next]_vars
<1>1. PICK w \in Workers : Beat(w) \/ HandlerStep(w) \/ ReportSettle(w) \/ Die(w)
  BY DEF HBNext
<1>2. CASE ReportEnter(w)
  <2>1. PICK rep \in todo[w] : CompleteEnter(w, rep[1], rep[2])
    BY <1>2 DEF ReportEnter
  <2>2. rep[1] \in Jobs /\ rep[2] \in Outcomes \cup {Nil}
    BY <2>1 DEF BatchTypes
  <2> QED BY <2>1, <2>2 DEF Next, WorkerStep
<1>3. CASE \/ CompleteSettle(w) \/ CompleteRecord(w) \/ PickEnter(w) \/ TryPickEnter(w)
           \/ Receive(w) \/ TryPickNothing(w) \/ PickCancel(w)
  BY <1>3 DEF Next, WorkerStep
<1>4. \/ ReportEnter(w) \/ UNCHANGED vars
      \/ CompleteSettle(w) \/ CompleteRecord(w) \/ PickEnter(w) \/ TryPickEnter(w)
      \/ Receive(w) \/ TryPickNothing(w) \/ PickCancel(w)
  BY <1>1 DEF Beat, HandlerStep, ReportSettle, Die, ReportReturn, PickStart, FillStart,
              FillSlot, FillNothing, Respond, Cancelled, HandlerStopped
<1> QED BY <1>2, <1>3, <1>4

LEMMA CoordCalls ==
    ASSUME CInv, [CoordNext]_coordVars
    PROVE  [Next]_vars
<1>1. CASE BSNext
  BY <1>1, BuildCalls DEF CInv
<1>2. CASE HBNext
  BY <1>2, HeartbeatCalls DEF CInv, BatchOK
<1>3. CASE CoordStop
  BY <1>3 DEF CoordStop, Next
<1>4. CASE UNCHANGED coordVars
  BY <1>4 DEF coordVars
<1> QED BY <1>1, <1>2, <1>3, <1>4 DEF CoordNext

-----------------------------------------------------------------------------
(* Heartbeats                                                              *)

\* Nothing of worker v, of its handler or of the handler's call changes.
Untouched(v) == UNCHANGED <<wpc[v], batch[v], todo[v], slots[v],
                            at[v], arg[v], res[v], exist[v]>>

LEMMA UntouchedKept ==
    ASSUME NEW v \in Workers, Untouched(v), Placed(v), Reporting(v)
    PROVE  Placed(v)' /\ Reporting(v)' /\ HeldBy(v)' = HeldBy(v)
BY DEF Untouched, Placed, Reporting, HeldBy, Unreported

\* Worker w receives the jobs G from the channel and settles or drops the jobs
\* S that it had.
Moves(w, G, S) ==
    /\ handed' = handed \cup G /\ G \cap handed = {}
    /\ finished' \cup dropped' = finished \cup dropped \cup S
    /\ finished \subseteq finished'
    /\ S \subseteq HeldBy(w) /\ HeldBy(w)' = (HeldBy(w) \cup G) \ S

\* Then the books still name one holder for every job.
LEMMA BooksKept ==
    ASSUME HeldOnce, Received, NEW w \in Workers, NEW G, NEW S, Moves(w, G, S),
           \A v \in Workers \ {w} : HeldBy(v)' = HeldBy(v)
    PROVE  HeldOnce' /\ Received'
<1> USE DEF HeldOnce, Received, Moves
<1>1. S \subseteq handed
  OBVIOUS
<1>2. Received'
  BY <1>1
<1>3. ASSUME NEW j \in handed' \ finished', j \notin dropped'
      PROVE  \E v \in Workers : j \in HeldBy(v)'
  <2>1. j \notin finished /\ j \notin dropped /\ j \notin S
    BY <1>3
  <2>2. CASE j \in G
    BY <2>1, <2>2
  <2>3. CASE j \in handed
    <3>1. PICK v \in Workers : j \in HeldBy(v)
      BY <2>1, <2>3
    <3>2. j \in HeldBy(v)'
      BY <2>1, <3>1
    <3> QED BY <3>2
  <2> QED BY <1>3, <2>2, <2>3
<1>4. \A v \in Workers : HeldBy(v)' \subseteq HeldBy(v) \cup G
  OBVIOUS
<1>5. ASSUME NEW u \in Workers, NEW v \in Workers, u # v
      PROVE  HeldBy(u)' \cap HeldBy(v)' = {}
  <2>1. HeldBy(u) \cap HeldBy(v) = {} /\ HeldBy(u) \cap G = {} /\ HeldBy(v) \cap G = {}
    BY <1>5
  <2>2. CASE u # w
    BY <1>4, <2>1, <2>2
  <2>3. CASE v # w
    BY <1>4, <2>1, <2>3
  <2> QED BY <1>5, <2>2, <2>3
<1>6. ASSUME NEW v \in Workers
      PROVE  HeldBy(v)' \subseteq handed' \ (finished' \cup dropped')
  <2>1. CASE v = w
    BY <2>1
  <2>2. CASE v # w
    <3>1. HeldBy(v)' = HeldBy(v) /\ HeldBy(v) \cap HeldBy(w) = {}
      BY <2>2
    <3> QED BY <3>1
  <2> QED BY <2>1, <2>2
<1> QED BY <1>2, <1>3, <1>5, <1>6
\* What is left to show for a step of worker w that gives it the jobs G and
\* takes the jobs S from it.
LEMMA BatchKept ==
    ASSUME BatchOK, NEW w \in Workers, NEW G, NEW S,
           \A v \in Workers \ {w} : Untouched(v),
           BatchTypes', Placed(w)', Reporting(w)', Moves(w, G, S),
           \A j \in finished' : result'[j] # Nil
    PROVE  BatchOK'
<1>1. \A v \in Workers \ {w} : Placed(v)' /\ Reporting(v)' /\ HeldBy(v)' = HeldBy(v)
  BY UntouchedKept DEF BatchOK
<1>2. HeldOnce' /\ Received'
  BY <1>1, BooksKept DEF BatchOK
<1>3. \A v \in Workers : Placed(v)' /\ Reporting(v)'
  BY <1>1
<1> QED BY <1>2, <1>3 DEF BatchOK

\* The same when nobody gets or loses a job.
LEMMA BatchStill ==
    ASSUME BatchOK, NEW w \in Workers,
           \A v \in Workers \ {w} : Untouched(v),
           BatchTypes', Placed(w)', Reporting(w)', HeldBy(w)' = HeldBy(w),
           UNCHANGED <<handed, finished, dropped, result>>
    PROVE  BatchOK'
<1>1. \A j \in finished' : result'[j] # Nil
  BY DEF BatchOK
<1>2. Moves(w, {}, {})
  BY DEF Moves
<1> QED BY <1>1, <1>2, BatchKept

\* The worker sends what it ran, each job with one result.
LEMMA BeatBatch ==
    ASSUME IInv, BatchOK, NEW w \in Workers, Beat(w)
    PROVE  BatchOK'
<1> USE DEF Beat, vars
<1>1. PICK r \in [batch[w] -> Outcomes] :
          todo' = [todo EXCEPT ![w] = {<<j, r[j]>> : j \in batch[w]}]
  OBVIOUS
<1>2. /\ todo[w] = {} /\ at[w] = "idle" /\ batch[w] \subseteq Jobs
      /\ w \in DOMAIN todo
  BY DEF BatchOK, BatchTypes, Placed
<1>3. todo'[w] = {<<j, r[j]>> : j \in batch[w]} /\ todo'[w] \subseteq Jobs \X Outcomes
  BY <1>1, <1>2
<1>4. BatchTypes'
  BY <1>1, <1>3, SlotsAssumption DEF BatchOK, BatchTypes
<1>5. \A v \in Workers \ {w} : Untouched(v)
  BY <1>1 DEF BatchOK, BatchTypes, Untouched
<1>6. wpc'[w] = "report" /\ batch'[w] = {} /\ slots'[w] = Slots /\ at'[w] = "idle"
  BY <1>2 DEF BatchOK, BatchTypes
<1>7. Placed(w)'
  BY <1>6, SlotsAssumption DEF Placed
<1>8. Reporting(w)'
  BY <1>3, <1>6 DEF Reporting
<1>9. Unreported(w)' = batch[w] /\ Unreported(w) = {}
  <2>1. \A j \in batch[w] : <<j, r[j]>> \in todo'[w] /\ <<j, r[j]>>[1] = j
    BY <1>3
  <2>2. \A rep \in todo'[w] : rep[1] \in batch[w]
    BY <1>3
  <2>3. Unreported(w)' \subseteq batch[w]
    BY <2>2 DEF Unreported
  <2>4. batch[w] \subseteq Unreported(w)'
    BY <2>1 DEF Unreported
  <2> QED BY <1>2, <2>3, <2>4 DEF Unreported
<1>10. HeldBy(w)' = HeldBy(w)
  BY <1>2, <1>6, <1>9 DEF HeldBy
<1> QED BY <1>4, <1>5, <1>7, <1>8, <1>10, BatchStill, Zenon DEF jobVars

\* A result goes from the request to the call that reports it.
LEMMA EnterBatch ==
    ASSUME IInv, BatchOK, NEW w \in Workers, ReportEnter(w)
    PROVE  BatchOK'
<1>1. PICK rep \in todo[w] : /\ CompleteEnter(w, rep[1], rep[2])
                             /\ todo' = [todo EXCEPT ![w] = @ \ {rep}]
  BY DEF ReportEnter
<1> USE <1>1 DEF ReportEnter, CompleteEnter, jobVars
<1>2. w \in Threads /\ rep \in Jobs \X Outcomes /\ todo[w] \subseteq Jobs \X Outcomes
  BY DEF BatchOK, BatchTypes, Threads
<1>3. /\ todo'[w] = todo[w] \ {rep} /\ wpc'[w] = "report" /\ batch'[w] = batch[w]
      /\ slots'[w] = slots[w] /\ at[w] = "idle" /\ at'[w] = "complete"
      /\ arg'[w] = rep[1] /\ res'[w] = rep[2]
  BY <1>2 DEF BatchOK, BatchTypes, IInv, TypeOK
<1>4. BatchTypes'
  BY <1>2 DEF BatchOK, BatchTypes
<1>5. \A v \in Workers \ {w} : Untouched(v)
  BY DEF BatchOK, BatchTypes, Untouched, IInv, TypeOK, Threads
<1>6. Placed(w)'
  BY <1>3 DEF BatchOK, Placed
<1>7. \A x, y \in todo[w] : x[1] = y[1] => x = y
  BY DEF BatchOK, Reporting
<1>8. Unreported(w) = Unreported(w)' \cup {rep[1]} /\ rep[1] \notin Unreported(w)'
  BY <1>3, <1>7 DEF Unreported
<1>9. Reporting(w)'
  BY <1>2, <1>3, <1>7, <1>8 DEF Reporting
<1>10. HeldBy(w)' = HeldBy(w)
  BY <1>3, <1>8 DEF HeldBy
<1> QED BY <1>4, <1>5, <1>6, <1>9, <1>10, BatchStill, Zenon

\* The scheduler settles the job: nobody holds it any more.
LEMMA SettleBatch ==
    ASSUME IInv, BatchOK, NEW w \in Workers, ReportSettle(w)
    PROVE  BatchOK'
<1> USE DEF ReportSettle, CompleteSettle, hbVars
<1>1. /\ w \in Threads /\ at[w] = "complete" /\ at'[w] = "record"
      /\ arg[w] \in Jobs /\ arg[w] \notin Unreported(w) /\ res[w] \in Outcomes
      /\ exist'[w] = (arg[w] \in jobs)
  BY DEF Threads, IInv, TypeOK, ArgIsJob, BatchOK, Reporting
<1>2. wpc[w] = "report" /\ batch[w] = {}
  BY <1>1 DEF BatchOK, BatchTypes, Placed
<1>3. arg[w] \in HeldBy(w) /\ HeldBy(w) = Unreported(w) \cup {arg[w]}
  BY <1>1, <1>2 DEF HeldBy
<1>4. arg[w] \in handed /\ arg[w] \in jobs
  BY <1>3 DEF BatchOK, HeldOnce, IInv, Accounted
<1>5. BatchTypes'
  BY DEF BatchOK, BatchTypes
<1>6. \A v \in Workers \ {w} : Untouched(v)
  BY DEF Untouched, IInv, TypeOK, Threads
<1>7. Placed(w)'
  BY <1>1, <1>2 DEF BatchOK, Placed
<1>8. Reporting(w)'
  BY <1>1, <1>4 DEF BatchOK, Reporting
<1>9. HeldBy(w)' = (HeldBy(w) \cup {}) \ {arg[w]}
  BY <1>1, <1>2, <1>3 DEF HeldBy, Unreported
<1>10. \A j \in finished' : result'[j] # Nil
  BY <1>1, NilAssumption DEF BatchOK, IInv, TypeOK
<1>11. Moves(w, {}, {arg[w]})
  BY <1>3, <1>9 DEF Moves
<1> QED BY <1>5, <1>6, <1>7, <1>8, <1>10, <1>11, BatchKept, Zenon

\* The report is over; a worker reports only jobs the scheduler knows.
LEMMA ReturnBatch ==
    ASSUME IInv, BatchOK, NEW w \in Workers, ReportReturn(w)
    PROVE  BatchOK'
<1> USE DEF ReportReturn, CompleteRecord, Return, jobVars
<1>1. w \in Threads /\ at[w] = "record" /\ at'[w] = "idle" /\ exist[w]
  BY DEF Threads, IInv, TypeOK, BatchOK, Reporting
<1>2. UNCHANGED <<wpc, batch, todo, slots, dropped>>
  BY <1>1
<1>3. BatchTypes'
  BY <1>2 DEF BatchOK, BatchTypes
<1>4. \A v \in Workers \ {w} : Untouched(v)
  BY <1>2 DEF Untouched, IInv, TypeOK, Threads
<1>5. Placed(w)'
  BY <1>1, <1>2 DEF BatchOK, BatchTypes, Placed
<1>6. Reporting(w)'
  BY <1>1, <1>2 DEF BatchOK, Reporting
<1>7. HeldBy(w)' = HeldBy(w)
  BY <1>1, <1>2 DEF HeldBy, Unreported
<1> QED BY <1>2, <1>3, <1>4, <1>5, <1>6, <1>7, BatchStill, Zenon
\* The handler enters PickJob when it has reported everything, and TryPickJob
\* when the worker has a slot left.
LEMMA PickBatch ==
    ASSUME IInv, BatchOK, NEW w \in Workers, PickStart(w) \/ FillStart(w)
    PROVE  BatchOK'
<1> USE DEF PickStart, FillStart, PickEnter, TryPickEnter, jobVars, hbVars
<1>1. /\ w \in Threads /\ at[w] = "idle" /\ UNCHANGED <<batch, todo, slots, arg, res, exist>>
      /\ \/ wpc[w] = "report" /\ wpc'[w] = "pick" /\ at'[w] = "pick" /\ todo[w] = {}
         \/ wpc[w] = "fill" /\ wpc'[w] = "fill" /\ at'[w] = "trypick" /\ slots[w] > 0
  BY DEF Threads, IInv, TypeOK, BatchOK, BatchTypes
<1>2. BatchTypes'
  BY DEF BatchOK, BatchTypes
<1>3. \A v \in Workers \ {w} : Untouched(v)
  BY DEF BatchOK, BatchTypes, Untouched, IInv, TypeOK, Threads
<1>4. Placed(w)'
  BY <1>1 DEF BatchOK, Placed
<1>5. Reporting(w)'
  BY <1>1 DEF BatchOK, Reporting
<1>6. HeldBy(w)' = HeldBy(w)
  BY <1>1 DEF HeldBy, Unreported
<1> QED BY <1>2, <1>3, <1>4, <1>5, <1>6, BatchStill, Zenon

\* Where a handler is that waits for a job.
LEMMA Picking ==
    ASSUME BatchOK, NEW w \in Workers, at[w] \in {"pick", "trypick"}
    PROVE  /\ wpc[w] \in {"pick", "fill"} /\ todo[w] = {}
           /\ slots[w] \in 1..Slots /\ HeldBy(w) = batch[w]
<1>1. wpc[w] \in {"pick", "fill"} /\ todo[w] = {} /\ slots[w] > 0 /\ slots[w] \in 0..Slots
  BY DEF BatchOK, BatchTypes, Placed
<1>2. HeldBy(w) = batch[w]
  BY <1>1 DEF HeldBy, Unreported
<1> QED BY <1>1, <1>2, SlotsAssumption

\* The handler receives a job, which nobody received before.
LEMMA FillBatch ==
    ASSUME IInv, BatchOK, NEW w \in Workers, FillSlot(w)
    PROVE  BatchOK'
<1> DEFINE j == Head(queue)
<1> USE DEF FillSlot, Receive, Return, jobVars
<1>1. /\ w \in Threads /\ at[w] \in {"pick", "trypick"} /\ at'[w] = "idle"
      /\ wpc'[w] = "fill" /\ batch'[w] = batch[w] \cup {j} /\ slots'[w] = slots[w] - 1
      /\ UNCHANGED todo
  BY DEF Threads, IInv, TypeOK, BatchOK, BatchTypes
<1>2. j \in Jobs /\ j \in Range(queue) /\ j \notin handed
  BY TailOnce DEF IInv, TypeOK, OfferedOnce
<1>3. /\ wpc[w] \in {"pick", "fill"} /\ todo[w] = {}
      /\ slots[w] \in 1..Slots /\ HeldBy(w) = batch[w]
  BY <1>1, Picking
<1>4. BatchTypes'
  BY <1>2, <1>3, SlotsAssumption DEF BatchOK, BatchTypes
<1>5. \A v \in Workers \ {w} : Untouched(v)
  BY DEF BatchOK, BatchTypes, Untouched, IInv, TypeOK, Threads
<1>6. Placed(w)'
  BY <1>1, <1>3 DEF Placed
<1>7. Reporting(w)'
  BY <1>1, <1>3 DEF Reporting
<1>8. HeldBy(w)' = batch[w] \cup {j}
  BY <1>1, <1>3 DEF HeldBy, Unreported
<1>9. Moves(w, {j}, {})
  BY <1>2, <1>3, <1>8 DEF Moves
<1>10. \A k \in finished' : result'[k] # Nil
  BY DEF BatchOK
<1> QED BY <1>4, <1>5, <1>6, <1>7, <1>9, <1>10, BatchKept, Zenon

\* A slot stays empty.
LEMMA NothingBatch ==
    ASSUME IInv, BatchOK, NEW w \in Workers, FillNothing(w)
    PROVE  BatchOK'
<1> USE DEF FillNothing, TryPickNothing, Return, jobVars
<1>1. /\ w \in Threads /\ at[w] = "trypick" /\ at'[w] = "idle"
      /\ slots'[w] = slots[w] - 1 /\ UNCHANGED <<wpc, batch, todo>>
  BY DEF Threads, IInv, TypeOK, BatchOK, BatchTypes
<1>2. /\ wpc[w] = "fill" /\ todo[w] = {} /\ slots[w] \in 1..Slots /\ HeldBy(w) = batch[w]
  BY <1>1, Picking DEF BatchOK, Placed
<1>3. BatchTypes'
  BY <1>2, SlotsAssumption DEF BatchOK, BatchTypes
<1>4. \A v \in Workers \ {w} : Untouched(v)
  BY DEF BatchOK, BatchTypes, Untouched, IInv, TypeOK, Threads
<1>5. Placed(w)'
  BY <1>1, <1>2 DEF Placed
<1>6. Reporting(w)'
  BY <1>1, <1>2 DEF Reporting
<1>7. HeldBy(w)' = HeldBy(w)
  BY <1>1, <1>2 DEF HeldBy, Unreported
<1> QED BY <1>3, <1>4, <1>5, <1>6, <1>7, BatchStill, Zenon

\* A handler or a worker that ends drops all it had.
LEMMA DropBatch ==
    ASSUME IInv, BatchOK, NEW w \in Workers,
           wpc' = [wpc EXCEPT ![w] = "off"], batch' = [batch EXCEPT ![w] = {}],
           todo' = [todo EXCEPT ![w] = {}], slots'[w] \in 0..Slots,
           \A v \in Workers \ {w} : Untouched(v),
           slots' \in [Workers -> 0..Slots], at'[w] = "idle",
           dropped' = dropped \cup HeldBy(w), UNCHANGED <<handed, finished, result>>
    PROVE  BatchOK'
<1>1. wpc'[w] = "off" /\ batch'[w] = {} /\ todo'[w] = {}
  BY DEF BatchOK, BatchTypes
<1>2. BatchTypes'
  BY DEF BatchOK, BatchTypes
<1>3. Placed(w)' /\ Reporting(w)'
  BY <1>1 DEF Placed, Reporting
<1>4. HeldBy(w)' = {}
  BY <1>1 DEF HeldBy, Unreported
<1>5. Moves(w, {}, HeldBy(w))
  BY <1>4 DEF Moves
<1>6. \A j \in finished' : result'[j] # Nil
  BY DEF BatchOK
<1> QED BY <1>2, <1>3, <1>5, <1>6, BatchKept, Zenon

\* The answer reaches the worker with all the handler picked, or nobody.
LEMMA RespondBatch ==
    ASSUME IInv, BatchOK, NEW w \in Workers, Respond(w)
    PROVE  BatchOK'
<1> USE DEF Respond, vars
<1>1. wpc[w] = "fill" /\ slots[w] = 0 /\ at[w] = "idle" /\ todo[w] = {} /\ HeldBy(w) = batch[w]
  <2>1. at[w] = "idle" /\ todo[w] = {}
    BY DEF BatchOK, BatchTypes, Placed
  <2> QED BY <2>1 DEF HeldBy, Unreported
<1>2. \A v \in Workers \ {w} : Untouched(v)
  BY DEF BatchOK, BatchTypes, Untouched
<1>3. CASE w \in dead
  <2>1. todo' = [todo EXCEPT ![w] = {}]
    BY <1>1 DEF BatchOK, BatchTypes
  <2> QED BY <1>1, <1>2, <1>3, <2>1, DropBatch DEF BatchOK, BatchTypes
<1>4. CASE w \notin dead
  <2>1. wpc'[w] = "run" /\ UNCHANGED <<batch, todo, slots, at, arg, res, exist, dropped>>
    BY <1>4 DEF BatchOK, BatchTypes
  <2>2. BatchTypes'
    BY <1>4 DEF BatchOK, BatchTypes
  <2>3. Placed(w)' /\ Reporting(w)'
    BY <1>1, <2>1 DEF Placed, Reporting
  <2>4. HeldBy(w)' = HeldBy(w)
    BY <2>1 DEF HeldBy, Unreported
  <2> QED BY <1>2, <2>1, <2>2, <2>3, <2>4, BatchStill, Zenon
<1> QED BY <1>3, <1>4

\* The ways a handler ends without an answer.
LEMMA AbortBatch ==
    ASSUME IInv, BatchOK, NEW w \in Workers, Cancelled(w) \/ HandlerStopped(w)
    PROVE  BatchOK'
<1>1. CASE Cancelled(w)
  <2> USE <1>1 DEF Cancelled, PickCancel, Return, jobVars
  <2>1. w \in Threads /\ at[w] \in {"pick", "trypick"} /\ at'[w] = "idle"
    BY DEF Threads, IInv, TypeOK
  <2>2. todo[w] = {} /\ HeldBy(w) = batch[w]
    BY <2>1, Picking
  <2>3. todo' = [todo EXCEPT ![w] = {}]
    BY <2>2 DEF BatchOK, BatchTypes
  <2>4. \A v \in Workers \ {w} : Untouched(v)
    BY DEF BatchOK, BatchTypes, Untouched, IInv, TypeOK, Threads
  <2>5. slots'[w] \in 0..Slots /\ slots' \in [Workers -> 0..Slots]
    BY SlotsAssumption DEF BatchOK, BatchTypes
  <2> QED BY <2>1, <2>2, <2>3, <2>4, <2>5, DropBatch
<1>2. CASE HandlerStopped(w)
  <2> USE <1>2 DEF HandlerStopped, vars
  <2>1. dropped' = dropped \cup HeldBy(w)
    BY DEF HeldBy
  <2>2. \A v \in Workers \ {w} : Untouched(v)
    BY DEF BatchOK, BatchTypes, Untouched
  <2>3. slots'[w] \in 0..Slots /\ slots' \in [Workers -> 0..Slots]
    BY SlotsAssumption DEF BatchOK, BatchTypes
  <2> QED BY <2>1, <2>2, <2>3, DropBatch
<1> QED BY <1>1, <1>2

\* A worker that dies takes along what it runs; its handler finds out later.
LEMMA DieBatch ==
    ASSUME IInv, BatchOK, NEW w \in Workers, Die(w)
    PROVE  BatchOK'
<1> USE DEF Die, vars
<1>1. CASE wpc[w] = "run"
  <2>1. at[w] = "idle" /\ todo[w] = {}
    BY <1>1 DEF BatchOK, Placed
  <2>2. HeldBy(w) = batch[w] /\ todo' = [todo EXCEPT ![w] = {}]
    BY <2>1 DEF HeldBy, Unreported, BatchOK, BatchTypes
  <2>3. \A v \in Workers \ {w} : Untouched(v)
    BY <1>1 DEF BatchOK, BatchTypes, Untouched
  <2>4. slots'[w] \in 0..Slots /\ slots' \in [Workers -> 0..Slots]
    BY DEF BatchOK, BatchTypes
  <2> QED BY <1>1, <2>1, <2>2, <2>3, <2>4, DropBatch
<1>2. CASE wpc[w] # "run"
  <2>1. /\ UNCHANGED <<wpc, batch, todo, slots, dropped, handed, finished, result,
                       at, arg, res, exist>>
    BY <1>2
  <2>2. \A v \in Workers : Untouched(v)
    BY <2>1 DEF Untouched
  <2>3. BatchTypes'
    BY <2>1 DEF BatchOK, BatchTypes
  <2>4. Placed(w)' /\ Reporting(w)' /\ HeldBy(w)' = HeldBy(w)
    BY <2>2, UntouchedKept DEF BatchOK
  <2> QED BY <2>1, <2>2, <2>3, <2>4, BatchStill, Zenon
<1> QED BY <1>1, <1>2
\* A build moves no job between the channel and the workers.
LEMMA BuildsApart ==
    ASSUME IInv, BSNext
    PROVE  /\ UNCHANGED <<handed, finished, result, artifacts>>
           /\ \A w \in Workers : UNCHANGED <<at[w], arg[w], res[w], exist[w]>>
<1>1. PICK b \in Builds : \/ ScheduleBegin(b) \/ ScheduleLock(b) \/ ScheduleReturn(b)
                          \/ UNCHANGED vars
  <2>1. PICK b \in Builds : \/ StartStep(b) \/ SignalBegin(b) \/ SignalStep(b)
                            \/ ScheduleLock(b) \/ ScheduleReturn(b) \/ ClientGone(b)
                            \/ \E j \in JobsOf(b) : WatchStep(b, j)
    BY DEF BSNext
  <2>2. CASE StartStep(b) \/ SignalBegin(b) \/ ClientGone(b)
    BY <2>2 DEF StartStep, StartBuild, StartFails, StartReturn, ClientGone, SignalBegin
  <2>3. CASE SignalStep(b)
    BY <2>3 DEF SignalStep, DepFinished, DepCancelled, Locate, LocateNothing,
                SignalStopped, SignalReturn
  <2>4. ASSUME NEW j \in JobsOf(b), WatchStep(b, j)
        PROVE  UNCHANGED vars
    BY <2>4 DEF WatchStep, WatchFinished, WatchCancelled, WatchSwap, WatchWrite,
                WatchWriteFails, WatchWriteLate
  <2> QED BY <2>1, <2>2, <2>3, <2>4
<1>2. \A w \in Workers : w # b /\ w \in Threads
  BY ThreadAssumption DEF Threads
<1>3. CASE ScheduleBegin(b)
  BY <1>2, <1>3 DEF ScheduleBegin, ScheduleEnter, jobVars, IInv, TypeOK
<1>4. CASE ScheduleLock(b)
  BY <1>2, <1>4 DEF ScheduleLock, ScheduleNew, jobVars, IInv, TypeOK
<1>5. CASE ScheduleReturn(b)
  BY <1>2, <1>5 DEF ScheduleReturn, ScheduleKnown, Push, Return, jobVars, IInv, TypeOK
<1>6. CASE UNCHANGED vars
  BY <1>6 DEF vars
<1> QED BY <1>1, <1>3, <1>4, <1>5, <1>6

LEMMA StepBatch ==
    ASSUME IInv, BatchOK, [CoordNext]_coordVars
    PROVE  BatchOK'
<1>1. CASE HBNext
  <2>1. PICK w \in Workers : Beat(w) \/ HandlerStep(w) \/ ReportSettle(w) \/ Die(w)
    BY <1>1 DEF HBNext
  <2> QED BY <2>1, BeatBatch, EnterBatch, SettleBatch, ReturnBatch, PickBatch, FillBatch,
             NothingBatch, RespondBatch, AbortBatch, DieBatch DEF HandlerStep
<1>2. ASSUME UNCHANGED <<hbVars, handed, finished, result>>,
             \A w \in Workers : UNCHANGED <<at[w], arg[w], res[w], exist[w]>>
      PROVE  BatchOK'
  <2>1. UNCHANGED <<wpc, batch, todo, slots, dropped, handed, finished, result>>
    BY <1>2 DEF hbVars
  <2>2. \A w \in Workers : Untouched(w)
    BY <1>2, <2>1 DEF Untouched
  <2>3. \A w \in Workers : Placed(w)' /\ Reporting(w)' /\ HeldBy(w)' = HeldBy(w)
    BY <2>2, UntouchedKept DEF BatchOK
  <2>4. BatchTypes' /\ Received'
    BY <2>1 DEF BatchOK, BatchTypes, Received
  <2>5. HeldOnce'
    BY <2>1, <2>3 DEF BatchOK, HeldOnce
  <2> QED BY <2>1, <2>3, <2>4, <2>5 DEF BatchOK
<1>3. CASE BSNext /\ UNCHANGED hbVars
  BY <1>2, <1>3, BuildsApart
<1>4. CASE CoordStop \/ UNCHANGED coordVars
  BY <1>2, <1>4 DEF CoordStop, Stop, coordVars, vars, jobVars, callVars
<1> QED BY <1>1, <1>3, <1>4 DEF CoordNext

-----------------------------------------------------------------------------
(* SignalBuild                                                             *)

\* A heartbeat does not move the calls of a build.
LEMMA HeartbeatsApart ==
    ASSUME IInv, HBNext
    PROVE  /\ \A b \in Builds : UNCHANGED <<at[b], arg[b]>>
           /\ \A b \in Builds : ~Push(b)
<1>1. PICK w \in Workers :
          \/ \E j \in {rep[1] : rep \in todo[w]}, r \in {rep[2] : rep \in todo[w]} :
                 CompleteEnter(w, j, r)
          \/ CompleteSettle(w) \/ CompleteRecord(w) \/ PickEnter(w) \/ TryPickEnter(w)
          \/ Receive(w) \/ TryPickNothing(w) \/ PickCancel(w) \/ UNCHANGED vars
  BY DEF HBNext, Beat, HandlerStep, ReportEnter, ReportSettle, Die, ReportReturn,
         PickStart, FillStart, FillSlot, FillNothing, Respond, Cancelled, HandlerStopped
<1>2. \A b \in Builds : b # w /\ b \in Threads
  BY ThreadAssumption DEF Threads
<1>3. \A b \in Builds : UNCHANGED <<at[b], arg[b]>>
  BY <1>1, <1>2 DEF CompleteEnter, CompleteSettle, CompleteRecord, PickEnter, TryPickEnter,
              Receive, TryPickNothing, PickCancel, Return, vars, IInv, TypeOK
<1>4. ASSUME NEW b \in Builds, Push(b)
      PROVE  FALSE
  <2>1. at[b] = "push" /\ at'[b] = "idle"
    BY <1>2, <1>4 DEF Push, Return, IInv, TypeOK
  <2> QED BY <1>3, <2>1
<1> QED BY <1>3, <1>4

\* SignalBuild of b stands still while dependencies become ready.
LEMMA SignallingKept ==
    ASSUME IInv, [Next]_vars, NEW b \in Builds, SignalOK,
           UNCHANGED <<bpc[b], pos[b], dep[b], at[b], arg[b]>>
    PROVE  Signalling(b)'
<1>1. UNCHANGED <<TheJob(b), TheDeps(b), TheDep(b)>>
  BY DEF TheJob, TheDeps, TheDep
<1>2. ASSUME bpc[b] \in {"loop", "locate"}, NEW i \in DOMAIN TheDeps(b), Ready(TheDeps(b)[i])
      PROVE  Ready(TheDeps(b)[i])'
  <2>1. TheDeps(b)[i] \in Jobs
    BY <1>2, SignalsJob
  <2>2. \A d \in Jobs : Ready(d) => Ready(d)'
    BY ReadyKept
  <2>3. UNCHANGED TheDeps(b)[i]
    BY <1>1
  <2> QED BY <1>2, <2>1, <2>2, <2>3 DEF Ready
<1>3. finished \subseteq finished'
  <2>1. UNCHANGED <<finished, result>> \/ \E j \in Jobs : finished' = finished \cup {j}
    BY StepOutcome
  <2> QED BY <2>1
<1>4. ASSUME bpc'[b] \in {"loop", "locate"}
      PROVE  /\ pos'[b] \in DOMAIN JobSeq[b]
             /\ \A i \in DOMAIN TheDeps(b)' : i < dep'[b] => Ready(TheDeps(b)[i])'
  <2>1. /\ pos[b] \in DOMAIN JobSeq[b]
        /\ \A i \in DOMAIN TheDeps(b) : i < dep[b] => Ready(TheDeps(b)[i])
    BY <1>4 DEF SignalOK, Signalling
  <2> QED BY <1>1, <1>2, <1>4, <2>1
<1> QED BY <1>1, <1>3, <1>4 DEF SignalOK, Signalling
\* What SignalBuild sends has all its dependencies finished and located.
LEMMA StepDeps ==
    ASSUME IInv, SignalOK, [Next]_vars
    PROVE  DepsReady'
<1>1. \A j \in Range(queue) \cup handed : \A d \in Range(Deps[j]) : d \in Jobs /\ Ready(d)
  <2>1. Range(queue) \cup handed \subseteq Jobs
    BY DEF IInv, TypeOK, Accounted
  <2>2. \A j \in Jobs : Range(Deps[j]) \subseteq Jobs
    <3>1. \A j \in Jobs : Deps[j] \in [1..Len(Deps[j]) -> Jobs]
      BY JobSeqAssumption
    <3> QED BY <3>1 DEF Range
  <2> QED BY <2>1, <2>2 DEF SignalOK, DepsReady, Ready
<1>2. \A d \in Jobs : Ready(d) => Ready(d)'
  BY ReadyKept
<1>3. CASE \A b \in Builds : ~Push(b)
  <2>1. Range(queue') \cup handed' \subseteq Range(queue) \cup handed
    BY <1>3, OfferedKept
  <2> QED BY <1>1, <1>2, <2>1 DEF DepsReady, Ready, Range
<1>4. ASSUME NEW b \in Builds, Push(b)
      PROVE  DepsReady'
  <2>1. b \in Threads /\ at[b] = "push" /\ arg[b] \in Jobs /\ queue \in Seq(Jobs)
    BY <1>4 DEF Push, Threads, IInv, TypeOK, PushHoldsLock
  <2>2. /\ bpc[b] = "loop" /\ dep[b] > Len(TheDeps(b)) /\ arg[b] = TheJob(b)
        /\ \A i \in DOMAIN TheDeps(b) : i < dep[b] => Ready(TheDeps(b)[i])
    BY <2>1 DEF SignalOK, Signalling
  <2>3. /\ DOMAIN TheDeps(b) = 1..Len(TheDeps(b)) /\ Len(TheDeps(b)) \in Nat
        /\ dep[b] \in Nat
    BY <2>2, SignalsJob
  <2>4. \A d \in Range(Deps[arg[b]]) : Ready(d)
    BY <2>2, <2>3 DEF Range, TheDeps
  <2>5. Range(queue') = Range(queue) \cup {arg[b]} /\ handed' = handed
    BY <1>4, <2>1, AppendOnce DEF Push
  <2>6. finished' = finished /\ artifacts' = artifacts
    BY <1>4 DEF Push
  <2>7. \A j \in Range(queue') \cup handed' : \A d \in Range(Deps[j]) : Ready(d)
    BY <1>1, <2>4, <2>5
  <2> QED BY <2>6, <2>7 DEF DepsReady, Ready, Range
<1> QED BY <1>3, <1>4

\* What is left to show for a step of build b.
LEMMA SignalKept ==
    ASSUME IInv, SignalOK, [Next]_vars, NEW b \in Builds, SignalTypes', Signalling(b)',
           \A c \in Builds \ {b} : UNCHANGED <<bpc[c], pos[c], dep[c], at[c], arg[c]>>
    PROVE  SignalOK'
<1>1. \A c \in Builds \ {b} : Signalling(c)'
  BY SignallingKept
<1> QED BY <1>1, StepDeps DEF SignalOK

\* SignalBuild looks at one dependency after the other.
LEMMA SignalLoop ==
    ASSUME IInv, SignalOK, [Next]_vars, NEW b \in Builds,
           \/ SignalBegin(b)    \/ DepFinished(b)   \/ DepCancelled(b) \/ Locate(b)
           \/ LocateNothing(b)  \/ SignalStopped(b) \/ SignalReturn(b)
    PROVE  SignalOK'
<1>1. UNCHANGED vars
  BY DEF SignalBegin, DepFinished, DepCancelled, Locate, LocateNothing,
         SignalStopped, SignalReturn
<1>2. UNCHANGED <<at, arg, finished, artifacts>>
  BY <1>1 DEF vars, jobVars, callVars
<1> USE DEF SignalOK, SignalTypes
<1>3. /\ pos' = pos /\ \A c \in Builds \ {b} : UNCHANGED <<bpc[c], dep[c]>>
      /\ bpc' \in [Builds -> {"none", "loop", "locate", "wait", "ok", "error", "panic"}]
  BY DEF SignalBegin, DepFinished, DepCancelled, Locate, LocateNothing,
         SignalStopped, SignalReturn
<1>4. UNCHANGED <<TheJob(b), TheDeps(b)>>
  BY <1>3 DEF TheJob, TheDeps
<1>5. CASE SignalBegin(b)
  <2> USE <1>5 DEF SignalBegin
  <2>1. pos[b] = 1 /\ dep[b] = 1 /\ at[b] = "idle" /\ dep' = dep
    BY DEF Signalling
  <2>2. bpc'[b] = IF JobSeq[b] = << >> THEN "wait" ELSE "loop"
    OBVIOUS
  <2>3. JobSeq[b] # << >> => 1 \in DOMAIN JobSeq[b]
    BY JobsOfBuild
  <2>4. bpc'[b] = "loop" => DOMAIN TheDeps(b) = 1..Len(TheDeps(b))
    <3>1. JobSeq[b] # << >> => JobSeq[b][1] \in Jobs
      BY <2>3, JobsOfBuild
    <3>2. JobSeq[b] # << >> => Deps[JobSeq[b][1]] \in Seq(Jobs)
      BY <3>1, JobsOfBuild
    <3> QED BY <2>1, <2>2, <3>2 DEF TheDeps, TheJob
  <2>5. Signalling(b)'
    BY <1>2, <1>3, <1>4, <2>1, <2>2, <2>3, <2>4 DEF Signalling
  <2> QED BY <1>2, <1>3, <2>1, <2>5, SignalKept
<1>6. CASE DepFinished(b)
  <2> USE <1>6 DEF DepFinished
  <2>1. dep' = dep /\ bpc[b] = "loop" /\ bpc'[b] = "locate" /\ at[b] = "idle"
    OBVIOUS
  <2>2. dep[b] \in DOMAIN TheDeps(b) /\ TheDep(b) \in finished
    BY SignalsJob
  <2>3. TheDep(b)' = TheDep(b)
    BY <1>4, <2>1 DEF TheDep
  <2>4. Signalling(b)'
    BY <1>2, <1>3, <1>4, <2>1, <2>2, <2>3 DEF Signalling, Ready
  <2> QED BY <1>2, <1>3, <2>1, <2>4, SignalKept
<1>7. CASE Locate(b)
  <2> USE <1>7 DEF Locate
  <2>1. /\ bpc[b] = "locate" /\ bpc'[b] = "loop" /\ dep'[b] = dep[b] + 1 /\ at[b] = "idle"
        /\ dep[b] \in DOMAIN TheDeps(b) /\ dep[b] \in Nat /\ TheDep(b) \in finished
        /\ dep' \in [Builds -> Nat \ {0}]
    BY DEF Signalling
  <2>2. artifacts[TheDep(b)] # << >>
    BY DEF Locations, Range
  <2>3. \A i \in DOMAIN TheDeps(b) : i < dep'[b] => Ready(TheDeps(b)[i])
    <3>1. DOMAIN TheDeps(b) = 1..Len(TheDeps(b)) /\ Len(TheDeps(b)) \in Nat
      BY <2>1, SignalsJob
    <3>2. Ready(TheDeps(b)[dep[b]])
      BY <2>1, <2>2 DEF Ready, TheDep
    <3> QED BY <2>1, <3>1, <3>2 DEF Signalling
  <2>4. Signalling(b)'
    BY <1>2, <1>3, <1>4, <2>1, <2>3 DEF Signalling, Ready
  <2> QED BY <1>2, <1>3, <2>1, <2>4, SignalKept
<1>8. CASE DepCancelled(b) \/ LocateNothing(b) \/ SignalStopped(b) \/ SignalReturn(b)
  <2>1. dep' = dep /\ bpc'[b] \in {"ok", "error", "panic"} /\ at[b] = "idle"
    BY <1>8 DEF DepCancelled, LocateNothing, SignalStopped, SignalReturn, Signalling
  <2>2. Signalling(b)'
    BY <1>2, <2>1 DEF Signalling
  <2> QED BY <1>2, <1>3, <2>1, <2>2, SignalKept
<1> QED BY <1>5, <1>6, <1>7, <1>8

\* It hands a job to the scheduler, and then turns to the next one.
LEMMA SignalSchedules ==
    ASSUME IInv, SignalOK, [Next]_vars, NEW b \in Builds,
           ScheduleBegin(b) \/ ScheduleLock(b) \/ ScheduleReturn(b)
    PROVE  SignalOK'
<1> USE DEF SignalOK, SignalTypes
<1>1. b \in Threads
  BY DEF Threads
<1>2. \A c \in Builds \ {b} : UNCHANGED <<at[c], arg[c]>>
  BY <1>1 DEF ScheduleBegin, ScheduleEnter, ScheduleLock, ScheduleNew, ScheduleReturn,
              ScheduleKnown, Push, Return, jobVars, IInv, TypeOK, Threads
<1>3. CASE ScheduleBegin(b) \/ ScheduleLock(b)
  <2>1. /\ UNCHANGED <<bpc, pos, dep, finished, artifacts>> /\ bpc[b] = "loop"
        /\ dep[b] > Len(TheDeps(b)) /\ at'[b] \in {"schedule", "push"} /\ arg'[b] = TheJob(b)
    BY <1>1, <1>3 DEF ScheduleBegin, ScheduleLock, ScheduleEnter, ScheduleNew, jobVars,
                      bsVars, Signalling, IInv, TypeOK
  <2>2. UNCHANGED <<TheJob(b), TheDeps(b)>>
    BY <2>1 DEF TheJob, TheDeps
  <2>3. Signalling(b)'
    BY <2>1, <2>2 DEF Signalling, Ready
  <2> QED BY <1>2, <2>1, <2>3, SignalKept
<1>4. CASE ScheduleReturn(b)
  <2> USE <1>4 DEF ScheduleReturn
  <2>1. /\ at[b] \in {"schedule", "push"} /\ at'[b] = "idle" /\ bpc[b] = "loop"
        /\ UNCHANGED <<finished, artifacts>>
    BY <1>1 DEF ScheduleKnown, Push, Return, jobVars, Signalling, IInv, TypeOK
  <2>2. pos[b] \in 1..Len(JobSeq[b]) /\ Len(JobSeq[b]) \in Nat
    BY <2>1, SignalsJob, JobsOfBuild
  <2>3. CASE pos[b] < Len(JobSeq[b])
    <3>1. /\ UNCHANGED bpc /\ pos'[b] = pos[b] + 1 /\ dep'[b] = 1
          /\ pos' \in [Builds -> Nat \ {0}] /\ dep' \in [Builds -> Nat \ {0}]
          /\ \A c \in Builds \ {b} : UNCHANGED <<bpc[c], pos[c], dep[c]>>
      <4>1. /\ UNCHANGED bpc
            /\ pos' = [pos EXCEPT ![b] = pos[b] + 1] /\ dep' = [dep EXCEPT ![b] = 1]
        BY <2>3
      <4>2. pos[b] + 1 \in Nat \ {0}
        BY <2>2
      <4> QED BY <4>1, <4>2
    <3>2. pos'[b] \in DOMAIN JobSeq[b] /\ TheJob(b)' \in Jobs
      BY <2>2, <2>3, <3>1, JobsOfBuild DEF TheJob
    <3>3. DOMAIN TheDeps(b)' = 1..Len(TheDeps(b)')
      <4>1. TheDeps(b)' \in Seq(Jobs)
        BY <3>2, JobsOfBuild DEF TheDeps
      <4> QED BY <4>1
    <3>4. Signalling(b)'
      BY <2>1, <3>1, <3>2, <3>3 DEF Signalling
    <3> QED BY <1>2, <3>1, <3>4, SignalKept
  <2>4. CASE ~(pos[b] < Len(JobSeq[b]))
    <3>1. /\ UNCHANGED <<pos, dep>> /\ bpc'[b] = "wait"
          /\ bpc' \in [Builds -> {"none", "loop", "locate", "wait", "ok", "error", "panic"}]
          /\ \A c \in Builds \ {b} : UNCHANGED bpc[c]
      BY <2>4
    <3>2. Signalling(b)'
      BY <2>1, <3>1 DEF Signalling
    <3> QED BY <1>2, <3>1, <3>2, SignalKept
  <2> QED BY <2>3, <2>4
<1> QED BY <1>3, <1>4

LEMMA StepSignal ==
    ASSUME CInv, [CoordNext]_coordVars
    PROVE  SignalOK'
<1>1. [Next]_vars /\ IInv /\ SignalOK
  BY CoordCalls DEF CInv
<1>2. ASSUME UNCHANGED <<bpc, pos, dep>>, \A b \in Builds : UNCHANGED <<at[b], arg[b]>>
      PROVE  SignalOK'
  <2>1. \A b \in Builds : Signalling(b)'
    BY <1>1, <1>2, SignallingKept
  <2> QED BY <1>1, <1>2, <2>1, StepDeps DEF SignalOK, SignalTypes
<1>3. ASSUME NEW b \in Builds,
             \/ StartStep(b)  \/ SignalBegin(b) \/ SignalStep(b) \/ ScheduleLock(b)
             \/ ScheduleReturn(b) \/ ClientGone(b) \/ \E j \in JobsOf(b) : WatchStep(b, j)
      PROVE  SignalOK'
  <2>1. CASE \/ SignalBegin(b)    \/ DepFinished(b)   \/ DepCancelled(b) \/ Locate(b)
             \/ LocateNothing(b)  \/ SignalStopped(b) \/ SignalReturn(b)
    BY <1>1, <2>1, SignalLoop
  <2>2. CASE ScheduleBegin(b) \/ ScheduleLock(b) \/ ScheduleReturn(b)
    BY <1>1, <2>2, SignalSchedules
  <2>3. CASE StartStep(b) \/ ClientGone(b) \/ \E j \in JobsOf(b) : WatchStep(b, j)
    <3>1. UNCHANGED <<vars, bpc, pos, dep>>
      BY <2>3 DEF StartStep, StartBuild, StartFails, StartReturn, ClientGone, WatchStep,
                  WatchFinished, WatchCancelled, WatchSwap, WatchWrite, WatchWriteFails,
                  WatchWriteLate
    <3> QED BY <1>2, <3>1 DEF vars, callVars
  <2> QED BY <1>3, <2>1, <2>2, <2>3 DEF SignalStep
<1>4. CASE HBNext /\ UNCHANGED bsVars
  BY <1>1, <1>2, <1>4, HeartbeatsApart DEF bsVars
<1>5. CASE CoordStop \/ UNCHANGED coordVars
  BY <1>2, <1>5 DEF CoordStop, Stop, coordVars, bsVars, vars, callVars
<1> QED BY <1>3, <1>4, <1>5 DEF CoordNext, BSNext
-----------------------------------------------------------------------------
(* The watchers                                                            *)

\* The counter's bound: the fewer jobs are pending, the more may be counted.
LEMMA FewerPending ==
    ASSUME NEW b \in Builds, NEW P \in SUBSET JobsOf(b), NEW Q \in SUBSET P
    PROVE  /\ IsFiniteSet(P) /\ IsFiniteSet(Q)
           /\ Cardinality(P) \in Nat /\ Cardinality(Q) \in Nat
           /\ Cardinality(Q) <= Cardinality(P)
           /\ Cardinality(P) <= Len(JobSeq[b])
           /\ Cardinality(P) = 0 => P = {}
           /\ \A j \in P : j \notin Q => Cardinality(Q) + 1 <= Cardinality(P)
<1>1. IsFiniteSet(P) /\ Cardinality(P) <= Cardinality(JobsOf(b))
  BY JobsOfBuild, FS_Subset
<1>2. IsFiniteSet(Q) /\ Cardinality(Q) <= Cardinality(P)
        /\ (Cardinality(P) = Cardinality(Q) => P = Q)
  BY <1>1, FS_Subset
<1>3. /\ Cardinality(P) \in Nat /\ Cardinality(Q) \in Nat /\ Cardinality(JobsOf(b)) \in Nat
      /\ Cardinality(JobsOf(b)) <= Len(JobSeq[b]) /\ Len(JobSeq[b]) \in Nat
  BY <1>1, <1>2, JobsOfBuild, FS_CardinalityType
<1>4. Cardinality(P) = 0 => P = {}
  BY <1>1, FS_EmptySet
<1>5. ASSUME NEW j \in P, j \notin Q
      PROVE  Cardinality(Q) + 1 <= Cardinality(P)
  <2>1. Cardinality(Q) # Cardinality(P)
    BY <1>2, <1>5
  <2> QED BY <1>2, <1>3, <2>1
<1>6. Cardinality(P) <= Len(JobSeq[b])
  BY <1>1, <1>3
<1> QED BY <1>1, <1>2, <1>3, <1>4, <1>5, <1>6

LEMMA PendingJobs ==
    ASSUME NEW b \in Builds
    PROVE  Pending(b) \in SUBSET JobsOf(b) /\ Pending(b)' \in SUBSET JobsOf(b)
BY DEF Pending

\* The client is told of a job by its watcher, at its end.
LEMMA Told ==
    ASSUME WatchOK, NEW b \in Builds, NEW i \in DOMAIN stream[b]
    PROVE  stream[b][i].job \in JobsOf(b) /\ watch[b][stream[b][i].job] = "done"
<1>1. stream[b] \in Seq(Updates(b))
  BY DEF WatchOK, WatchTypes
<1>2. stream[b][i] \in Updates(b)
  BY <1>1
<1>3. stream[b][i].job \in JobsOf(b)
  BY <1>2 DEF Updates
<1> QED BY <1>3 DEF WatchOK, Watching

\* A build none of whose watchers moves, while SignalBuild does not turn to
\* another job and jobs finish.
LEMMA WatchingKept ==
    ASSUME NEW b \in Builds, WatchTypes, Watching(b),
           UNCHANGED <<watch[b], count[b], done[b], stream[b]>>,
           bpc'[b] \in {"none", "loop", "locate"} =>
               bpc[b] \in {"none", "loop", "locate"} /\ UNCHANGED pos[b],
           finished \subseteq finished'
    PROVE  Watching(b)'
<1>1. Pending(b)' \in SUBSET Pending(b) /\ Pending(b) \in SUBSET JobsOf(b)
  BY DEF Pending
<1>2. /\ Cardinality(Pending(b)') <= Cardinality(Pending(b))
      /\ Cardinality(Pending(b)') \in Nat /\ Cardinality(Pending(b)) \in Nat
  BY <1>1, FewerPending
<1>3. count'[b] + Cardinality(Pending(b)') <= Len(JobSeq[b])
  BY <1>2, JobsOfBuild DEF Watching, WatchTypes
<1>4. Announcers(b)' = Announcers(b)
  BY DEF Announcers
<1>5. /\ bpc'[b] \in {"none", "loop", "locate"} =>
             \A i \in DOMAIN JobSeq[b] : i >= pos'[b] => watch'[b][JobSeq[b][i]] = "none"
      /\ \A j \in JobsOf(b) : watch'[b][j] \in {"counted", "update", "last"} => j \in finished'
  BY DEF Watching
<1>6. done'[b] \/ Announcers(b)' # {} => count'[b] = 0 /\ Pending(b)' = {}
  BY <1>1, <1>4 DEF Watching
<1>7. /\ \A j, k \in Announcers(b)' : j = k
      /\ done'[b] => Announcers(b)' = {}
      /\ \A i \in DOMAIN stream'[b] : watch'[b][stream'[b][i].job] = "done"
  BY <1>4 DEF Watching
<1> QED BY <1>3, <1>5, <1>6, <1>7 DEF Watching

\* What is left to show for a step of build b.
LEMMA WatchKept ==
    ASSUME WatchOK, NEW b \in Builds, WatchTypes', Watching(b)',
           \A c \in Builds \ {b} :
               UNCHANGED <<watch[c], count[c], done[c], stream[c], bpc[c], pos[c]>>,
           \A c \in Builds : hpc[c] = "returned" => hpc'[c] = "returned",
           crashed' => crashed \/ hpc[b] = "returned",
           finished \subseteq finished'
    PROVE  WatchOK'
<1>1. \A c \in Builds \ {b} : Watching(c)'
  BY WatchingKept DEF WatchOK
<1>2. crashed' => \E c \in Builds : hpc'[c] = "returned"
  BY DEF WatchOK
<1> QED BY <1>1, <1>2 DEF WatchOK
\* Steps that move no watcher.
LEMMA QuietWatch ==
    ASSUME WatchOK, SignalTypes, NEW b \in Builds,
           \/ StartStep(b) \/ ClientGone(b) \/ SignalBegin(b) \/ SignalStep(b)
           \/ ScheduleLock(b),
           finished \subseteq finished'
    PROVE  WatchOK'
<1>1. /\ UNCHANGED <<watch, count, done, stream, pos, crashed>>
      /\ \A c \in Builds \ {b} : UNCHANGED bpc[c]
      /\ bpc'[b] \in {"none", "loop", "locate"} => bpc[b] \in {"none", "loop", "locate"}
  BY DEF StartStep, StartBuild, StartFails, StartReturn, ClientGone, SignalBegin,
         SignalStep, DepFinished, DepCancelled, Locate, LocateNothing, ScheduleBegin,
         SignalStopped, SignalReturn, ScheduleLock, bsVars, SignalTypes
<1>2. /\ hpc' \in [Builds -> {"none", "streaming", "returned"}]
      /\ \A c \in Builds : hpc[c] = "returned" => hpc'[c] = "returned"
  BY DEF StartStep, StartBuild, StartFails, StartReturn, ClientGone, SignalBegin,
         SignalStep, DepFinished, DepCancelled, Locate, LocateNothing, ScheduleBegin,
         SignalStopped, SignalReturn, ScheduleLock, bsVars, WatchOK, WatchTypes
<1>3. WatchTypes'
  BY <1>1, <1>2 DEF WatchOK, WatchTypes
<1>4. Watching(b)'
  BY <1>1, WatchingKept DEF WatchOK
<1> QED BY <1>1, <1>2, <1>3, <1>4, WatchKept

\* The job that was scheduled gets its watcher.
LEMMA ScheduledWatch ==
    ASSUME WatchOK, SignalOK, NEW b \in Builds, ScheduleReturn(b), bpc[b] = "loop",
           finished \subseteq finished'
    PROVE  WatchOK'
<1> DEFINE j == TheJob(b)
<1> USE DEF ScheduleReturn
<1>1. /\ pos[b] \in 1..Len(JobSeq[b]) /\ j \in JobsOf(b) /\ Len(JobSeq[b]) \in Nat
      /\ DOMAIN JobSeq[b] = 1..Len(JobSeq[b]) /\ IsInjective(JobSeq[b])
  BY SignalsJob, JobsOfBuild, JobSeqAssumption
<1>2. /\ watch[b] \in [JobsOf(b) -> WatcherStates] /\ DOMAIN watch = Builds
      /\ stream[b] \in Seq(Updates(b))
  BY DEF WatchOK, WatchTypes
<1>3. /\ watch'[b] = [watch[b] EXCEPT ![j] = "wait"]
      /\ watch'[b] \in [JobsOf(b) -> WatcherStates] /\ DOMAIN watch' = Builds
      /\ \A c \in Builds \ {b} : UNCHANGED watch[c]
  BY <1>1, <1>2 DEF WatcherStates
<1>4. UNCHANGED <<hpc, count, stream, done, crashed>>
  OBVIOUS
<1>5. /\ \A c \in Builds \ {b} : UNCHANGED <<pos[c], bpc[c]>>
      /\ bpc'[b] \in {"none", "loop", "locate"} => pos'[b] = pos[b] + 1
  BY DEF SignalOK, SignalTypes
<1>6. WatchTypes'
  BY <1>3, <1>4 DEF WatchOK, WatchTypes
<1>7. watch[b][j] = "none"
  BY <1>1 DEF WatchOK, Watching, TheJob
<1>8. Pending(b)' \subseteq Pending(b)
  BY <1>1, <1>2, <1>3, <1>7 DEF Pending
<1>9. /\ Cardinality(Pending(b)') <= Cardinality(Pending(b))
      /\ Cardinality(Pending(b)') \in Nat /\ Cardinality(Pending(b)) \in Nat
  BY <1>8, PendingJobs, FewerPending
<1>10. Announcers(b)' = Announcers(b)
  BY <1>1, <1>2, <1>3, <1>7 DEF Announcers
<1>11. ASSUME bpc'[b] \in {"none", "loop", "locate"}, NEW i \in DOMAIN JobSeq[b], i >= pos'[b]
       PROVE  watch'[b][JobSeq[b][i]] = "none"
  <2>1. i > pos[b] /\ i \in Nat
    BY <1>1, <1>5, <1>11
  <2>2. JobSeq[b][i] # j /\ JobSeq[b][i] \in JobsOf(b)
    BY <1>1, <2>1 DEF IsInjective, TheJob, JobsOf, Range
  <2>3. watch[b][JobSeq[b][i]] = "none"
    BY <1>1, <2>1 DEF WatchOK, Watching
  <2> QED BY <1>2, <1>3, <2>2, <2>3
<1>12. \A k \in JobsOf(b) : watch'[b][k] \in {"counted", "update", "last"} => k \in finished'
  BY <1>1, <1>2, <1>3 DEF WatchOK, Watching
<1>13. \A i \in DOMAIN stream'[b] : watch'[b][stream'[b][i].job] = "done"
  <2> SUFFICES ASSUME NEW i \in DOMAIN stream[b]
               PROVE  watch'[b][stream[b][i].job] = "done"
    BY <1>4
  <2>1. stream[b][i].job \in JobsOf(b) /\ watch[b][stream[b][i].job] = "done"
    BY Told
  <2> QED BY <1>2, <1>3, <1>7, <2>1
<1>14. count'[b] + Cardinality(Pending(b)') <= Len(JobSeq[b])
  BY <1>1, <1>4, <1>9 DEF WatchOK, Watching, WatchTypes
<1>15. done'[b] \/ Announcers(b)' # {} => count'[b] = 0 /\ Pending(b)' = {}
  BY <1>4, <1>8, <1>10 DEF WatchOK, Watching
<1>16. Watching(b)'
  BY <1>4, <1>10, <1>11, <1>12, <1>13, <1>14, <1>15 DEF WatchOK, Watching
<1> QED BY <1>3, <1>4, <1>5, <1>6, <1>16, WatchKept

\* What the watcher of job j may do: only its own state changes.
LEMMA WatcherMoves ==
    ASSUME WatchOK, NEW b \in Builds, NEW j \in JobsOf(b), NEW s \in WatcherStates \ {"none"},
           watch' = [watch EXCEPT ![b][j] = s], watch[b][j] # "none",
           UNCHANGED <<bpc, pos, hpc>>, UNCHANGED finished
    PROVE  /\ DOMAIN watch' = Builds /\ watch'[b] \in [JobsOf(b) -> WatcherStates]
           /\ watch'[b][j] = s /\ \A k \in JobsOf(b) \ {j} : watch'[b][k] = watch[b][k]
           /\ \A c \in Builds \ {b} : UNCHANGED <<watch[c], bpc[c], pos[c]>>
           /\ bpc'[b] \in {"none", "loop", "locate"} =>
                  \A i \in DOMAIN JobSeq[b] : i >= pos'[b] => watch'[b][JobSeq[b][i]] = "none"
<1>1. watch[b] \in [JobsOf(b) -> WatcherStates] /\ DOMAIN watch = Builds
  BY DEF WatchOK, WatchTypes
<1>2. /\ DOMAIN watch' = Builds /\ watch'[b] \in [JobsOf(b) -> WatcherStates]
      /\ watch'[b][j] = s /\ \A k \in JobsOf(b) \ {j} : watch'[b][k] = watch[b][k]
      /\ \A c \in Builds \ {b} : UNCHANGED <<watch[c], bpc[c], pos[c]>>
  BY <1>1
<1>3. ASSUME bpc'[b] \in {"none", "loop", "locate"}, NEW i \in DOMAIN JobSeq[b], i >= pos'[b]
      PROVE  watch'[b][JobSeq[b][i]] = "none"
  <2>1. watch[b][JobSeq[b][i]] = "none"
    BY <1>3 DEF WatchOK, Watching
  <2>2. JobSeq[b][i] \in JobsOf(b) \ {j}
    BY <2>1 DEF JobsOf, Range
  <2> QED BY <1>2, <2>1, <2>2
<1> QED BY <1>2, <1>3
\* A watcher that is at its end counts nothing any more.
LEMMA EndedWatch ==
    ASSUME WatchOK, NEW b \in Builds, NEW j \in JobsOf(b), watch[b][j] # "none",
           watch' = [watch EXCEPT ![b][j] = "done"],
           UNCHANGED <<bpc, pos, hpc, count, done, stream, finished>>,
           crashed' => crashed \/ hpc[b] = "returned"
    PROVE  WatchOK'
<1>1. /\ DOMAIN watch' = Builds /\ watch'[b] \in [JobsOf(b) -> WatcherStates]
      /\ watch'[b][j] = "done" /\ \A k \in JobsOf(b) \ {j} : watch'[b][k] = watch[b][k]
      /\ \A c \in Builds \ {b} : UNCHANGED <<watch[c], bpc[c], pos[c]>>
      /\ bpc'[b] \in {"none", "loop", "locate"} =>
             \A i \in DOMAIN JobSeq[b] : i >= pos'[b] => watch'[b][JobSeq[b][i]] = "none"
  BY WatcherMoves DEF WatcherStates
<1>2. WatchTypes'
  BY <1>1 DEF WatchOK, WatchTypes
<1>3. Pending(b)' \subseteq Pending(b)
  BY <1>1 DEF Pending
<1>4. Announcers(b)' \subseteq Announcers(b)
  BY <1>1 DEF Announcers
<1>5. /\ Cardinality(Pending(b)') <= Cardinality(Pending(b))
      /\ Cardinality(Pending(b)') \in Nat /\ Cardinality(Pending(b)) \in Nat
  BY <1>3, PendingJobs, FewerPending
<1>6. count'[b] + Cardinality(Pending(b)') <= Len(JobSeq[b])
  BY <1>5, JobsOfBuild DEF WatchOK, Watching, WatchTypes
<1>7. \A i \in DOMAIN stream'[b] : watch'[b][stream'[b][i].job] = "done"
  <2> SUFFICES ASSUME NEW i \in DOMAIN stream[b]
               PROVE  watch'[b][stream[b][i].job] = "done"
    OBVIOUS
  <2>1. stream[b][i].job \in JobsOf(b) /\ watch[b][stream[b][i].job] = "done"
    BY Told
  <2> QED BY <1>1, <2>1
<1>8. \A k \in JobsOf(b) : watch'[b][k] \in {"counted", "update", "last"} => k \in finished'
  BY <1>1 DEF WatchOK, Watching
<1>9. /\ \A k, l \in Announcers(b)' : k = l
      /\ done'[b] => Announcers(b)' = {}
      /\ done'[b] \/ Announcers(b)' # {} => count'[b] = 0 /\ Pending(b)' = {}
  BY <1>3, <1>4 DEF WatchOK, Watching
<1>10. Watching(b)'
  BY <1>1, <1>6, <1>7, <1>8, <1>9 DEF Watching
<1> QED BY <1>1, <1>2, <1>10, WatchKept

\* A watcher counts its job, which was pending until now.
LEMMA CountedWatch ==
    ASSUME WatchOK, NEW b \in Builds, NEW j \in JobsOf(b), WatchFinished(b, j),
           finished' = finished
    PROVE  WatchOK'
<1> USE DEF WatchFinished
<1>1. /\ DOMAIN watch' = Builds /\ watch'[b] \in [JobsOf(b) -> WatcherStates]
      /\ watch'[b][j] = "counted" /\ \A k \in JobsOf(b) \ {j} : watch'[b][k] = watch[b][k]
      /\ \A c \in Builds \ {b} : UNCHANGED <<watch[c], bpc[c], pos[c]>>
      /\ bpc'[b] \in {"none", "loop", "locate"} =>
             \A i \in DOMAIN JobSeq[b] : i >= pos'[b] => watch'[b][JobSeq[b][i]] = "none"
  BY WatcherMoves DEF WatcherStates
<1>2. /\ count'[b] = count[b] + 1 /\ count' \in [Builds -> Nat] /\ count[b] \in Nat
      /\ \A c \in Builds \ {b} : UNCHANGED count[c]
  BY DEF WatchOK, WatchTypes
<1>3. WatchTypes'
  BY <1>1, <1>2 DEF WatchOK, WatchTypes
<1>4. j \in Pending(b) /\ j \notin Pending(b)' /\ Pending(b)' \subseteq Pending(b)
  BY <1>1 DEF Pending
<1>5. /\ Cardinality(Pending(b)') + 1 <= Cardinality(Pending(b))
      /\ Cardinality(Pending(b)') \in Nat /\ Cardinality(Pending(b)) \in Nat
  BY <1>4, PendingJobs, FewerPending
<1>6. count'[b] + Cardinality(Pending(b)') <= Len(JobSeq[b])
  BY <1>2, <1>5, JobsOfBuild DEF WatchOK, Watching
<1>7. ~done[b] /\ Announcers(b) = {}
  BY <1>4 DEF WatchOK, Watching
<1>8. Announcers(b)' = {}
  BY <1>1, <1>7 DEF Announcers
<1>9. \A i \in DOMAIN stream'[b] : watch'[b][stream'[b][i].job] = "done"
  <2> SUFFICES ASSUME NEW i \in DOMAIN stream[b]
               PROVE  watch'[b][stream[b][i].job] = "done"
    OBVIOUS
  <2>1. stream[b][i].job \in JobsOf(b) /\ watch[b][stream[b][i].job] = "done"
    BY Told
  <2> QED BY <1>1, <2>1
<1>10. \A k \in JobsOf(b) : watch'[b][k] \in {"counted", "update", "last"} => k \in finished'
  BY <1>1 DEF WatchOK, Watching
<1>11. Watching(b)'
  BY <1>1, <1>6, <1>7, <1>8, <1>9, <1>10 DEF Watching
<1> QED BY <1>1, <1>2, <1>3, <1>11, WatchKept

\* The watcher that swaps the full counter is the only one that announces.
LEMMA SwappedWatch ==
    ASSUME WatchOK, NEW b \in Builds, NEW j \in JobsOf(b), WatchSwap(b, j),
           result[j] # Nil, finished' = finished
    PROVE  WatchOK'
<1> USE DEF WatchSwap
<1>1. PICK s \in {"update", "last"} :
          /\ watch' = [watch EXCEPT ![b][j] = s]
          /\ s = "last" <=> count[b] = Len(JobSeq[b])
          /\ count' = IF s = "last" THEN [count EXCEPT ![b] = 0] ELSE count
  OBVIOUS
<1>2. /\ DOMAIN watch' = Builds /\ watch'[b] \in [JobsOf(b) -> WatcherStates]
      /\ watch'[b][j] = s /\ \A k \in JobsOf(b) \ {j} : watch'[b][k] = watch[b][k]
      /\ \A c \in Builds \ {b} : UNCHANGED <<watch[c], bpc[c], pos[c]>>
      /\ bpc'[b] \in {"none", "loop", "locate"} =>
             \A i \in DOMAIN JobSeq[b] : i >= pos'[b] => watch'[b][JobSeq[b][i]] = "none"
  <2>1. s \in WatcherStates \ {"none"} /\ watch[b][j] # "none"
    BY DEF WatcherStates
  <2> QED BY <1>1, <2>1, WatcherMoves
<1>3. /\ count'[b] = IF s = "last" THEN 0 ELSE count[b]
      /\ count' \in [Builds -> Nat] /\ count[b] \in Nat
      /\ \A c \in Builds \ {b} : UNCHANGED count[c]
  BY <1>1 DEF WatchOK, WatchTypes
<1>4. WatchTypes'
  BY <1>2, <1>3 DEF WatchOK, WatchTypes
<1>5. j \in finished
  BY DEF WatchOK, Watching
<1>6. Pending(b)' = Pending(b)
  BY <1>2, <1>5 DEF Pending
<1>7. /\ Cardinality(Pending(b)) \in Nat /\ Len(JobSeq[b]) \in Nat
      /\ Cardinality(Pending(b)) = 0 => Pending(b) = {}
      /\ count[b] + Cardinality(Pending(b)) <= Len(JobSeq[b])
  BY PendingJobs, FewerPending, JobsOfBuild DEF WatchOK, Watching
<1>8. count'[b] + Cardinality(Pending(b)') <= Len(JobSeq[b])
  BY <1>3, <1>6, <1>7
<1>9. CASE s = "update"
  <2>1. Announcers(b)' = Announcers(b)
    BY <1>2, <1>9 DEF Announcers
  <2> QED
    <3>1. Watching(b)'
      <4>1. \A i \in DOMAIN stream'[b] : watch'[b][stream'[b][i].job] = "done"
        <5> SUFFICES ASSUME NEW i \in DOMAIN stream[b]
                     PROVE  watch'[b][stream[b][i].job] = "done"
          OBVIOUS
        <5>1. stream[b][i].job \in JobsOf(b) /\ watch[b][stream[b][i].job] = "done"
          BY Told
        <5> QED BY <1>2, <5>1
      <4>2. /\ \A k \in JobsOf(b) :
                   watch'[b][k] \in {"counted", "update", "last"} => k \in finished'
            /\ done'[b] \/ Announcers(b)' # {} => count'[b] = 0 /\ Pending(b)' = {}
            /\ \A k, l \in Announcers(b)' : k = l
            /\ done'[b] => Announcers(b)' = {}
        BY <1>2, <1>3, <1>5, <1>6, <1>9, <2>1 DEF WatchOK, Watching
      <4> QED BY <1>2, <1>8, <4>1, <4>2 DEF Watching
    <3> QED BY <1>2, <1>3, <1>4, <3>1, WatchKept
<1>10. CASE s = "last"
  <2>1. Len(JobSeq[b]) > 0
    <3>1. JobSeq[b] # << >>
      BY DEF JobsOf, Range
    <3> QED BY <3>1, JobsOfBuild
  <2>2. ~done[b] /\ Announcers(b) = {} /\ Pending(b) = {}
    <3>1. count[b] # 0 /\ Cardinality(Pending(b)) = 0
      BY <1>1, <1>3, <1>7, <1>10, <2>1
    <3> QED BY <1>7, <3>1 DEF WatchOK, Watching
  <2>3. Announcers(b)' \subseteq {j}
    BY <1>2, <2>2 DEF Announcers
  <2>4. \A i \in DOMAIN stream'[b] : watch'[b][stream'[b][i].job] = "done"
    <3> SUFFICES ASSUME NEW i \in DOMAIN stream[b]
                 PROVE  watch'[b][stream[b][i].job] = "done"
      OBVIOUS
    <3>1. stream[b][i].job \in JobsOf(b) /\ watch[b][stream[b][i].job] = "done"
      BY Told
    <3> QED BY <1>2, <3>1
  <2>5. \A k \in JobsOf(b) : watch'[b][k] \in {"counted", "update", "last"} => k \in finished'
    BY <1>2, <1>5 DEF WatchOK, Watching
  <2>6. Watching(b)'
    BY <1>2, <1>3, <1>6, <1>8, <1>10, <2>2, <2>3, <2>4, <2>5 DEF Watching
  <2> QED BY <1>2, <1>3, <1>4, <2>6, WatchKept
<1> QED BY <1>9, <1>10

\* An update is sent; the one that announces the end is sent once.
LEMMA WrittenWatch ==
    ASSUME WatchOK, NEW b \in Builds, NEW j \in JobsOf(b), WatchWrite(b, j),
           result[j] \in Outcomes \cup {Nil}, finished' = finished
    PROVE  WatchOK'
<1> USE DEF WatchWrite
<1> DEFINE u == [job |-> j, result |-> result[j], last |-> watch[b][j] = "last"]
<1>1. /\ DOMAIN watch' = Builds /\ watch'[b] \in [JobsOf(b) -> WatcherStates]
      /\ watch'[b][j] = "done" /\ \A k \in JobsOf(b) \ {j} : watch'[b][k] = watch[b][k]
      /\ \A c \in Builds \ {b} : UNCHANGED <<watch[c], bpc[c], pos[c]>>
      /\ bpc'[b] \in {"none", "loop", "locate"} =>
             \A i \in DOMAIN JobSeq[b] : i >= pos'[b] => watch'[b][JobSeq[b][i]] = "none"
  BY WatcherMoves DEF WatcherStates
<1>2. u \in Updates(b) /\ u.job = j
  BY DEF Updates
<1>3. DOMAIN stream = Builds /\ stream[b] \in Seq(Updates(b))
  BY DEF WatchOK, WatchTypes
<1>4. /\ DOMAIN stream' = Builds /\ stream'[b] = Append(stream[b], u)
      /\ \A c \in Builds \ {b} : UNCHANGED stream[c]
  BY <1>3
<1>5. /\ stream'[b] \in Seq(Updates(b))
      /\ \A i \in DOMAIN stream'[b] : stream'[b][i] = u \/ \E k \in DOMAIN stream[b] :
                                          stream'[b][i] = stream[b][k]
  BY <1>2, <1>3, <1>4
<1>6. ~done[b] \/ watch[b][j] # "last"
  BY DEF WatchOK, Watching, Announcers
<1>7. /\ done' \in [Builds -> BOOLEAN] /\ \A c \in Builds \ {b} : UNCHANGED done[c]
      /\ done'[b] <=> done[b] \/ watch[b][j] = "last"
      /\ crashed' => crashed
  BY <1>6 DEF WatchOK, WatchTypes
<1>8. WatchTypes'
  BY <1>1, <1>4, <1>5, <1>7 DEF WatchOK, WatchTypes
<1>9. j \in finished
  BY DEF WatchOK, Watching
<1>10. Pending(b)' = Pending(b)
  BY <1>1, <1>9 DEF Pending
<1>11. Announcers(b)' = Announcers(b) \ {j} /\ (watch[b][j] = "last" => j \in Announcers(b))
  BY <1>1 DEF Announcers
<1>12. \A i \in DOMAIN stream'[b] : watch'[b][stream'[b][i].job] = "done"
  <2> SUFFICES ASSUME NEW i \in DOMAIN stream'[b]
               PROVE  watch'[b][stream'[b][i].job] = "done"
    OBVIOUS
  <2>1. CASE stream'[b][i] = u
    BY <1>1, <1>2, <2>1
  <2>2. ASSUME NEW k \in DOMAIN stream[b], stream'[b][i] = stream[b][k]
        PROVE  watch'[b][stream'[b][i].job] = "done"
    <3>1. stream[b][k].job \in JobsOf(b) /\ watch[b][stream[b][k].job] = "done"
      BY Told
    <3> QED BY <1>1, <2>2, <3>1
  <2> QED BY <1>5, <2>1, <2>2
<1>13. \A k \in JobsOf(b) : watch'[b][k] \in {"counted", "update", "last"} => k \in finished'
  BY <1>1 DEF WatchOK, Watching
<1>14. count'[b] + Cardinality(Pending(b)') <= Len(JobSeq[b])
  BY <1>10 DEF WatchOK, Watching
<1>15. /\ done'[b] \/ Announcers(b)' # {} => count'[b] = 0 /\ Pending(b)' = {}
       /\ \A k, l \in Announcers(b)' : k = l
       /\ done'[b] => Announcers(b)' = {}
  BY <1>7, <1>10, <1>11 DEF WatchOK, Watching
<1>16. Watching(b)'
  BY <1>1, <1>12, <1>13, <1>14, <1>15 DEF Watching
<1> QED BY <1>1, <1>4, <1>7, <1>8, <1>16, WatchKept
LEMMA StepWatch ==
    ASSUME CInv, [CoordNext]_coordVars
    PROVE  WatchOK'
<1>1. [Next]_vars /\ IInv /\ SignalOK /\ WatchOK
  BY CoordCalls DEF CInv
<1>2. finished \subseteq finished'
  <2>1. UNCHANGED <<finished, result>> \/ \E j \in Jobs : finished' = finished \cup {j}
    BY <1>1, StepOutcome
  <2> QED BY <2>1
<1>3. ASSUME UNCHANGED bsVars
      PROVE  WatchOK'
  <2>1. UNCHANGED <<hpc, bpc, pos, watch, count, stream, done, crashed>>
    BY <1>3 DEF bsVars
  <2>2. \A b \in Builds : Watching(b)'
    BY <1>1, <1>2, <2>1, WatchingKept DEF WatchOK
  <2> QED BY <1>1, <2>1, <2>2 DEF WatchOK, WatchTypes
<1>4. ASSUME NEW b \in Builds, NEW j \in JobsOf(b), WatchStep(b, j)
      PROVE  WatchOK'
  <2> USE <1>4
  <2>1. UNCHANGED vars
    BY DEF WatchStep, WatchFinished, WatchCancelled, WatchSwap, WatchWrite,
           WatchWriteFails, WatchWriteLate
  <2>2. finished' = finished /\ result[j] \in Outcomes \cup {Nil}
    BY <1>1, <2>1, JobsOfBuild DEF vars, jobVars, IInv, TypeOK
  <2>3. CASE WatchFinished(b, j)
    BY <1>1, <2>2, <2>3, CountedWatch
  <2>4. CASE WatchSwap(b, j)
    <3>1. j \in finished
      BY <1>1, <2>4 DEF WatchSwap, WatchOK, Watching
    <3>2. result[j] # Nil
      BY <3>1 DEF CInv, BatchOK
    <3> QED BY <1>1, <2>2, <2>4, <3>2, SwappedWatch
  <2>5. CASE WatchWrite(b, j)
    BY <1>1, <2>2, <2>5, WrittenWatch
  <2>6. CASE WatchCancelled(b, j) \/ WatchWriteFails(b, j) \/ WatchWriteLate(b, j)
    <3>1. /\ watch' = [watch EXCEPT ![b][j] = "done"] /\ watch[b][j] # "none"
          /\ UNCHANGED <<bpc, pos, hpc, count, done, stream>>
          /\ crashed' => crashed \/ hpc[b] = "returned"
      BY <2>6 DEF WatchCancelled, WatchWriteFails, WatchWriteLate
    <3> QED BY <1>1, <2>2, <3>1, EndedWatch
  <2> QED BY <2>3, <2>4, <2>5, <2>6 DEF WatchStep
<1>5. ASSUME NEW b \in Builds, ScheduleReturn(b)
      PROVE  WatchOK'
  <2>1. bpc[b] = "loop"
    BY <1>1, <1>5 DEF ScheduleReturn, ScheduleKnown, Push, SignalOK, Signalling
  <2> QED BY <1>1, <1>2, <1>5, <2>1, ScheduledWatch
<1>6. ASSUME NEW b \in Builds,
             \/ StartStep(b) \/ ClientGone(b) \/ SignalBegin(b) \/ SignalStep(b)
             \/ ScheduleLock(b)
      PROVE  WatchOK'
  BY <1>1, <1>2, <1>6, QuietWatch DEF SignalOK
<1>7. BSNext \/ UNCHANGED bsVars
  BY DEF CoordNext, CoordStop, coordVars
<1> QED BY <1>3, <1>4, <1>5, <1>6, <1>7 DEF BSNext

-----------------------------------------------------------------------------
(* The theorems                                                            *)

LEMMA InitCInv == CoordInit => CInv
<1> SUFFICES ASSUME CoordInit PROVE CInv
  OBVIOUS
<1> USE DEF CoordInit, Init, HBInit, BSInit
<1>1. IInv
  BY InitIInv
<1>2. BatchOK
  <2>1. BatchTypes
    BY SlotsAssumption DEF BatchTypes
  <2>2. \A w \in Workers : at[w] = "idle" /\ HeldBy(w) = {}
    BY DEF HeldBy, Unreported, Threads
  <2>3. \A w \in Workers : Placed(w) /\ Reporting(w)
    BY <2>2 DEF Placed, Reporting
  <2> QED BY <2>1, <2>2, <2>3 DEF BatchOK, Received, HeldOnce
<1>3. SignalOK
  <2>1. \A b \in Builds : at[b] = "idle"
    BY DEF Threads
  <2>2. \A b \in Builds : Signalling(b)
    BY <2>1 DEF Signalling
  <2> QED BY <2>2 DEF SignalOK, SignalTypes, DepsReady, Range
<1>4. WatchOK
  <2>1. WatchTypes
    BY DEF WatchTypes, WatcherStates
  <2>2. ASSUME NEW b \in Builds
        PROVE  Watching(b)
    <3>1. \A j \in JobsOf(b) : watch[b][j] = "none"
      BY <2>2
    <3>2. Announcers(b) = {}
      BY <3>1 DEF Announcers
    <3>3. \A i \in DOMAIN JobSeq[b] : JobSeq[b][i] \in JobsOf(b)
      BY DEF JobsOf, Range
    <3>4. count[b] = 0 /\ Cardinality(Pending(b)) <= Len(JobSeq[b])
          /\ Cardinality(Pending(b)) \in Nat
      BY <2>2, PendingJobs, FewerPending
    <3> QED BY <2>2, <3>1, <3>2, <3>3, <3>4 DEF Watching
  <2> QED BY <2>1, <2>2 DEF WatchOK
<1> QED BY <1>1, <1>2, <1>3, <1>4 DEF CInv

\* The services keep the scheduler's invariant and their own.
THEOREM CoordInvariance == CoordSpec => []CInv
<1>1. CInv /\ [CoordNext]_coordVars => CInv'
  <2> SUFFICES ASSUME CInv, [CoordNext]_coordVars PROVE CInv'
    OBVIOUS
  <2>1. IInv /\ [Next]_vars
    BY CoordCalls DEF CInv
  <2>2. IInv'
    BY <2>1, StepTypes, StepLock, StepQueue, StepRecord DEF IInv
  <2> QED BY <2>1, <2>2, StepBatch, StepSignal, StepWatch DEF CInv
<1> QED BY <1>1, InitCInv, PTL DEF CoordSpec

\* The handlers call the scheduler only as module Scheduler lets them, so
\* whatever is proved there holds of the coordinator.
THEOREM CoordinatorUsesScheduler == CoordSpec => Spec
<1>1. CoordInit => Init
  BY DEF CoordInit
<1>2. CInv /\ [CoordNext]_coordVars => [Next]_vars
  BY CoordCalls
<1> QED BY <1>1, <1>2, CoordInvariance, PTL DEF CoordSpec, Spec

\* Heartbeats neither run a job twice nor forget one.
THEOREM JobsHeldOnce == CoordSpec => []HeldOnce
BY CoordInvariance, PTL DEF CInv, BatchOK

\* No heartbeat handler panics with "non schedule job finished".
THEOREM ReportsAreKnown == CoordSpec => []ReportsKnownJobs
<1>1. CInv => ReportsKnownJobs
  <2> SUFFICES ASSUME CInv, NEW w \in Workers, at[w] = "record" PROVE exist[w]
    BY DEF ReportsKnownJobs
  <2> QED BY DEF CInv, BatchOK, Reporting
<1> QED BY <1>1, CoordInvariance, PTL

\* A worker gets a job only after its dependencies are finished and located.
THEOREM DependenciesFirst == CoordSpec => []DepsReady
BY CoordInvariance, PTL DEF CInv, SignalOK

\* The jobs a job depends on.
Needed == [j \in Jobs |-> Range(Deps[j])]

\* SignalBuild waits for the dependencies of a job before it hands the job to the
\* scheduler: to the workers the table offers jobs in the order they rely on.
THEOREM CoordinatorOffersInOrder == CoordSpec => Table!OffersInOrder(Needed)
<1> DEFINE Order == \A j \in Jobs : Table!Offer(j) => \A d \in Needed[j] : outcomeOf[d] # Open
<1>1. CInv /\ CInv' => Order
  <2> SUFFICES ASSUME CInv, CInv', NEW j \in Jobs, Table!Offer(j), NEW d \in Range(Deps[j])
               PROVE  outcomeOf[d] # Open
    BY DEF Needed
  <2>1. j \in Range(queue') \cup handed' /\ outcomeOf' = outcomeOf
    BY DEF Table!Offer, phaseOf, Range
  <2>2. d \in finished' /\ d \in Jobs
    BY <2>1, JobSeqAssumption DEF CInv, SignalOK, DepsReady, Range
  <2>3. result'[d] \in Outcomes \cup {Nil}
    BY <2>2 DEF CInv, IInv, TypeOK
  <2>4. outcomeOf'[d] # Open
    BY <2>2, <2>3, OpenAssumption DEF outcomeOf
  <2> QED BY <2>1, <2>4
<1>2. CInv /\ CInv' => [Order]_(Table!vars)
  BY <1>1
<1> QED BY <1>2, CoordInvariance, PTL DEF Table!OffersInOrder

\* Only a write after StartBuild returned can end the coordinator's process:
\* BuildFinished is announced once, and no watcher reads a missing result.
THEOREM WatchersAreSafe == CoordSpec => []CrashesOnlyLate
<1>1. CInv => CrashesOnlyLate
  BY DEF CInv, BatchOK, WatchOK, CrashesOnlyLate
<1> QED BY <1>1, CoordInvariance, PTL

-----------------------------------------------------------------------------
(* The coordinator implements BuildContract                                *)

\* Steps that no client can tell.
LEMMA StutterContract ==
    ASSUME UNCHANGED <<finished, result, stream, done>>
    PROVE  UNCHANGED Contract!vars
BY DEF Contract!vars, outcomeOf

\* An update tells a client something new; the last one, that all is done.
LEMMA WriteContract ==
    ASSUME CInv, NEW b \in Builds, NEW j \in JobsOf(b), WatchWrite(b, j)
    PROVE  Contract!Next
<1> DEFINE last == watch[b][j] = "last"
<1> USE DEF WatchWrite
<1>1. /\ DOMAIN stream = Builds /\ done \in [Builds -> BOOLEAN] /\ b \in DOMAIN done
      /\ j \in Jobs /\ JobsOf(b) \subseteq Jobs
  BY JobsOfBuild DEF CInv, WatchOK, WatchTypes
<1>2. j \in finished /\ \A k \in Jobs : k \in finished => outcomeOf[k] = result[k]
  BY DEF CInv, WatchOK, Watching, outcomeOf
<1>3. \A k \in Jobs : k \in finished => outcomeOf[k] # Open
  BY <1>2, OpenAssumption DEF CInv, IInv, TypeOK
<1>4. \A i \in DOMAIN stream[b] : stream[b][i].job # j
  <2>1. \A i \in DOMAIN stream[b] : watch[b][stream[b][i].job] = "done"
    BY DEF CInv, WatchOK, Watching
  <2> QED BY <2>1
<1>5. UNCHANGED outcomeOf
  BY DEF vars, jobVars, outcomeOf
<1>6. Contract!Tell(b, j, last)
  BY <1>1, <1>2, <1>3, <1>4, <1>5 DEF Contract!Tell
<1>7. CASE ~last
  <2>1. Contract!TellMore(b, j)
    BY <1>6, <1>7 DEF Contract!TellMore
  <2> QED BY <2>1 DEF Contract!Next
<1>8. CASE last
  <2>1. j \in Announcers(b)
    BY <1>8 DEF Announcers
  <2>2. ~done[b] /\ Pending(b) = {}
    BY <2>1 DEF CInv, WatchOK, Watching
  <2>3. \A k \in JobsOf(b) : outcomeOf[k] # Open
    BY <1>1, <1>3, <2>2 DEF Pending
  <2>4. Contract!TellOver(b, j)
    BY <1>1, <1>6, <1>8, <2>2, <2>3 DEF Contract!TellOver
  <2> QED BY <2>4 DEF Contract!Next
<1> QED BY <1>7, <1>8

\* A report that is the first of its job decides the outcome.
LEMMA SettleContract ==
    ASSUME CInv, NEW w \in Workers, ReportSettle(w), UNCHANGED bsVars
    PROVE  [Contract!Next]_(Contract!vars)
<1> USE DEF ReportSettle, CompleteSettle
<1>1. arg[w] \in Jobs /\ res[w] \in Outcomes /\ UNCHANGED <<stream, done>>
  BY DEF CInv, IInv, ArgIsJob, Threads, BatchOK, Reporting, bsVars
<1>2. CASE arg[w] \in finished
  <2>1. UNCHANGED <<finished, result, stream, done>>
    BY <1>1, <1>2
  <2> QED BY <2>1, StutterContract
<1>3. CASE arg[w] \notin finished
  <2>1. result' = [result EXCEPT ![arg[w]] = res[w]] /\ finished' = finished \cup {arg[w]}
    BY <1>3
  <2>2. outcomeOf' = [outcomeOf EXCEPT ![arg[w]] = res[w]] /\ outcomeOf[arg[w]] = Open
    BY <1>1, <1>3, <2>1 DEF outcomeOf, CInv, IInv, TypeOK
  <2>3. Contract!Settle(arg[w], res[w])
    BY <1>1, <2>2 DEF Contract!Settle
  <2> QED BY <1>1, <2>3 DEF Contract!Next
<1> QED BY <1>2, <1>3

\* Step by step the coordinator settles a job, tells a client, or does nothing
\* a client could see.
LEMMA StepContract == CInv /\ [CoordNext]_coordVars => [Contract!Next]_(Contract!vars)
<1> SUFFICES ASSUME CInv, [CoordNext]_coordVars PROVE [Contract!Next]_(Contract!vars)
  OBVIOUS
<1>1. CASE HBNext /\ UNCHANGED bsVars
  <2>1. PICK w \in Workers : Beat(w) \/ HandlerStep(w) \/ ReportSettle(w) \/ Die(w)
    BY <1>1 DEF HBNext
  <2>2. CASE ReportSettle(w)
    BY <1>1, <2>2, SettleContract
  <2>3. CASE Beat(w) \/ HandlerStep(w) \/ Die(w)
    <3>1. UNCHANGED <<finished, result>>
      BY <2>3 DEF Beat, HandlerStep, Die, ReportEnter, ReportReturn, PickStart, FillStart,
                  FillSlot, FillNothing, Respond, Cancelled, HandlerStopped, CompleteEnter,
                  CompleteRecord, PickEnter, TryPickEnter, Receive, TryPickNothing,
                  PickCancel, vars, jobVars
    <3> QED BY <1>1, <3>1, StutterContract DEF bsVars
  <2> QED BY <2>1, <2>2, <2>3
<1>2. CASE BSNext
  <2>1. UNCHANGED <<finished, result>>
    BY <1>2, BuildsApart DEF CInv
  <2>2. ASSUME NEW b \in Builds, NEW j \in JobsOf(b), WatchWrite(b, j)
        PROVE  Contract!Next
    BY <2>2, WriteContract
  <2>3. \/ \E b \in Builds : \E j \in JobsOf(b) : WatchWrite(b, j)
        \/ UNCHANGED <<stream, done>>
    BY <1>2 DEF BSNext, StartStep, StartBuild, StartFails, StartReturn, ClientGone,
         SignalBegin, SignalStep, DepFinished, DepCancelled, Locate, LocateNothing,
         ScheduleBegin, ScheduleLock, ScheduleReturn, SignalStopped, SignalReturn,
         WatchStep, WatchFinished, WatchCancelled, WatchSwap, WatchWriteFails,
         WatchWriteLate, bsVars
  <2> QED BY <2>1, <2>2, <2>3, StutterContract
<1>3. CASE CoordStop \/ UNCHANGED coordVars
  <2>1. UNCHANGED <<finished, result, stream, done>>
    BY <1>3 DEF CoordStop, Stop, coordVars, bsVars, vars, jobVars
  <2> QED BY <2>1, StutterContract
<1> QED BY <1>1, <1>2, <1>3 DEF CoordNext

\* Goroutines, channel, locks and heartbeats together keep the contract: one
\* outcome per job, told at most once to each build, and one end per build.
THEOREM CoordinatorKeepsContract == CoordSpec => ImplementsContract
<1>1. CoordInit => Contract!Init
  BY DEF CoordInit, Init, BSInit, Contract!Init, outcomeOf
<1>2. CInv /\ [CoordNext]_coordVars => [Contract!Next]_(Contract!vars)
  BY StepContract
<1> QED BY <1>1, <1>2, CoordInvariance, PTL DEF CoordSpec, ImplementsContract, Contract!Spec
=============================================================================
