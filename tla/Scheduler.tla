----------------------------- MODULE Scheduler -----------------------------
(***************************************************************************)
(* pkg/scheduler: the job map under jobsMu, the buffered channel of        *)
(* pending jobs, the artifact lists under artifactsMu, and the calls the   *)
(* coordinator's handlers make on them from their own goroutines.          *)
(*                                                                         *)
(* A call is split where another goroutine can run in between: after the   *)
(* check of isStop, while ScheduleJob is blocked in a send on the channel  *)
(* (it holds jobsMu meanwhile), and between the two critical sections of   *)
(* OnJobComplete.  artifactsMu is never held across a step, so it needs    *)
(* no variable.                                                            *)
(***************************************************************************)
EXTENDS Naturals, Sequences, Functions

CONSTANTS Jobs,      \* build.ID of jobs
          Builds,    \* builds; the SignalBuild goroutine of each calls ScheduleJob
          Workers,   \* api.WorkerID; its heartbeat handler is a goroutine too
          Outcomes,  \* api.JobResult values a report may carry
          Nil,       \* the nil *api.JobResult
          NoJob,     \* the argument of a goroutine that is in no call
          NoOwner,   \* jobsMu when nobody holds it
          Open,      \* the outcome of a job whose Finished channel is open
          Capacity,  \* buffer of the channel: 10_000 in queue.go
          MaxKept    \* locations kept per artifact: 4 in OnJobComplete

Threads == Builds \cup Workers

ASSUME CapacityAssumption == Capacity \in Nat \ {0}
ASSUME MaxKeptAssumption  == MaxKept \in Nat \ {0}
ASSUME NilAssumption      == Nil \notin Outcomes
ASSUME OpenAssumption     == Open \notin Outcomes \cup {Nil}
ASSUME NoOwnerAssumption  == NoOwner \notin Threads
ASSUME ThreadAssumption   == Builds \cap Workers = {}

VARIABLES isStop,     \* the isStop channel is closed
          jobsMu,     \* goroutine that holds jobsMu between two steps
          jobs,       \* keys of the jobs map
          finished,   \* jobs whose Finished channel is closed
          result,     \* result[j]: PendingJob.Result
          queue,      \* the channel's buffer
          handed,     \* history: jobs received from the channel
          artifacts,  \* artifacts[j]: workers that reported j, oldest first
          at,         \* at[t]: where goroutine t is in a scheduler call
          arg,        \* arg[t]: the job the call is about
          res,        \* res[t]: the result OnJobComplete was given
          exist       \* exist[t]: what OnJobComplete is about to return

jobVars  == <<jobs, finished, result>>
callVars == <<at, arg, res, exist>>
vars == <<isStop, jobsMu, jobs, finished, result, queue, handed, artifacts,
          at, arg, res, exist>>

Init == /\ isStop    = FALSE
        /\ jobsMu    = NoOwner
        /\ jobs      = {}
        /\ finished  = {}
        /\ result    = [j \in Jobs |-> Nil]
        /\ queue     = << >>
        /\ handed    = {}
        /\ artifacts = [j \in Jobs |-> << >>]
        /\ at        = [t \in Threads |-> "idle"]
        /\ arg       = [t \in Threads |-> NoJob]
        /\ res       = [t \in Threads |-> Nil]
        /\ exist     = [t \in Threads |-> FALSE]

-----------------------------------------------------------------------------
(* ScheduleJob                                                             *)

\* Goroutine t leaves the call it is in.
Return(t) == /\ at'    = [at    EXCEPT ![t] = "idle"]
             /\ arg'   = [arg   EXCEPT ![t] = NoJob]
             /\ res'   = [res   EXCEPT ![t] = Nil]
             /\ exist' = [exist EXCEPT ![t] = FALSE]

\* The entry check: after Stop the call panics and changes nothing.
ScheduleEnter(t, j) ==
    /\ at[t] = "idle"
    /\ ~isStop
    /\ at'  = [at  EXCEPT ![t] = "schedule"]
    /\ arg' = [arg EXCEPT ![t] = j]
    /\ UNCHANGED <<isStop, jobsMu, jobVars, queue, handed, artifacts, res, exist>>

\* The job is known: its PendingJob is returned.
ScheduleKnown(t) ==
    /\ at[t] = "schedule"
    /\ jobsMu = NoOwner
    /\ arg[t] \in jobs
    /\ Return(t)
    /\ UNCHANGED <<isStop, jobsMu, jobVars, queue, handed, artifacts>>

\* A fault for ScheduleNew: the map is not consulted.
ScheduleAgain(t) ==
    /\ at[t] = "schedule"
    /\ jobsMu = NoOwner
    /\ jobsMu' = t
    /\ at' = [at EXCEPT ![t] = "push"]
    /\ UNCHANGED <<isStop, jobVars, queue, handed, artifacts, arg, res, exist>>

\* The job is new: the send on the channel starts, with jobsMu held.
ScheduleNew(t) ==
    /\ at[t] = "schedule"
    /\ jobsMu = NoOwner
    /\ arg[t] \notin jobs
    /\ jobsMu' = t
    /\ at' = [at EXCEPT ![t] = "push"]
    /\ UNCHANGED <<isStop, jobVars, queue, handed, artifacts, arg, res, exist>>

\* A fault for Push: the new job is sent but not stored in the map.
PushUnstored(t) ==
    /\ at[t] = "push"
    /\ Len(queue) < Capacity
    /\ queue'  = Append(queue, arg[t])
    /\ jobsMu' = NoOwner
    /\ Return(t)
    /\ UNCHANGED <<isStop, jobVars, handed, artifacts>>

\* There is room in the buffer.  The send and the store into the map are one
\* step: only a receive can run between them, and it does not read the map.
Push(t) ==
    /\ at[t] = "push"
    /\ Len(queue) < Capacity
    /\ queue'  = Append(queue, arg[t])
    /\ jobs'   = jobs \cup {arg[t]}
    /\ jobsMu' = NoOwner
    /\ Return(t)
    /\ UNCHANGED <<isStop, finished, result, handed, artifacts>>

-----------------------------------------------------------------------------
(* OnJobComplete                                                           *)

CompleteEnter(w, j, r) ==
    /\ at[w] = "idle"
    /\ ~isStop
    /\ at'  = [at  EXCEPT ![w] = "complete"]
    /\ arg' = [arg EXCEPT ![w] = j]
    /\ res' = [res EXCEPT ![w] = r]
    /\ UNCHANGED <<isStop, jobsMu, jobVars, queue, handed, artifacts, exist>>

\* Faults for CompleteSettle: it does not wait for jobsMu; a later report
\* replaces the result; a report of an unknown job skips the artifact list.
SettleUnlocked(w) ==
    /\ at[w] = "complete"
    /\ exist' = [exist EXCEPT ![w] = arg[w] \in jobs]
    /\ jobs'  = jobs \cup {arg[w]}
    /\ finished' = finished \cup {arg[w]}
    /\ result' = IF arg[w] \in finished THEN result ELSE [result EXCEPT ![arg[w]] = res[w]]
    /\ at' = [at EXCEPT ![w] = "record"]
    /\ UNCHANGED <<isStop, jobsMu, queue, handed, artifacts, arg, res>>

SettleAgain(w) ==
    /\ at[w] = "complete"
    /\ jobsMu = NoOwner
    /\ exist' = [exist EXCEPT ![w] = arg[w] \in jobs]
    /\ jobs'  = jobs \cup {arg[w]}
    /\ finished' = finished \cup {arg[w]}
    /\ result' = [result EXCEPT ![arg[w]] = res[w]]
    /\ at' = [at EXCEPT ![w] = "record"]
    /\ UNCHANGED <<isStop, jobsMu, queue, handed, artifacts, arg, res>>

SettleUnrecorded(w) ==
    /\ at[w] = "complete"
    /\ jobsMu = NoOwner
    /\ jobs'  = jobs \cup {arg[w]}
    /\ finished' = finished \cup {arg[w]}
    /\ result' = IF arg[w] \in finished THEN result ELSE [result EXCEPT ![arg[w]] = res[w]]
    /\ IF arg[w] \in jobs
         THEN /\ at' = [at EXCEPT ![w] = "record"]
              /\ exist' = [exist EXCEPT ![w] = TRUE]
              /\ UNCHANGED <<arg, res>>
         ELSE Return(w)
    /\ UNCHANGED <<isStop, jobsMu, queue, handed, artifacts>>

\* First critical section: an unknown job gets a PendingJob that is never
\* queued; the first report stores its result and closes Finished.
CompleteSettle(w) ==
    /\ at[w] = "complete"
    /\ jobsMu = NoOwner
    /\ exist' = [exist EXCEPT ![w] = arg[w] \in jobs]
    /\ jobs'  = jobs \cup {arg[w]}
    /\ finished' = finished \cup {arg[w]}
    /\ result' = IF arg[w] \in finished
                   THEN result
                   ELSE [result EXCEPT ![arg[w]] = res[w]]
    /\ at' = [at EXCEPT ![w] = "record"]
    /\ UNCHANGED <<isStop, jobsMu, queue, handed, artifacts, arg, res>>

\* A fault for WithWorker: the list is never trimmed.
WithWorkerKept(ws, w) == Append(ws, w)

\* The list of a job's locations after worker w reported it.
WithWorker(ws, w) ==
    LET longer == Append(ws, w)
    IN  IF Len(longer) = MaxKept + 1 THEN Tail(longer) ELSE longer

\* A fault for CompleteRecord: the artifact list stays as it is.
RecordNothing(w) ==
    /\ at[w] = "record"
    /\ Return(w)
    /\ UNCHANGED <<isStop, jobsMu, jobVars, queue, handed, artifacts>>

\* Second critical section, under artifactsMu.
CompleteRecord(w) ==
    /\ at[w] = "record"
    /\ artifacts' = [artifacts EXCEPT ![arg[w]] = WithWorker(@, w)]
    /\ Return(w)
    /\ UNCHANGED <<isStop, jobsMu, jobVars, queue, handed>>

-----------------------------------------------------------------------------
(* PickJob, TryPickJob, LocateArtifact, Stop                               *)

PickEnter(w) ==
    /\ at[w] = "idle"
    /\ ~isStop
    /\ at' = [at EXCEPT ![w] = "pick"]
    /\ UNCHANGED <<isStop, jobsMu, jobVars, queue, handed, artifacts, arg, res, exist>>

TryPickEnter(w) ==
    /\ at[w] = "idle"
    /\ ~isStop
    /\ at' = [at EXCEPT ![w] = "trypick"]
    /\ UNCHANGED <<isStop, jobsMu, jobVars, queue, handed, artifacts, arg, res, exist>>

\* Either call returns the oldest pending job, Head(queue).
Receive(w) ==
    /\ at[w] \in {"pick", "trypick"}
    /\ queue # << >>
    /\ handed' = handed \cup {Head(queue)}
    /\ queue'  = Tail(queue)
    /\ Return(w)
    /\ UNCHANGED <<isStop, jobsMu, jobVars, artifacts>>

\* The default branch of TryPickJob: nothing is pending.
TryPickNothing(w) ==
    /\ at[w] = "trypick"
    /\ queue = << >>
    /\ Return(w)
    /\ UNCHANGED <<isStop, jobsMu, jobVars, queue, handed, artifacts>>

\* The caller's context is done: either call returns without a job, even if
\* the channel has one (select picks any ready branch).
PickCancel(w) ==
    /\ at[w] \in {"pick", "trypick"}
    /\ Return(w)
    /\ UNCHANGED <<isStop, jobsMu, jobVars, queue, handed, artifacts>>

\* The workers LocateArtifact may name; it says "not found" on an empty list.
Locations(j) == Range(artifacts[j])

Stop == /\ ~isStop
        /\ isStop' = TRUE
        /\ UNCHANGED <<jobsMu, jobVars, queue, handed, artifacts, callVars>>

-----------------------------------------------------------------------------
ScheduleStep(t) == \/ \E j \in Jobs : ScheduleEnter(t, j)
                   \/ ScheduleKnown(t)
                   \/ ScheduleNew(t)
                   \/ Push(t)

WorkerStep(w) == \/ \E j \in Jobs, r \in Outcomes \cup {Nil} : CompleteEnter(w, j, r)
                 \/ CompleteSettle(w)
                 \/ CompleteRecord(w)
                 \/ PickEnter(w)
                 \/ TryPickEnter(w)
                 \/ Receive(w)
                 \/ TryPickNothing(w)
                 \/ PickCancel(w)

Next == \/ \E t \in Builds : ScheduleStep(t)
        \/ \E w \in Workers : WorkerStep(w)
        \/ Stop

Spec == Init /\ [][Next]_vars

-----------------------------------------------------------------------------
(* Properties                                                              *)

\* Types; also, no artifact list outgrows MaxKept although OnJobComplete
\* trims it only when its length is exactly one more.
TypeOK == /\ isStop \in BOOLEAN
          /\ jobsMu \in Threads \cup {NoOwner}
          /\ jobs \subseteq Jobs
          /\ finished \subseteq Jobs
          /\ result \in [Jobs -> Outcomes \cup {Nil}]
          /\ queue \in Seq(Jobs) /\ Len(queue) <= Capacity
          /\ handed \subseteq Jobs
          /\ artifacts \in [Jobs -> Seq(Workers)]
          /\ \A j \in Jobs : Len(artifacts[j]) <= MaxKept
          /\ at \in [Threads -> {"idle", "schedule", "push", "complete",
                                 "record", "pick", "trypick"}]
          /\ arg \in [Threads -> Jobs \cup {NoJob}]
          /\ res \in [Threads -> Outcomes \cup {Nil}]
          /\ exist \in [Threads -> BOOLEAN]

\* jobsMu is held between steps only by the one goroutine that is sending on
\* the channel, and the job it sends is in the map of nobody yet.
PushHoldsLock == /\ \A t \in Threads : at[t] = "push" <=> jobsMu = t
                 /\ \A t \in Threads : at[t] = "push" => arg[t] \in Jobs \ jobs

\* A job is in the channel at most once, and never again after a worker
\* received it: no two PickJob calls return the same job.
OfferedOnce == /\ IsInjective(queue)
               /\ Range(queue) \cap handed = {}

\* The map forgets no job and invents none: a job is in it because it waits in
\* the channel, a worker has received it, or somebody has reported it.
Accounted == jobs = Range(queue) \cup handed \cup finished

\* While Finished is closed but LocateArtifact would still say "not found",
\* the report that closed it is on its way to the artifact list.
RecordOnTheWay ==
    \A j \in finished : artifacts[j] = << >> =>
        \E w \in Workers : at[w] = "record" /\ arg[w] = j

\* A closed Finished channel stays closed and the result behind it is the one
\* of the first report, however many workers report the job later.
FirstResultWins ==
    [][\A j \in finished : j \in finished' /\ result'[j] = result[j]]_vars

-----------------------------------------------------------------------------
(* The scheduler implements JobTable                                       *)

phaseOf == [j \in Jobs |-> IF j \in Range(queue) THEN "offered"
                           ELSE IF j \in handed THEN "taken" ELSE "absent"]

outcomeOf == [j \in Jobs |-> IF j \in finished THEN result[j] ELSE Open]

Table == INSTANCE JobTable WITH Outcomes <- Outcomes \cup {Nil},
                                phase <- phaseOf, outcome <- outcomeOf

\* Every call behaves as a step of JobTable or changes nothing it can see.
ImplementsJobTable == Table!Spec
=============================================================================
