---------------------------- MODULE BuildService ----------------------------
(***************************************************************************)
(* pkg/dist/build_service.go with the handlers and the status stream of    *)
(* pkg/api that serve a build: the StartBuild handler, the SignalBuild     *)
(* goroutine that schedules the jobs of the build in topological order,    *)
(* and one watcher goroutine per job that reports it on the stream.        *)
(*                                                                         *)
(* SignalBuild passes hb.Before only after StartBuild passed hb.Happen:    *)
(* here that is the guard of SignalBegin; module HappensBefore is about    *)
(* hb itself.  Files of the build are not modelled.                        *)
(***************************************************************************)
EXTENDS Scheduler, FiniteSets

CONSTANTS JobSeq,   \* JobSeq[b]: the jobs of build b, as TopSort returned them
          Deps,     \* Deps[j]: the dependencies of job j, in order
          MaxGone   \* bound on the clients that disconnect

JobsOf(b) == Range(JobSeq[b])

\* What TopSort gives SignalBuild: every job once, after its dependencies.  A
\* dependency that is no job of the build, for which SignalBuild panics, is left
\* to module Client.
ASSUME JobSeqAssumption ==
    /\ JobSeq \in [Builds -> Seq(Jobs)]
    /\ Deps \in [Jobs -> Seq(Jobs)]
    /\ \A b \in Builds : IsInjective(JobSeq[b])
    /\ \A b \in Builds : \A i \in DOMAIN JobSeq[b] :
           \A d \in Range(Deps[JobSeq[b][i]]) : \E k \in 1..(i - 1) : JobSeq[b][k] = d

ASSUME MaxGoneAssumption == MaxGone \in Nat

VARIABLES hpc,      \* hpc[b]: the StartBuild handler
          bpc,      \* bpc[b]: SignalBuild
          pos,      \* pos[b]: the job SignalBuild is at
          dep,      \* dep[b]: the dependency of that job it is at
          watch,    \* watch[b][j]: the watcher of job j of build b
          count,    \* count[b]: finishedJobCount
          errs,     \* errs[b]: some error was appended to errs
          stream,   \* stream[b]: updates the client was sent after Started
          done,     \* done[b]: the stream's done channel is closed
          gone,     \* builds whose client has disconnected
          crashed   \* the coordinator's process has panicked

bsVars == <<hpc, bpc, pos, dep, watch, count, errs, stream, done, gone, crashed>>

BSInit == /\ hpc     = [b \in Builds |-> "none"]
          /\ bpc     = [b \in Builds |-> "none"]
          /\ pos     = [b \in Builds |-> 1]
          /\ dep     = [b \in Builds |-> 1]
          /\ watch   = [b \in Builds |-> [j \in JobsOf(b) |-> "none"]]
          /\ count   = [b \in Builds |-> 0]
          /\ errs    = [b \in Builds |-> FALSE]
          /\ stream  = [b \in Builds |-> << >>]
          /\ done    = [b \in Builds |-> FALSE]
          /\ gone    = {}
          /\ crashed = FALSE

-----------------------------------------------------------------------------
(* The StartBuild handler                                                  *)

\* Started is sent, the graph is sorted, the three maps are stored.
StartBuild(b) ==
    /\ hpc[b] = "none"
    /\ hpc' = [hpc EXCEPT ![b] = "streaming"]
    /\ UNCHANGED <<bpc, pos, dep, watch, count, errs, stream, done, gone, crashed, vars>>

\* Sending Started fails: the handler returns an error, no build exists.
StartFails(b) ==
    /\ hpc[b] = "none"
    /\ b \in gone
    /\ hpc' = [hpc EXCEPT ![b] = "returned"]
    /\ UNCHANGED <<bpc, pos, dep, watch, count, errs, stream, done, gone, crashed, vars>>

\* <-done: the handler returns and its ResponseWriter is dead from now on.
StartReturn(b) ==
    /\ hpc[b] = "streaming"
    /\ done[b]
    /\ hpc' = [hpc EXCEPT ![b] = "returned"]
    /\ UNCHANGED <<bpc, pos, dep, watch, count, errs, stream, done, gone, crashed, vars>>

\* The client's process ends or its connections break.
ClientGone(b) ==
    /\ b \notin gone
    /\ Cardinality(gone) < MaxGone
    /\ gone' = gone \cup {b}
    /\ UNCHANGED <<hpc, bpc, pos, dep, watch, count, errs, stream, done, crashed, vars>>

-----------------------------------------------------------------------------
(* SignalBuild                                                             *)

\* The context of the signal request: done when the client is gone, and
\* net/http cancels it when the handler has returned or panicked.
Returned(b) == bpc[b] \in {"ok", "error", "panic"}
CtxDone(b)  == b \in gone \/ Returned(b)

TheJob(b)  == JobSeq[b][pos[b]]
TheDeps(b) == Deps[TheJob(b)]
TheDep(b)  == TheDeps(b)[dep[b]]

\* The client has read Started, uploaded its files and signals UploadDone.
SignalBegin(b) ==
    /\ bpc[b] = "none"
    /\ hpc[b] = "streaming"
    /\ b \notin gone
    /\ bpc' = [bpc EXCEPT ![b] = IF JobSeq[b] = << >> THEN "wait" ELSE "loop"]
    /\ UNCHANGED <<hpc, pos, dep, watch, count, errs, stream, done, gone, crashed, vars>>

\* case <-depPending.Finished
DepFinished(b) ==
    /\ bpc[b] = "loop"
    /\ at[b] = "idle"
    /\ dep[b] <= Len(TheDeps(b))
    /\ TheDep(b) \in finished
    /\ bpc' = [bpc EXCEPT ![b] = "locate"]
    /\ UNCHANGED <<hpc, pos, dep, watch, count, errs, stream, done, gone, crashed, vars>>

\* case <-ctx.Done(), while waiting for a dependency
DepCancelled(b) ==
    /\ bpc[b] = "loop"
    /\ at[b] = "idle"
    /\ dep[b] <= Len(TheDeps(b))
    /\ CtxDone(b)
    /\ bpc' = [bpc EXCEPT ![b] = "error"]
    /\ UNCHANGED <<hpc, pos, dep, watch, count, errs, stream, done, gone, crashed, vars>>

\* LocateArtifact names a worker for the dependency.
Locate(b) ==
    /\ bpc[b] = "locate"
    /\ ~isStop
    /\ Locations(TheDep(b)) # {}
    /\ bpc' = [bpc EXCEPT ![b] = "loop"]
    /\ dep' = [dep EXCEPT ![b] = @ + 1]
    /\ UNCHANGED <<hpc, pos, watch, count, errs, stream, done, gone, crashed, vars>>

\* A fault for LocateNothing: the boolean of LocateArtifact is ignored.
LocateIgnored(b) ==
    /\ bpc[b] = "locate"
    /\ ~isStop
    /\ Locations(TheDep(b)) = {}
    /\ bpc' = [bpc EXCEPT ![b] = "loop"]
    /\ dep' = [dep EXCEPT ![b] = @ + 1]
    /\ UNCHANGED <<hpc, pos, watch, count, errs, stream, done, gone, crashed, vars>>

\* LocateArtifact knows no worker: panic("top sort does not work").
LocateNothing(b) ==
    /\ bpc[b] = "locate"
    /\ ~isStop
    /\ Locations(TheDep(b)) = {}
    /\ bpc' = [bpc EXCEPT ![b] = "panic"]
    /\ UNCHANGED <<hpc, pos, dep, watch, count, errs, stream, done, gone, crashed, vars>>

\* Every dependency is located: the job is handed to the scheduler.
ScheduleBegin(b) ==
    /\ bpc[b] = "loop"
    /\ dep[b] > Len(TheDeps(b))
    /\ ScheduleEnter(b, TheJob(b))
    /\ UNCHANGED bsVars

ScheduleLock(b) ==
    /\ ScheduleNew(b)
    /\ UNCHANGED bsVars

\* ScheduleJob returned: the job gets its watcher, the loop goes on.
ScheduleReturn(b) ==
    /\ ScheduleKnown(b) \/ Push(b)
    /\ watch' = [watch EXCEPT ![b][TheJob(b)] = "wait"]
    /\ IF pos[b] < Len(JobSeq[b])
         THEN /\ pos' = [pos EXCEPT ![b] = @ + 1]
              /\ dep' = [dep EXCEPT ![b] = 1]
              /\ UNCHANGED bpc
         ELSE /\ bpc' = [bpc EXCEPT ![b] = "wait"]
              /\ UNCHANGED <<pos, dep>>
    /\ UNCHANGED <<hpc, count, errs, stream, done, gone, crashed>>

\* After Stop the next scheduler call panics.
SignalStopped(b) ==
    /\ isStop
    /\ at[b] = "idle"
    /\ bpc[b] = "locate" \/ (bpc[b] = "loop" /\ dep[b] > Len(TheDeps(b)))
    /\ bpc' = [bpc EXCEPT ![b] = "panic"]
    /\ UNCHANGED <<hpc, pos, dep, watch, count, errs, stream, done, gone, crashed, vars>>

\* wg.Wait() returns; so does SignalBuild, with the first error if there is
\* one.  The watchers append to errs without a lock: an append may be lost to
\* another one, but the slice never becomes empty again.
SignalReturn(b) ==
    /\ bpc[b] = "wait"
    /\ \A j \in JobsOf(b) : watch[b][j] = "done"
    /\ bpc' = [bpc EXCEPT ![b] = IF errs[b] \/ b \in gone THEN "error" ELSE "ok"]
    /\ UNCHANGED <<hpc, pos, dep, watch, count, errs, stream, done, gone, crashed, vars>>

-----------------------------------------------------------------------------
(* The watchers                                                            *)

\* case <-pending.Finished: finishedJobCount.Add(1)
WatchFinished(b, j) ==
    /\ watch[b][j] = "wait"
    /\ j \in finished
    /\ count' = [count EXCEPT ![b] = @ + 1]
    /\ watch' = [watch EXCEPT ![b][j] = "counted"]
    /\ UNCHANGED <<hpc, bpc, pos, dep, errs, stream, done, gone, crashed, vars>>

\* case <-ctx.Done()
WatchCancelled(b, j) ==
    /\ watch[b][j] = "wait"
    /\ CtxDone(b)
    /\ errs'  = [errs EXCEPT ![b] = TRUE]
    /\ watch' = [watch EXCEPT ![b][j] = "done"]
    /\ UNCHANGED <<hpc, bpc, pos, dep, count, stream, done, gone, crashed, vars>>

\* Faults for WatchSwap: the count is loaded and not swapped; or it is
\* compared with one job less.
WatchLoad(b, j) ==
    /\ watch[b][j] = "counted"
    /\ watch' = [watch EXCEPT ![b][j] =
                   IF count[b] = Len(JobSeq[b]) THEN "last" ELSE "update"]
    /\ UNCHANGED <<hpc, bpc, pos, dep, count, errs, stream, done, gone, crashed, vars>>

WatchSwapEarly(b, j) ==
    /\ watch[b][j] = "counted"
    /\ IF count[b] + 1 = Len(JobSeq[b])
         THEN /\ count' = [count EXCEPT ![b] = 0]
              /\ watch' = [watch EXCEPT ![b][j] = "last"]
         ELSE /\ watch' = [watch EXCEPT ![b][j] = "update"]
              /\ UNCHANGED count
    /\ UNCHANGED <<hpc, bpc, pos, dep, errs, stream, done, gone, crashed, vars>>

\* pending.Result is read (a nil result is a nil dereference) and the one
\* watcher that swaps the full count to zero will announce BuildFinished.
WatchSwap(b, j) ==
    /\ watch[b][j] = "counted"
    /\ IF result[j] = Nil
         THEN /\ crashed' = TRUE
              /\ UNCHANGED <<watch, count>>
         ELSE /\ IF count[b] = Len(JobSeq[b])
                   THEN /\ count' = [count EXCEPT ![b] = 0]
                        /\ watch' = [watch EXCEPT ![b][j] = "last"]
                   ELSE /\ watch' = [watch EXCEPT ![b][j] = "update"]
                        /\ UNCHANGED count
              /\ UNCHANGED crashed
    /\ UNCHANGED <<hpc, bpc, pos, dep, errs, stream, done, gone, vars>>

\* sw.Updated while the StartBuild handler is alive: the update is sent and
\* BuildFinished closes done, which panics if it is closed already.
WatchWrite(b, j) ==
    /\ watch[b][j] \in {"update", "last"}
    /\ hpc[b] = "streaming"
    /\ stream' = [stream EXCEPT ![b] =
           Append(@, [job |-> j, result |-> result[j], last |-> watch[b][j] = "last"])]
    /\ IF watch[b][j] = "last"
         THEN /\ done' = [done EXCEPT ![b] = TRUE]
              /\ crashed' = done[b]
         ELSE UNCHANGED <<done, crashed>>
    /\ watch' = [watch EXCEPT ![b][j] = "done"]
    /\ UNCHANGED <<hpc, bpc, pos, dep, count, errs, gone, vars>>

\* The write fails: the client is gone, or the handler has returned and the
\* ResponseWriter may not be used any more.  done stays as it is.
WatchWriteFails(b, j) ==
    /\ watch[b][j] \in {"update", "last"}
    /\ b \in gone \/ hpc[b] = "returned"
    /\ errs'  = [errs EXCEPT ![b] = TRUE]
    /\ watch' = [watch EXCEPT ![b][j] = "done"]
    /\ UNCHANGED <<hpc, bpc, pos, dep, count, stream, done, gone, crashed, vars>>

\* A write on a ResponseWriter whose handler has returned may also be taken
\* for sent and lost, or touch freed buffers and panic in this goroutine.
WatchWriteLate(b, j) ==
    /\ watch[b][j] \in {"update", "last"}
    /\ hpc[b] = "returned"
    /\ \/ UNCHANGED crashed
       \/ crashed' = TRUE
    /\ watch' = [watch EXCEPT ![b][j] = "done"]
    /\ UNCHANGED <<hpc, bpc, pos, dep, count, errs, stream, done, gone, vars>>

StartStep(b) == StartBuild(b) \/ StartFails(b) \/ StartReturn(b)

SignalStep(b) == \/ DepFinished(b)    \/ DepCancelled(b)
                 \/ Locate(b)         \/ LocateNothing(b)
                 \/ ScheduleBegin(b)  \/ SignalStopped(b)
                 \/ SignalReturn(b)

WatchStep(b, j) == \/ WatchFinished(b, j) \/ WatchCancelled(b, j)
                   \/ WatchSwap(b, j)     \/ WatchWrite(b, j)
                   \/ WatchWriteFails(b, j) \/ WatchWriteLate(b, j)

BSNext == \E b \in Builds : \/ StartStep(b)
                            \/ SignalBegin(b)
                            \/ SignalStep(b)
                            \/ ScheduleLock(b)
                            \/ ScheduleReturn(b)
                            \/ ClientGone(b)
                            \/ \E j \in JobsOf(b) : WatchStep(b, j)
=============================================================================
