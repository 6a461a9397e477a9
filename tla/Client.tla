------------------------------- MODULE Client -------------------------------
(***************************************************************************)
(* Client.Build of pkg/client with the API clients of pkg/api, against     *)
(* what it can see of the coordinator: StartBuild, which sorts the graph   *)
(* after it has sent BuildStarted; SignalBuild, which schedules a job when *)
(* its dependencies are finished, answers when every watcher has written   *)
(* its update, and fails on the way; and the status stream between them,   *)
(* which holds Room updates until the client reads.                        *)
(***************************************************************************)
EXTENDS TopSort, FiniteSets

CONSTANTS Files,   \* the files BuildStarted lists as missing
          Room     \* updates the stream's buffers hold: sockets, not code

ASSUME RoomAssumption == Room \in Nat \ {0}
ASSUME FilesAssumption == IsFiniteSet(Files)

VARIABLES pc,       \* where Build is
          checked,  \* missing files the loop has looked at
          up,       \* up[f]: the goroutine that uploads f
          stored,   \* files whose upload was answered with status 200
          errs,     \* the channel of the uploads, with room for one of each
          got,      \* how many of them Build has received
          signal,   \* the request SignalBuild: "no", "asked", "ok", "error"
          begun,    \* how many jobs of sorted SignalBuild has scheduled
          finished, \* jobs whose Finished is closed
          unsent,   \* jobs whose watcher has not written its update
          stream,   \* updates on their way to the client
          lost,     \* jobs whose watcher gave up or wrote after the end
          closing,  \* "open", "finished" with BuildFinished sent, then
                    \* "closed"; "broken" if BuildFinished could not be sent
          heard     \* jobs the listener was told about, in order

jobVars    == <<begun, finished>>
netVars    == <<jobVars, signal, unsent, stream, lost, closing>>
upVars     == <<up, stored, errs>>
clientVars == <<sortVars, pc, checked, upVars, got, netVars, heard>>

ClientInit == /\ SortInit
              /\ pc = "start" /\ checked = {} /\ got = 0
              /\ up = [f \in Files |-> "off"]
              /\ stored = {} /\ errs = << >>
              /\ signal = "no" /\ stream = << >> /\ closing = "open"
              /\ begun = 0 /\ finished = {}
              /\ unsent = DOMAIN deps
              /\ lost = {} /\ heard = << >>

\* Build returns: nil or an error.
Return(result) == pc' = result

-----------------------------------------------------------------------------
(* Client.Build                                                            *)

\* The request is answered with BuildStarted, or fails or is refused.
StartBuild == /\ pc = "start"
              /\ pc' = "upload" \/ Return("error")
              /\ UNCHANGED <<sortVars, checked, upVars, got, netVars, heard>>

\* Each missing file: unknown to the graph or not a regular file, or it gets
\* a goroutine.
CheckFile(f) ==
    /\ pc = "upload" /\ f \in Files \ checked
    /\ \/ Return("error") /\ UNCHANGED <<checked, up>>
       \/ /\ checked' = checked \cup {f}
          /\ up' = [up EXCEPT ![f] = "put"]
          /\ UNCHANGED pc
    /\ UNCHANGED <<sortVars, stored, errs, got, netVars, heard>>

AllChecked == /\ pc = "upload" /\ checked = Files
              /\ pc' = "collect"
              /\ UNCHANGED <<sortVars, checked, upVars, got, netVars, heard>>

\* A fault for Upload: a refused upload is not reported.
UploadUnreported(f) ==
    /\ up[f] = "put"
    /\ up' = [up EXCEPT ![f] = "tell nil"]
    /\ stored' \in {stored \cup {f}, stored}
    /\ UNCHANGED <<sortVars, pc, checked, errs, got, netVars, heard>>

\* A fault for Upload: a refused upload ends its goroutine without a word.
UploadSilent(f) ==
    /\ up[f] = "put"
    /\ \/ up' = [up EXCEPT ![f] = "tell nil"] /\ stored' = stored \cup {f}
       \/ up' = [up EXCEPT ![f] = "ended"] /\ UNCHANGED stored
    /\ UNCHANGED <<sortVars, pc, checked, errs, got, netVars, heard>>

\* PUT of the file is answered with 200, or with another status or an error.
Upload(f) ==
    /\ up[f] = "put"
    /\ \/ up' = [up EXCEPT ![f] = "tell nil"] /\ stored' = stored \cup {f}
       \/ up' = [up EXCEPT ![f] = "tell error"] /\ UNCHANGED stored
    /\ UNCHANGED <<sortVars, pc, checked, errs, got, netVars, heard>>

\* A send on errs; the goroutine of a failed upload goes on to send nil too.
Tell(f) == /\ Len(errs) < Cardinality(Files)
           /\ \/ /\ up[f] = "tell error"
                 /\ errs' = Append(errs, "error")
                 /\ up' = [up EXCEPT ![f] = "tell nil"]
              \/ /\ up[f] = "tell nil"
                 /\ errs' = Append(errs, "nil")
                 /\ up' = [up EXCEPT ![f] = "ended"]
           /\ UNCHANGED <<sortVars, pc, checked, stored, got, netVars, heard>>

\* As many receives as files; the first error is returned.
Collect == /\ pc = "collect" /\ got < Cardinality(Files)
           /\ errs # << >>
           /\ errs' = Tail(errs)
           /\ got' = got + 1
           /\ IF Head(errs) = "error" THEN Return("error") ELSE UNCHANGED pc
           /\ UNCHANGED <<sortVars, checked, up, stored, netVars, heard>>

SignalBuild == /\ pc = "collect" /\ got = Cardinality(Files)
               /\ signal' = "asked"
               /\ pc' = "signal"
               /\ UNCHANGED <<sortVars, checked, upVars, got, jobVars, unsent, stream, lost, closing, heard>>

\* The answer comes, and only then Build starts to read the stream.
SignalAnswered == /\ pc = "signal" /\ signal \in {"ok", "error"}
                  /\ IF signal = "ok" THEN pc' = "listen" ELSE Return("error")
                  /\ UNCHANGED <<sortVars, checked, upVars, got, netVars, heard>>

\* An update: JobFinished is looked at first, so a BuildFinished or BuildFailed
\* in it changes nothing; a callback of the listener may return an error.
listenBuild == /\ pc = "listen" /\ stream # << >>
               /\ stream' = Tail(stream)
               /\ \/ heard' = Append(heard, Head(stream).job) /\ UNCHANGED pc
                  \/ Return("error") /\ UNCHANGED heard
               /\ UNCHANGED <<sortVars, checked, upVars, got, jobVars, signal, unsent, lost, closing>>

\* io.EOF is the end of the build.
ListenEOF == /\ pc = "listen" /\ stream = << >> /\ closing = "closed"
             /\ Return("nil")
             /\ UNCHANGED <<sortVars, checked, upVars, got, netVars, heard>>

\* The request or the stream breaks, or the caller cancels the context.
BreakOff == /\ pc \in {"signal", "listen"}
            /\ Return("error")
            /\ UNCHANGED <<sortVars, checked, upVars, got, netVars, heard>>

-----------------------------------------------------------------------------
(* The coordinator                                                         *)

\* StartBuild goes on with TopSort once BuildStarted is sent.
Sort == /\ pc # "start" /\ SortNext
        /\ UNCHANGED <<pc, checked, upVars, got, netVars, heard>>

\* hb.Before lets SignalBuild go on when StartBuild has sorted.
Signalling == signal = "asked" /\ SortDone

\* The keys of jobPending.
Pending == {sorted[i] : i \in 1..begun}

NextJob == sorted[begun + 1]

\* The loop over the dependencies of the next job has come to the k-th.
Reaches(k) == \A h \in 1..(k - 1) : deps[NextJob][h] \in finished

CanSchedule == /\ Signalling /\ begun < Len(sorted)
               /\ Range(deps[NextJob]) \subseteq finished

\* ScheduleJob returns, and the job has a watcher.
ScheduleJob == /\ CanSchedule
               /\ begun' = begun + 1
               /\ UNCHANGED <<sortVars, pc, checked, upVars, got, signal, finished, unsent, stream, lost, closing, heard>>

SignalError == /\ signal' = "error"
               /\ UNCHANGED <<sortVars, pc, checked, upVars, got, jobVars, unsent, stream, lost, closing, heard>>

\* panic("top sort does not work") for a dependency that is not pending;
\* net/http recovers it and breaks the connection.
DepUnknown == /\ Signalling /\ begun < Len(sorted)
              /\ \E k \in DOMAIN deps[NextJob] :
                     Reaches(k) /\ deps[NextJob][k] \notin Pending
              /\ SignalError

\* The same panic for a dependency that is finished and whose location is not
\* stored yet; and ctx.Done() when the client has left.
DepFails == /\ Signalling /\ begun < Len(sorted)
            /\ \E k \in DOMAIN deps[NextJob] :
                   Reaches(k) /\ (deps[NextJob][k] \in finished \/ pc = "error")
            /\ SignalError

\* A worker reports the job, of this build or of another one.
JobFinishes(j) ==
    /\ j \in Pending \ finished
    /\ finished' = finished \cup {j}
    /\ UNCHANGED <<sortVars, pc, checked, upVars, got, signal, begun, unsent, stream, lost, closing, heard>>

\* The write of a watcher: blocked while the buffers are full, too late after
\* the handler of StartBuild has returned, and perhaps in vain when the client
\* has left.  One watcher also writes BuildFinished, when the counter is that
\* of all jobs, and it may be any of them.
Updated(j, last) ==
    /\ j \in unsent \cap finished
    /\ last => closing = "open" /\ finished = DOMAIN deps /\ lost = {}
    /\ unsent = {j} /\ closing = "open" /\ lost = {} => last
    /\ unsent' = unsent \ {j}
    /\ \/ /\ closing # "closed" /\ Len(stream) < Room
          /\ stream' = Append(stream, [job |-> j, last |-> last])
          /\ closing' = IF last THEN "finished" ELSE closing
          /\ UNCHANGED lost
       \/ /\ closing # "closed" /\ pc = "error"
          /\ closing' = IF last THEN "broken" ELSE closing
          /\ UNCHANGED <<stream, lost>>
       \/ /\ closing = "closed"
          /\ lost' = lost \cup {j}
          /\ UNCHANGED <<stream, closing>>
    /\ UNCHANGED <<sortVars, pc, checked, upVars, got, jobVars, signal, heard>>

\* A watcher takes ctx.Done(), so the counter stays below the number of jobs.
GiveUp(j) == /\ j \in unsent \cap Pending /\ closing = "open"
             /\ signal = "error" \/ pc = "error"
             /\ unsent' = unsent \ {j}
             /\ lost' = lost \cup {j}
             /\ UNCHANGED <<sortVars, pc, checked, upVars, got, jobVars, signal, stream, closing, heard>>

\* done is closed: the handler of StartBuild returns, and the stream ends.
StreamEnds == /\ closing = "finished"
              /\ closing' = "closed"
              /\ UNCHANGED <<sortVars, pc, checked, upVars, got, jobVars, signal, unsent, stream, lost, heard>>

\* wg.Wait() has returned; an update that came too late may be an error, and
\* so is a context that is over.
SignalReturns ==
    /\ Signalling /\ begun = Len(sorted) /\ unsent = {}
    /\ signal' \in IF lost = {} /\ pc # "error" THEN {"ok"} ELSE {"ok", "error"}
    /\ UNCHANGED <<sortVars, pc, checked, upVars, got, jobVars, unsent, stream, lost, closing, heard>>

-----------------------------------------------------------------------------
BuildStep == \/ StartBuild \/ (\E f \in Files : CheckFile(f)) \/ AllChecked
             \/ Collect \/ SignalBuild \/ SignalAnswered \/ listenBuild \/ ListenEOF

ServerStep == \/ Sort \/ DepUnknown \/ StreamEnds \/ SignalReturns
              \/ \E j \in DOMAIN deps, last \in BOOLEAN : Updated(j, last)
              \/ \E j \in DOMAIN deps : GiveUp(j)

\* What need not happen: a worker may not take a job, or die with it.
Chance == \/ ScheduleJob \/ DepFails \/ BreakOff
          \/ \E j \in DOMAIN deps : JobFinishes(j)

ClientNext == \/ BuildStep
              \/ ServerStep
              \/ Chance
              \/ \E f \in Files : Upload(f) \/ Tell(f)

ClientSpec == ClientInit /\ [][ClientNext]_clientVars

\* Goroutines run while they can, and uploads are answered or fail; nothing
\* is assumed of the workers.
FairClientSpec == /\ ClientSpec
                  /\ WF_clientVars(BuildStep) /\ WF_clientVars(ServerStep)
                  /\ \A f \in Files : WF_clientVars(Upload(f) \/ Tell(f))

-----------------------------------------------------------------------------
(* Properties                                                              *)

\* The build is signalled only when every missing file is on the coordinator,
\* whatever order the uploads ended in; and Build returns nil only after every
\* job has finished, so never for a graph that names an unknown dependency,
\* and the listener was told once of every job but those whose watcher wrote
\* after the end of the stream.
NilMeansHeard ==
    /\ signal # "no" => stored = Files
    /\ IsInjective(heard)
    /\ pc = "nil" => /\ finished = DOMAIN deps
                     /\ \A j \in DOMAIN deps : Unknown \notin Range(deps[j])
                     /\ Range(heard) = DOMAIN deps \ lost

\* Build reads nothing before SignalBuild is answered, and that waits for the
\* watchers, who wait for room in the stream.
FlowStuck == pc = "signal" /\ Len(stream) = Room /\ unsent \cap finished # {} /\ closing = "open"

\* A build without jobs has no watcher, so its stream never ends.
EmptyBuild == DOMAIN deps = {}

\* SignalBuild waits for a worker: ScheduleJob does not return, or a job that
\* is scheduled does not finish.
WorkersStuck == pc = "signal" /\ (CanSchedule \/ Pending \ finished # {})

\* Build ends for good, also when the graph names an unknown dependency, when
\* SignalBuild panics and when updates are lost; or it is stuck for good: more
\* updates than the stream holds came before the answer to the signal, the
\* workers are stuck, or the build is empty.
EndsOrStuck == <>[](pc \in {"nil", "error"} \/ FlowStuck \/ WorkersStuck \/ EmptyBuild)
=============================================================================
