------------------------------ MODULE Workers ------------------------------
(***************************************************************************)
(* pkg/worker: what the goroutine of a job does between the heartbeat that *)
(* brought it and the one that reports it, on several workers with their   *)
(* artifact and file caches and their handlers of GET /artifact.           *)
(*                                                                         *)
(* The coordinator is JobTable here, which Scheduler implements, with the  *)
(* source files that are left and the list of locations: it has one worker *)
(* per job, since a job is taken once and addArtifacts always gets the     *)
(* empty slice its defer evaluated.                                        *)
(* For the same reason jobResultCache never has a job that is started.     *)
(***************************************************************************)
EXTENDS ArtifactCache

CONSTANTS Workers, Jobs, Sources,
          Host,         \* Host[w]: the machine w runs on, and whose os.TempDir() it uses
          Deps,         \* Deps[j]: the jobs whose artifacts j needs
          SourceFiles,  \* SourceFiles[j]: the files j needs
          Path,         \* Path[f]: where file f belongs in the source directory
          Leftover,     \* jobs a worker may have run in an earlier life
          Nothing,      \* no location, no link
          Old, New      \* content of an earlier and of this life of a worker

ASSUME EntriesAssumption == Entries = Workers \X (Jobs \cup Sources)
ASSUME GoroutinesAssumption == Procs = Workers \X Jobs
ASSUME WorkerContentsAssumption == Contents = {Old, New}
\* Jobs have their artifacts and source files in two caches.
ASSUME TwoCachesAssumption == Jobs \cap Sources = {}
\* A graph of jobs without cycles, as TopSort asks for.
ASSUME DepsAssumption == /\ Deps \in [Jobs -> SUBSET Jobs]
                         /\ \A j \in Jobs : j \notin Deps[j]
                         /\ SourceFiles \in [Jobs -> SUBSET Sources]
\* StartBuild looks up the files of a job by their paths.
ASSUME PathAssumption == \A j \in Jobs : \A f, g \in SourceFiles[j] : Path[f] = Path[g] => f = g

VARIABLES phase, outcome,  \* of JobTable
          gone,    \* source files that are removed from the coordinator
          loc,     \* loc[j]: the worker that reported j
          pc,      \* pc[p]: where the goroutine of job p[2] on worker p[1] is
          stage,   \* stage[p]: the loop of runJob or executeJob it is in
          todo,    \* todo[p]: what that loop has still to do
          cur,     \* cur[p]: the artifact or file it is about
          ok,      \* ok[p]: no error yet
          temp,    \* temp[h][path]: the file linked there in os.TempDir() of h
          dead,    \* workers whose process has ended
          mates,   \* history: who was in runJob on p's host while p was
          hurt     \* history: goroutines the environment failed

coordVars == <<phase, outcome, gone>>
jobVars   == <<stage, todo, cur, ok>>
workVars  == <<cacheVars, coordVars, loc, pc, jobVars, temp, dead, mates, hurt>>

Table == INSTANCE JobTable WITH Outcomes <- {"ok", "failed"}, Open <- "open"

\* A worker's directory may hold artifacts of its earlier life; the source
\* files are new, for every build has its own.
WorkInit == /\ CacheInit /\ Table!Init
            /\ \A e \in Entries :
                   disk[e] \in IF e[2] \in Leftover THEN {Absent, Old} ELSE {Absent}
            /\ gone  = {}
            /\ loc   = [j \in Jobs |-> Nothing]
            /\ pc    = [p \in Procs |-> "off"]
            /\ stage = [p \in Procs |-> "deps"]
            /\ todo  = [p \in Procs |-> {}]
            /\ cur   = [p \in Procs |-> p[2]]
            /\ ok    = [p \in Procs |-> TRUE]
            /\ temp  = [h \in {Host[w] : w \in Workers} |-> [n \in {Path[f] : f \in Sources} |-> Nothing]]
            /\ dead  = {}
            /\ mates = [p \in Procs |-> {}]
            /\ hurt  = {}

At(p, s) == pc[p] = s
Goto(p, s) == pc' = [pc EXCEPT ![p] = s]
Here(p) == <<p[1], cur[p]>>
There(p) == <<loc[cur[p]], cur[p]>>
Own(p) == p

\* runJob returns with an error; the deferred addJobResult keeps it.
Fail(p) == Goto(p, "done") /\ ok' = [ok EXCEPT ![p] = FALSE] /\ UNCHANGED <<stage, todo, cur>>

\* The loop is through with cur[p].
NextItem(p) == /\ Goto(p, "next") /\ todo' = [todo EXCEPT ![p] = @ \ {cur[p]}]
               /\ UNCHANGED <<stage, cur, ok>>

Enter(p, s, items) == /\ Goto(p, "next")
                      /\ stage' = [stage EXCEPT ![p] = s]
                      /\ todo'  = [todo  EXCEPT ![p] = items]
                      /\ UNCHANGED <<cur, ok>>

\* The environment fails p: a connection, a command, the file system.
Strike(p, what) == what \in MayFail /\ hurt' = hurt \cup {p}

-----------------------------------------------------------------------------
(* The coordinator and the worker's loop                                   *)

DepsSettled(j) == \A d \in Deps[j] : outcome[d] # "open"

\* A fault for Schedule: the job is offered with its dependencies.
ScheduleEarly(j) == Table!Offer(j) /\ UNCHANGED <<gone, cacheVars, loc, pc, jobVars, temp, dead, mates, hurt>>

\* SignalBuild, once the jobs j depends on have finished.
Schedule(j) == /\ DepsSettled(j) /\ Table!Offer(j)
               /\ UNCHANGED <<gone, cacheVars, loc, pc, jobVars, temp, dead, mates, hurt>>

\* removeSourceFiles, one file of a finished job after the other; it ends early
\* when a file is locked.
RemoveSource(j, f) == /\ outcome[j] # "open" /\ f \in SourceFiles[j] \ gone
                      /\ gone' = gone \cup {f}
                      /\ UNCHANGED <<phase, outcome, cacheVars, loc, pc, jobVars, temp, dead, mates, hurt>>

\* wg.Wait() has returned.
Waited(w) == \A j \in Jobs : pc[<<w, j>>] \in {"off", "picked", "done", "over"}

\* The heartbeat reports the batch before it brings new jobs.
Reported(w) == Waited(w) /\ \A j \in Jobs : ~At(<<w, j>>, "done")

Report(p) == /\ At(p, "done") /\ Waited(p[1])
             /\ Table!Settle(p[2], IF ok[p] THEN "ok" ELSE "failed")
             /\ loc' = [loc EXCEPT ![p[2]] = p[1]]
             /\ Goto(p, "over")
             /\ UNCHANGED <<gone, cacheVars, jobVars, temp, dead, mates, hurt>>

Pick(p) == /\ At(p, "off") /\ p[1] \notin dead /\ Reported(p[1])
           /\ Table!Take(p[2])
           /\ Goto(p, "picked")
           /\ UNCHANGED <<gone, cacheVars, loc, jobVars, temp, dead, mates, hurt>>

\* p is in runJob.
Active(p) == pc[p] \notin {"off", "picked", "done", "over", "dead"}

\* One goroutine per job of the response.
Run(w) ==
    LET batch  == {p \in Procs : p[1] = w /\ At(p, "picked")}
        beside == {p \in Procs : Host[p[1]] = Host[w] /\ Active(p)}
    IN  /\ batch # {} /\ Reported(w)
        /\ pc'    = [p \in Procs |-> IF p \in batch THEN "next" ELSE pc[p]]
        /\ todo'  = [p \in Procs |-> IF p \in batch THEN Deps[p[2]] ELSE todo[p]]
        /\ mates' = [p \in Procs |-> IF p \in batch THEN (batch \cup beside) \ {p}
                                     ELSE IF p \in beside THEN mates[p] \cup batch
                                     ELSE mates[p]]
        /\ UNCHANGED <<cacheVars, coordVars, loc, stage, cur, ok, temp, dead, hurt>>

-----------------------------------------------------------------------------
(* The loops over dependencies and files                                   *)

\* One loop is over, the next one starts.
Advance(p) ==
    /\ At(p, "next") /\ todo[p] = {}
    /\ CASE stage[p] = "deps"  -> Enter(p, "files", SourceFiles[p[2]])
         [] stage[p] = "files" -> Enter(p, "link", SourceFiles[p[2]])
         [] stage[p] = "link"  -> /\ Goto(p, "create")
                                  /\ stage' = [stage EXCEPT ![p] = "output"]
                                  /\ cur' = [cur EXCEPT ![p] = p[2]]
                                  /\ UNCHANGED <<todo, ok>>
         [] stage[p] = "open"  -> Goto(p, "command") /\ UNCHANGED jobVars
    /\ UNCHANGED <<cacheVars, coordVars, loc, temp, dead, mates, hurt>>

\* A fault for GetError: a locked artifact counts as one that is there.
GetErrorSkips(p) == IF stage[p] = "open" THEN Goto(p, "panic") /\ UNCHANGED jobVars
                                         ELSE NextItem(p)

\* An error of Get ends the job, or the process: "top sort does not worlk".
GetError(p) == IF stage[p] = "open" THEN Goto(p, "panic") /\ UNCHANGED jobVars
                                    ELSE Fail(p)

ChooseItem(p) == /\ At(p, "next")
                 /\ \E x \in todo[p] : cur' = [cur EXCEPT ![p] = x]
                 /\ Goto(p, "get")
                 /\ UNCHANGED <<cacheVars, coordVars, loc, stage, todo, ok, temp, dead, mates, hurt>>

GetLocal(p) ==
    /\ At(p, "get")
    /\ \/ readLock(p, Here(p)) /\ Goto(p, "stat") /\ UNCHANGED jobVars
       \/ ReadRefused(Here(p)) /\ GetError(p) /\ UNCHANGED cacheVars
    /\ UNCHANGED <<coordVars, loc, temp, dead, mates, hurt>>

\* What is there is unlocked again, linked, or kept locked for the command.
StatFound(p) ==
    /\ At(p, "stat") /\ GetFound(p, Here(p))
    /\ CASE stage[p] = "open" -> NextItem(p)
         [] stage[p] = "link" -> Goto(p, "unlink") /\ UNCHANGED jobVars
         [] OTHER             -> Goto(p, "unlockRead") /\ UNCHANGED jobVars
    /\ UNCHANGED <<coordVars, loc, temp, dead, mates, hurt>>

StatMissing(p) ==
    /\ At(p, "stat") /\ GetMissing(p, Here(p))
    /\ IF stage[p] \in {"deps", "files"} THEN Goto(p, "request") /\ UNCHANGED jobVars
                                         ELSE GetError(p)
    /\ UNCHANGED <<coordVars, loc, temp, dead, mates, hurt>>

\* os.Stat fails for another reason: an error like any other, except where the
\* process ends for it (see Crash).
StatError(p) == /\ At(p, "stat") /\ stage[p] # "open"
                /\ GetFails(p, Here(p)) /\ Strike(p, "stat") /\ Fail(p)
                /\ UNCHANGED <<coordVars, loc, temp, dead, mates>>

UnlockRead(p) ==
    /\ At(p, "unlockRead") /\ readUnlock(p, Here(p))
    /\ IF ok[p] THEN NextItem(p) ELSE Fail(p)
    /\ UNCHANGED <<coordVars, loc, temp, dead, mates, hurt>>

-----------------------------------------------------------------------------
(* Download                                                                *)

\* The file comes from the coordinator, if no watcher has removed it.
RequestFile(p) ==
    /\ At(p, "request") /\ stage[p] = "files"
    /\ \/ cur[p] \notin gone /\ Goto(p, "create") /\ UNCHANGED <<jobVars, hurt>>
       \/ cur[p] \in gone /\ Fail(p) /\ UNCHANGED hurt
       \/ Strike(p, "net") /\ Fail(p)
    /\ UNCHANGED <<cacheVars, coordVars, loc, temp, dead, mates>>

\* The worker that reported the dependency is asked: it looks into its cache.
RequestArtifact(p) ==
    /\ At(p, "request") /\ stage[p] = "deps"
    /\ \/ /\ loc[cur[p]] \in Workers \ dead
          /\ readLock(p, There(p)) /\ Goto(p, "serve") /\ UNCHANGED jobVars
       \/ /\ loc[cur[p]] \notin Workers \ dead \/ ReadRefused(There(p))
          /\ Fail(p) /\ UNCHANGED cacheVars
    /\ UNCHANGED <<coordVars, loc, temp, dead, mates, hurt>>

\* Status 200, and the artifact as a tar stream; or another status.
Serve(p) ==
    /\ At(p, "serve") /\ loc[cur[p]] \notin dead
    /\ \/ GetFound(p, There(p)) /\ Goto(p, "create") /\ UNCHANGED <<jobVars, hurt>>
       \/ GetMissing(p, There(p)) /\ Fail(p) /\ UNCHANGED hurt
       \/ GetFails(p, There(p)) /\ Fail(p) /\ Strike(p, "stat")
    /\ UNCHANGED <<coordVars, loc, temp, dead, mates>>

\* The connection to a worker that dies breaks.
ServerDied(p) == /\ At(p, "serve") /\ loc[cur[p]] \in dead
                 /\ Fail(p)
                 /\ UNCHANGED <<cacheVars, coordVars, loc, temp, dead, mates, hurt>>

\* The handler's stream ends, by itself or because its receiver left.
ServeEnds(p, e) == /\ e[1] \notin dead \cup {p[1]}
                   /\ readUnlock(p, e)
                   /\ UNCHANGED <<coordVars, loc, pc, jobVars, temp, dead, mates, hurt>>

\* Where the artifact or file is written that p creates.
Target(p) == IF stage[p] \in {"deps", "files"} THEN Here(p) ELSE Own(p)

CreateEntry(p) ==
    /\ At(p, "create")
    /\ \/ Create(p, Target(p)) /\ Goto(p, "mkdir") /\ UNCHANGED <<jobVars, hurt>>
       \/ /\ ((Exists(Target(p)) \/ Busy(Target(p))) /\ UNCHANGED hurt) \/ Strike(p, "stat")
          /\ Fail(p) /\ UNCHANGED cacheVars
    /\ UNCHANGED <<coordVars, loc, temp, dead, mates>>

Mkdir(p) ==
    /\ At(p, "mkdir") /\ CreateReady(p, Target(p))
    /\ IF stage[p] = "output" THEN Enter(p, "open", Deps[p[2]])
                              ELSE Goto(p, "receive") /\ UNCHANGED jobVars
    /\ UNCHANGED <<coordVars, loc, temp, dead, mates, hurt>>

MkdirFails(p) == /\ At(p, "mkdir") /\ Strike(p, "mkdir") /\ CreateFails(p, Target(p))
                 /\ Goto(p, "unlockWrite") /\ ok' = [ok EXCEPT ![p] = FALSE]
                 /\ UNCHANGED <<stage, todo, cur, coordVars, loc, temp, dead, mates>>

\* The write ends: committed, or given up for a failure of the environment.
Finish(p) == commit(p, Target(p), New) /\ Goto(p, "unlockWrite") /\ UNCHANGED <<jobVars, hurt>>

GiveUp(p, what) == /\ Strike(p, what) /\ abort(p, Target(p))
                   /\ Goto(p, "unlockWrite") /\ ok' = [ok EXCEPT ![p] = FALSE]
                   /\ UNCHANGED <<stage, todo, cur>>

\* The rename of commit fails.
CommitFails(p) == /\ Strike(p, "rename") /\ commitFails(p, Target(p))
                  /\ Goto(p, "unlockWrite") /\ ok' = [ok EXCEPT ![p] = FALSE]
                  /\ UNCHANGED <<stage, todo, cur>>

\* tarstream.Receive finds a directory where it is to make one, or a file that
\* it may not open.
FindsStale(p) == /\ Target(p) \in stale /\ abort(p, Target(p))
                 /\ Goto(p, "unlockWrite") /\ ok' = [ok EXCEPT ![p] = FALSE]
                 /\ UNCHANGED <<stage, todo, cur, hurt>>

\* What is received is written over what an earlier download has left; a file
\* is truncated first.
Receive(p) == /\ At(p, "receive")
              /\ \/ Finish(p) \/ GiveUp(p, "net")
                 \/ stage[p] = "deps" /\ (CommitFails(p) \/ FindsStale(p))
              /\ UNCHANGED <<coordVars, loc, temp, dead, mates>>

UnlockWrite(p) ==
    /\ At(p, "unlockWrite") /\ writeUnlock(p, Target(p))
    /\ IF ok[p] /\ stage[p] # "open" THEN NextItem(p)
                                     ELSE Goto(p, "done") /\ UNCHANGED jobVars
    /\ UNCHANGED <<coordVars, loc, temp, dead, mates, hurt>>

-----------------------------------------------------------------------------
(* executeJob                                                              *)

\* What is linked where cur[p] belongs, by whichever worker of the host.
Linked(p) == temp[Host[p[1]]][Path[cur[p]]]

PutLink(p, f) == temp' = [temp EXCEPT ![Host[p[1]]][Path[cur[p]]] = f]

\* linkFiles, up to os.Link: MkdirAll fails, or the old file goes.
Unlink(p) == /\ At(p, "unlink")
             /\ \/ PutLink(p, Nothing) /\ Goto(p, "hardlink") /\ UNCHANGED <<ok, hurt>>
                \/ /\ Strike(p, "link") /\ ok' = [ok EXCEPT ![p] = FALSE]
                   /\ Goto(p, "unlockRead") /\ UNCHANGED temp
             /\ UNCHANGED <<cacheVars, coordVars, loc, stage, todo, cur, dead, mates>>

\* A fault for Link: the error of os.Link is not returned.
LinkUnchecked(p) ==
    /\ At(p, "hardlink") /\ Goto(p, "unlockRead")
    /\ \/ Linked(p) = Nothing /\ PutLink(p, cur[p])
       \/ (Linked(p) # Nothing \/ "link" \in MayFail) /\ UNCHANGED temp
    /\ UNCHANGED <<cacheVars, coordVars, loc, jobVars, dead, mates, hurt>>

\* os.Link fails when another job of the host has linked a file of that path in
\* between, or for the file system.
Link(p) ==
    /\ At(p, "hardlink") /\ Goto(p, "unlockRead")
    /\ \/ Linked(p) = Nothing /\ PutLink(p, cur[p]) /\ UNCHANGED <<ok, hurt>>
       \/ /\ (Linked(p) # Nothing /\ UNCHANGED hurt) \/ Strike(p, "link")
          /\ ok' = [ok EXCEPT ![p] = FALSE]
          /\ UNCHANGED temp
    /\ UNCHANGED <<cacheVars, coordVars, loc, stage, todo, cur, dead, mates>>

\* The commands run.  One that fails ends the job with its dependencies still
\* locked: the unlock functions are only called after the last command.
Command(p) ==
    /\ At(p, "command")
    /\ \/ Goto(p, "release") /\ UNCHANGED <<cacheVars, jobVars, hurt>>
       \/ GiveUp(p, "command")
    /\ UNCHANGED <<coordVars, loc, temp, dead, mates>>

Held(p) == {d \in Deps[p[2]] : op[p][<<p[1], d>>] = "reading"}

\* A fault for Released: the unlock functions are forgotten.
ReleasedAlways(p) == TRUE

Released(p) == Held(p) = {}

Release(p) == /\ At(p, "release")
              /\ \E d \in Held(p) : readUnlock(p, <<p[1], d>>)
              /\ UNCHANGED <<coordVars, loc, pc, jobVars, temp, dead, mates, hurt>>

\* A fault for Commit: the error of commit is not returned.
CommitUnchecked(p) == /\ At(p, "release") /\ Released(p)
                      /\ \/ Finish(p)
                         \/ /\ Strike(p, "rename") /\ commitFails(p, Target(p))
                            /\ Goto(p, "unlockWrite") /\ UNCHANGED jobVars
                      /\ UNCHANGED <<coordVars, loc, temp, dead, mates>>

Commit(p) == /\ At(p, "release") /\ Released(p)
             /\ Finish(p) \/ CommitFails(p)
             /\ UNCHANGED <<coordVars, loc, temp, dead, mates>>

\* The process ends: the nil command of a failed Render is dereferenced, the
\* nil abort that filecache.Cache.Write calls when os.Create fails is called, or
\* os.Stat fails on a dependency, and "top sort does not worlk" is not the reason.
Crash(p) == /\ \/ "render" \in MayFail /\ At(p, "command")
               \/ "create" \in MayFail /\ At(p, "receive") /\ stage[p] = "files"
               \/ StatFails /\ At(p, "stat") /\ stage[p] = "open"
            /\ dead' = dead \cup {p[1]}
            /\ pc' = [q \in Procs |-> IF q[1] = p[1] THEN "dead" ELSE pc[q]]
            /\ UNCHANGED <<cacheVars, coordVars, loc, jobVars, temp, mates, hurt>>

-----------------------------------------------------------------------------
JobStep(p) == \/ Advance(p) \/ ChooseItem(p) \/ GetLocal(p)
              \/ StatFound(p) \/ StatMissing(p) \/ StatError(p) \/ UnlockRead(p)
              \/ RequestFile(p) \/ RequestArtifact(p) \/ Serve(p) \/ ServerDied(p)
              \/ CreateEntry(p) \/ Mkdir(p) \/ MkdirFails(p) \/ Receive(p) \/ UnlockWrite(p)
              \/ Unlink(p) \/ Link(p) \/ Command(p) \/ Release(p) \/ Commit(p)

WorkNext == \/ \E j \in Jobs : Schedule(j) \/ \E f \in Sources : RemoveSource(j, f)
            \/ \E w \in Workers : Run(w)
            \/ \E p \in Procs : \/ Report(p) \/ Pick(p) \/ JobStep(p) \/ Crash(p)
                                \/ \E e \in Entries : ServeEnds(p, e)

WorkSpec == WorkInit /\ [][WorkNext]_workVars

-----------------------------------------------------------------------------
(* Properties                                                              *)

Ended(p) == pc[p] \in {"done", "over"}

\* panic("top sort does not worlk") is never raised for an artifact that is
\* missing or locked, only for an os.Stat that fails, which is in Crash:
\* whatever downloads run beside it, a job that gets to its commands finds its
\* dependencies in its own cache, and holds them while the commands run.
NoDepPanic == \A p \in Procs :
    /\ ~At(p, "panic")
    /\ At(p, "command") => Held(p) = Deps[p[2]]

\* A job reported without an error has its artifact in the cache of the worker
\* that LocateArtifact names, complete and not locked against readers.
SucceededIsStored == \A j \in Jobs :
    outcome[j] = "ok" => LET e == <<loc[j], j>>
                         IN  disk[e] # Absent /\ e \notin writeLocked

\* A goroutine that is over holds no lock on its worker; what a failed command
\* leaves behind is read locks on the job's own dependencies.
LocksReturned == \A p \in Procs, x \in Jobs \cup Sources :
    Ended(p) => \/ op[p][<<p[1], x>>] = "idle"
                \/ /\ op[p][<<p[1], x>>] = "reading" /\ x \in Deps[p[2]]
                   /\ stage[p] = "open" /\ p \in hurt

\* Jobs that were in runJob on the same host at the same time are in each
\* other's way if they have files of one path, which are linked into the same
\* os.TempDir(), or, on one worker, download the same artifact.
Disturbed(p) == \E q \in mates[p] :
    \/ \E f \in SourceFiles[p[2]], g \in SourceFiles[q[2]] : Path[f] = Path[g]
    \/ p[1] = q[1] /\ Deps[p[2]] \cap Deps[q[2]] # {}

\* A job fails only for a reason: the environment failed it, or one before it on
\* its worker that has a dependency in common with it, which may have left a
\* tmp/<id>; another job of its host was in its way; its artifact was left by
\* the worker's earlier life; a dependency failed or is on a dead worker; or a
\* file it needs was removed from the coordinator because another job that has
\* it has finished.
AloneSucceeds == \A p \in Procs :
    Ended(p) /\ ~ok[p] =>
        \/ p \in hurt
        \/ \E q \in hurt : q[1] = p[1] /\ Deps[q[2]] \cap Deps[p[2]] # {}
        \/ Disturbed(p)
        \/ disk[Own(p)] = Old
        \/ \E d \in Deps[p[2]] : outcome[d] = "failed" \/ loc[d] \in dead
        \/ \E j \in Jobs \ {p[2]} :
               outcome[j] # "open" /\ SourceFiles[p[2]] \cap SourceFiles[j] \cap gone # {}

\* The commands of a job find its source files in os.TempDir(), unless a job
\* that ran on its host at the same time, on whichever worker, has a file of
\* the same path.
InputsPresent == \A p \in Procs : At(p, "command") =>
    \A f \in SourceFiles[p[2]] :
        \/ temp[Host[p[1]]][Path[f]] = f
        \/ \E q \in mates[p] : \E g \in SourceFiles[q[2]] : Path[g] = Path[f]
=============================================================================
