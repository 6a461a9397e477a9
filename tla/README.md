# DistBuild in TLA+

A verification development for DistBuild, a distributed build system in Go
(`src/`). A coordinator receives build graphs from clients and hands their
jobs to workers; workers download source files and artifacts of dependencies,
run the commands and report back. This directory models the coordinator, the
caches, the workers, the client and the sort of the build graph, checks them
with TLC on small instances, and proves most of their invariants, and that they
implement their abstract specifications, with TLAPS for all instances.

## 1. Inventory

### The parts and what they share

| Part (source under `src/pkg`) | State | Operations | Talks to |
|---|---|---|---|
| Scheduler (`scheduler/`) | job map under `jobsMu`, channel of 10 000 pending jobs, artifact lists under `artifactsMu`, `isStop` | `ScheduleJob`, `OnJobComplete`, `PickJob`, `TryPickJob`, `LocateArtifact`, `Stop` | shared memory with every handler goroutine |
| Build service (`dist/build_service.go`) | per build: graph, source files, status writer; per signal: counter, wait group, errors | `StartBuild`, `SignalBuild`, one watcher goroutine per job | scheduler, happens-before machine, status stream, file cache |
| Status stream and build handlers (`api/status_writer.go`, `api/build_handler.go`) | `mu`, `startMsgSend`, `done` | `Started`, `Updated`; the StartBuild handler waits for `done` | HTTP response read by the client |
| Heartbeat service (`dist/heartbeat_service.go`, `api/heartbeat_*.go`) | none of its own | `Heartbeat`: report, pick, fill | scheduler; called by each worker |
| Coordinator (`dist/coordinator.go`) | the parts above | `NewCoordinator`, `Stop`, HTTP routing | all |
| Happens-before machine (`concurrency/hb.go`) | per key a counter and a channel pointer | `Happen`, `Before` | build service |
| Key locker, sync map (`concurrency/`) | per-key locks; a map behind a RWMutex | `Lock`, `Unlock`; `Load`, `Store` | file handler, build service, worker |
| Worker (`worker/`) | finished jobs, added artifacts, result cache | `Run`, `runJob`, downloads, `executeJob` | heartbeat service, artifact cache, file cache, other workers |
| Artifact cache (`artifact/`) | per artifact: reader count or writer | `Get`, `Create` (commit, abort), `Remove`, `Range`; download from another worker | worker |
| File cache (`filecache/`) | per file: reader count or writer | `Get`, `Write`, `Remove`; HTTP GET (singleflight) and PUT (per-key lock, retries) | client, worker, build service |
| Topological sort (`build/top_sort.go`) | depth-first search | `TopSort` | build service |
| Client (`client/`) | one build | `Build`: start, upload, signal, listen | coordinator |
| Graph, commands, identifiers, tar stream, metrics, command line | plain data and I/O | | |

### Behaviours that are hard

* *Interleavings.* Every HTTP request is a goroutine, every job of a build has
  a watcher goroutine; they meet in the scheduler's two mutexes and channel, in
  the build's counter and in the status stream.
* *Two critical sections for one fact.* `OnJobComplete` closes `Finished` under
  one mutex and stores the location under another.
* *A blocking send under a lock.* `ScheduleJob` sends with `jobsMu` held.
* *Death and departure.* A worker may die while it runs a batch or while its
  handler waits; a client may leave at any time; `Stop` makes calls panic.
* *Undefined use.* A watcher may write on a response whose handler has returned.
* *Shared files.* Downloads, uploads, jobs and handlers work on one cache entry
  at the same time, and every call of the file system may fail; all jobs of all
  workers of a host link their sources into one directory.
* *Half-way ends.* SignalBuild panics or returns an error between two jobs, with
  watchers waiting; a failed rename or RemoveAll leaves files that a later
  download finds.
* *Back pressure.* The client reads the status stream only after the coordinator
  has written all of it.

### What makes each part correct

* Scheduler: a job is offered once and received once; its first result is its
  only one; the map forgets nothing; a finished job becomes locatable.
* Heartbeats: a job is with exactly one worker until it is settled; a worker
  reports only what the scheduler knows.
* Builds: a job is handed out only after its dependencies; the client is told
  every result once, and the end once, after all of them; a build ends.
* Happens-before machine: the k-th `Before` returns after the k-th `Happen`, and
  returns at all.
* Artifact and file caches: never a writer with readers, a failed write leaves
  nothing behind, locks are returned on every path; uploads of one file take
  turns and go round their retry once.
* Worker: a job runs with all its inputs, a job that is reported as a success has
  an artifact that can be downloaded, and a job fails only for a reason.
* TopSort: a permutation in which dependencies come first.
* Client: Build signals after all uploads, returns nil only after every job has
  finished and it has heard of each whose update was written in time, and ends.

The hazards, each at its line and with the properties that watch it, are listed
in `PROJECT.json`.

## 2. The modules

| Module | Models | Relation |
|---|---|---|
| `JobTable` | what the scheduler promises: a job is offered, taken and settled at most once | abstract specification |
| `Scheduler` | `pkg/scheduler` | implements `JobTable` |
| `SchedulerProofs` | | TLAPS proofs about `Scheduler` |
| `HeartbeatService` | the heartbeat handler and the worker's loop around it | extends `Scheduler` |
| `BuildService` | StartBuild and SignalBuild, watchers, status stream, StartBuild handler | extends `Scheduler` |
| `BuildContract` | what a client may observe | abstract specification |
| `Coordinator` | all processes over one scheduler | extends both services, implements `BuildContract` |
| `HappensBefore` | `pkg/concurrency/hb.go` | on its own |
| `HappensBeforeProofs` | | TLAPS proofs about `HappensBefore` |
| `CoordinatorProofs` | | TLAPS proofs about `Coordinator`, uses `SchedulerProofs` |
| `ArtifactStore` | what a cache promises: readers and writers of an entry and its content | abstract specification |
| `ArtifactCache` | `artifact/cache.go` | implements `ArtifactStore` |
| `ArtifactCacheProofs` | | TLAPS proofs about `ArtifactCache` |
| `Files` | the coordinator's file cache: `filecache.go`, `handler.go`, `key_lock.go`, `removeSourceFiles` | extends `ArtifactCache` |
| `FilesProofs` | | TLAPS proofs about `Files`, uses `ArtifactCacheProofs` |
| `Workers` | `pkg/worker`, the download of artifacts and of files | extends `ArtifactCache`, with `JobTable` as its coordinator |
| `WorkersProofs` | | TLAPS proofs about `Workers`, uses `ArtifactCacheProofs` |
| `TopSort` | `build/top_sort.go` | on its own |
| `TopSortProofs` | | TLAPS proofs about `TopSort` |
| `Client` | `client/build.go`, `api/build_client.go`, the status stream | extends `TopSort` |
| `ClientProofs` | | TLAPS proofs about `Client`, uses `TopSortProofs` |
| `MCScheduler`, `MCCoordinator`, `MCHappensBefore`, `MCFiles`, `MCWorkers`, `MCClient` | instances for TLC | |

Operators whose comment calls them *a fault for X* are wrong versions of `X`, used
to test that a property notices the bug: no specification mentions them.

### Scheduler

A call is split wherever another goroutine can run and be noticed: after the
check of `isStop` (`ScheduleEnter`, `CompleteEnter`, `PickEnter`,
`TryPickEnter`), while `ScheduleJob` is blocked in its send (`ScheduleNew` takes
`jobsMu`, `Push` sends, stores and releases it), and between the critical
sections of `OnJobComplete` (`CompleteSettle`, `CompleteRecord`). The send and
the store into the map are one step: only a receive can run in between, and a
receive does not read the map. `artifactsMu` is never held across a step.
`at`, `arg`, `res` and `exist` are the call a goroutine is in and its local
variables. `handed` is a history variable. A job specification is its job: the
files and the dependency locations it carries are not represented.
`LocateArtifact` returns any member of `Locations(j)`, or "not found".

### HeartbeatService

One process per worker stands for its `Run` loop and, during a heartbeat, for
the handler that serves it. `Beat` ends the batch with any results and sends
them; `ReportEnter`, `ReportSettle`, `ReportReturn` report them in any order
(the worker's goroutines end in any order); `PickStart`, `FillStart`, `FillSlot`,
`FillNothing` take one job and then up to `Slots - 1` more; `Respond` answers.
The four attempts per slot are one: four looks at an empty channel in a row are
possible whenever one is. `Die` is the death of a worker or of its connection:
the handler then still runs, and its picks may be cancelled (`Cancelled`) or
answered to nobody. The jobs nobody has any more are remembered in `dropped`. A
restarted worker has a new address, so it is another worker. `AddedArtifacts` is
empty in every request of the worker (`download.go:49` defers on the empty
slice), so the loop over it takes no step.

### BuildService

`StartBuild` sends Started and stores the build; `SignalBegin` is the signal of
a client that has uploaded its files, after `hb.Before`; `DepFinished` and
`Locate` (or `LocateNothing`, the panic) handle one dependency, then
`ScheduleBegin`, `ScheduleLock`, `ScheduleReturn` schedule the job and start its
watcher. A watcher waits (`WatchFinished`, `WatchCancelled`), reads the result
and swaps the counter (`WatchSwap`), and writes (`WatchWrite`); the write fails
when the client is gone (`WatchWriteFails`), and after the StartBuild handler
returned its outcome is undefined (`WatchWriteLate`: lost, or a panic that ends
the process; it may also fail). The context of a signal is done when the
client is gone or SignalBuild has returned or panicked, as `net/http` cancels
it. `errs` is a Boolean, because the unlocked appends may lose entries but never
the fact that there is one. A client signals a build once. The removal of source
files is in `Files` and `Workers`.

### Coordinator

The composition interleaves both services over one scheduler; a panic in a
goroutine of its own (`crashed`) stops everything, a panic in a handler does
not, because `net/http` recovers it.

### HappensBefore

One key: `create` is two map lookups under a mutex, and keys share nothing else.
Every atomic operation on the counter and every read or replacement of `*wait`
is a step. Channels are numbered in the order in which they are made.

### ArtifactCache

`op[g][e]` is the call of goroutine `g` about entry `e`. A call is split where it
leaves `mu`: `readLock` and then the stat of the directory (`GetFound`,
`GetMissing`), `Create` and then `CreateReady` or `CreateFails`, the write that
ends in `commit` or `abort`, `Remove` and then `RemoveFiles` or `RemoveFails`, and
the deferred `writeUnlock`. `disk[e]` is the content of `c/<e>`, which survives a
restart. `tmp/<e>` belongs to its writer, so the write lock stands for it; `stale`
has the entries whose `tmp/<e>` a failed rename (`commitFails`) or a failed
`RemoveAll` (`abort`) left behind, which the next `Create` takes over as it is.
`MayFail` names the file system calls that may fail; with `"stat"` in it os.Stat
may answer something else than found or not found (`GetFails`, `StatFails`). An
instance may hold the entries of several
caches: they share nothing.

### Files

Every request is about the same `File`, because files share no state but mutexes.
A PUT takes the key (`PutLock`), and then either writes (`PutWrite`, `PutMkdir`,
`PutCreate`, `PutCopy`) or finds the file there, removes it and goes back to
`start` (`PutExists`, `PutRemove`, `PutRemoved`, `PutRestart`). Each way out is a
step: the refusal of a lock, an os.Stat that fails, a client that leaves in the middle of the body, a
panic on the nil abort when `os.Create` fails (`PutCreate`, which leaves the write
lock), and a `Close` that fails after its commit has unlocked (`PutClosed`), upon
which the deferred abort unlocks again, whoever has the lock then (`PutAbort`). A
GET runs the function of singleflight (`GetDo`, `GetLock`, `GetStat`, `GetSend`)
or joins the one that does; `GetLand` ends both. A watcher removes the file.

### Workers

The coordinator is `JobTable`, which `Scheduler` implements, with what workers
see of it besides: the one location of a job (`loc`) and the removed source files
(`gone`). Each job of a batch has a goroutine, which goes through the loops of
`runJob` and `executeJob` (`stage`): download the dependencies, download the
files, link the files into `os.TempDir()` (`temp`), create the output, open the
dependencies, then run the commands and commit. `temp` is per host and not per
worker: `Host` says which workers share a machine, so `Unlink` and `Link` (the
`os.Remove` and the `os.Link` of `linkFiles`) meet those of jobs on other workers.
Every look into a cache, request, lock and link is a step; `Strike` lets a
connection, a command or the file system fail. `FindsStale` is a download into a
`tmp/<id>` that an earlier one left, and `Receive` may as well write over it and
commit. `Crash` is the end of a worker's process, by the nil command of a failed
Render, by the nil abort of a failed os.Create, or by the panic of `executeJob` when
os.Stat fails on a dependency. `Leftover` are artifacts that its earlier life may
have left in `c/`. `ServeEnds` is the end of a download on the side of the serving
worker. `mates` (the jobs that were in runJob on the host at the same time) and
`hurt` (the goroutines that the environment failed) are history variables.

### TopSort and Client

The recursion of `TopSort` is a stack; a dependency that is no job of the build is
looked up in the index map, which answers 0 and so the first job. `Client` is
`Build` step by step: StartBuild, a goroutine for each missing file with the
channel `errs` on which a failed upload sends twice, SignalBuild, and the
listener; `BreakOff` is a request or a stream that breaks, or a cancelled context.
What it sees of the coordinator is the sort and SignalBuild, which goes through the
sorted jobs (`begun`): `ScheduleJob` when all dependencies of the next one are
finished, the panic `DepUnknown` when one of them is no job of the build, `DepFails`
for the panic of the locate window and for the end of its context. `JobFinishes` is
what the workers do. A watcher writes its update into a stream with room for `Room`
(`Updated`: in time, too late, or in vain when the client has left) or gives up when
the context is done (`GiveUp`); one that writes when all jobs have finished also
writes BuildFinished. `lost` are the jobs whose update the stream never had.

## 3. What is checked

| Run | Instance | Shows |
|---|---|---|
| `scheduler` | 2 jobs, 2 builds, 2 workers, channel of 1, 2 locations; every call at any time, also reports of jobs nobody scheduled and nil results | types, lock discipline of a send, a job is offered once, the map accounts for all jobs, a finished job without location has a report on its way, the first result stays, and the refinement of `JobTable` |
| `coordinator` | 2 builds that share `j1`, `j2` depends on `j1`, 2 workers with 2 slots, channel of 1, one death, one departure, Stop | every unsettled job is with exactly one worker or dropped; no unknown job is reported; a job in the channel has finished, locatable dependencies; no nil result is read; the refinement of `BuildContract` |
| `coordinator_live` | as above with 1 slot, channel of 2, nobody dies, leaves or stops | a finished job becomes locatable; a signalled build ends |
| `happens_before` | 2 goroutines that call `Happen` 3 times, one that calls `Before` 6 times | the counter's balance, no lost wake-up, the order, no double close, every `Before` returns |
| `files` | two PUTs, two GETs and a watcher of one file, anything may fail | a PUT goes round once, uploads do not refuse each other, a handler that is over holds nothing but the lock of a panic, a writer is alone until a failed Close has unlocked twice, every request ends |
| `files_cache` | the same, but Close does not fail | the lock maps are exact, a GET is sent a whole content (or nothing when it joined one that was), a reader is not disturbed, and the refinement of `ArtifactStore` |
| `workers` | 3 jobs, 2 workers on one host, any failure, deaths and leftovers | a job that comes to its commands has and holds its dependencies, a success is stored and readable, locks are returned but for those of a failed command, a job fails only for the reasons listed, its inputs are linked unless a job that ran beside it on the host has a file of that path |
| `client` | the graphs of 0, 2 and 3 jobs, with unknown dependencies or none, 2 missing files, a stream of 2 updates; SignalBuild may fail anywhere, jobs need not finish | a topological order; nil means uploaded, all jobs finished, none unknown, and heard of all but the updates that came after the end of the stream; Build ends unless the stream is full, a worker does not take or finish a job, or the build is empty |
| `coordinator_locate` | as `coordinator`, nobody fails | **violated**: SignalBuild panics in the window of `OnJobComplete` |
| `coordinator_updates` | as `coordinator`, nobody fails | **violated**: an update is lost behind BuildFinished |
| `coordinator_full` | 3 independent jobs, 1 worker with 1 slot, channel of 1 | **violated**: the send under `jobsMu` deadlocks with the workers' reports |
| `happens_before_two` | 2 goroutines in `Before` | **violated**: the second one does not wait |

### Bounds

* *Two builds and two workers* are what the races need: two callers of each
  kind of call. *A channel of one job* makes a send block; the code's 10 000
  differ only in how many jobs that takes.
* *Two jobs, one depending on the other and shared by the builds*, give a
  dependency that another build schedules, a job that is already finished when
  it is scheduled, and a build whose watchers race.
* *`MaxKept` 2* in `scheduler` makes a third report evict a location; 4, as in the
  code, in `coordinator`. `Slots` 2 has both PickJob and TryPickJob fill a batch.
* `MaxDeaths`, `MaxGone` and `MayStop` bound the failures. One result value is
  enough where the runs need only tell it from nil: with nil there are two in
  `scheduler`, so a replaced result is seen.
* *Two PUTs, two GETs and one watcher* of one file give every pair of calls that
  can meet, a GET that joins another one, and a third party between the two
  critical sections of a PUT. A second watcher would differ from the first only
  in time.
* *Three jobs on two workers*: `b` and `c` need `a`, so two jobs of a batch may
  download the same artifact from the other worker; `a` and `b` share a source
  file; `b` and `c` have files of the same path. Leftovers are possible for `a`. Both
  workers are on one host, as in `disttest/fixture.go`, which starts three in one
  process: two are what a job and another one that takes its link away need. The
  workers are symmetric, and the run checks invariants only (1 098 325 states).
* *All graphs of two and of three jobs, with unknown dependencies or none, and the
  empty one* give every shape of a visit: shared, nested, repeated, out of order.
  `Room` 2 with three jobs lets the stream fill up; the code has no such number,
  it is the buffers of a socket.
* Deadlock checking is off in all runs: builds end, workers die, `Stop` stops,
  and in those states the system rests.

### Fairness

`FairCoordSpec`: every goroutine that can take its next step takes it
(weak fairness), because the Go runtime schedules all of them; acquiring
`jobsMu` is strongly fair, because Go's mutex hands itself to its oldest waiter
when that one starves. A worker's commands end and it sends its next heartbeat.
No client has to start or signal, and nobody has to die. Receives are weakly
fair only: two handlers may compete for the channel. `FairHBMSpec` is weak
fairness of every goroutine.

`FairFilesSpec`: every goroutine is weakly fair, and a client that uploads or
downloads sends, receives or leaves. `FairClientSpec`: Build, the coordinator and
each upload are weakly fair. Nothing is assumed of the workers: ScheduleJob may
never return (run `coordinator_full`), and a job that is scheduled may never finish
(its worker dies).

`EventuallyOver` has two escapes, both real and both findings: the panic in the
locate window and the crash of a late write. `EndsOrStuck` has three: a full stream
(`FlowStuck`), because Build reads only after SignalBuild has answered; workers
that do not take or finish a job (`WorkersStuck`), for which SignalBuild and so
Build wait without a timeout; and a build without jobs (`EmptyBuild`), which has no
watcher to end its stream. A panic of SignalBuild is no escape: Build must end.

### Where the code departs from its documents

Four runs end in a counterexample, listed under "findings" in `PROJECT.json`. Two
more departures are stated as exceptions of properties that hold:

* `AloneUnlessCloseFailed`: when `Close` of an upload fails, the file is unlocked
  twice (`artifact/cache.go:158-166`, `filecache/handler.go:126-130`). A watcher
  that took the write lock in between loses it, and a GET may read the file while
  it is removed, although `artifact/README.md:11` says that nobody else works with
  an artifact locked for writing.
* `GetsAreServed`: a GET that joins another one is answered with status 200 and no
  body (`filecache/handler.go:67-96`), although `filecache/README.md:11` promises
  the content; a worker commits such an answer as the file.

## 4. What is proved

`SchedulerProofs` proves, for any sets of jobs, builds and workers, any capacity
and any `MaxKept` of at least 1, and from the named assumptions in `Scheduler`
(the special values are no ordinary values, no goroutine is both a build's and
a worker's):

* `Invariance`: the inductive invariant `IInv`;
* `TypeCorrect`, `SendHoldsLock`, `OfferedAtMostOnce`, `EveryJobAccounted`,
  `LocatableSoon`: the invariants of run `scheduler`;
* `FirstReportDecides`: the action property `FirstResultWins`;
* `SchedulerImplementsJobTable`: the refinement.

The argument: a duplicate in the channel could come only from a send of a job
that is in the channel or was received; `Accounted` says such jobs are in the
map; `PushHoldsLock` says the job being sent is not, which holds because the
check was made under `jobsMu`, every change of the map needs `jobsMu`, and the
sender keeps it. None of these is inductive alone, so `IInv` is their conjunction
with the types and `ArgIsJob`. `RecordOnTheWay` needs that a report never leaves
an empty list, which is `WithWorkerBounded`. The refinement maps `phase` to where
the job is (channel, received, neither) and `outcome` to the result behind a
closed `Finished`.

`HappensBeforeProofs` proves, for one waiting goroutine (`Waiters = {w}`, as a
build id is signalled once) and any finite number of goroutines that call
`Happen` any number of times:

* `HInvariance`: the inductive invariant `HInv(w)`;
* `CounterBalanced`, `BeforeComesAfter`, `WakeupComes`, `ClosedOnce`: the
  invariants of run `happens_before`.

The argument: the counter equals one, plus the calls of `Happen` that added,
minus the calls of `Before` that did (`CounterOf`), and is never below
`waiting`, so `Before` has never returned more often than an event ran. The
`Happen` that brings the counter from 0 to 1 is the only one to close; until the
waiter has replaced the channel no other can bring it there, because only the
waiter lowers the counter (`ChannelOf`). With two waiters the counter
passes below `waiting` and the order fails, which is run `happens_before_two`.

`CoordinatorProofs` proves, for any builds, graphs, workers, slots and failures:

* `CoordInvariance`: the inductive invariant `CInv`;
* `CoordinatorUsesScheduler`: the composition implements `Scheduler!Spec`, so all
  that `SchedulerProofs` says holds of it;
* `JobsHeldOnce`, `ReportsAreKnown`, `DependenciesFirst`, `WatchersAreSafe`: the
  invariants of run `coordinator`;
* `CoordinatorOffersInOrder`: as `JobTable` sees it, no job is offered before the
  jobs it depends on have their outcomes;
* `CoordinatorKeepsContract`: the refinement of `BuildContract`.

The argument: the services change the scheduler's variables only through its
calls, so `IInv` is preserved by the lemmas of `SchedulerProofs`. `CInv` adds three
parts. `BatchOK`: where a worker is in its loop says which jobs it holds, so a job
that is taken or settled changes hands once (`Moves` is that bookkeeping).
`SignalOK`: the dependencies that SignalBuild has looked at are finished and
locatable, and what it sends is the job it looked at them for. `WatchOK`: a
build's counter plus its watchers that have not swapped never exceed the number
of its jobs, so it is full once and one watcher announces the end. A report that
settles a job maps to `Settle`, a watcher's write to `TellMore` or `TellOver`, and
every other step stutters.

`ArtifactCacheProofs` proves, for any finite number of goroutines and any entries,
contents and failures: `MapsAreExact` (`CacheOK`, which is inductive: the counter
of readers is the cardinality of the set of readers), `ReadsAreStable` and
`CacheImplementsStore`.

`FilesProofs` proves, for any finite number of requests and whatever fails, the
invariant `FInv`: a goroutine's place says which lock it has (`LocksAsPlaced`), at
most one PUT has the key (`OneKey`), and a PUT that has been round finds no file
(`RoundOnce`), which needs both, since nobody else can create the file while it
has the key. From it follow `PutsGoRoundOnce`, `PutsTakeTurns` and
`HandlersCleanUp`. Under the assumption `CloseWorks` that Close does not fail, nor the
rename in it, the handlers implement `ArtifactCache` (`FilesUseCache`), hence `FilesCacheOK`,
`DownloadsUndisturbed`, `FilesImplementStore` and `DownloadsServed`: the first GET
sends what it has locked, and those that joined it are answered when it is. Without
the assumption, `WritersAreAlone` says that the second unlock after a failed Close
is the only thing that breaks the cache: every other step of a handler is one of
the cache, and a PUT gets to the second unlock only with that error, which stays
its answer.

`WorkersProofs` proves, for any jobs, workers, graphs and failures:

* `WorkersCacheOK`, `WorkersUseCache`, `WorkersUndisturbed`, `WorkersKeepStore`: the
  jobs and the handlers of the workers use their caches as `ArtifactCache`, so all
  that `ArtifactCacheProofs` says holds of them;
* `WorkersKeepTable`, `WorkersRelyOnOrder`: towards the coordinator they are callers
  of `JobTable`, and it offers jobs in the order of `CoordinatorOffersInOrder`: the
  guard `DepsSettled` of `Schedule` asks no more than the coordinator keeps;
* `DepsAreThere`, `SuccessIsThere`, `LocksAreReturned`, `FailuresHaveReasons`,
  `InputsAreThere`: the invariants of run `workers`.

The assumptions are those that `Workers` names: jobs and files have different caches
(`TwoCachesAssumption`), no job depends on itself, and no two files of a job have the
same path (`PathAssumption`: StartBuild finds the files of a job in `fileNameToID`,
which has one identifier per path, `build_service.go:29-50`). The invariant has five
layers, each of which needs the ones before it:

* `WInv`. A worker never removes an artifact, so what was complete stays so: what
  the download loop has passed (`DepsPassed`) is there for the loop that opens it
  (`DepsOpen`), and what a job has committed (`Written`) is there when it is
  reported.
* `Ordered`. A job is offered after its dependencies were reported, one goroutine has
  it, and it is over once the job has an outcome; those who are in runJob on one
  host at the same time have each other among their `mates`; and each place of the loops is about an item of the job
  (`ItemsOK`).
* `Locked`. The locks a goroutine has follow from its place (`LoopLocks`,
  `OpenLocks`). On another worker it only reads, and only what was reported from
  there (`Remote`), so no stream that is still running locks what a worker has yet
  to write. A dependency its own worker has made is not downloaded over itself
  (`SelfAsked`). `LocksAreReturned` is what this says of a goroutine that is over.
* `Reasons`. Whenever a step refuses something to a job, the refusal has a cause the
  job can be told: the lock is held by a job that runs beside it (`InTheWay`), the
  entry or the link was not there a step ago and nobody beside it makes one
  (`AloneOK`), the artifact is from an earlier life (`JustWritten`), the file is gone
  because a job that has it has finished, or `tmp/<id>` was left by a job of the
  worker that was failed itself (`StaleOK`, a part of `Remains`). Causes do not go away
  (`ReasonStays`), so a failed job still has one when it is over.
* `Links`. A link is replaced only by a job of the host that was in runJob at the same
  time and has a file of that path, on whichever worker.

The actions are summed up once (`Steps`, `Beside`, `ServeStep`, and `EveryStep`, which
says that these are all), and each layer is shown to be kept by these.

`ClientProofs` proves, for any number of files, jobs and places in the stream:
`BuildHears` (`NilMeansHeard`) and, for every graph without cycles, `BuildsAreSorted`.
Build counts answers and not uploads, and a failed upload answers twice; still as many
answers without an error as there are files mean that each file is stored, because a
failed upload sends its error before its nil (`Counted`). The listener hears of every
job that is not lost because a job is unsent, lost, in the stream or heard, and only
one of these (`Once`, `NoneForgotten`); lost updates are real (run
`coordinator_updates`), and Build may return nil with them. A nil answer needs the
end of the stream, that needs BuildFinished, and that a counter which only jobs that
have finished raise: so all were scheduled, each after its dependencies, and a graph
that names an unknown one never gets there (`Jobs`).
`ClientSorts` carries the theorem of `TopSortProofs` over to a client that goes on
while StartBuild sorts.

`TopSortProofs` proves `SortsTopologically`, for every acyclic graph of any size.
The invariant has the graph's rank as a parameter: ranks fall along the stack, so
a visited job that is not sorted is on the stack and cannot be a dependency of
its top.

Every invariant and action property of a passing run, and every refinement, is a
theorem; each was checked by TLC first, and so were the layers of the invariants. Only
model-checked are the liveness properties (`EventuallyLocatable`, `EventuallyOver`,
`EveryBeforeReturns`, `EveryRequestEnds`, `EndsOrStuck`): the prover does not handle
fairness and ENABLED. The theorems about `HappensBefore` are for one waiter, because
with two the order fails; those about `Files` that name `CloseWorks` need it.

## 5. Not modelled

* Several signals of one build, a signal without `UploadDone`, and malformed
  requests. `Client.Build` sends none of them. What two signals do to the
  happens-before machine is run `happens_before_two`.
* A dependency that is no job of its build in `BuildService` and `Coordinator`
  (`JobSeqAssumption`): the panic it causes ends SignalBuild as the one of the locate
  window does, and is `DepUnknown` in `Client`.
* The second unlock after a failed `Close` in a worker's download
  (`filecache/client.go:108`), which is the one in `Files`; the empty body of a
  download that joined another one; a `RemoveAll` that fails half way (it removes
  or it does not).
* `Range` of the artifact cache has no caller. `jobResultCache` is never hit, since
  a job is offered once. The sync map's operations are atomic parts of the steps
  that use them.
* Graph and command types, templates, identifiers, the tar stream, JSON and HTTP
  framing, logging, metrics and the command line have no state of interest.

What could come next: builds with several signals, a failing `Close` in `Workers`, and
one specification of `Workers` with `Coordinator`: for now `JobTable`, with the order
of its offers, is what each is shown to keep towards the other.
