--------------------------- MODULE WorkersProofs ---------------------------
(***************************************************************************)
(* Proofs about the workers, for any number of workers and jobs and any    *)
(* graph.  The invariant has five layers.                                  *)
(*                                                                         *)
(* WInv: their jobs use the caches as the cache allows.  Workers never     *)
(* remove an artifact, so one that was complete once stays complete and    *)
(* can never be refused again: a job that gets to its commands has its     *)
(* dependencies, and one that is reported without an error has left its    *)
(* artifact where it was reported.                                         *)
(*                                                                         *)
(* Ordered: who has a job, since when, and beside whom.  Locked: the locks *)
(* of a goroutine follow from its place.  Reasons: whenever a step made a  *)
(* job fail, something had gone wrong before, and that stays visible.      *)
(* Links: what a job has linked for its commands is there.                 *)
(*                                                                         *)
(* Each layer uses the ones before it.  The actions of Workers are         *)
(* summed up once, by the place a goroutine is at (Steps), by what only    *)
(* moves jobs between their owners (Beside) and by the end of a stream     *)
(* (ServeStep); the layers are shown to be kept by these.                  *)
(***************************************************************************)
EXTENDS Workers, ArtifactCacheProofs

JobPlaces == {"off", "picked", "next", "get", "stat", "unlockRead", "unlink", "hardlink",
              "request", "serve", "create", "mkdir", "receive", "unlockWrite",
              "command", "release", "done", "over", "dead", "panic"}

Loops == {"deps", "files", "link", "output", "open"}

WorkTypes == /\ pc \in [Procs -> JobPlaces]
             /\ stage \in [Procs -> Loops]
             /\ todo \in [Procs -> SUBSET (Jobs \cup Sources)]
             /\ cur \in [Procs -> Jobs \cup Sources]
             /\ ok \in [Procs -> BOOLEAN]
             /\ outcome \in [Jobs -> {"open", "ok", "failed"}]
             /\ loc \in [Jobs -> Workers \cup {Nothing}]

\* The entry e is complete: it is in c/, and no writer is at it.
Stored(e) == disk[e] # Absent /\ e \notin writeLocked

\* Each place belongs to some of the loops.
InLoop(p) ==
    /\ pc[p] \in {"off", "picked"} => stage[p] = "deps"
    /\ pc[p] \in {"next", "get", "stat"} => stage[p] \in {"deps", "files", "link", "open"}
    /\ pc[p] \in {"unlockRead", "unlink", "hardlink"} => stage[p] \in {"deps", "files", "link"}
    /\ pc[p] \in {"request", "serve", "receive"} => stage[p] \in {"deps", "files"}
    /\ pc[p] \in {"create", "mkdir"} => stage[p] \in {"deps", "files", "output"}
    /\ pc[p] \in {"command", "release"} => stage[p] = "open"
    /\ pc[p] = "unlockWrite" => stage[p] \in {"deps", "files", "open"} \/ ~ok[p]

\* The dependencies that runJob has gone through are complete.
DepsPassed(p) ==
    LET passed == IF stage[p] = "deps" THEN Deps[p[2]] \ todo[p] ELSE Deps[p[2]]
    IN  pc[p] \notin {"off", "picked", "done", "over", "dead"}
            => \A d \in passed : Stored(<<p[1], d>>)

\* The dependencies that executeJob has opened are locked.
DepsOpen(p) ==
    stage[p] = "open" =>
        /\ todo[p] \subseteq Deps[p[2]]
        /\ pc[p] \in {"get", "stat"} => cur[p] \in todo[p]
        /\ pc[p] \in {"next", "get", "stat", "command"} =>
               \A d \in Deps[p[2]] \ todo[p] : op[p][<<p[1], d>>] = "reading"
        /\ pc[p] = "command" => todo[p] = {}

\* What was written without an error is there, and stays there.
Written(p) == /\ pc[p] = "unlockWrite" /\ ok[p] => disk[Target(p)] # Absent
              /\ pc[p] = "done" /\ ok[p] => Stored(Own(p))

JobOK(p) == /\ pc[p] # "panic"
            /\ InLoop(p) /\ DepsPassed(p) /\ DepsOpen(p) /\ Written(p)

\* A job that succeeded was reported by a worker.
Placed == \A j \in Jobs : outcome[j] = "ok" => loc[j] \in Workers

WInv == /\ CacheOK /\ WorkTypes
        /\ \A p \in Procs : JobOK(p)
        /\ Placed /\ SucceededIsStored

-----------------------------------------------------------------------------
\* The calls a worker makes; it never removes anything.
WorkerCall(g, e) == \/ readLock(g, e) \/ GetFound(g, e) \/ GetMissing(g, e) \/ GetFails(g, e)
                    \/ readUnlock(g, e)
                    \/ Create(g, e) \/ CreateReady(g, e) \/ CreateFails(g, e) \/ commit(g, e, New)
                    \/ commitFails(g, e) \/ abort(g, e) \/ writeUnlock(g, e)

\* A step may call the cache as p, about e, or not at all.
Calls(p, e) == p \in Procs /\ e \in Entries /\ (WorkerCall(p, e) \/ UNCHANGED cacheVars)

\* Jobs of several workers, each with the entries of its own worker.
LEMMA WorkFacts ==
    /\ Absent \notin Contents /\ New \in Contents /\ Old \in Contents
    /\ \A p \in Procs : p[1] \in Workers /\ p[2] \in Jobs /\ p = <<p[1], p[2]>>
    /\ \A p \in Procs, x \in Jobs \cup Sources : <<p[1], x>> \in Entries
    /\ \A p \in Procs : Deps[p[2]] \subseteq Jobs /\ p[2] \notin Deps[p[2]]
    /\ \A p \in Procs : SourceFiles[p[2]] \subseteq Sources
    /\ \A w \in Workers, x \in Jobs \cup Sources : <<w, x>> \in Entries
    /\ \A w \in Workers, j \in Jobs : <<w, j>> \in Procs
    /\ Procs \subseteq Entries
BY AbsentAssumption, WorkerContentsAssumption, EntriesAssumption, GoroutinesAssumption,
   DepsAssumption

\* A call keeps the cache in order and what is complete complete; it moves
\* nobody else, and p nowhere else.
LEMMA CallKeeps ==
    ASSUME CacheOK, NEW p, NEW e, Calls(p, e)
    PROVE  /\ CacheOK'
           /\ \A x \in Entries : disk[x] # Absent => disk'[x] # Absent
           /\ \A x \in Entries : Stored(x) => Stored(x)'
           /\ \A q \in Procs, x \in Entries : q # p \/ x # e => op'[q][x] = op[q][x]
<1> p \in Procs /\ e \in Entries
  BY DEF Calls
<1>1. CASE UNCHANGED cacheVars
  <2>1. CacheOK'
    BY <1>1, StepCacheOK
  <2> QED BY <1>1, <2>1 DEF cacheVars, Stored
<1>2. CASE WorkerCall(p, e)
  <2>1. ReadStep(p, e) \/ WriteStep(p, e)
    BY <1>2, WorkFacts DEF WorkerCall, ReadStep, WriteStep
  <2>2. CacheOK'
    BY <2>1, ReadKeeps, WriteKeeps
  <2>3. CacheTypeOK /\ disk \in [Entries -> Contents \cup {Absent}]
        /\ writeLocked \subseteq Entries
    BY Facts
  <2>4. \E from, to \in Places : Move(p, e, from, to)
    BY <1>2 DEF WorkerCall, readLock, GetFound, GetMissing, GetFails, readUnlock, Unread, Create,
       writeLock, CreateReady, CreateFails, commit, commitFails, abort, writeUnlock,
       Places, Reads, Writes
  <2>5. \A q \in Procs, x \in Entries : q # p \/ x # e => op'[q][x] = op[q][x]
    BY <2>3, <2>4, Moved
  <2>6. \A x \in Entries : disk[x] # Absent => disk'[x] # Absent
    BY <1>2, <2>3, WorkFacts DEF WorkerCall, readLock, GetFound, GetMissing, GetFails,
       readUnlock, Unread, Create, writeLock, CreateReady, CreateFails, commit, commitFails,
       abort, writeUnlock, lockVars, dirVars
  <2>7. \A x \in Entries : disk[x] # Absent /\ x \notin writeLocked => x \notin writeLocked'
    BY <1>2, <2>3 DEF WorkerCall, readLock, GetFound, GetMissing, GetFails, readUnlock, Unread,
       Create, Exists, writeLock, CreateReady, CreateFails, commit, commitFails, abort,
       writeUnlock, lockVars, dirVars
  <2> QED BY <2>2, <2>5, <2>6, <2>7 DEF Stored
<1> QED BY <1>1, <1>2 DEF Calls

\* Who reads an entry found it complete.
LEMMA ReaderSees ==
    ASSUME CacheOK, NEW p \in Procs, NEW e \in Entries, op[p][e] = "reading"
    PROVE  Stored(e)
<1>1. /\ e \in writeLocked <=> Writers(e) # {}
      /\ Readers(e) = {} \/ Writers(e) = {}
      /\ op[p][e] = "reading" => disk[e] # Absent
  BY DEF CacheOK
<1>2. p \in Readers(e)
  BY DEF Readers
<1> QED BY <1>1, <1>2 DEF Stored

-----------------------------------------------------------------------------
\* A step of the goroutine p leaves the others, the table and loc alone.
Frame(p) == /\ \A q \in Procs \ {p} : /\ pc'[q] = pc[q] /\ stage'[q] = stage[q]
                                      /\ todo'[q] = todo[q] /\ cur'[q] = cur[q]
                                      /\ ok'[q] = ok[q]
            /\ WorkTypes'
            /\ UNCHANGED <<outcome, loc>>

\* What another goroutine does takes nothing from what is known of q.
LEMMA OthersKeep ==
    ASSUME WInv, NEW p, NEW e, Calls(p, e), NEW q \in Procs, q # p,
           pc'[q] = pc[q], stage'[q] = stage[q], todo'[q] = todo[q],
           cur'[q] = cur[q], ok'[q] = ok[q]
    PROVE  JobOK(q)'
<1>1. /\ \A x \in Entries : disk[x] # Absent => disk'[x] # Absent
      /\ \A x \in Entries : Stored(x) => Stored(x)'
      /\ \A x \in Entries : op'[q][x] = op[q][x]
  BY CallKeeps DEF WInv
<1>2. JobOK(q) /\ cur[q] \in Jobs \cup Sources
  BY DEF WInv, WorkTypes
<1>3. /\ \A d \in Deps[q[2]] : <<q[1], d>> \in Entries
      /\ Here(q) \in Entries /\ Own(q) \in Entries /\ Target(q) \in Entries
  BY <1>2, WorkFacts DEF Here, Own, Target
<1>4. Target(q)' = Target(q) /\ Own(q)' = Own(q)
  BY DEF Target, Here, Own
<1>5. InLoop(q)'
  BY <1>2 DEF JobOK, InLoop
<1>6. DepsPassed(q)'
  <2> DEFINE passed == IF stage[q] = "deps" THEN Deps[q[2]] \ todo[q] ELSE Deps[q[2]]
  <2>1. passed \subseteq Deps[q[2]]
    OBVIOUS
  <2>2. pc[q] \notin {"off", "picked", "done", "over", "dead"}
            => \A d \in passed : Stored(<<q[1], d>>)
    BY <1>2 DEF JobOK, DepsPassed
  <2>3. pc[q] \notin {"off", "picked", "done", "over", "dead"}
            => \A d \in passed : Stored(<<q[1], d>>)'
    BY <1>1, <1>3, <2>1, <2>2
  <2> QED BY <2>3 DEF DepsPassed
<1>7. DepsOpen(q)'
  BY <1>1, <1>2, <1>3 DEF JobOK, DepsOpen
<1>8. Written(q)'
  BY <1>1, <1>2, <1>3, <1>4 DEF JobOK, Written
<1> QED BY <1>2, <1>5, <1>6, <1>7, <1>8 DEF JobOK

\* A step of p that leaves p itself in order keeps the invariant.
LEMMA JobKeeps ==
    ASSUME WInv, NEW p, NEW e, Calls(p, e), Frame(p), JobOK(p)'
    PROVE  WInv'
<1>1. CacheOK' /\ \A x \in Entries : Stored(x) => Stored(x)'
  BY CallKeeps DEF WInv
<1>2. WorkTypes' /\ outcome' = outcome /\ loc' = loc
  BY DEF Frame
<1>3. \A q \in Procs : JobOK(q)'
  BY OthersKeep DEF Frame
<1>4. \A j \in Jobs : outcome[j] = "ok" => /\ <<loc[j], j>> \in Entries
                                          /\ Stored(<<loc[j], j>>)
  BY WorkFacts DEF WInv, Placed, SucceededIsStored, Stored
<1>5. \A j \in Jobs : outcome[j] = "ok" => /\ disk'[<<loc[j], j>>] # Absent
                                          /\ <<loc[j], j>> \notin writeLocked'
  BY <1>1, <1>4 DEF Stored
<1>6. SucceededIsStored'
  BY <1>2, <1>5 DEF SucceededIsStored
<1>7. Placed'
  BY <1>2 DEF WInv, Placed
<1> QED BY <1>1, <1>2, <1>3, <1>6, <1>7 DEF WInv

-----------------------------------------------------------------------------
\* The state of p after a step.
Becomes(p, a, s, t, c, k) == /\ Frame(p)
                             /\ pc'[p] = a /\ stage'[p] = s /\ todo'[p] = t
                             /\ cur'[p] = c /\ ok'[p] = k

\* What the helpers of the actions say.
LEMMA Helpers ==
    ASSUME WorkTypes, NEW p \in Procs, UNCHANGED <<outcome, loc>>
    PROVE  /\ Fail(p) => Becomes(p, "done", stage[p], todo[p], cur[p], FALSE)
           /\ NextItem(p) => Becomes(p, "next", stage[p], todo[p] \ {cur[p]}, cur[p], ok[p])
           /\ \A a \in JobPlaces :
                  Goto(p, a) /\ UNCHANGED jobVars
                      => Becomes(p, a, stage[p], todo[p], cur[p], ok[p])
           /\ \A s \in Loops, t \in SUBSET (Jobs \cup Sources) :
                  Enter(p, s, t) => Becomes(p, "next", s, t, cur[p], ok[p])
<1>1. Fail(p) => Becomes(p, "done", stage[p], todo[p], cur[p], FALSE)
  BY DEF Fail, Goto, Becomes, Frame, WorkTypes, JobPlaces
<1>2. NextItem(p) => Becomes(p, "next", stage[p], todo[p] \ {cur[p]}, cur[p], ok[p])
  BY DEF NextItem, Goto, Becomes, Frame, WorkTypes, JobPlaces
<1>3. ASSUME NEW a \in JobPlaces, Goto(p, a), UNCHANGED jobVars
      PROVE  Becomes(p, a, stage[p], todo[p], cur[p], ok[p])
  BY <1>3 DEF Goto, Becomes, Frame, WorkTypes, jobVars
<1>4. ASSUME NEW s \in Loops, NEW t \in SUBSET (Jobs \cup Sources), Enter(p, s, t)
      PROVE  Becomes(p, "next", s, t, cur[p], ok[p])
  BY <1>4 DEF Enter, Goto, Becomes, Frame, WorkTypes, JobPlaces
<1> QED BY <1>1, <1>2, <1>3, <1>4

\* An error ends a job without a claim.
LEMMA FailKeeps ==
    ASSUME WInv, NEW p \in Procs, NEW e, Calls(p, e),
           Becomes(p, "done", stage[p], todo[p], cur[p], FALSE)
    PROVE  WInv'
<1>1. JobOK(p)
  BY DEF WInv
<1>2. JobOK(p)'
  BY <1>1 DEF JobOK, InLoop, DepsPassed, DepsOpen, Written, Becomes
<1> QED BY <1>2, JobKeeps DEF Becomes

\* A goroutine inside its loops keeps the dependencies it has passed.
LEMMA PassedKept ==
    ASSUME WInv, NEW p \in Procs, NEW e, Calls(p, e), NEW a, NEW c, NEW k,
           Becomes(p, a, stage[p], todo[p], c, k),
           pc[p] \notin {"off", "picked", "done", "over", "dead"}
    PROVE  DepsPassed(p)'
<1> DEFINE passed == IF stage[p] = "deps" THEN Deps[p[2]] \ todo[p] ELSE Deps[p[2]]
<1>1. \A d \in passed : Stored(<<p[1], d>>)
  BY DEF WInv, JobOK, DepsPassed
<1>2. \A d \in passed : <<p[1], d>> \in Entries
  BY WorkFacts
<1>3. \A d \in passed : Stored(<<p[1], d>>)'
  BY <1>1, <1>2, CallKeeps DEF WInv
<1> QED BY <1>3 DEF DepsPassed, Becomes

\* A step inside a loop: what is left to show.
LEMMA InsideKeeps ==
    ASSUME WInv, NEW p \in Procs, NEW e, Calls(p, e), NEW a, NEW c, NEW k,
           Becomes(p, a, stage[p], todo[p], c, k),
           pc[p] \notin {"off", "picked", "done", "over", "dead"},
           a # "panic", InLoop(p)', DepsOpen(p)', Written(p)'
    PROVE  WInv'
<1>1. DepsPassed(p)'
  BY PassedKept
<1>2. JobOK(p)'
  BY <1>1 DEF JobOK, Becomes
<1> QED BY <1>2, JobKeeps DEF Becomes

\* The loop goes on with the next item when cur[p] is done with.
LEMMA NextItemKeeps ==
    ASSUME WInv, NEW p \in Procs, NEW e, Calls(p, e),
           Becomes(p, "next", stage[p], todo[p] \ {cur[p]}, cur[p], ok[p]),
           pc[p] \notin {"off", "picked", "done", "over", "dead"},
           stage[p] \in {"deps", "files", "link", "open"},
           stage[p] = "deps" /\ cur[p] \in Jobs => Stored(Here(p))',
           stage[p] = "open" => /\ pc[p] \in {"get", "stat"}
                                /\ e = Here(p) /\ op'[p][e] = "reading"
    PROVE  WInv'
<1>1. JobOK(p)
  BY DEF WInv
<1>2. DepsPassed(p)'
  <2> DEFINE passed == IF stage[p] = "deps" THEN Deps[p[2]] \ todo[p] ELSE Deps[p[2]]
  <2>1. \A d \in passed : Stored(<<p[1], d>>) /\ <<p[1], d>> \in Entries
    BY <1>1, WorkFacts DEF JobOK, DepsPassed
  <2>2. \A d \in passed : Stored(<<p[1], d>>)'
    BY <2>1, CallKeeps DEF WInv
  <2>3. ASSUME stage[p] = "deps", NEW d \in Deps[p[2]] \ (todo[p] \ {cur[p]})
        PROVE  Stored(<<p[1], d>>)'
    <3>1. CASE d = cur[p]
      <4>1. disk'[Here(p)] # Absent /\ Here(p) \notin writeLocked'
        BY <2>3, <3>1, WorkFacts DEF Stored, Here, Becomes
      <4> QED BY <3>1, <4>1 DEF Stored, Here
    <3>2. CASE d # cur[p]
      BY <2>2, <2>3, <3>2
    <3> QED BY <3>1, <3>2
  <2> QED BY <2>2, <2>3 DEF DepsPassed, Becomes
<1>3. DepsOpen(p)'
  <2>1. CASE stage[p] = "open"
    <3>1. /\ todo[p] \subseteq Deps[p[2]] /\ cur[p] \in todo[p]
          /\ \A d \in Deps[p[2]] \ todo[p] : op[p][<<p[1], d>>] = "reading"
      BY <1>1, <2>1 DEF JobOK, DepsOpen
    <3>2. \A x \in Entries : x # e => op'[p][x] = op[p][x]
      BY CallKeeps DEF WInv
    <3>3. \A d \in Deps[p[2]] : <<p[1], d>> \in Entries
      BY WorkFacts
    <3>4. \A d \in Deps[p[2]] \ (todo[p] \ {cur[p]}) : op'[p][<<p[1], d>>] = "reading"
      BY <2>1, <3>1, <3>2, <3>3 DEF Here
    <3> QED BY <2>1, <3>1, <3>4 DEF DepsOpen, Becomes
  <2>2. CASE stage[p] # "open"
    BY <2>2 DEF DepsOpen, Becomes
  <2> QED BY <2>1, <2>2
<1>4. InLoop(p)' /\ Written(p)'
  BY DEF InLoop, Written, Becomes
<1>5. JobOK(p)'
  BY <1>2, <1>3, <1>4 DEF JobOK, Becomes
<1> QED BY <1>5, JobKeeps DEF Becomes

\* Where the items of p are.
LEMMA Items ==
    ASSUME WInv, NEW p \in Procs
    PROVE  /\ WorkTypes /\ CacheOK /\ JobOK(p)
           /\ Here(p) \in Entries /\ Own(p) \in Entries /\ Target(p) \in Entries
           /\ loc[cur[p]] \in Workers => There(p) \in Entries
           /\ stage[p] = "open" /\ pc[p] \in {"get", "stat"} => Stored(Here(p))
<1>1. WorkTypes /\ CacheOK /\ JobOK(p) /\ cur[p] \in Jobs \cup Sources
  BY DEF WInv, WorkTypes
<1>2. /\ Here(p) \in Entries /\ Own(p) \in Entries /\ Target(p) \in Entries
      /\ loc[cur[p]] \in Workers => There(p) \in Entries
  BY <1>1, WorkFacts DEF Here, There, Own, Target
<1>3. stage[p] = "open" /\ pc[p] \in {"get", "stat"} => Stored(<<p[1], cur[p]>>)
  BY <1>1 DEF JobOK, DepsPassed, DepsOpen
<1> QED BY <1>1, <1>2, <1>3 DEF Here

\* The steps of the loops.
LEMMA LoopKeeps ==
    ASSUME WInv, NEW p \in Procs,
           Advance(p) \/ ChooseItem(p) \/ GetLocal(p) \/ StatFound(p)
               \/ StatMissing(p) \/ StatError(p) \/ UnlockRead(p)
    PROVE  WInv'
<1>1. /\ WorkTypes /\ CacheOK /\ JobOK(p)
      /\ Here(p) \in Entries /\ Own(p) \in Entries
      /\ stage[p] = "open" /\ pc[p] \in {"get", "stat"} => Stored(Here(p))
  BY Items
<1>2. CASE Advance(p)
  <2>1. Calls(p, Own(p)) /\ UNCHANGED <<outcome, loc>>
    BY <1>1, <1>2 DEF Advance, Calls, coordVars
  <2>2. pc[p] = "next" /\ todo[p] = {}
    BY <1>2 DEF Advance, At
  <2>3. CASE stage[p] \in {"deps", "files"}
    <3>1. PICK s \in {"files", "link"} : Enter(p, s, SourceFiles[p[2]])
      BY <1>2, <2>3 DEF Advance
    <3>2. Becomes(p, "next", s, SourceFiles[p[2]], cur[p], ok[p])
      BY <1>1, <2>1, <3>1, Helpers, WorkFacts DEF Loops
    <3>3. \A d \in Deps[p[2]] : Stored(<<p[1], d>>) /\ <<p[1], d>> \in Entries
      BY <1>1, <2>2, <2>3, WorkFacts DEF JobOK, DepsPassed
    <3>4. \A d \in Deps[p[2]] : Stored(<<p[1], d>>)'
      BY <2>1, <3>3, CallKeeps DEF WInv
    <3>5. JobOK(p)'
      BY <3>2, <3>4 DEF JobOK, InLoop, DepsPassed, DepsOpen, Written, Becomes
    <3> QED BY <2>1, <3>2, <3>5, JobKeeps DEF Becomes
  <2>4. CASE stage[p] = "link"
    <3>1. Becomes(p, "create", "output", todo[p], p[2], ok[p])
      BY <1>1, <1>2, <2>1, <2>4, WorkFacts
         DEF Advance, Goto, Becomes, Frame, WorkTypes, JobPlaces, Loops
    <3>3. \A d \in Deps[p[2]] : Stored(<<p[1], d>>) /\ <<p[1], d>> \in Entries
      BY <1>1, <2>2, <2>4, WorkFacts DEF JobOK, DepsPassed
    <3>4. \A d \in Deps[p[2]] : Stored(<<p[1], d>>)'
      BY <2>1, <3>3, CallKeeps DEF WInv
    <3>5. JobOK(p)'
      BY <3>1, <3>4 DEF JobOK, InLoop, DepsPassed, DepsOpen, Written, Becomes
    <3> QED BY <2>1, <3>1, <3>5, JobKeeps DEF Becomes
  <2>5. CASE stage[p] = "open"
    <3>1. Becomes(p, "command", stage[p], todo[p], cur[p], ok[p])
      BY <1>1, <1>2, <2>1, <2>5, Helpers DEF Advance, JobPlaces
    <3>2. op' = op
      BY <1>2 DEF Advance, cacheVars
    <3>3. InLoop(p)' /\ DepsOpen(p)' /\ Written(p)'
      BY <1>1, <2>2, <2>5, <3>1, <3>2 DEF JobOK, InLoop, DepsOpen, Written, Becomes
    <3> QED BY <2>1, <2>2, <3>1, <3>3, InsideKeeps
  <2> QED BY <1>1, <2>2, <2>3, <2>4, <2>5 DEF JobOK, InLoop
<1>3. CASE ChooseItem(p)
  <2>1. Calls(p, Own(p)) /\ UNCHANGED <<outcome, loc>> /\ op' = op
    BY <1>1, <1>3 DEF ChooseItem, Calls, coordVars, cacheVars
  <2>2. PICK x \in todo[p] : cur' = [cur EXCEPT ![p] = x]
    BY <1>3 DEF ChooseItem
  <2>5. x \in Jobs \cup Sources /\ pc' = [pc EXCEPT ![p] = "get"]
        /\ UNCHANGED <<stage, todo, ok>>
    BY <1>1, <1>3 DEF ChooseItem, Goto, WorkTypes
  <2>6. Becomes(p, "get", stage[p], todo[p], x, ok[p])
    BY <1>1, <2>1, <2>2, <2>5 DEF Becomes, Frame, WorkTypes, JobPlaces
  <2>3. pc[p] = "next"
    BY <1>3 DEF ChooseItem, At
  <2>4. InLoop(p)' /\ DepsOpen(p)' /\ Written(p)'
    BY <1>1, <2>1, <2>3, <2>6 DEF JobOK, InLoop, DepsOpen, Written, Becomes
  <2> QED BY <2>1, <2>3, <2>4, <2>6, InsideKeeps
<1>4. CASE GetLocal(p)
  <2>1. UNCHANGED <<outcome, loc>> /\ pc[p] = "get"
    BY <1>4 DEF GetLocal, coordVars, At
  <2>2. CASE readLock(p, Here(p)) /\ Goto(p, "stat") /\ UNCHANGED jobVars
    <3>1. Calls(p, Here(p))
      BY <1>1, <2>2 DEF Calls, WorkerCall
    <3>2. Becomes(p, "stat", stage[p], todo[p], cur[p], ok[p])
      BY <1>1, <2>1, <2>2, Helpers DEF JobPlaces
    <3>3. \A x \in Entries : x # Here(p) => op'[p][x] = op[p][x]
      BY <1>1, <3>1, CallKeeps
    <3>4. DepsOpen(p)'
      <4>1. CASE stage[p] = "open"
        <5>1. \A d \in Deps[p[2]] \ todo[p] :
                 /\ op[p][<<p[1], d>>] = "reading"
                 /\ <<p[1], d>> \in Entries /\ <<p[1], d>> # Here(p)
          BY <1>1, <2>1, <4>1, WorkFacts DEF JobOK, DepsOpen, Here
        <5> QED BY <1>1, <2>1, <3>2, <3>3, <4>1, <5>1 DEF JobOK, DepsOpen, Becomes
      <4>2. CASE stage[p] # "open"
        BY <3>2, <4>2 DEF DepsOpen, Becomes
      <4> QED BY <4>1, <4>2
    <3>5. InLoop(p)' /\ Written(p)'
      BY <1>1, <2>1, <3>2 DEF JobOK, InLoop, Written, Becomes
    <3> QED BY <2>1, <3>1, <3>2, <3>4, <3>5, InsideKeeps
  <2>3. CASE ReadRefused(Here(p)) /\ GetError(p) /\ UNCHANGED cacheVars
    <3>1. Calls(p, Own(p)) /\ stage[p] # "open"
      BY <1>1, <2>1, <2>3 DEF Calls, Stored, ReadRefused
    <3>2. Becomes(p, "done", stage[p], todo[p], cur[p], FALSE)
      BY <1>1, <2>1, <2>3, <3>1, Helpers DEF GetError
    <3> QED BY <3>1, <3>2, FailKeeps
  <2> QED BY <1>4, <2>2, <2>3 DEF GetLocal
<1>5. CASE StatFound(p)
  <2>1. /\ UNCHANGED <<outcome, loc>> /\ pc[p] = "stat"
        /\ GetFound(p, Here(p)) /\ Calls(p, Here(p))
    BY <1>1, <1>5 DEF StatFound, coordVars, At, Calls, WorkerCall
  <2>2. op'[p][Here(p)] = "reading"
    BY <1>1, <2>1 DEF GetFound, Move, CacheOK, CacheTypeOK
  <2>3. CASE stage[p] = "open"
    <3>1. Becomes(p, "next", stage[p], todo[p] \ {cur[p]}, cur[p], ok[p])
      BY <1>1, <1>5, <2>1, <2>3, Helpers DEF StatFound
    <3> QED BY <2>1, <2>2, <2>3, <3>1, NextItemKeeps
  <2>4. CASE stage[p] # "open"
    <3>1. PICK a \in {"unlink", "unlockRead"} :
             Goto(p, a) /\ UNCHANGED jobVars /\ (a = "unlink" => stage[p] = "link")
      BY <1>5, <2>4 DEF StatFound
    <3>2. Becomes(p, a, stage[p], todo[p], cur[p], ok[p])
      BY <1>1, <2>1, <3>1, Helpers DEF JobPlaces
    <3>3. InLoop(p)' /\ DepsOpen(p)' /\ Written(p)'
      BY <1>1, <2>1, <2>4, <3>2 DEF JobOK, InLoop, DepsOpen, Written, Becomes
    <3> QED BY <2>1, <3>1, <3>2, <3>3, InsideKeeps
  <2> QED BY <2>3, <2>4
<1>6. CASE StatMissing(p)
  <2>1. /\ UNCHANGED <<outcome, loc>> /\ pc[p] = "stat"
        /\ Calls(p, Here(p)) /\ disk[Here(p)] = Absent
    BY <1>1, <1>6 DEF StatMissing, coordVars, At, Calls, WorkerCall, GetMissing
  <2>2. stage[p] # "open"
    BY <1>1, <2>1 DEF Stored
  <2>3. CASE stage[p] \in {"deps", "files"}
    <3>1. Becomes(p, "request", stage[p], todo[p], cur[p], ok[p])
      BY <1>1, <1>6, <2>1, <2>3, Helpers DEF StatMissing, JobPlaces
    <3>2. InLoop(p)' /\ DepsOpen(p)' /\ Written(p)'
      BY <2>3, <3>1 DEF InLoop, DepsOpen, Written, Becomes
    <3> QED BY <2>1, <3>1, <3>2, InsideKeeps
  <2>4. CASE stage[p] \notin {"deps", "files"}
    <3>1. Becomes(p, "done", stage[p], todo[p], cur[p], FALSE)
      BY <1>1, <1>6, <2>1, <2>2, <2>4, Helpers DEF StatMissing, GetError
    <3> QED BY <2>1, <3>1, FailKeeps
  <2> QED BY <2>3, <2>4
<1>7. CASE UnlockRead(p)
  <2>1. /\ UNCHANGED <<outcome, loc>> /\ pc[p] = "unlockRead"
        /\ Calls(p, Here(p)) /\ op[p][Here(p)] = "reading"
    BY <1>1, <1>7 DEF UnlockRead, coordVars, At, Calls, WorkerCall, readUnlock, Unread, Move
  <2>2. CASE ok[p]
    <3>1. Becomes(p, "next", stage[p], todo[p] \ {cur[p]}, cur[p], ok[p])
      BY <1>1, <1>7, <2>1, <2>2, Helpers DEF UnlockRead
    <3>2. Stored(Here(p))
      BY <1>1, <2>1, ReaderSees
    <3>3. disk'[Here(p)] # Absent /\ Here(p) \notin writeLocked'
      BY <1>1, <2>1, <3>2, CallKeeps DEF Stored
    <3>4. Stored(Here(p))'
      BY <3>1, <3>3 DEF Stored, Here, Becomes
    <3>5. stage[p] \in {"deps", "files", "link"}
      BY <1>1, <2>1 DEF JobOK, InLoop
    <3> QED BY <2>1, <3>1, <3>4, <3>5, NextItemKeeps
  <2>3. CASE ~ok[p]
    <3>1. Becomes(p, "done", stage[p], todo[p], cur[p], FALSE)
      BY <1>1, <1>7, <2>1, <2>3, Helpers DEF UnlockRead
    <3> QED BY <2>1, <3>1, FailKeeps
  <2> QED BY <2>2, <2>3
<1>8. CASE StatError(p)
  <2>1. UNCHANGED <<outcome, loc>> /\ Calls(p, Here(p))
    BY <1>1, <1>8 DEF StatError, coordVars, Calls, WorkerCall
  <2>2. Becomes(p, "done", stage[p], todo[p], cur[p], FALSE)
    BY <1>1, <1>8, <2>1, Helpers DEF StatError
  <2> QED BY <2>1, <2>2, FailKeeps
<1> QED BY <1>2, <1>3, <1>4, <1>5, <1>6, <1>7, <1>8

\* A call about nothing of the cache changes nothing.
LEMMA NoEntry ==
    ASSUME CacheOK, NEW p \in Procs, NEW e, e \notin Entries,
           GetFound(p, e) \/ GetMissing(p, e) \/ GetFails(p, e)
    PROVE  UNCHANGED cacheVars
<1>1. /\ op \in [Procs -> [Entries -> {"idle", "stat", "reading", "creating",
                                     "writing", "removing", "unlock"}]]
      /\ readLocked \in [Entries -> Nat]
  BY DEF CacheOK, CacheTypeOK
<1>2. \A x : [op[p] EXCEPT ![e] = x] = op[p]
  BY <1>1
<1>3. \A x : [op EXCEPT ![p][e] = x] = op
  BY <1>1, <1>2
<1>4. \A x : [readLocked EXCEPT ![e] = x] = readLocked
  BY <1>1
<1> QED BY <1>3, <1>4 DEF GetFound, GetMissing, GetFails, Unread, Move, cacheVars, lockVars, dirVars

\* The steps of a download.
LEMMA DownloadKeeps ==
    ASSUME WInv, NEW p \in Procs,
           RequestFile(p) \/ RequestArtifact(p) \/ Serve(p) \/ ServerDied(p)
               \/ CreateEntry(p) \/ Mkdir(p) \/ MkdirFails(p) \/ Receive(p)
               \/ UnlockWrite(p)
    PROVE  WInv'
<1>1. /\ WorkTypes /\ CacheOK /\ JobOK(p)
      /\ Here(p) \in Entries /\ Own(p) \in Entries /\ Target(p) \in Entries
      /\ loc[cur[p]] \in Workers => There(p) \in Entries
  BY Items
<1>2. UNCHANGED <<outcome, loc>>
  BY DEF RequestFile, RequestArtifact, Serve, ServerDied, CreateEntry, Mkdir, MkdirFails,
     Receive, UnlockWrite, coordVars
<1> DEFINE Goes(a) == Goto(p, a) /\ UNCHANGED jobVars
<1>3. ASSUME NEW e, Calls(p, e), Fail(p)
      PROVE  WInv'
  BY <1>1, <1>2, <1>3, Helpers, FailKeeps
<1>4. ASSUME NEW e, Calls(p, e), NEW a \in {"serve", "create", "mkdir", "receive"}, Goes(a),
             pc[p] \in {"request", "serve", "create", "mkdir"},
             stage[p] \in {"deps", "files"} \/ (stage[p] = "output" /\ a = "mkdir")
      PROVE  WInv'
  <2>1. Becomes(p, a, stage[p], todo[p], cur[p], ok[p])
    BY <1>1, <1>2, <1>4, Helpers DEF JobPlaces
  <2>2. InLoop(p)' /\ DepsOpen(p)' /\ Written(p)'
    BY <1>2, <1>4, <2>1 DEF InLoop, DepsOpen, Written, Becomes
  <2> QED BY <1>4, <2>1, <2>2, InsideKeeps
<1>5. CASE RequestFile(p)
  <2>1. Calls(p, Own(p)) /\ pc[p] = "request" /\ stage[p] = "files"
    BY <1>1, <1>5 DEF RequestFile, Calls, At
  <2>2. Fail(p) \/ Goes("create")
    BY <1>5 DEF RequestFile
  <2> QED BY <1>3, <1>4, <2>1, <2>2
<1>6. CASE RequestArtifact(p)
  <2>1. pc[p] = "request" /\ stage[p] = "deps"
    BY <1>6 DEF RequestArtifact, At
  <2>2. CASE loc[cur[p]] \in Workers \ dead /\ readLock(p, There(p)) /\ Goes("serve")
    BY <1>1, <1>4, <2>1, <2>2 DEF Calls, WorkerCall
  <2>3. CASE Fail(p) /\ UNCHANGED cacheVars
    BY <1>1, <1>3, <2>3 DEF Calls
  <2> QED BY <1>6, <2>2, <2>3 DEF RequestArtifact
<1>7. CASE Serve(p)
  <2>1. pc[p] = "serve" /\ stage[p] \in {"deps", "files"}
    BY <1>1, <1>7 DEF Serve, At, JobOK, InLoop
  <2>4. GetFound(p, There(p)) \/ GetMissing(p, There(p)) \/ GetFails(p, There(p))
    BY <1>7 DEF Serve
  <2>5. PICK e : Calls(p, e)
    <3>1. CASE There(p) \in Entries
      BY <2>4, <3>1 DEF Calls, WorkerCall
    <3>2. CASE There(p) \notin Entries
      BY <1>1, <2>4, <3>2, NoEntry DEF Calls
    <3> QED BY <3>1, <3>2
  <2>2. CASE GetFound(p, There(p)) /\ Goes("create")
    BY <1>4, <2>1, <2>2, <2>5
  <2>3. CASE Fail(p)
    BY <1>3, <2>1, <2>3, <2>5
  <2> QED BY <1>7, <2>2, <2>3 DEF Serve
<1>8. CASE ServerDied(p)
  BY <1>1, <1>3, <1>8 DEF ServerDied, Calls
<1>9. CASE CreateEntry(p)
  <2>1. pc[p] = "create" /\ stage[p] \in {"deps", "files", "output"}
    BY <1>1, <1>9 DEF CreateEntry, At, JobOK, InLoop
  <2>2. CASE Create(p, Target(p)) /\ Goes("mkdir")
    BY <1>1, <1>4, <2>1, <2>2 DEF Calls, WorkerCall
  <2>3. CASE Fail(p) /\ UNCHANGED cacheVars
    BY <1>1, <1>3, <2>3 DEF Calls
  <2> QED BY <1>9, <2>2, <2>3 DEF CreateEntry
<1>10. CASE Mkdir(p)
  <2>1. /\ pc[p] = "mkdir" /\ stage[p] \in {"deps", "files", "output"}
        /\ Calls(p, Target(p))
    BY <1>1, <1>10 DEF Mkdir, At, JobOK, InLoop, Calls, WorkerCall
  <2>2. CASE stage[p] \in {"deps", "files"}
    BY <1>4, <1>10, <2>1, <2>2 DEF Mkdir
  <2>3. CASE stage[p] = "output"
    <3>1. Becomes(p, "next", "open", Deps[p[2]], cur[p], ok[p])
      BY <1>1, <1>2, <1>10, <2>3, Helpers, WorkFacts DEF Mkdir, Loops
    <3>2. \A d \in Deps[p[2]] : Stored(<<p[1], d>>) /\ <<p[1], d>> \in Entries
      BY <1>1, <2>1, <2>3, WorkFacts DEF JobOK, DepsPassed
    <3>3. \A d \in Deps[p[2]] : Stored(<<p[1], d>>)'
      BY <1>1, <2>1, <3>2, CallKeeps
    <3>4. JobOK(p)'
      BY <3>1, <3>3 DEF JobOK, InLoop, DepsPassed, DepsOpen, Written, Becomes
    <3> QED BY <2>1, <3>1, <3>4, JobKeeps DEF Becomes
  <2> QED BY <2>1, <2>2, <2>3
<1>11. CASE Receive(p)
  <2>1. pc[p] = "receive" /\ stage[p] \in {"deps", "files"} /\ Calls(p, Target(p))
    BY <1>1, <1>11 DEF Receive, At, JobOK, InLoop, Finish, GiveUp, CommitFails, FindsStale,
       Calls, WorkerCall
  <2>2. CASE Finish(p)
    <3>1. Becomes(p, "unlockWrite", stage[p], todo[p], cur[p], ok[p])
      BY <1>1, <1>2, <2>2, Helpers DEF Finish, JobPlaces
    <3>2. disk'[Target(p)] # Absent
      BY <1>1, <2>2, WorkFacts DEF Finish, commit, CacheOK, CacheTypeOK
    <3>3. Target(p)' = Target(p)
      BY <3>1 DEF Target, Here, Own, Becomes
    <3>4. InLoop(p)' /\ DepsOpen(p)' /\ Written(p)'
      BY <2>1, <3>1, <3>2, <3>3 DEF InLoop, DepsOpen, Written, Becomes
    <3> QED BY <2>1, <3>1, <3>4, InsideKeeps
  <2>3. CASE GiveUp(p, "net") \/ CommitFails(p) \/ FindsStale(p)
    <3>1. Becomes(p, "unlockWrite", stage[p], todo[p], cur[p], FALSE)
      BY <1>1, <1>2, <2>3 DEF GiveUp, CommitFails, FindsStale, Goto, Becomes, Frame,
         WorkTypes, JobPlaces
    <3>2. InLoop(p)' /\ DepsOpen(p)' /\ Written(p)'
      BY <2>1, <3>1 DEF InLoop, DepsOpen, Written, Becomes
    <3> QED BY <2>1, <3>1, <3>2, InsideKeeps
  <2> QED BY <1>11, <2>2, <2>3 DEF Receive
<1>12. CASE UnlockWrite(p)
  <2>1. /\ pc[p] = "unlockWrite" /\ Calls(p, Target(p))
        /\ stage[p] \in {"deps", "files", "open"} \/ ~ok[p]
    BY <1>1, <1>12 DEF UnlockWrite, At, JobOK, InLoop, Calls, WorkerCall
  <2>2. Target(p) \notin writeLocked'
    BY <1>12 DEF UnlockWrite, writeUnlock
  <2>3. ok[p] => disk'[Target(p)] # Absent
    BY <1>1, <2>1, CallKeeps DEF JobOK, Written
  <2>4. CASE ok[p] /\ stage[p] # "open"
    <3>1. Becomes(p, "next", stage[p], todo[p] \ {cur[p]}, cur[p], ok[p])
      BY <1>1, <1>2, <1>12, <2>4, Helpers DEF UnlockWrite
    <3>2. disk'[Here(p)] # Absent /\ Here(p) \notin writeLocked'
      BY <2>1, <2>2, <2>3, <2>4 DEF Target
    <3>3. Stored(Here(p))'
      BY <3>1, <3>2 DEF Stored, Here, Becomes
    <3> QED BY <2>1, <2>4, <3>1, <3>3, NextItemKeeps
  <2>5. CASE ok[p] /\ stage[p] = "open"
    <3>1. Becomes(p, "done", stage[p], todo[p], cur[p], ok[p])
      BY <1>1, <1>2, <1>12, <2>5, Helpers DEF UnlockWrite, JobPlaces
    <3>2. Stored(Own(p))'
      BY <2>2, <2>3, <2>5 DEF Stored, Target, Own
    <3>3. JobOK(p)'
      BY <1>1, <2>5, <3>1, <3>2 DEF JobOK, InLoop, DepsPassed, DepsOpen, Written, Becomes
    <3> QED BY <2>1, <3>1, <3>3, JobKeeps DEF Becomes
  <2>6. CASE ~ok[p]
    <3>1. Becomes(p, "done", stage[p], todo[p], cur[p], FALSE)
      BY <1>1, <1>2, <1>12, <2>6, Helpers DEF UnlockWrite, JobPlaces, WorkTypes
    <3> QED BY <2>1, <3>1, FailKeeps
  <2> QED BY <2>4, <2>5, <2>6
<1>13. CASE MkdirFails(p)
  <2>1. pc[p] = "mkdir" /\ Calls(p, Target(p))
    BY <1>1, <1>13 DEF MkdirFails, At, Calls, WorkerCall
  <2>2. Becomes(p, "unlockWrite", stage[p], todo[p], cur[p], FALSE)
    BY <1>1, <1>2, <1>13 DEF MkdirFails, Goto, Becomes, Frame, WorkTypes, JobPlaces
  <2>3. InLoop(p)' /\ DepsOpen(p)' /\ Written(p)'
    BY <1>1, <2>1, <2>2 DEF JobOK, InLoop, DepsOpen, Written, Becomes
  <2> QED BY <2>1, <2>2, <2>3, InsideKeeps
<1> QED BY <1>5, <1>6, <1>7, <1>8, <1>9, <1>10, <1>11, <1>12, <1>13

\* The steps of executeJob.
LEMMA ExecuteKeeps ==
    ASSUME WInv, NEW p \in Procs,
           Unlink(p) \/ Link(p) \/ Command(p) \/ Release(p) \/ Commit(p)
    PROVE  WInv'
<1>1. /\ WorkTypes /\ CacheOK /\ JobOK(p)
      /\ Here(p) \in Entries /\ Own(p) \in Entries /\ Target(p) \in Entries
  BY Items
<1>2. UNCHANGED <<outcome, loc>>
  BY DEF Unlink, Link, Command, Release, Commit, coordVars
<1>3. ASSUME Calls(p, Own(p)), pc[p] \in {"command", "release"}, Finish(p)
      PROVE  WInv'
  <2>1. Becomes(p, "unlockWrite", stage[p], todo[p], cur[p], ok[p])
    BY <1>1, <1>2, <1>3, Helpers DEF Finish, JobPlaces
  <2>2. disk'[Target(p)] # Absent
    BY <1>1, <1>3, WorkFacts DEF Finish, commit, CacheOK, CacheTypeOK
  <2>3. Target(p)' = Target(p)
    BY <2>1 DEF Target, Here, Own, Becomes
  <2>4. InLoop(p)' /\ DepsOpen(p)' /\ Written(p)'
    BY <1>1, <1>3, <2>1, <2>2, <2>3 DEF JobOK, InLoop, DepsOpen, Written, Becomes
  <2> QED BY <1>3, <2>1, <2>4, InsideKeeps
<1>4. ASSUME Calls(p, Own(p)), pc[p] \in {"command", "release"},
             GiveUp(p, "command") \/ CommitFails(p)
      PROVE  WInv'
  <2>1. Becomes(p, "unlockWrite", stage[p], todo[p], cur[p], FALSE)
    BY <1>1, <1>2, <1>4 DEF GiveUp, CommitFails, Goto, Becomes, Frame, WorkTypes, JobPlaces
  <2>2. InLoop(p)' /\ DepsOpen(p)' /\ Written(p)'
    BY <1>1, <1>4, <2>1 DEF JobOK, InLoop, DepsOpen, Written, Becomes
  <2> QED BY <1>4, <2>1, <2>2, InsideKeeps
<1>5. CASE Unlink(p)
  <2>1. pc[p] = "unlink" /\ Calls(p, Own(p))
    BY <1>1, <1>5 DEF Unlink, At, Calls
  <2>2. \/ Becomes(p, "hardlink", stage[p], todo[p], cur[p], ok[p])
        \/ Becomes(p, "unlockRead", stage[p], todo[p], cur[p], FALSE)
    BY <1>1, <1>2, <1>5 DEF Unlink, Goto, Becomes, Frame, WorkTypes, JobPlaces
  <2>3. InLoop(p)' /\ DepsOpen(p)' /\ Written(p)'
    BY <1>1, <2>1, <2>2 DEF JobOK, InLoop, DepsOpen, Written, Becomes
  <2> QED BY <2>1, <2>2, <2>3, InsideKeeps
<1>6. CASE Link(p)
  <2>1. pc[p] = "hardlink" /\ Calls(p, Own(p))
    BY <1>1, <1>6 DEF Link, At, Calls
  <2>2. PICK k \in BOOLEAN : ok' = [ok EXCEPT ![p] = k]
    <3>1. CASE UNCHANGED ok
      <4>1. ok' = [ok EXCEPT ![p] = ok[p]] /\ ok[p] \in BOOLEAN
        BY <1>1, <3>1 DEF WorkTypes
      <4> QED BY <4>1
    <3>2. CASE ok' = [ok EXCEPT ![p] = FALSE]
      BY <3>2
    <3> QED BY <1>6, <3>1, <3>2 DEF Link
  <2>3. Becomes(p, "unlockRead", stage[p], todo[p], cur[p], k)
    BY <1>1, <1>2, <1>6, <2>2 DEF Link, Goto, Becomes, Frame, WorkTypes, JobPlaces
  <2>4. InLoop(p)' /\ DepsOpen(p)' /\ Written(p)'
    BY <1>1, <2>1, <2>3 DEF JobOK, InLoop, DepsOpen, Written, Becomes
  <2> QED BY <2>1, <2>3, <2>4, InsideKeeps
<1>7. CASE Command(p)
  <2>1. pc[p] = "command" /\ Target(p) = Own(p)
    BY <1>1, <1>7 DEF Command, At, JobOK, InLoop, Target
  <2>2. CASE Goto(p, "release") /\ UNCHANGED <<cacheVars, jobVars, hurt>>
    <3>1. Calls(p, Own(p))
      BY <1>1, <2>2 DEF Calls
    <3>2. Becomes(p, "release", stage[p], todo[p], cur[p], ok[p])
      BY <1>1, <1>2, <2>2, Helpers DEF JobPlaces
    <3>3. InLoop(p)' /\ DepsOpen(p)' /\ Written(p)'
      BY <1>1, <2>1, <3>2 DEF JobOK, InLoop, DepsOpen, Written, Becomes
    <3> QED BY <2>1, <3>1, <3>2, <3>3, InsideKeeps
  <2>3. CASE GiveUp(p, "command")
    <3>1. Calls(p, Own(p))
      BY <1>1, <2>1, <2>3 DEF GiveUp, Calls, WorkerCall
    <3> QED BY <1>4, <2>1, <2>3, <3>1
  <2> QED BY <1>7, <2>2, <2>3 DEF Command
<1>8. CASE Release(p)
  <2>1. PICK d \in Deps[p[2]] : readUnlock(p, <<p[1], d>>)
    BY <1>8 DEF Release, Held
  <2>2. Calls(p, <<p[1], d>>) /\ pc[p] = "release"
    BY <1>8, <2>1, WorkFacts DEF Calls, WorkerCall, Release, At
  <2>3. Becomes(p, "release", stage[p], todo[p], cur[p], ok[p])
    BY <1>1, <1>2, <1>8, <2>2 DEF Release, jobVars, Becomes, Frame, WorkTypes
  <2>4. InLoop(p)' /\ DepsOpen(p)' /\ Written(p)'
    BY <1>1, <2>2, <2>3 DEF JobOK, InLoop, DepsOpen, Written, Becomes
  <2> QED BY <2>2, <2>3, <2>4, InsideKeeps
<1>9. CASE Commit(p)
  <2>1. /\ pc[p] = "release" /\ Target(p) = Own(p)
        /\ Finish(p) \/ CommitFails(p)
    BY <1>1, <1>9 DEF Commit, At, JobOK, InLoop, Target
  <2>2. Calls(p, Own(p))
    BY <1>1, <2>1 DEF Finish, CommitFails, Calls, WorkerCall
  <2> QED BY <1>3, <1>4, <2>1, <2>2
<1> QED BY <1>5, <1>6, <1>7, <1>8, <1>9

-----------------------------------------------------------------------------
\* A step that leaves the jobs' own variables alone.
LEMMA TableKeeps ==
    ASSUME WInv, NEW p, NEW e, Calls(p, e), e[1] # p[1] \/ UNCHANGED cacheVars,
           UNCHANGED <<pc, jobVars, outcome, loc>>
    PROVE  WInv'
<1>1. /\ CacheOK /\ CacheOK' /\ p \in Procs /\ e \in Entries
      /\ \A x \in Entries : disk[x] # Absent => disk'[x] # Absent
      /\ \A x \in Entries : Stored(x) => Stored(x)'
      /\ \A x \in Entries : x # e => op'[p][x] = op[p][x]
  BY CallKeeps DEF WInv, Calls
<1>2. ASSUME NEW d \in Deps[p[2]]
      PROVE  /\ <<p[1], d>> \in Entries
             /\ op'[p][<<p[1], d>>] = op[p][<<p[1], d>>]
  <2>1. <<p[1], d>> \in Entries
    BY <1>1, <1>2, WorkFacts
  <2>2. CASE e[1] # p[1]
    <3>1. <<p[1], d>> # e
      BY <2>2
    <3> QED BY <1>1, <2>1, <3>1
  <2>3. CASE UNCHANGED cacheVars
    BY <2>1, <2>3 DEF cacheVars
  <2> QED BY <2>2, <2>3
<1>9. UNCHANGED <<pc, stage, todo, cur, ok, loc>>
  BY DEF jobVars
<1>3. JobOK(p) /\ Target(p) \in Entries /\ Own(p) \in Entries
  BY <1>1, Items
<1>4. Target(p)' = Target(p)
  BY <1>9 DEF Target, Here, Own
<1>5. InLoop(p)' /\ DepsOpen(p)' /\ Written(p)'
  <2>1. InLoop(p)'
    BY <1>3, <1>9 DEF JobOK, InLoop
  <2>2. DepsOpen(p)'
    BY <1>2, <1>3, <1>9 DEF JobOK, DepsOpen
  <2>3. Written(p)'
    BY <1>1, <1>3, <1>4, <1>9 DEF JobOK, Written, Own
  <2> QED BY <2>1, <2>2, <2>3
<1>6. DepsPassed(p)'
  <2> DEFINE passed == IF stage[p] = "deps" THEN Deps[p[2]] \ todo[p] ELSE Deps[p[2]]
  <2>1. pc[p] \notin {"off", "picked", "done", "over", "dead"}
            => \A d \in passed : Stored(<<p[1], d>>)
    BY <1>3 DEF JobOK, DepsPassed
  <2>2. pc[p] \notin {"off", "picked", "done", "over", "dead"}
            => \A d \in passed : Stored(<<p[1], d>>)'
    BY <1>1, <1>2, <2>1
  <2> QED BY <1>9, <2>2 DEF DepsPassed
<1>7. JobOK(p)'
  BY <1>3, <1>5, <1>6 DEF JobOK
<1>8. Frame(p)
  BY DEF Frame, jobVars, WInv, WorkTypes
<1> QED BY <1>7, <1>8, JobKeeps

\* A step that leaves the cache alone and moves some goroutines.
LEMMA MoveKeeps ==
    ASSUME WInv, UNCHANGED cacheVars, WorkTypes', Placed', SucceededIsStored',
           UNCHANGED <<stage, cur, ok>>,
           \A q \in Procs :
               \/ pc'[q] = pc[q] /\ todo'[q] = todo[q]
               \/ pc[q] = "off" /\ pc'[q] = "picked" /\ todo'[q] = todo[q]
               \/ pc[q] = "picked" /\ pc'[q] = "next" /\ todo'[q] = Deps[q[2]]
               \/ pc'[q] \in {"over", "dead"} /\ todo'[q] = todo[q]
    PROVE  WInv'
<1>1. CacheOK' /\ UNCHANGED <<disk, writeLocked, op>>
  BY StepCacheOK DEF WInv, cacheVars
<1>2. ASSUME NEW q \in Procs
      PROVE  JobOK(q)'
  <2>1. JobOK(q)
    BY DEF WInv
  <2>2. Target(q)' = Target(q)
    BY DEF Target, Here, Own
  <2>3. InLoop(q)'
    BY <2>1 DEF JobOK, InLoop
  <2>4. DepsPassed(q)'
    BY <1>1, <2>1 DEF JobOK, InLoop, DepsPassed, Stored
  <2>5. DepsOpen(q)'
    BY <1>1, <2>1 DEF JobOK, InLoop, DepsOpen
  <2>6. Written(q)'
    BY <1>1, <2>1, <2>2 DEF JobOK, Written, Own, Stored
  <2>7. pc'[q] # "panic"
    BY <2>1 DEF JobOK
  <2> QED BY <2>3, <2>4, <2>5, <2>6, <2>7 DEF JobOK
<1> QED BY <1>1, <1>2 DEF WInv

\* The coordinator's steps, the batches, the reports and the crashes.
LEMMA LifeKeeps ==
    ASSUME WInv,
           \/ \E j \in Jobs : Schedule(j) \/ \E f \in Sources : RemoveSource(j, f)
           \/ \E w \in Workers : Run(w)
           \/ \E p \in Procs : Report(p) \/ Pick(p) \/ Crash(p)
    PROVE  WInv'
<1>1. /\ WorkTypes /\ Placed /\ SucceededIsStored
      /\ UNCHANGED <<cacheVars, stage, cur, ok>> /\ UNCHANGED <<disk, writeLocked>>
  BY DEF WInv, Schedule, RemoveSource, Run, Report, Pick, Crash, cacheVars, jobVars
<1>2. ASSUME NEW j \in Jobs, Schedule(j) \/ \E f \in Sources : RemoveSource(j, f)
      PROVE  WInv'
  <2>1. UNCHANGED <<outcome, loc, pc, todo>>
    BY <1>2 DEF Schedule, RemoveSource, Table!Offer, jobVars
  <2>2. WorkTypes' /\ Placed' /\ SucceededIsStored'
    BY <1>1, <2>1 DEF WorkTypes, Placed, SucceededIsStored
  <2> QED BY <1>1, <2>1, <2>2, MoveKeeps
<1>3. ASSUME NEW w \in Workers, Run(w)
      PROVE  WInv'
  <2> DEFINE batch == {p \in Procs : p[1] = w /\ At(p, "picked")}
  <2>1. /\ pc'   = [q \in Procs |-> IF q \in batch THEN "next" ELSE pc[q]]
        /\ todo' = [q \in Procs |-> IF q \in batch THEN Deps[q[2]] ELSE todo[q]]
        /\ UNCHANGED <<outcome, loc>>
    BY <1>3 DEF Run, coordVars
  <2>2. \A q \in batch : pc[q] = "picked"
    BY DEF At
  <2> HIDE DEF batch
  <2>3. \A q \in Procs :
           \/ pc'[q] = pc[q] /\ todo'[q] = todo[q]
           \/ pc[q] = "picked" /\ pc'[q] = "next" /\ todo'[q] = Deps[q[2]]
    BY <2>1, <2>2
  <2>4. WorkTypes'
    BY <1>1, <2>1, WorkFacts DEF WorkTypes, JobPlaces
  <2>5. Placed' /\ SucceededIsStored'
    BY <1>1, <2>1 DEF Placed, SucceededIsStored
  <2> QED BY <1>1, <2>1, <2>3, <2>4, <2>5, MoveKeeps
<1>4. ASSUME NEW p \in Procs, Report(p)
      PROVE  WInv'
  <2>1. /\ pc' = [pc EXCEPT ![p] = "over"] /\ todo' = todo
        /\ loc' = [loc EXCEPT ![p[2]] = p[1]]
        /\ outcome' = [outcome EXCEPT ![p[2]] = IF ok[p] THEN "ok" ELSE "failed"]
        /\ pc[p] = "done"
    BY <1>4 DEF Report, Table!Settle, Goto, At, jobVars
  <2>2. p[1] \in Workers /\ p[2] \in Jobs /\ p = <<p[1], p[2]>>
    BY WorkFacts
  <2>3. WorkTypes' /\ Placed'
    BY <1>1, <2>1, <2>2 DEF WorkTypes, Placed, JobPlaces
  <2>4. ok[p] => disk[<<p[1], p[2]>>] # Absent /\ <<p[1], p[2]>> \notin writeLocked
    BY <2>1, <2>2 DEF WInv, JobOK, Written, Own, Stored
  <2>5. ASSUME NEW j \in Jobs, outcome'[j] = "ok"
        PROVE  disk'[<<loc'[j], j>>] # Absent /\ <<loc'[j], j>> \notin writeLocked'
    <3>1. CASE j = p[2]
      BY <1>1, <2>1, <2>2, <2>4, <2>5, <3>1 DEF WorkTypes
    <3>2. CASE j # p[2]
      BY <1>1, <2>1, <2>2, <2>5, <3>2 DEF WorkTypes, SucceededIsStored
    <3> QED BY <3>1, <3>2
  <2>6. SucceededIsStored'
    BY <2>5 DEF SucceededIsStored
  <2>7. \A q \in Procs :
           \/ pc'[q] = pc[q] /\ todo'[q] = todo[q]
           \/ pc'[q] \in {"over", "dead"} /\ todo'[q] = todo[q]
    BY <1>1, <2>1 DEF WorkTypes
  <2> QED BY <1>1, <2>3, <2>6, <2>7, MoveKeeps
<1>5. ASSUME NEW p \in Procs, Pick(p)
      PROVE  WInv'
  <2>1. /\ pc' = [pc EXCEPT ![p] = "picked"] /\ pc[p] = "off"
        /\ UNCHANGED <<outcome, loc, todo>>
    BY <1>5 DEF Pick, Table!Take, Goto, At, jobVars
  <2>2. WorkTypes' /\ Placed' /\ SucceededIsStored'
    BY <1>1, <2>1 DEF WorkTypes, Placed, SucceededIsStored, JobPlaces
  <2>3. \A q \in Procs : \/ pc'[q] = pc[q] /\ todo'[q] = todo[q]
                         \/ pc[q] = "off" /\ pc'[q] = "picked" /\ todo'[q] = todo[q]
    BY <1>1, <2>1 DEF WorkTypes
  <2> QED BY <1>1, <2>1, <2>2, <2>3, MoveKeeps
<1>6. ASSUME NEW p \in Procs, Crash(p)
      PROVE  WInv'
  <2>1. /\ pc' = [q \in Procs |-> IF q[1] = p[1] THEN "dead" ELSE pc[q]]
        /\ UNCHANGED <<outcome, loc, todo>>
    BY <1>6 DEF Crash, coordVars, jobVars
  <2>2. WorkTypes' /\ Placed' /\ SucceededIsStored'
    BY <1>1, <2>1 DEF WorkTypes, Placed, SucceededIsStored, JobPlaces
  <2>3. \A q \in Procs : \/ pc'[q] = pc[q] /\ todo'[q] = todo[q]
                         \/ pc'[q] \in {"over", "dead"} /\ todo'[q] = todo[q]
    BY <2>1
  <2> QED BY <1>1, <2>1, <2>2, <2>3, MoveKeeps
<1> QED BY <1>2, <1>3, <1>4, <1>5, <1>6

LEMMA InitWInv == WorkInit => WInv
<1> SUFFICES ASSUME WorkInit PROVE WInv
  OBVIOUS
<1>1. CacheOK
  BY InitCacheOK DEF WorkInit
<1>2. WorkTypes
  BY WorkFacts DEF WorkInit, Table!Init, WorkTypes, JobPlaces, Loops
<1>3. ASSUME NEW p \in Procs PROVE JobOK(p)
  BY DEF WorkInit, JobOK, InLoop, DepsPassed, DepsOpen, Written
<1>4. Placed /\ SucceededIsStored
  BY DEF WorkInit, Table!Init, Placed, SucceededIsStored
<1> QED BY <1>1, <1>2, <1>3, <1>4 DEF WInv

LEMMA StepWInv == WInv /\ [WorkNext]_workVars => WInv'
<1> SUFFICES ASSUME WInv, [WorkNext]_workVars PROVE WInv'
  OBVIOUS
<1>1. ASSUME NEW p \in Procs, JobStep(p)
      PROVE  WInv'
  BY <1>1, LoopKeeps, DownloadKeeps, ExecuteKeeps DEF JobStep
<1>2. ASSUME NEW p \in Procs, NEW e \in Entries, ServeEnds(p, e)
      PROVE  WInv'
  <2>1. /\ Calls(p, e) /\ e[1] # p[1]
        /\ UNCHANGED <<pc, jobVars, outcome, loc>>
    BY <1>2 DEF ServeEnds, Calls, WorkerCall, coordVars
  <2> QED BY <2>1, TableKeeps
<1>3. CASE UNCHANGED workVars
  <2>1. /\ UNCHANGED <<cacheVars, stage, cur, ok, pc, todo, loc, outcome>>
        /\ UNCHANGED <<disk, writeLocked>>
    BY <1>3 DEF workVars, jobVars, coordVars, cacheVars
  <2>2. WorkTypes' /\ Placed' /\ SucceededIsStored'
    BY <2>1 DEF WInv, WorkTypes, Placed, SucceededIsStored
  <2> QED BY <2>1, <2>2, MoveKeeps
<1> QED BY <1>1, <1>2, <1>3, LifeKeeps DEF WorkNext

-----------------------------------------------------------------------------
\* Whatever jobs download, link and run beside each other, whichever of them
\* fail and whichever workers die: the lock maps say exactly who is inside.
THEOREM WorkersCacheOK == WorkSpec => []CacheOK
<1>1. WInv => CacheOK
  BY DEF WInv
<1> QED BY <1>1, InitWInv, StepWInv, PTL DEF WorkSpec

\* panic("top sort does not worlk") is never reached, for any graph, because
\* an artifact is missing or locked for a write: a job that runs its commands
\* holds its dependencies.  An os.Stat of the cache that fails at that point is
\* the panic that remains, and it is part of Crash.
THEOREM DepsAreThere == WorkSpec => []NoDepPanic
<1>1. ASSUME WInv, NEW p \in Procs
      PROVE  /\ ~At(p, "panic")
             /\ At(p, "command") => Held(p) = Deps[p[2]]
  <2>1. JobOK(p)
    BY <1>1 DEF WInv
  <2>2. ~At(p, "panic")
    BY <2>1 DEF JobOK, At
  <2>3. ASSUME At(p, "command")
        PROVE  \A d \in Deps[p[2]] : op[p][<<p[1], d>>] = "reading"
    BY <2>1, <2>3 DEF JobOK, InLoop, DepsOpen, At
  <2>4. At(p, "command") => Held(p) = Deps[p[2]]
    BY <2>3 DEF Held
  <2> QED BY <2>2, <2>4
<1>2. WInv => NoDepPanic
  BY <1>1 DEF NoDepPanic
<1> QED BY <1>2, InitWInv, StepWInv, PTL DEF WorkSpec

\* A job reported without an error has its artifact where LocateArtifact says.
THEOREM SuccessIsThere == WorkSpec => []SucceededIsStored
<1>1. WInv => SucceededIsStored
  BY DEF WInv
<1> QED BY <1>1, InitWInv, StepWInv, PTL DEF WorkSpec

-----------------------------------------------------------------------------
(* The workers' caches and the coordinator's table.                        *)

\* Whatever step is taken, it calls the cache once at most.
LEMMA StepCalls ==
    ASSUME WInv, [WorkNext]_workVars
    PROVE  (\E p \in Procs, e \in Entries : Calls(p, e)) \/ UNCHANGED cacheVars
<1>1. ASSUME NEW p \in Procs, JobStep(p)
      PROVE  (\E e \in Entries : Calls(p, e)) \/ UNCHANGED cacheVars
  <2>1. /\ WorkTypes /\ CacheOK
        /\ Here(p) \in Entries /\ Own(p) \in Entries /\ Target(p) \in Entries
        /\ loc[cur[p]] \in Workers => There(p) \in Entries
        /\ pc[p] \in {"command", "release"} => Target(p) = Own(p)
    BY Items DEF JobOK, InLoop, Target
  <2>2. CASE Advance(p) \/ ChooseItem(p) \/ RequestFile(p) \/ ServerDied(p) \/ Unlink(p) \/ Link(p)
    BY <2>2 DEF Advance, ChooseItem, RequestFile, ServerDied, Unlink, Link
  <2>3. CASE GetLocal(p) \/ StatFound(p) \/ StatMissing(p) \/ StatError(p) \/ UnlockRead(p)
    BY <2>1, <2>3 DEF GetLocal, StatFound, StatMissing, StatError, UnlockRead, Calls, WorkerCall
  <2>4. CASE RequestArtifact(p)
    BY <2>1, <2>4 DEF RequestArtifact, Calls, WorkerCall
  <2>5. CASE Serve(p)
    <3>1. GetFound(p, There(p)) \/ GetMissing(p, There(p)) \/ GetFails(p, There(p))
      BY <2>5 DEF Serve
    <3>2. CASE There(p) \in Entries
      BY <3>1, <3>2 DEF Calls, WorkerCall
    <3>3. CASE There(p) \notin Entries
      BY <2>1, <3>1, <3>3, NoEntry
    <3> QED BY <3>2, <3>3
  <2>6. CASE CreateEntry(p) \/ Mkdir(p) \/ MkdirFails(p) \/ Receive(p) \/ UnlockWrite(p)
    BY <2>1, <2>6 DEF CreateEntry, Mkdir, MkdirFails, Receive, Finish, GiveUp, CommitFails,
       FindsStale, UnlockWrite, Calls, WorkerCall
  <2>7. CASE Command(p) \/ Commit(p)
    BY <2>1, <2>7 DEF Command, Commit, Finish, GiveUp, CommitFails, Calls, WorkerCall
  <2>8. CASE Release(p)
    <3>1. PICK d \in Deps[p[2]] : readUnlock(p, <<p[1], d>>)
      BY <2>8 DEF Release, Held
    <3> QED BY <3>1, WorkFacts DEF Calls, WorkerCall
  <2> QED BY <1>1, <2>2, <2>3, <2>4, <2>5, <2>6, <2>7, <2>8 DEF JobStep
<1>2. ASSUME NEW p \in Procs, NEW e \in Entries, ServeEnds(p, e)
      PROVE  Calls(p, e)
  BY <1>2 DEF ServeEnds, Calls, WorkerCall
<1>3. ASSUME \/ \E j \in Jobs : Schedule(j) \/ \E f \in Sources : RemoveSource(j, f)
             \/ \E w \in Workers : Run(w)
             \/ \E p \in Procs : Report(p) \/ Pick(p) \/ Crash(p)
      PROVE  UNCHANGED cacheVars
  BY <1>3 DEF Schedule, RemoveSource, Run, Report, Pick, Crash
<1>4. CASE UNCHANGED workVars
  BY <1>4 DEF workVars
<1> QED BY <1>1, <1>2, <1>3, <1>4 DEF WorkNext

LEMMA StepUsesCache == WInv /\ [WorkNext]_workVars => [CacheNext]_cacheVars
<1> SUFFICES ASSUME WInv, [WorkNext]_workVars, ~UNCHANGED cacheVars
             PROVE  CacheNext
  OBVIOUS
<1>1. PICK p \in Procs, e \in Entries : WorkerCall(p, e)
  BY StepCalls DEF Calls
<1>2. ReadStep(p, e) \/ WriteStep(p, e)
  BY <1>1, WorkFacts DEF WorkerCall, ReadStep, WriteStep
<1> QED BY <1>2 DEF CacheNext

\* The goroutines of the workers and the handlers that serve their artifacts
\* call the caches as ArtifactCache says.
THEOREM WorkersUseCache == WorkSpec => CacheSpec
BY InitWInv, StepWInv, StepUsesCache, PTL DEF WorkSpec, WorkInit, CacheSpec

\* So what ArtifactCache promises holds beside all that runs on the workers:
\* they see the store of ArtifactStore.
THEOREM WorkersKeepStore == WorkSpec => ImplementsStore
BY WorkersUseCache, CacheImplementsStore

\* And what a job links, opens or sends is not replaced before it is unlocked.
THEOREM WorkersUndisturbed == WorkSpec => ReadersUndisturbed
BY WorkersUseCache, ReadsAreStable

\* To the coordinator the workers are callers of its table: each job is taken
\* once and gets one outcome.
THEOREM WorkersKeepTable == WorkSpec => Table!Spec
<1>1. WorkInit => Table!Init
  BY DEF WorkInit
<1>2. ASSUME WorkNext
      PROVE  Table!Next \/ UNCHANGED Table!vars
  <2>1. ASSUME NEW p \in Procs,
               JobStep(p) \/ Crash(p) \/ \E e \in Entries : ServeEnds(p, e)
        PROVE  UNCHANGED Table!vars
    BY <2>1 DEF JobStep, Advance, ChooseItem, GetLocal, StatFound, StatMissing, StatError, UnlockRead,
       RequestFile, RequestArtifact, Serve, ServerDied, CreateEntry, Mkdir, MkdirFails,
       Receive, UnlockWrite, Unlink, Link, Command, Release, Commit, Crash, ServeEnds,
       coordVars, Table!vars
  <2>2. ASSUME NEW j \in Jobs, Schedule(j)
        PROVE  Table!Next
    BY <2>2 DEF Schedule, Table!Next
  <2>3. ASSUME NEW j \in Jobs, NEW f \in Sources, RemoveSource(j, f)
        PROVE  UNCHANGED Table!vars
    BY <2>3 DEF RemoveSource, Table!vars
  <2>4. ASSUME NEW w \in Workers, Run(w)
        PROVE  UNCHANGED Table!vars
    BY <2>4 DEF Run, coordVars, Table!vars
  <2>5. ASSUME NEW p \in Procs, Report(p) \/ Pick(p)
        PROVE  Table!Next
    BY <2>5, WorkFacts DEF Report, Pick, Table!Next
  <2> QED BY <1>2, <2>1, <2>2, <2>3, <2>4, <2>5 DEF WorkNext
<1>3. UNCHANGED workVars => UNCHANGED Table!vars
  BY DEF workVars, coordVars, Table!vars
<1> QED BY <1>1, <1>2, <1>3, PTL DEF WorkSpec, Table!Spec

-----------------------------------------------------------------------------
(* What a goroutine does at each place.                                    *)

Stays(p, a)  == Becomes(p, a, stage[p], todo[p], cur[p], ok[p])
Breaks(p, a) == Becomes(p, a, stage[p], todo[p], cur[p], FALSE)
Nexts(p)     == Becomes(p, "next", stage[p], todo[p] \ {cur[p]}, cur[p], ok[p])

\* p moves on with e, and nobody else moves.
Op(p, e, from, to) ==
    /\ op[p][e] = from /\ op'[p][e] = to
    /\ \A q \in Procs, x \in Entries : q # p \/ x # e => op'[q][x] = op[q][x]

FromNext(p) ==
    /\ pc[p] = "next" /\ UNCHANGED <<disk, op, temp, hurt>>
    /\ \/ /\ todo[p] = {} /\ stage[p] = "deps"
          /\ Becomes(p, "next", "files", SourceFiles[p[2]], cur[p], ok[p])
       \/ /\ todo[p] = {} /\ stage[p] = "files"
          /\ Becomes(p, "next", "link", SourceFiles[p[2]], cur[p], ok[p])
       \/ /\ todo[p] = {} /\ stage[p] = "link"
          /\ Becomes(p, "create", "output", todo[p], p[2], ok[p])
       \/ todo[p] = {} /\ stage[p] = "open" /\ Stays(p, "command")
       \/ \E x \in todo[p] : Becomes(p, "get", stage[p], todo[p], x, ok[p])

FromGet(p) ==
    /\ pc[p] = "get" /\ UNCHANGED <<disk, temp, hurt>>
    /\ \/ Op(p, Here(p), "idle", "stat") /\ Stays(p, "stat")
       \/ Here(p) \in writeLocked /\ stage[p] # "open" /\ op' = op /\ Breaks(p, "done")

FromStat(p) ==
    /\ pc[p] = "stat" /\ UNCHANGED <<disk, temp>>
    /\ \/ /\ disk[Here(p)] # Absent /\ Op(p, Here(p), "stat", "reading")
          /\ \/ stage[p] = "open" /\ Nexts(p)
             \/ stage[p] = "link" /\ Stays(p, "unlink")
             \/ stage[p] \in {"deps", "files"} /\ Stays(p, "unlockRead")
       \/ /\ disk[Here(p)] = Absent /\ Op(p, Here(p), "stat", "idle")
          /\ \/ stage[p] \in {"deps", "files"} /\ Stays(p, "request")
             \/ stage[p] = "link" /\ Breaks(p, "done")
       \/ /\ stage[p] # "open" /\ Op(p, Here(p), "stat", "idle")
          /\ Breaks(p, "done") /\ p \in hurt'

FromUnlockRead(p) ==
    /\ pc[p] = "unlockRead" /\ UNCHANGED <<disk, temp, hurt>>
    /\ Op(p, Here(p), "reading", "idle")
    /\ \/ ok[p] /\ Nexts(p)
       \/ ~ok[p] /\ Breaks(p, "done")

FromUnlink(p) ==
    /\ pc[p] = "unlink" /\ UNCHANGED <<disk, op>>
    /\ \/ PutLink(p, Nothing) /\ Stays(p, "hardlink")
       \/ temp' = temp /\ p \in hurt' /\ Breaks(p, "unlockRead")

FromHardlink(p) ==
    /\ pc[p] = "hardlink" /\ UNCHANGED <<disk, op>>
    /\ \/ PutLink(p, cur[p]) /\ hurt' = hurt /\ Stays(p, "unlockRead")
       \/ /\ Linked(p) # Nothing \/ p \in hurt'
          /\ temp' = temp /\ Breaks(p, "unlockRead")

FromRequest(p) ==
    /\ pc[p] = "request" /\ UNCHANGED <<disk, temp>>
    /\ \/ stage[p] = "files" /\ op' = op /\ Stays(p, "create")
       \/ /\ stage[p] = "files" /\ op' = op /\ Breaks(p, "done")
          /\ cur[p] \in gone \/ p \in hurt'
       \/ /\ stage[p] = "deps" /\ loc[cur[p]] \in Workers \ dead
          /\ Op(p, There(p), "idle", "stat") /\ Stays(p, "serve")
       \/ /\ stage[p] = "deps" /\ op' = op /\ Breaks(p, "done")
          /\ loc[cur[p]] \notin Workers \ dead \/ There(p) \in writeLocked

FromServe(p) ==
    /\ pc[p] = "serve" /\ UNCHANGED <<disk, temp>>
    /\ \/ /\ disk[There(p)] # Absent /\ Stays(p, "create")
          /\ There(p) \in Entries => Op(p, There(p), "stat", "reading")
       \/ /\ disk[There(p)] = Absent /\ loc[cur[p]] \notin dead /\ Breaks(p, "done")
          /\ There(p) \in Entries => Op(p, There(p), "stat", "idle")
       \/ /\ loc[cur[p]] \notin dead /\ Breaks(p, "done") /\ p \in hurt'
          /\ There(p) \in Entries => Op(p, There(p), "stat", "idle")
       \/ loc[cur[p]] \in dead /\ op' = op /\ Breaks(p, "done")

FromCreate(p) ==
    /\ pc[p] = "create" /\ UNCHANGED <<disk, temp>>
    /\ \/ /\ disk[Target(p)] = Absent /\ Op(p, Target(p), "idle", "creating")
          /\ Stays(p, "mkdir")
       \/ /\ disk[Target(p)] # Absent \/ Busy(Target(p)) \/ p \in hurt'
          /\ op' = op /\ Breaks(p, "done")

FromMkdir(p) ==
    /\ pc[p] = "mkdir" /\ UNCHANGED <<disk, temp>>
    /\ \/ /\ stage[p] = "output" /\ Op(p, Target(p), "creating", "writing")
          /\ Becomes(p, "next", "open", Deps[p[2]], cur[p], ok[p])
       \/ /\ stage[p] # "output" /\ Op(p, Target(p), "creating", "writing")
          /\ Stays(p, "receive")
       \/ /\ Op(p, Target(p), "creating", "unlock") /\ p \in hurt'
          /\ Breaks(p, "unlockWrite")

Commits(p) == /\ Op(p, Target(p), "writing", "unlock") /\ Stays(p, "unlockWrite")
              /\ disk' = [disk EXCEPT ![Target(p)] = New]

GivesUp(p) == /\ Op(p, Target(p), "writing", "unlock") /\ Breaks(p, "unlockWrite")
              /\ disk' = disk /\ p \in hurt'

Stumbles(p) == /\ Op(p, Target(p), "writing", "unlock") /\ Breaks(p, "unlockWrite")
               /\ disk' = disk /\ stage[p] = "deps" /\ Target(p) \in stale

FromReceive(p) == /\ pc[p] = "receive" /\ temp' = temp
                  /\ Commits(p) \/ GivesUp(p) \/ Stumbles(p)

FromUnlockWrite(p) ==
    /\ pc[p] = "unlockWrite" /\ UNCHANGED <<disk, temp, hurt>>
    /\ Op(p, Target(p), "unlock", "idle") /\ Target(p) \notin writeLocked'
    /\ \/ ok[p] /\ stage[p] # "open" /\ Nexts(p)
       \/ ~(ok[p] /\ stage[p] # "open") /\ Stays(p, "done")

FromCommand(p) ==
    /\ pc[p] = "command" /\ temp' = temp
    /\ \/ UNCHANGED <<disk, op>> /\ Stays(p, "release")
       \/ GivesUp(p)

FromRelease(p) ==
    /\ pc[p] = "release" /\ temp' = temp
    /\ \/ /\ \E d \in Deps[p[2]] : Op(p, <<p[1], d>>, "reading", "idle")
          /\ disk' = disk /\ Stays(p, "release")
       \/ Held(p) = {} /\ (Commits(p) \/ GivesUp(p))

Steps(p) == \/ FromNext(p) \/ FromGet(p) \/ FromStat(p) \/ FromUnlockRead(p)
            \/ FromUnlink(p) \/ FromHardlink(p)
            \/ FromRequest(p) \/ FromServe(p) \/ FromCreate(p) \/ FromMkdir(p)
            \/ FromReceive(p) \/ FromUnlockWrite(p) \/ FromCommand(p) \/ FromRelease(p)

\* What no step of a goroutine touches.
Apart == UNCHANGED <<phase, gone, dead, mates>> /\ hurt \subseteq hurt'

\* A call moves p on with e.
LEMMA CallMoves ==
    ASSUME CacheOK, NEW p \in Procs, NEW e \in Entries
    PROVE  /\ readLock(p, e) => Op(p, e, "idle", "stat") /\ disk' = disk
           /\ GetFound(p, e) => Op(p, e, "stat", "reading") /\ disk' = disk /\ disk[e] # Absent
           /\ GetMissing(p, e) => Op(p, e, "stat", "idle") /\ disk' = disk /\ disk[e] = Absent
           /\ GetFails(p, e) => Op(p, e, "stat", "idle") /\ disk' = disk
           /\ readUnlock(p, e) => Op(p, e, "reading", "idle") /\ disk' = disk
           /\ Create(p, e) => Op(p, e, "idle", "creating") /\ disk' = disk /\ disk[e] = Absent
           /\ CreateReady(p, e) => Op(p, e, "creating", "writing") /\ disk' = disk
           /\ CreateFails(p, e) => Op(p, e, "creating", "unlock") /\ disk' = disk
           /\ commit(p, e, New) => /\ Op(p, e, "writing", "unlock")
                                   /\ disk' = [disk EXCEPT ![e] = New]
           /\ commitFails(p, e) => Op(p, e, "writing", "unlock") /\ disk' = disk
           /\ abort(p, e) => Op(p, e, "writing", "unlock") /\ disk' = disk
           /\ writeUnlock(p, e) => /\ Op(p, e, "unlock", "idle") /\ disk' = disk
                                   /\ e \notin writeLocked'
<1>1. CacheTypeOK
  BY DEF CacheOK
<1>2. \A from, to \in Places : Move(p, e, from, to) => Op(p, e, from, to)
  BY <1>1, Moved DEF Op
<1>3. {"idle", "stat", "reading", "creating", "writing", "unlock"} \subseteq Places
  BY DEF Places, Reads, Writes
<1> QED BY <1>2, <1>3 DEF readLock, GetFound, GetMissing, GetFails, readUnlock, Unread, Create,
         Exists, writeLock, CreateReady, CreateFails, commit, commitFails, abort, writeUnlock, dirVars

\* The loops over dependencies and files.
LEMMA LoopSteps ==
    ASSUME WInv, NEW p \in Procs,
           Advance(p) \/ ChooseItem(p) \/ GetLocal(p) \/ StatFound(p)
               \/ StatMissing(p) \/ StatError(p) \/ UnlockRead(p)
    PROVE  Steps(p) /\ Apart
<1>1. /\ WorkTypes /\ CacheOK /\ InLoop(p)
      /\ Here(p) \in Entries /\ Own(p) \in Entries
      /\ stage[p] = "open" /\ pc[p] \in {"get", "stat"} => Stored(Here(p))
  BY Items DEF JobOK
<1>2. UNCHANGED <<outcome, loc>> /\ Apart /\ temp' = temp /\ (hurt' = hurt \/ StatError(p))
  BY DEF Advance, ChooseItem, GetLocal, StatFound, StatMissing, StatError, Strike, UnlockRead,
     coordVars, Apart
<1>3. /\ Fail(p) => Breaks(p, "done")
      /\ NextItem(p) => Nexts(p)
      /\ \A a \in JobPlaces : Goto(p, a) /\ UNCHANGED jobVars => Stays(p, a)
  BY <1>1, <1>2, Helpers DEF Breaks, Nexts, Stays
<1>4. CASE Advance(p)
  <2>1. pc[p] = "next" /\ todo[p] = {} /\ UNCHANGED <<disk, op>>
    BY <1>4 DEF Advance, At, cacheVars
  <2> hurt' = hurt
    BY <1>4 DEF Advance
  <2>2. CASE stage[p] = "deps"
    <3>1. Enter(p, "files", SourceFiles[p[2]])
      BY <1>4, <2>2 DEF Advance
    <3>2. Becomes(p, "next", "files", SourceFiles[p[2]], cur[p], ok[p])
      BY <1>1, <1>2, <3>1, Helpers, WorkFacts DEF Loops
    <3> QED BY <1>2, <2>1, <2>2, <3>2 DEF FromNext, Steps
  <2>3. CASE stage[p] = "files"
    <3>1. Enter(p, "link", SourceFiles[p[2]])
      BY <1>4, <2>3 DEF Advance
    <3>2. Becomes(p, "next", "link", SourceFiles[p[2]], cur[p], ok[p])
      BY <1>1, <1>2, <3>1, Helpers, WorkFacts DEF Loops
    <3> QED BY <1>2, <2>1, <2>3, <3>2 DEF FromNext, Steps
  <2>4. CASE stage[p] = "link"
    <3>1. Becomes(p, "create", "output", todo[p], p[2], ok[p])
      BY <1>1, <1>2, <1>4, <2>4, WorkFacts
         DEF Advance, Goto, Becomes, Frame, WorkTypes, JobPlaces, Loops
    <3> QED BY <1>2, <2>1, <2>4, <3>1 DEF FromNext, Steps
  <2>5. CASE stage[p] = "open"
    <3>1. Goto(p, "command") /\ UNCHANGED jobVars
      BY <1>4, <2>5 DEF Advance
    <3>2. Stays(p, "command")
      BY <1>3, <3>1 DEF JobPlaces
    <3> QED BY <1>2, <2>1, <2>5, <3>2 DEF FromNext, Steps
  <2> QED BY <1>1, <2>1, <2>2, <2>3, <2>4, <2>5 DEF InLoop
<1>5. CASE ChooseItem(p)
  <2>1. /\ pc[p] = "next" /\ UNCHANGED <<disk, op, stage, todo, ok, hurt>>
        /\ pc' = [pc EXCEPT ![p] = "get"]
    BY <1>5 DEF ChooseItem, At, Goto, cacheVars
  <2>2. PICK x \in todo[p] : cur' = [cur EXCEPT ![p] = x]
    BY <1>5 DEF ChooseItem
  <2>3. Becomes(p, "get", stage[p], todo[p], x, ok[p])
    BY <1>1, <1>2, <2>1, <2>2 DEF Becomes, Frame, WorkTypes, JobPlaces
  <2> QED BY <1>2, <2>1, <2>3 DEF FromNext, Steps
<1>6. CASE GetLocal(p)
  <2>1. pc[p] = "get" /\ hurt' = hurt
    BY <1>6 DEF GetLocal, At
  <2>2. CASE readLock(p, Here(p)) /\ Goto(p, "stat") /\ UNCHANGED jobVars
    BY <1>1, <1>2, <1>3, <2>1, <2>2, CallMoves DEF FromGet, Steps, JobPlaces
  <2>3. CASE ReadRefused(Here(p)) /\ GetError(p) /\ UNCHANGED cacheVars
    <3>1. Here(p) \in writeLocked /\ stage[p] # "open" /\ UNCHANGED <<disk, op>>
      BY <1>1, <2>1, <2>3 DEF Stored, ReadRefused, cacheVars
    <3>2. Breaks(p, "done")
      BY <1>3, <2>3, <3>1 DEF GetError
    <3> QED BY <1>2, <2>1, <3>1, <3>2 DEF FromGet, Steps
  <2> QED BY <1>6, <2>2, <2>3 DEF GetLocal
<1>7. CASE StatFound(p)
  <2>1. /\ pc[p] = "stat" /\ disk' = disk
        /\ disk[Here(p)] # Absent /\ Op(p, Here(p), "stat", "reading")
    BY <1>1, <1>7, CallMoves DEF StatFound, At
  <2>2. \/ stage[p] = "open" /\ Nexts(p)
        \/ stage[p] = "link" /\ Stays(p, "unlink")
        \/ stage[p] \in {"deps", "files"} /\ Stays(p, "unlockRead")
    <3>1. CASE stage[p] = "open"
      BY <1>3, <1>7, <3>1 DEF StatFound
    <3>2. CASE stage[p] = "link"
      BY <1>3, <1>7, <3>2 DEF StatFound, JobPlaces
    <3>3. CASE stage[p] \in {"deps", "files"}
      BY <1>3, <1>7, <3>3 DEF StatFound, JobPlaces
    <3> QED BY <1>1, <2>1, <3>1, <3>2, <3>3 DEF InLoop
  <2> QED BY <1>2, <2>1, <2>2 DEF FromStat, Steps
<1>8. CASE StatMissing(p)
  <2>1. /\ pc[p] = "stat" /\ disk' = disk
        /\ disk[Here(p)] = Absent /\ Op(p, Here(p), "stat", "idle")
    BY <1>1, <1>8, CallMoves DEF StatMissing, At
  <2>2. stage[p] # "open"
    BY <1>1, <2>1 DEF Stored
  <2>3. \/ stage[p] \in {"deps", "files"} /\ Stays(p, "request")
        \/ stage[p] = "link" /\ Breaks(p, "done")
    BY <1>1, <1>3, <1>8, <2>1, <2>2 DEF StatMissing, GetError, JobPlaces, InLoop
  <2> QED BY <1>2, <2>1, <2>3 DEF FromStat, Steps
<1>9. CASE UnlockRead(p)
  <2>1. pc[p] = "unlockRead" /\ disk' = disk /\ Op(p, Here(p), "reading", "idle")
    BY <1>1, <1>9, CallMoves DEF UnlockRead, At
  <2>2. \/ ok[p] /\ Nexts(p)
        \/ ~ok[p] /\ Breaks(p, "done")
    BY <1>3, <1>9 DEF UnlockRead
  <2>3. hurt' = hurt
    BY <1>9 DEF UnlockRead
  <2> QED BY <1>2, <2>1, <2>2, <2>3 DEF FromUnlockRead, Steps
<1>10. CASE StatError(p)
  <2>1. /\ pc[p] = "stat" /\ stage[p] # "open" /\ disk' = disk /\ p \in hurt'
        /\ Op(p, Here(p), "stat", "idle") /\ Breaks(p, "done")
    BY <1>1, <1>3, <1>10, CallMoves DEF StatError, At, Strike
  <2> QED BY <1>2, <2>1 DEF FromStat, Steps
<1> QED BY <1>2, <1>4, <1>5, <1>6, <1>7, <1>8, <1>9, <1>10

\* The downloads.
LEMMA DownloadSteps ==
    ASSUME WInv, NEW p \in Procs,
           RequestFile(p) \/ RequestArtifact(p) \/ Serve(p) \/ ServerDied(p)
               \/ CreateEntry(p) \/ Mkdir(p) \/ MkdirFails(p) \/ Receive(p)
               \/ UnlockWrite(p)
    PROVE  Steps(p) /\ Apart
<1>1. /\ WorkTypes /\ CacheOK /\ InLoop(p)
      /\ Here(p) \in Entries /\ Own(p) \in Entries /\ Target(p) \in Entries
      /\ loc[cur[p]] \in Workers => There(p) \in Entries
  BY Items DEF JobOK
<1>2. UNCHANGED <<outcome, loc>> /\ Apart /\ UNCHANGED temp
  BY DEF RequestFile, RequestArtifact, Serve, ServerDied, CreateEntry, Mkdir, MkdirFails,
     Receive, UnlockWrite, coordVars, Apart, Strike, Finish, GiveUp, CommitFails, FindsStale
<1>3. /\ Fail(p) => Breaks(p, "done")
      /\ NextItem(p) => Nexts(p)
      /\ \A a \in JobPlaces : Goto(p, a) /\ UNCHANGED jobVars => Stays(p, a)
  BY <1>1, <1>2, Helpers DEF Breaks, Nexts, Stays
<1>4. CASE RequestFile(p)
  <2>1. pc[p] = "request" /\ stage[p] = "files" /\ UNCHANGED <<disk, op>>
    BY <1>4 DEF RequestFile, At, cacheVars
  <2>2. \/ Stays(p, "create")
        \/ Breaks(p, "done") /\ (cur[p] \in gone \/ p \in hurt')
    BY <1>3, <1>4 DEF RequestFile, Strike, JobPlaces
  <2> QED BY <1>2, <2>1, <2>2 DEF FromRequest, Steps
<1>5. CASE RequestArtifact(p)
  <2>1. pc[p] = "request" /\ stage[p] = "deps"
    BY <1>5 DEF RequestArtifact, At
  <2>2. CASE /\ loc[cur[p]] \in Workers \ dead
             /\ readLock(p, There(p)) /\ Goto(p, "serve") /\ UNCHANGED jobVars
    BY <1>1, <1>2, <1>3, <2>1, <2>2, CallMoves DEF FromRequest, Steps, JobPlaces
  <2>3. CASE /\ loc[cur[p]] \notin Workers \ dead \/ ReadRefused(There(p))
             /\ Fail(p) /\ UNCHANGED cacheVars
    BY <1>2, <1>3, <2>1, <2>3 DEF FromRequest, Steps, ReadRefused, cacheVars
  <2> QED BY <1>5, <2>2, <2>3 DEF RequestArtifact
<1>6. CASE Serve(p)
  <2>1. pc[p] = "serve" /\ loc[cur[p]] \notin dead
    BY <1>6 DEF Serve, At
  <2>2. CASE GetFound(p, There(p)) /\ Goto(p, "create") /\ UNCHANGED jobVars
    <3>1. disk' = disk /\ disk[There(p)] # Absent
      BY <2>2 DEF GetFound, dirVars
    <3>2. There(p) \in Entries => Op(p, There(p), "stat", "reading")
      BY <1>1, <2>2, CallMoves
    <3>3. Stays(p, "create")
      BY <1>3, <2>2 DEF JobPlaces
    <3> QED BY <1>2, <2>1, <3>1, <3>2, <3>3 DEF FromServe, Steps
  <2>3. CASE GetMissing(p, There(p)) /\ Fail(p)
    <3>1. disk' = disk /\ disk[There(p)] = Absent
      BY <2>3 DEF GetMissing, Unread, dirVars
    <3>2. There(p) \in Entries => Op(p, There(p), "stat", "idle")
      BY <1>1, <2>3, CallMoves
    <3> QED BY <1>2, <1>3, <2>1, <2>3, <3>1, <3>2 DEF FromServe, Steps
  <2>4. CASE GetFails(p, There(p)) /\ Fail(p) /\ Strike(p, "stat")
    <3>1. disk' = disk /\ p \in hurt'
      BY <2>4 DEF GetFails, Unread, Strike, dirVars
    <3>2. There(p) \in Entries => Op(p, There(p), "stat", "idle")
      BY <1>1, <2>4, CallMoves
    <3> QED BY <1>2, <1>3, <2>1, <2>4, <3>1, <3>2 DEF FromServe, Steps
  <2> QED BY <1>6, <2>2, <2>3, <2>4 DEF Serve
<1>7. CASE ServerDied(p)
  <2>1. pc[p] = "serve" /\ loc[cur[p]] \in dead /\ UNCHANGED <<disk, op, hurt>> /\ Breaks(p, "done")
    BY <1>3, <1>7 DEF ServerDied, At, cacheVars
  <2> QED BY <1>2, <2>1 DEF FromServe, Steps
<1>8. CASE CreateEntry(p)
  <2>1. pc[p] = "create"
    BY <1>8 DEF CreateEntry, At
  <2>2. CASE Create(p, Target(p)) /\ Goto(p, "mkdir") /\ UNCHANGED jobVars
    BY <1>1, <1>2, <1>3, <2>1, <2>2, CallMoves DEF FromCreate, Steps, JobPlaces
  <2>3. CASE /\ Exists(Target(p)) \/ Busy(Target(p)) \/ Strike(p, "stat")
             /\ Fail(p) /\ UNCHANGED cacheVars
    BY <1>2, <1>3, <2>1, <2>3 DEF FromCreate, Steps, Exists, Strike, cacheVars
  <2> QED BY <1>8, <2>2, <2>3 DEF CreateEntry
<1>9. CASE Mkdir(p)
  <2>1. pc[p] = "mkdir" /\ Op(p, Target(p), "creating", "writing") /\ disk' = disk
    BY <1>1, <1>9, CallMoves DEF Mkdir, At
  <2>2. CASE stage[p] = "output"
    <3>1. Becomes(p, "next", "open", Deps[p[2]], cur[p], ok[p])
      BY <1>1, <1>2, <1>9, <2>2, Helpers, WorkFacts DEF Mkdir, Loops
    <3> QED BY <1>2, <2>1, <2>2, <3>1 DEF FromMkdir, Steps
  <2>3. CASE stage[p] # "output"
    BY <1>2, <1>3, <1>9, <2>1, <2>3 DEF Mkdir, FromMkdir, Steps, JobPlaces
  <2> QED BY <2>2, <2>3
<1>10. CASE MkdirFails(p)
  <2>1. /\ pc[p] = "mkdir" /\ Op(p, Target(p), "creating", "unlock") /\ disk' = disk
        /\ p \in hurt'
    BY <1>1, <1>10, CallMoves DEF MkdirFails, At, Strike
  <2>2. Breaks(p, "unlockWrite")
    BY <1>1, <1>2, <1>10 DEF MkdirFails, Goto, Breaks, Becomes, Frame, WorkTypes, JobPlaces
  <2> QED BY <1>2, <2>1, <2>2 DEF FromMkdir, Steps
<1>11. CASE Receive(p)
  <2>1. CASE Finish(p)
    <3>1. Commits(p)
      BY <1>1, <1>3, <2>1, CallMoves DEF Finish, Commits, JobPlaces
    <3> QED BY <1>2, <1>11, <3>1 DEF Receive, At, FromReceive, Steps
  <2>2. CASE GiveUp(p, "net")
    <3>1. Op(p, Target(p), "writing", "unlock") /\ disk' = disk /\ p \in hurt'
      BY <1>1, <2>2, CallMoves DEF GiveUp, Strike
    <3>2. Breaks(p, "unlockWrite")
      BY <1>1, <1>2, <2>2 DEF GiveUp, Goto, Breaks, Becomes, Frame, WorkTypes, JobPlaces
    <3> QED BY <1>2, <1>11, <3>1, <3>2 DEF GivesUp, Receive, At, FromReceive, Steps
  <2>3. CASE stage[p] = "deps" /\ CommitFails(p)
    <3>1. Op(p, Target(p), "writing", "unlock") /\ disk' = disk /\ p \in hurt'
      BY <1>1, <2>3, CallMoves DEF CommitFails, Strike
    <3>2. Breaks(p, "unlockWrite")
      BY <1>1, <1>2, <2>3 DEF CommitFails, Goto, Breaks, Becomes, Frame, WorkTypes, JobPlaces
    <3> QED BY <1>2, <1>11, <3>1, <3>2 DEF GivesUp, Receive, At, FromReceive, Steps
  <2>4. CASE stage[p] = "deps" /\ FindsStale(p)
    <3>1. Op(p, Target(p), "writing", "unlock") /\ disk' = disk /\ Target(p) \in stale
      BY <1>1, <2>4, CallMoves DEF FindsStale
    <3>2. Breaks(p, "unlockWrite")
      BY <1>1, <1>2, <2>4 DEF FindsStale, Goto, Breaks, Becomes, Frame, WorkTypes, JobPlaces
    <3> QED BY <1>2, <1>11, <2>4, <3>1, <3>2 DEF Stumbles, Receive, At, FromReceive, Steps
  <2> QED BY <1>11, <2>1, <2>2, <2>3, <2>4 DEF Receive
<1>12. CASE UnlockWrite(p)
  <2>1. /\ pc[p] = "unlockWrite" /\ Op(p, Target(p), "unlock", "idle") /\ disk' = disk
        /\ Target(p) \notin writeLocked' /\ hurt' = hurt
    BY <1>1, <1>12, CallMoves DEF UnlockWrite, At
  <2>2. \/ ok[p] /\ stage[p] # "open" /\ Nexts(p)
        \/ ~(ok[p] /\ stage[p] # "open") /\ Stays(p, "done")
    BY <1>3, <1>12 DEF UnlockWrite, JobPlaces
  <2> QED BY <1>2, <2>1, <2>2 DEF FromUnlockWrite, Steps
<1> QED BY <1>2, <1>4, <1>5, <1>6, <1>7, <1>8, <1>9, <1>10, <1>11, <1>12

\* executeJob.
LEMMA ExecuteSteps ==
    ASSUME WInv, NEW p \in Procs,
           Unlink(p) \/ Link(p) \/ Command(p) \/ Release(p) \/ Commit(p)
    PROVE  Steps(p) /\ Apart
<1>1. /\ WorkTypes /\ CacheOK /\ InLoop(p)
      /\ Target(p) \in Entries
  BY Items DEF JobOK
<1>2. UNCHANGED <<outcome, loc>> /\ Apart
  BY DEF Unlink, Link, Command, Release, Commit, coordVars, Apart, Strike, Finish, GiveUp,
     CommitFails
<1>3. \A a \in JobPlaces : Goto(p, a) /\ UNCHANGED jobVars => Stays(p, a)
  BY <1>1, <1>2, Helpers DEF Stays
<1>4. Finish(p) => Commits(p)
  BY <1>1, <1>3, CallMoves DEF Finish, Commits, JobPlaces
<1>5. ASSUME NEW what, GiveUp(p, what)
      PROVE  GivesUp(p)
  <2>1. Op(p, Target(p), "writing", "unlock") /\ disk' = disk /\ p \in hurt'
    BY <1>1, <1>5, CallMoves DEF GiveUp, Strike
  <2>2. Breaks(p, "unlockWrite")
    BY <1>1, <1>2, <1>5 DEF GiveUp, Goto, Breaks, Becomes, Frame, WorkTypes, JobPlaces
  <2> QED BY <2>1, <2>2 DEF GivesUp
<1>11. ASSUME CommitFails(p)
       PROVE  GivesUp(p)
  <2>1. Op(p, Target(p), "writing", "unlock") /\ disk' = disk /\ p \in hurt'
    BY <1>1, <1>11, CallMoves DEF CommitFails, Strike
  <2>2. Breaks(p, "unlockWrite")
    BY <1>1, <1>2, <1>11 DEF CommitFails, Goto, Breaks, Becomes, Frame, WorkTypes, JobPlaces
  <2> QED BY <2>1, <2>2 DEF GivesUp
<1>6. CASE Unlink(p)
  <2>1. pc[p] = "unlink" /\ UNCHANGED <<disk, op, stage, todo, cur>>
    BY <1>6 DEF Unlink, At, cacheVars
  <2>2. CASE PutLink(p, Nothing) /\ Goto(p, "hardlink") /\ UNCHANGED <<ok, hurt>>
    <3>1. Stays(p, "hardlink")
      BY <1>1, <1>2, <2>1, <2>2 DEF Goto, Stays, Becomes, Frame, WorkTypes, JobPlaces
    <3> QED BY <1>2, <2>1, <2>2, <3>1 DEF FromUnlink, Steps
  <2>3. CASE /\ Strike(p, "link") /\ ok' = [ok EXCEPT ![p] = FALSE]
             /\ Goto(p, "unlockRead") /\ UNCHANGED temp
    <3>1. Breaks(p, "unlockRead")
      BY <1>1, <1>2, <2>1, <2>3 DEF Goto, Breaks, Becomes, Frame, WorkTypes, JobPlaces
    <3> QED BY <1>2, <2>1, <2>3, <3>1 DEF Strike, FromUnlink, Steps
  <2> QED BY <1>6, <2>2, <2>3 DEF Unlink
<1>7. CASE Link(p)
  <2>1. /\ pc[p] = "hardlink" /\ pc' = [pc EXCEPT ![p] = "unlockRead"]
        /\ UNCHANGED <<disk, op, stage, todo, cur>>
    BY <1>7 DEF Link, At, Goto, cacheVars
  <2>2. CASE PutLink(p, cur[p]) /\ UNCHANGED <<ok, hurt>>
    <3>1. Stays(p, "unlockRead")
      BY <1>1, <1>2, <2>1, <2>2 DEF Stays, Becomes, Frame, WorkTypes, JobPlaces
    <3> QED BY <1>2, <2>1, <2>2, <3>1 DEF FromHardlink, Steps
  <2>3. CASE /\ Linked(p) # Nothing \/ p \in hurt'
             /\ ok' = [ok EXCEPT ![p] = FALSE] /\ temp' = temp
    <3>1. Breaks(p, "unlockRead")
      BY <1>1, <1>2, <2>1, <2>3 DEF Breaks, Becomes, Frame, WorkTypes, JobPlaces
    <3> QED BY <1>2, <2>1, <2>3, <3>1 DEF FromHardlink, Steps
  <2> QED BY <1>7, <2>2, <2>3 DEF Link, Strike
<1>8. CASE Command(p)
  <2>1. pc[p] = "command" /\ temp' = temp
    BY <1>8 DEF Command, At
  <2>2. CASE Goto(p, "release") /\ UNCHANGED <<cacheVars, jobVars, hurt>>
    BY <1>2, <1>3, <2>1, <2>2 DEF FromCommand, Steps, JobPlaces, cacheVars
  <2> QED BY <1>2, <1>5, <1>8, <2>1, <2>2 DEF Command, FromCommand, Steps
<1>9. CASE Release(p)
  <2>1. PICK d \in Deps[p[2]] : readUnlock(p, <<p[1], d>>)
    BY <1>9 DEF Release, Held
  <2>2. Op(p, <<p[1], d>>, "reading", "idle") /\ disk' = disk
    BY <1>1, <2>1, CallMoves, WorkFacts
  <2>3. Stays(p, "release")
    BY <1>1, <1>2, <1>9 DEF Release, At, jobVars, Stays, Becomes, Frame, WorkTypes
  <2> QED BY <1>2, <1>9, <2>2, <2>3 DEF Release, At, FromRelease, Steps
<1>10. CASE Commit(p)
  BY <1>2, <1>4, <1>10, <1>11 DEF Commit, At, Released, FromRelease, Steps
<1> QED BY <1>2, <1>6, <1>7, <1>8, <1>9, <1>10

LEMMA JobSteps ==
    ASSUME WInv, NEW p \in Procs, JobStep(p)
    PROVE  Steps(p) /\ Apart /\ p[1] \in Workers
BY LoopSteps, DownloadSteps, ExecuteSteps, WorkFacts DEF JobStep

\* What a step leaves in tmp/: nothing new, unless it was failed.
Leaves(p) == /\ hurt' \subseteq hurt \cup {p}
             /\ \/ stale' \subseteq stale
                \/ /\ p \in hurt' /\ pc[p] \in {"receive", "command", "release"}
                   /\ stale' \subseteq stale \cup {Target(p)}

LEMMA StepLeaves ==
    ASSUME NEW p \in Procs, JobStep(p)
    PROVE  Leaves(p)
<1>1. CASE \/ Advance(p) \/ ChooseItem(p) \/ RequestFile(p) \/ ServerDied(p)
           \/ Unlink(p) \/ Link(p)
  BY <1>1 DEF Advance, ChooseItem, RequestFile, ServerDied, Unlink, Link, Strike, cacheVars, Leaves
<1>2. CASE GetLocal(p) \/ StatFound(p) \/ StatMissing(p) \/ StatError(p) \/ UnlockRead(p)
  BY <1>2 DEF GetLocal, StatFound, StatMissing, StatError, UnlockRead, Strike, readLock, GetFound,
     GetMissing, GetFails, readUnlock, Unread, cacheVars, dirVars, Leaves
<1>3. CASE RequestArtifact(p) \/ Serve(p) \/ Release(p)
  BY <1>3 DEF RequestArtifact, Serve, Release, Strike, readLock, GetFound, GetMissing, GetFails,
     readUnlock, Unread, cacheVars, dirVars, Leaves
<1>4. CASE CreateEntry(p) \/ Mkdir(p) \/ MkdirFails(p) \/ UnlockWrite(p)
  BY <1>4 DEF CreateEntry, Mkdir, MkdirFails, UnlockWrite, Strike, Create, writeLock, CreateReady,
     CreateFails, writeUnlock, cacheVars, dirVars, Leaves
<1>5. ASSUME pc[p] \in {"receive", "command", "release"},
             \/ Finish(p) \/ GiveUp(p, "net") \/ GiveUp(p, "command")
             \/ CommitFails(p) \/ FindsStale(p)
      PROVE  Leaves(p)
  BY <1>5 DEF Finish, GiveUp, CommitFails, FindsStale, Strike, commit, abort, commitFails, Leaves
<1>6. CASE Receive(p)
  BY <1>5, <1>6 DEF Receive, At
<1>7. CASE Command(p) \/ Commit(p)
  <2>1. CASE UNCHANGED <<cacheVars, hurt>>
    BY <2>1 DEF cacheVars, Leaves
  <2> QED BY <1>5, <1>7, <2>1 DEF Command, Commit, At
<1> QED BY <1>1, <1>2, <1>3, <1>4, <1>6, <1>7 DEF JobStep

-----------------------------------------------------------------------------
(* The life of a job: who runs it, and with whom.                          *)

\* p has the job, or had it.
Live(p) == pc[p] \notin {"off", "dead"}

\* p has begun its job, which is not reported yet.
Running(p) == pc[p] \notin {"off", "picked", "over", "dead"}

Phases == {"absent", "offered", "taken"}

\* A job is scheduled after its dependencies have ended, and one goroutine has
\* it; once it was reported, that goroutine is over for good.
LifeTable ==
    /\ phase \in [Jobs -> Phases]
    /\ \A j \in Jobs : phase[j] # "absent" => DepsSettled(j)
    /\ \A p \in Procs : Live(p) => phase[p[2]] = "taken"
    /\ \A p, q \in Procs : Live(p) /\ Live(q) /\ p[2] = q[2] => p = q
    /\ \A p \in Procs : Live(p) /\ pc[p] # "over" => outcome[p[2]] = "open"
    /\ \A j \in Jobs : outcome[j] # "open" =>
           phase[j] = "taken" /\ loc[j] \in Workers /\ pc[<<loc[j], j>>] \in {"over", "dead"}

\* Those who are in runJob on one host have met; a file is removed for a job.
LifeBatch ==
    /\ dead \subseteq Workers
    /\ \A p \in Procs : pc[p] = "dead" <=> p[1] \in dead
    /\ mates \in [Procs -> SUBSET Procs]
    /\ \A p, q \in Procs :
           Active(p) /\ Active(q) /\ Host[p[1]] = Host[q[1]] /\ p # q => q \in mates[p]
    /\ \A f \in gone : \E j \in Jobs : outcome[j] # "open" /\ f \in SourceFiles[j]

Life == LifeTable /\ LifeBatch

\* Where p is about one artifact or file.
ItemPlaces == {"get", "stat", "unlockRead", "unlink", "hardlink", "request", "serve",
               "create", "mkdir", "receive", "unlockWrite"}

\* The loops go through the dependencies and files of the job.
ItemsOK(p) ==
    /\ stage[p] = "deps" => todo[p] \subseteq Deps[p[2]]
    /\ stage[p] \in {"files", "link"} => todo[p] \subseteq SourceFiles[p[2]]
    /\ stage[p] \in {"deps", "files", "link"} /\ pc[p] \in ItemPlaces => cur[p] \in todo[p]
    /\ stage[p] = "output" => cur[p] = p[2]
    /\ pc[p] = "serve" => stage[p] = "deps"
    /\ pc[p] \in {"unlink", "hardlink"} => stage[p] = "link"
    /\ pc[p] = "unlockWrite" => stage[p] # "link"
    /\ pc[p] \in {"off", "picked"} => ok[p]

Ordered == Life /\ \A p \in Procs : ItemsOK(p)

\* Inside runJob a goroutine stays there.
LEMMA StepsInside ==
    ASSUME WInv, NEW p \in Procs, Steps(p)
    PROVE  /\ Running(p) /\ Running(p)' /\ pc[p] # "done" /\ Active(p) /\ Frame(p)
           /\ \A q \in Procs \ {p} : pc'[q] = pc[q]
<1> DEFINE Goes == Frame(p) /\ pc'[p] \notin {"off", "picked", "over", "dead"}
<1>3. /\ \A a : Stays(p, a) \/ Breaks(p, a) => Frame(p) /\ pc'[p] = a
      /\ Nexts(p) => Frame(p) /\ pc'[p] = "next"
      /\ \A a, s, t, c, k : Becomes(p, a, s, t, c, k) => Frame(p) /\ pc'[p] = a
  BY DEF Stays, Breaks, Nexts, Becomes
<1>1. Goes
  <2>1. CASE FromNext(p) \/ FromGet(p)
    BY <1>3, <2>1 DEF FromNext, FromGet
  <2>2. CASE FromStat(p) \/ FromUnlockRead(p) \/ FromUnlink(p) \/ FromHardlink(p)
    BY <1>3, <2>2 DEF FromStat, FromUnlockRead, FromUnlink, FromHardlink
  <2>3. CASE FromRequest(p) \/ FromServe(p) \/ FromCreate(p) \/ FromMkdir(p)
    BY <1>3, <2>3 DEF FromRequest, FromServe, FromCreate, FromMkdir
  <2>4. CASE FromReceive(p) \/ FromUnlockWrite(p) \/ FromCommand(p) \/ FromRelease(p)
    BY <1>3, <2>4 DEF FromReceive, FromUnlockWrite, FromCommand, FromRelease, Commits, GivesUp,
       Stumbles
  <2> QED BY <2>1, <2>2, <2>3, <2>4 DEF Steps
<1>2. Running(p) /\ pc[p] # "done"
  BY DEF Steps, FromNext, FromGet, FromStat, FromUnlockRead, FromUnlink, FromHardlink,
     FromRequest, FromServe, FromCreate, FromMkdir, FromReceive, FromUnlockWrite,
     FromCommand, FromRelease, Running
<1> QED BY <1>1, <1>2 DEF Frame, Running, Active

\* So the table, the batches and the removed files are none of its business.
LEMMA StepsKeepLife ==
    ASSUME WInv, Life, NEW p \in Procs, Steps(p), Apart
    PROVE  Life'
<1>1. /\ Running(p) /\ Running(p)' /\ Active(p)
      /\ \A q \in Procs \ {p} : pc'[q] = pc[q]
      /\ UNCHANGED <<outcome, loc, phase, gone, dead, mates>>
  BY StepsInside DEF Frame, Apart
<1>2. \A q \in Procs : /\ Live(q)' <=> Live(q)
                       /\ Active(q)' => Active(q)
                       /\ pc'[q] = "over" <=> pc[q] = "over"
                       /\ pc'[q] = "dead" <=> pc[q] = "dead"
  BY <1>1 DEF Live, Running, Active
<1>3. \A j \in Jobs : DepsSettled(j)' <=> DepsSettled(j)
  BY <1>1 DEF DepsSettled
<1>4. LifeTable'
  <2>1. \A j \in Jobs : outcome[j] # "open" =>
            pc'[<<loc[j], j>>] \in {"over", "dead"}
    BY <1>2, WorkFacts DEF Life, LifeTable
  <2> QED BY <1>1, <1>2, <1>3, <2>1 DEF Life, LifeTable
<1>5. LifeBatch'
  BY <1>1, <1>2 DEF Life, LifeBatch
<1> QED BY <1>4, <1>5 DEF Life

LEMMA StepsKeepItems ==
    ASSUME WInv, NEW p \in Procs, ItemsOK(p), Steps(p)
    PROVE  ItemsOK(p)'
<1>1. InLoop(p)
  BY DEF WInv, JobOK
<1> USE DEF ItemsOK, ItemPlaces
<1>2. CASE FromNext(p)
  BY <1>1, <1>2 DEF FromNext, Stays, Becomes, InLoop
<1>3. CASE FromGet(p) \/ FromStat(p) \/ FromUnlockRead(p)
  BY <1>1, <1>3 DEF FromGet, FromStat, FromUnlockRead, Stays, Breaks, Nexts, Becomes, InLoop
<1>4. CASE FromUnlink(p) \/ FromHardlink(p)
  BY <1>1, <1>4 DEF FromUnlink, FromHardlink, Stays, Breaks, Becomes, InLoop
<1>5. CASE FromRequest(p) \/ FromServe(p) \/ FromCreate(p) \/ FromMkdir(p)
  BY <1>1, <1>5 DEF FromRequest, FromServe, FromCreate, FromMkdir, Stays, Breaks, Becomes, InLoop
<1>6. CASE FromReceive(p) \/ FromUnlockWrite(p) \/ FromCommand(p) \/ FromRelease(p)
  BY <1>1, <1>6 DEF FromReceive, FromUnlockWrite, FromCommand, FromRelease, Commits, GivesUp,
     Stumbles, Stays, Breaks, Nexts, Becomes, InLoop
<1> QED BY <1>2, <1>3, <1>4, <1>5, <1>6 DEF Steps

LEMMA StepsKeepOrdered ==
    ASSUME WInv, Ordered, NEW p \in Procs, Steps(p), Apart
    PROVE  Ordered'
<1>1. Life'
  BY StepsKeepLife DEF Ordered
<1>2. ASSUME NEW q \in Procs
      PROVE  ItemsOK(q)'
  <2>1. CASE q = p
    BY <2>1, StepsKeepItems DEF Ordered
  <2>2. CASE q # p
    <3>1. Frame(p)
      BY StepsInside
    <3> QED BY <2>2, <3>1 DEF Frame, Ordered, ItemsOK
  <2> QED BY <2>1, <2>2
<1> QED BY <1>1, <1>2 DEF Ordered

LEMMA InitOrdered == WorkInit => Ordered
<1> SUFFICES ASSUME WorkInit PROVE Ordered
  OBVIOUS
<1>1. LifeTable
  BY DEF WorkInit, Table!Init, LifeTable, Live, Phases
<1>2. LifeBatch
  BY DEF WorkInit, LifeBatch, Active
<1>3. ASSUME NEW p \in Procs PROVE ItemsOK(p)
  BY DEF WorkInit, ItemsOK, ItemPlaces
<1> QED BY <1>1, <1>2, <1>3 DEF Ordered, Life

\* What the other steps leave alone, and how they move the goroutines.
Beside == /\ UNCHANGED <<disk, stale, op, writeLocked, stage, cur, ok, temp, hurt>>
          /\ gone \subseteq gone' /\ dead \subseteq dead'
          /\ \A j \in Jobs : outcome[j] # "open" => outcome'[j] = outcome[j] /\ loc'[j] = loc[j]
          /\ \A q \in Procs :
                \/ pc'[q] = pc[q] /\ todo'[q] = todo[q] /\ mates[q] \subseteq mates'[q]
                \/ /\ pc[q] = "off" /\ pc'[q] = "picked"
                   /\ todo'[q] = todo[q] /\ mates'[q] = mates[q]
                \/ pc[q] = "picked" /\ pc'[q] = "next" /\ todo'[q] = Deps[q[2]]
                \/ /\ pc[q] = "done" /\ pc'[q] = "over"
                   /\ outcome'[q[2]] # "open" /\ loc'[q[2]] = q[1]
                   /\ todo'[q] = todo[q] /\ mates'[q] = mates[q]
                \/ pc'[q] = "dead" /\ todo'[q] = todo[q] /\ mates'[q] = mates[q]

LifeStep == \/ \E j \in Jobs : Schedule(j) \/ \E f \in Sources : RemoveSource(j, f)
            \/ \E w \in Workers : Run(w)
            \/ \E p \in Procs : Report(p) \/ Pick(p) \/ Crash(p)
            \/ UNCHANGED workVars

\* The goroutines that w starts meet each other and who is in runJob beside them.
LEMMA RunKeeps ==
    ASSUME WInv, Ordered, NEW w \in Workers, Run(w)
    PROVE  Life' /\ Beside
<1> DEFINE batch  == {p \in Procs : p[1] = w /\ At(p, "picked")}
           beside == {p \in Procs : Host[p[1]] = Host[w] /\ Active(p)}
<1>1. /\ pc'    = [q \in Procs |-> IF q \in batch THEN "next" ELSE pc[q]]
      /\ todo'  = [q \in Procs |-> IF q \in batch THEN Deps[q[2]] ELSE todo[q]]
      /\ mates' = [q \in Procs |-> IF q \in batch THEN (batch \cup beside) \ {q}
                                   ELSE IF q \in beside THEN mates[q] \cup batch
                                   ELSE mates[q]]
      /\ UNCHANGED <<phase, outcome, gone, loc, dead, stage, cur, ok, temp, hurt>>
      /\ UNCHANGED <<disk, stale, op, writeLocked>>
  BY DEF Run, coordVars, cacheVars
<1>2. \A q \in Procs : q \in batch => pc[q] = "picked" /\ q[1] = w
  BY DEF At
<1>3. \A q \in Procs : q \in beside <=> Host[q[1]] = Host[w] /\ Active(q)
  OBVIOUS
<1>4. batch \subseteq Procs /\ beside \subseteq Procs
  OBVIOUS
<1>5. WorkTypes /\ LifeTable /\ LifeBatch
  BY DEF WInv, Ordered, Life
<1> HIDE DEF batch, beside
<1>6. Beside
  BY <1>1, <1>2, <1>4, <1>5 DEF Beside
<1>7. \A q \in Procs : /\ Live(q)' <=> Live(q)
                       /\ Active(q)' => Active(q) \/ q \in batch
                       /\ pc'[q] = "over" <=> pc[q] = "over"
                       /\ pc'[q] = "dead" <=> pc[q] = "dead"
  BY <1>1, <1>2, <1>4 DEF Live, Active
<1>8. LifeTable'
  <2>1. \A j \in Jobs : DepsSettled(j)' <=> DepsSettled(j)
    BY <1>1 DEF DepsSettled
  <2>2. \A j \in Jobs : outcome[j] # "open" => pc'[<<loc[j], j>>] \in {"over", "dead"}
    BY <1>5, <1>7, WorkFacts DEF LifeTable
  <2> QED BY <1>1, <1>5, <1>7, <2>1, <2>2 DEF LifeTable
<1>9. LifeBatch'
  <2>1. ASSUME NEW p \in Procs, NEW q \in Procs, Active(p)', Active(q)',
               Host[p[1]] = Host[q[1]], p # q
        PROVE  q \in mates'[p]
    <3>1. Active(p) \/ p \in batch
      BY <1>7, <2>1
    <3>2. Active(q) \/ q \in batch
      BY <1>7, <2>1
    <3>3. CASE p \in batch
      <4>1. q \in batch \cup beside
        BY <1>2, <1>3, <2>1, <3>2, <3>3
      <4> QED BY <1>1, <2>1, <3>3, <4>1
    <3>4. CASE p \notin batch /\ q \in batch
      <4>1. p \in beside
        BY <1>2, <1>3, <2>1, <3>1, <3>4
      <4> QED BY <1>1, <3>4, <4>1
    <3>5. CASE p \notin batch /\ q \notin batch
      <4>1. q \in mates[p]
        BY <1>5, <2>1, <3>1, <3>2, <3>5 DEF LifeBatch
      <4> QED BY <1>1, <3>5, <4>1
    <3> QED BY <3>3, <3>4, <3>5
  <2>2. mates' \in [Procs -> SUBSET Procs]
    BY <1>1, <1>4, <1>5 DEF LifeBatch
  <2> QED BY <1>1, <1>5, <1>7, <2>1, <2>2 DEF LifeBatch
<1> QED BY <1>6, <1>8, <1>9 DEF Life

\* The coordinator offers a job or removes a file.
LEMMA OfferKeeps ==
    ASSUME WInv, Ordered, NEW j \in Jobs, Schedule(j) \/ \E f \in Sources : RemoveSource(j, f)
    PROVE  Life' /\ Beside
<1>1. WorkTypes /\ LifeTable /\ LifeBatch
  BY DEF WInv, Ordered, Life
<1>2. /\ UNCHANGED <<pc, outcome, loc, dead, mates, todo, stage, cur, ok, temp, hurt>>
      /\ UNCHANGED <<disk, stale, op, writeLocked>>
  BY DEF Schedule, RemoveSource, Table!Offer, cacheVars, jobVars
<1>3. \A q \in Procs : (Live(q)' <=> Live(q)) /\ (Active(q)' <=> Active(q))
  BY <1>2 DEF Live, Active
<1>4. \A k \in Jobs : DepsSettled(k)' <=> DepsSettled(k)
  BY <1>2 DEF DepsSettled
<1>5. CASE Schedule(j)
  <2>1. /\ phase[j] = "absent" /\ phase' = [phase EXCEPT ![j] = "offered"]
        /\ gone' = gone /\ DepsSettled(j)
    BY <1>5 DEF Schedule, Table!Offer
  <2>2. LifeTable'
    <3>1. \A k \in Jobs : phase[k] = "taken" => phase'[k] = "taken"
      BY <1>1, <2>1 DEF LifeTable
    <3>2. phase' \in [Jobs -> Phases]
      BY <1>1, <2>1 DEF LifeTable, Phases
    <3>3. \A k \in Jobs : phase'[k] # "absent" => DepsSettled(k)'
      BY <1>1, <1>4, <2>1 DEF LifeTable
    <3>4. \A q \in Procs : Live(q)' => phase'[q[2]] = "taken"
      BY <1>1, <1>3, <3>1, WorkFacts DEF LifeTable
    <3>5. \A k \in Jobs : outcome'[k] # "open" =>
             /\ phase'[k] = "taken" /\ loc'[k] \in Workers
             /\ pc'[<<loc'[k], k>>] \in {"over", "dead"}
      BY <1>1, <1>2, <3>1 DEF LifeTable
    <3>6. /\ \A p, q \in Procs : Live(p)' /\ Live(q)' /\ p[2] = q[2] => p = q
          /\ \A p \in Procs : Live(p)' /\ pc'[p] # "over" => outcome'[p[2]] = "open"
      BY <1>1, <1>2, <1>3 DEF LifeTable
    <3> QED BY <3>2, <3>3, <3>4, <3>5, <3>6 DEF LifeTable
  <2>3. LifeBatch'
    BY <1>1, <1>2, <1>3, <2>1 DEF LifeBatch
  <2>4. Beside
    BY <1>2, <2>1 DEF Beside
  <2> QED BY <2>2, <2>3, <2>4 DEF Life
<1>6. ASSUME NEW f \in Sources, RemoveSource(j, f)
      PROVE  Life' /\ Beside
  <2>1. phase' = phase /\ gone' = gone \cup {f} /\ outcome[j] # "open" /\ f \in SourceFiles[j]
    BY <1>6 DEF RemoveSource
  <2>2. LifeTable'
    BY <1>1, <1>2, <1>3, <1>4, <2>1 DEF LifeTable
  <2>3. LifeBatch'
    BY <1>1, <1>2, <1>3, <2>1 DEF LifeBatch
  <2>4. Beside
    BY <1>2, <2>1 DEF Beside
  <2> QED BY <2>2, <2>3, <2>4 DEF Life
<1> QED BY <1>5, <1>6

\* A job gets its outcome, once.
LEMMA ReportKeeps ==
    ASSUME WInv, Ordered, NEW p \in Procs, Report(p)
    PROVE  Life' /\ Beside
<1>1. WorkTypes /\ LifeTable /\ LifeBatch /\ p[1] \in Workers /\ p[2] \in Jobs /\ p = <<p[1], p[2]>>
  BY WorkFacts DEF WInv, Ordered, Life
<1>2. /\ pc[p] = "done" /\ pc' = [pc EXCEPT ![p] = "over"]
      /\ outcome[p[2]] = "open"
      /\ outcome' = [outcome EXCEPT ![p[2]] = IF ok[p] THEN "ok" ELSE "failed"]
      /\ loc' = [loc EXCEPT ![p[2]] = p[1]]
      /\ UNCHANGED <<phase, gone, dead, mates, todo, stage, cur, ok, temp, hurt>>
      /\ UNCHANGED <<disk, stale, op, writeLocked>>
  BY DEF Report, At, Goto, Table!Settle, cacheVars, jobVars
<1>3. /\ pc'[p] = "over" /\ \A q \in Procs : q # p => pc'[q] = pc[q]
      /\ outcome'[p[2]] # "open" /\ loc'[p[2]] = p[1]
      /\ \A j \in Jobs : j # p[2] => outcome'[j] = outcome[j] /\ loc'[j] = loc[j]
  BY <1>1, <1>2 DEF WorkTypes
<1>4. \A q \in Procs : /\ Live(q)' <=> Live(q)
                       /\ Active(q)' => Active(q) /\ q # p
                       /\ pc'[q] = "dead" <=> pc[q] = "dead"
  BY <1>2, <1>3 DEF Live, Active
<1>5. \A j \in Jobs : DepsSettled(j) => DepsSettled(j)'
  BY <1>1, <1>3, DepsAssumption DEF DepsSettled
<1>6. LifeTable'
  <2>1. \A q \in Procs : Live(q)' /\ pc'[q] # "over" => outcome'[q[2]] = "open"
    <3> SUFFICES ASSUME NEW q \in Procs, Live(q), q # p, pc[q] # "over"
                 PROVE  outcome'[q[2]] = "open"
      BY <1>3, <1>4
    <3>1. Live(p)
      BY <1>2 DEF Live
    <3>2. q[2] # p[2]
      BY <1>1, <3>1 DEF LifeTable
    <3> QED BY <1>1, <1>3, <3>2, WorkFacts DEF LifeTable
  <2>2. \A j \in Jobs : outcome'[j] # "open" =>
           /\ phase'[j] = "taken" /\ loc'[j] \in Workers
           /\ pc'[<<loc'[j], j>>] \in {"over", "dead"}
    <3> SUFFICES ASSUME NEW j \in Jobs, outcome'[j] # "open"
                 PROVE  /\ phase[j] = "taken" /\ loc'[j] \in Workers
                        /\ pc'[<<loc'[j], j>>] \in {"over", "dead"}
      BY <1>2
    <3>1. CASE j = p[2]
      <4>1. Live(p)
        BY <1>2 DEF Live
      <4> QED BY <1>1, <1>3, <3>1, <4>1 DEF LifeTable
    <3>2. CASE j # p[2]
      <4>1. outcome[j] # "open" /\ loc'[j] = loc[j]
        BY <1>3, <3>2
      <4>2. <<loc[j], j>> # p /\ <<loc[j], j>> \in Procs
        BY <1>1, <3>2, <4>1, WorkFacts DEF LifeTable
      <4> QED BY <1>1, <1>3, <4>1, <4>2 DEF LifeTable
    <3> QED BY <3>1, <3>2
  <2> QED BY <1>1, <1>2, <1>4, <1>5, <2>1, <2>2 DEF LifeTable
<1>7. LifeBatch'
  <2>1. \A f \in gone : \E j \in Jobs : outcome'[j] # "open" /\ f \in SourceFiles[j]
    BY <1>1, <1>2, <1>3 DEF LifeBatch
  <2> QED BY <1>1, <1>2, <1>4, <2>1 DEF LifeBatch
<1>8. Beside
  BY <1>1, <1>2, <1>3 DEF Beside
<1> QED BY <1>6, <1>7, <1>8 DEF Life

\* A worker takes a job that nobody has.
LEMMA PickKeeps ==
    ASSUME WInv, Ordered, NEW p \in Procs, Pick(p)
    PROVE  Life' /\ Beside
<1>1. WorkTypes /\ LifeTable /\ LifeBatch /\ p[1] \in Workers /\ p[2] \in Jobs
  BY WorkFacts DEF WInv, Ordered, Life
<1>2. /\ pc[p] = "off" /\ pc' = [pc EXCEPT ![p] = "picked"]
      /\ phase[p[2]] = "offered" /\ phase' = [phase EXCEPT ![p[2]] = "taken"]
      /\ UNCHANGED <<outcome, loc, gone, dead, mates, todo, stage, cur, ok, temp, hurt>>
      /\ UNCHANGED <<disk, stale, op, writeLocked>>
  BY DEF Pick, At, Goto, Table!Take, cacheVars, jobVars
<1>3. /\ pc'[p] = "picked" /\ \A q \in Procs : q # p => pc'[q] = pc[q]
      /\ phase'[p[2]] = "taken" /\ \A j \in Jobs : j # p[2] => phase'[j] = phase[j]
      /\ phase' \in [Jobs -> Phases]
  BY <1>1, <1>2 DEF WorkTypes, LifeTable, Phases
<1>4. \A q \in Procs : /\ Live(q)' <=> Live(q) \/ q = p
                       /\ Active(q)' <=> Active(q)
                       /\ pc'[q] = "dead" <=> pc[q] = "dead"
                       /\ pc'[q] = "over" <=> pc[q] = "over"
  BY <1>2, <1>3 DEF Live, Active
<1>5. \A j \in Jobs : DepsSettled(j)' <=> DepsSettled(j)
  BY <1>2 DEF DepsSettled
<1>6. \A q \in Procs : Live(q) => q[2] # p[2]
  BY <1>1, <1>2 DEF LifeTable
<1>7. outcome[p[2]] = "open"
  BY <1>1, <1>2 DEF LifeTable
<1>8. LifeTable'
  <2>1. \A j \in Jobs : phase'[j] # "absent" => DepsSettled(j)'
    BY <1>1, <1>2, <1>3, <1>5 DEF LifeTable
  <2>2. \A q \in Procs : Live(q)' => phase'[q[2]] = "taken"
    BY <1>1, <1>3, <1>4, <1>6, WorkFacts DEF LifeTable
  <2>3. \A q, r \in Procs : Live(q)' /\ Live(r)' /\ q[2] = r[2] => q = r
    BY <1>1, <1>4, <1>6 DEF LifeTable
  <2>4. \A q \in Procs : Live(q)' /\ pc'[q] # "over" => outcome'[q[2]] = "open"
    BY <1>1, <1>2, <1>4, <1>7 DEF LifeTable
  <2>5. \A j \in Jobs : outcome'[j] # "open" =>
           /\ phase'[j] = "taken" /\ loc'[j] \in Workers
           /\ pc'[<<loc'[j], j>>] \in {"over", "dead"}
    BY <1>1, <1>2, <1>3, <1>4, WorkFacts DEF LifeTable
  <2> QED BY <1>3, <2>1, <2>2, <2>3, <2>4, <2>5 DEF LifeTable
<1>9. LifeBatch'
  BY <1>1, <1>2, <1>4 DEF LifeBatch
<1>10. Beside
  BY <1>1, <1>2, <1>3 DEF Beside
<1> QED BY <1>8, <1>9, <1>10 DEF Life

\* A process ends with all its goroutines.
LEMMA CrashKeeps ==
    ASSUME WInv, Ordered, NEW p \in Procs, Crash(p)
    PROVE  Life' /\ Beside
<1>1. WorkTypes /\ LifeTable /\ LifeBatch /\ p[1] \in Workers
  BY WorkFacts DEF WInv, Ordered, Life
<1>2. /\ pc' = [q \in Procs |-> IF q[1] = p[1] THEN "dead" ELSE pc[q]]
      /\ dead' = dead \cup {p[1]}
      /\ UNCHANGED <<phase, outcome, loc, gone, mates, todo, stage, cur, ok, temp, hurt>>
      /\ UNCHANGED <<disk, stale, op, writeLocked>>
  BY DEF Crash, coordVars, cacheVars, jobVars
<1>3. \A q \in Procs : /\ Live(q)' => Live(q) /\ pc'[q] = pc[q]
                       /\ Active(q)' => Active(q)
                       /\ pc'[q] = "dead" <=> pc[q] = "dead" \/ q[1] = p[1]
                       /\ pc'[q] \in {pc[q], "dead"}
  BY <1>2 DEF Live, Active
<1>4. \A j \in Jobs : DepsSettled(j)' <=> DepsSettled(j)
  BY <1>2 DEF DepsSettled
<1>5. LifeTable'
  <2>1. \A j \in Jobs : outcome[j] # "open" => pc'[<<loc[j], j>>] \in {"over", "dead"}
    BY <1>1, <1>3, WorkFacts DEF LifeTable
  <2> QED BY <1>1, <1>2, <1>3, <1>4, <2>1 DEF LifeTable
<1>6. LifeBatch'
  BY <1>1, <1>2, <1>3 DEF LifeBatch
<1>7. Beside
  BY <1>2 DEF Beside
<1> QED BY <1>5, <1>6, <1>7 DEF Life

LEMMA LifeStepKeeps ==
    ASSUME WInv, Ordered, LifeStep
    PROVE  Life' /\ Beside
<1>1. CASE UNCHANGED workVars
  <2>1. /\ UNCHANGED <<phase, outcome, loc, gone, dead, mates, pc, todo, stage, cur, ok, temp, hurt>>
        /\ UNCHANGED <<disk, stale, op, writeLocked>>
    BY <1>1 DEF workVars, coordVars, cacheVars, jobVars
  <2>2. LifeTable'
    BY <2>1 DEF Ordered, Life, LifeTable, Live, DepsSettled
  <2>3. LifeBatch'
    BY <2>1 DEF Ordered, Life, LifeBatch, Active
  <2>4. Beside
    BY <2>1 DEF Beside
  <2> QED BY <2>2, <2>3, <2>4 DEF Life
<1> QED BY <1>1, OfferKeeps, RunKeeps, ReportKeeps, PickKeeps, CrashKeeps DEF LifeStep

LEMMA LifeStepKeepsOrdered ==
    ASSUME WInv, Ordered, LifeStep
    PROVE  Ordered' /\ Beside
<1>1. Life' /\ Beside
  BY LifeStepKeeps
<1>2. ASSUME NEW q \in Procs
      PROVE  ItemsOK(q)'
  <2>1. InLoop(q) /\ ItemsOK(q)
    BY DEF WInv, JobOK, Ordered
  <2> QED BY <1>1, <2>1 DEF Beside, ItemsOK, ItemPlaces, InLoop
<1> QED BY <1>1, <1>2 DEF Ordered

\* A stream that ends only gives its lock back.
ServeStep == \E p \in Procs, e \in Entries :
                 /\ e[1] # p[1] /\ Op(p, e, "reading", "idle")
                 /\ UNCHANGED <<disk, stale, writeLocked>>
                 /\ UNCHANGED <<coordVars, loc, pc, jobVars, temp, dead, mates, hurt>>

\* All the steps there are.
LEMMA EveryStep ==
    ASSUME WInv, [WorkNext]_workVars
    PROVE  \/ \E p \in Procs : Steps(p) /\ Apart /\ Leaves(p)
           \/ LifeStep
           \/ ServeStep
<1>1. ASSUME NEW p \in Procs, NEW e \in Entries, ServeEnds(p, e)
      PROVE  ServeStep
  <2>1. CacheOK
    BY DEF WInv
  <2>2. Op(p, e, "reading", "idle") /\ disk' = disk
    BY <1>1, <2>1, CallMoves DEF ServeEnds
  <2>3. /\ e[1] # p[1] /\ UNCHANGED <<stale, writeLocked>>
        /\ UNCHANGED <<coordVars, loc, pc, jobVars, temp, dead, mates, hurt>>
    BY <1>1 DEF ServeEnds, readUnlock, Unread, dirVars
  <2> QED BY <2>2, <2>3 DEF ServeStep
<1> QED BY <1>1, JobSteps, StepLeaves DEF WorkNext, LifeStep

LEMMA StepOrdered ==
    ASSUME WInv, Ordered, [WorkNext]_workVars
    PROVE  Ordered'
<1>1. CASE ServeStep
  <2>1. UNCHANGED <<phase, outcome, gone, loc, pc, stage, todo, cur, ok, dead, mates>>
    BY <1>1 DEF ServeStep, coordVars, jobVars
  <2>2. LifeTable'
    BY <2>1 DEF Ordered, Life, LifeTable, Live, DepsSettled
  <2>3. LifeBatch'
    BY <2>1 DEF Ordered, Life, LifeBatch, Active
  <2>4. ASSUME NEW q \in Procs PROVE ItemsOK(q)'
    BY <2>1 DEF Ordered, ItemsOK
  <2> QED BY <2>2, <2>3, <2>4 DEF Ordered, Life
<1> QED BY <1>1, EveryStep, StepsKeepOrdered, LifeStepKeepsOrdered

-----------------------------------------------------------------------------
(* The locks of a goroutine are those of its place.                        *)

Lock(p, x) == op[p][<<p[1], x>>]

\* What p has of the item it is about.
AtItem(p) == IF pc[p] = "stat" \/ (pc[p] = "serve" /\ loc[cur[p]] = p[1]) THEN "stat"
             ELSE IF pc[p] \in {"unlockRead", "unlink", "hardlink"} THEN "reading"
             ELSE IF pc[p] = "mkdir" THEN "creating"
             ELSE IF pc[p] = "receive" THEN "writing"
             ELSE IF pc[p] = "unlockWrite" THEN "unlock"
             ELSE "idle"

\* Before the output directory is there, p has a lock on one item at most.
LoopLocks(p) == stage[p] # "open" =>
    /\ Lock(p, cur[p]) = AtItem(p)
    /\ \A x \in (Jobs \cup Sources) \ {cur[p]} : Lock(p, x) = "idle"

\* Then it writes its artifact, and reads its dependencies until the commands
\* have run; a command that fails leaves them locked.
OpenLocks(p) == stage[p] = "open" =>
    /\ Lock(p, p[2]) = IF pc[p] = "unlockWrite" THEN "unlock"
                       ELSE IF pc[p] \in {"done", "over"} THEN "idle" ELSE "writing"
    /\ \A x \in (Jobs \cup Sources) \ (Deps[p[2]] \cup {p[2]}) : Lock(p, x) = "idle"
    /\ \A d \in Deps[p[2]] :
        /\ pc[p] \in {"next", "get", "stat", "command"} =>
              Lock(p, d) = IF d \notin todo[p] THEN "reading"
                           ELSE IF pc[p] = "stat" /\ d = cur[p] THEN "stat" ELSE "idle"
        /\ pc[p] = "release" => Lock(p, d) \in {"idle", "reading"}
        /\ pc[p] \in {"unlockWrite", "done", "over"} =>
              Lock(p, d) = "idle" \/ (Lock(p, d) = "reading" /\ p \in hurt)

\* A dependency that was made on p's own worker is there, or failed: p does
\* not download it.
SelfAsked(p) == stage[p] = "deps" =>
    /\ pc[p] \in {"request", "serve"} /\ loc[cur[p]] = p[1] => disk[Here(p)] = Absent
    /\ pc[p] \in {"create", "mkdir", "receive"} => loc[cur[p]] # p[1]

LocksOK(p) == pc[p] # "dead" => LoopLocks(p) /\ OpenLocks(p) /\ SelfAsked(p)

\* On another worker p only reads, what was reported from there.
Remote == \A p \in Procs, e \in Entries :
    op[p][e] # "idle" /\ e[1] # p[1] =>
        /\ op[p][e] \in Reads
        /\ e[2] \in Jobs /\ outcome[e[2]] # "open" /\ loc[e[2]] = e[1]

Locked == Remote /\ \A p \in Procs : LocksOK(p)

\* A dependency has been reported by a worker, where it may be asked for.
LEMMA Asked ==
    ASSUME WInv, Ordered, NEW p \in Procs, Live(p)
    PROVE  \A d \in Deps[p[2]] : /\ d \in Jobs /\ outcome[d] # "open" /\ loc[d] \in Workers
                                 /\ <<loc[d], d>> \in Entries
                                 /\ pc[<<loc[d], d>>] \in {"over", "dead"}
<1>1. DepsSettled(p[2])
  BY WorkFacts DEF Ordered, Life, LifeTable
<1>2. \A d \in Deps[p[2]] : d \in Jobs /\ outcome[d] # "open"
  BY <1>1, WorkFacts DEF DepsSettled
<1> QED BY <1>2, WorkFacts DEF Ordered, Life, LifeTable

\* What p knows at its place.
LEMMA Known ==
    ASSUME WInv, Ordered, NEW p \in Procs, Running(p)
    PROVE  /\ InLoop(p) /\ ItemsOK(p) /\ Live(p) /\ pc[p] # "dead"
           /\ p[1] \in Workers \ dead /\ p[2] \in Jobs /\ p = <<p[1], p[2]>>
           /\ cur[p] \in Jobs \cup Sources
           /\ Deps[p[2]] \subseteq Jobs /\ p[2] \notin Deps[p[2]]
           /\ SourceFiles[p[2]] \subseteq Sources
           /\ Target(p) = IF stage[p] \in {"link", "open"} THEN p ELSE <<p[1], cur[p]>>
           /\ Target(p) \in Entries /\ Here(p) \in Entries
           /\ stage[p] = "deps" /\ pc[p] \in ItemPlaces =>
                  /\ cur[p] \in Deps[p[2]] /\ There(p) \in Entries
                  /\ outcome[cur[p]] # "open" /\ loc[cur[p]] \in Workers
<1>1. /\ InLoop(p) /\ ItemsOK(p) /\ Live(p) /\ pc[p] # "dead"
      /\ cur[p] \in Jobs \cup Sources /\ stage[p] \in Loops
  BY DEF WInv, WorkTypes, JobOK, Ordered, Running, Live
<1>2. /\ p[1] \in Workers \ dead /\ p[2] \in Jobs /\ p = <<p[1], p[2]>>
      /\ Deps[p[2]] \subseteq Jobs /\ p[2] \notin Deps[p[2]]
      /\ SourceFiles[p[2]] \subseteq Sources
  BY <1>1, WorkFacts DEF Ordered, Life, LifeBatch
<1>3. Target(p) \in Entries /\ Here(p) \in Entries
  BY Items
<1>4. Target(p) = IF stage[p] \in {"link", "open"} THEN p ELSE <<p[1], cur[p]>>
  BY <1>1, <1>2 DEF Target, Here, Own, ItemsOK, Loops
<1>5. stage[p] = "deps" /\ pc[p] \in ItemPlaces =>
                  /\ cur[p] \in Deps[p[2]] /\ There(p) \in Entries
                  /\ outcome[cur[p]] # "open" /\ loc[cur[p]] \in Workers
  BY <1>1, <1>2, Asked DEF ItemsOK, There
<1> QED BY <1>1, <1>2, <1>3, <1>4, <1>5

\* The locks p has on its own worker after it has moved on with y.
Turns(p, y, to) ==
    \A x \in Jobs \cup Sources : Lock(p, x)' = IF x = y THEN to ELSE Lock(p, x)

LEMMA Moves ==
    ASSUME NEW p \in Procs, NEW y \in Jobs \cup Sources, NEW from, NEW to,
           Op(p, <<p[1], y>>, from, to)
    PROVE  Turns(p, y, to) /\ Lock(p, y) = from
BY WorkFacts DEF Op, Lock, Turns

\* And after it has moved on with an entry of another worker.
LEMMA MovesFar ==
    ASSUME NEW p \in Procs, NEW e \in Entries, e[1] # p[1], NEW from, NEW to, Op(p, e, from, to)
    PROVE  \A x \in Jobs \cup Sources : Lock(p, x)' = Lock(p, x)
BY WorkFacts DEF Op, Lock

\* The locks before and after, when the place says which they are.
LEMMA StepsKeepLocks ==
    ASSUME WInv, Ordered, Locked, NEW p \in Procs, Steps(p), Apart
    PROVE  LoopLocks(p)' /\ OpenLocks(p)' /\ SelfAsked(p)'
<1>1. Running(p) /\ Frame(p) /\ UNCHANGED <<outcome, loc, dead>> /\ hurt \subseteq hurt'
  BY StepsInside DEF Frame, Apart
<1>2. /\ InLoop(p) /\ ItemsOK(p) /\ LoopLocks(p) /\ OpenLocks(p) /\ SelfAsked(p)
      /\ p[1] \in Workers \ dead /\ p[2] \in Jobs /\ p = <<p[1], p[2]>>
      /\ cur[p] \in Jobs \cup Sources
      /\ Deps[p[2]] \subseteq Jobs /\ p[2] \notin Deps[p[2]]
      /\ SourceFiles[p[2]] \subseteq Sources
      /\ Target(p) = IF stage[p] \in {"link", "open"} THEN p ELSE <<p[1], cur[p]>>
      /\ Here(p) = <<p[1], cur[p]>> /\ There(p) = <<loc[cur[p]], cur[p]>>
      /\ stage[p] \in Loops
  BY <1>1, Known DEF Locked, LocksOK, Here, There, WInv, WorkTypes
<1>3. CASE FromNext(p)
  <2>1. pc[p] = "next" /\ \A x \in Jobs \cup Sources : Lock(p, x)' = Lock(p, x)
    BY <1>3 DEF FromNext, Lock
  <2>2. CASE stage[p] = "open"
    BY <1>2, <1>3, <2>1, <2>2 DEF FromNext, Stays, Becomes, LoopLocks, OpenLocks, SelfAsked, Turns
  <2>3. CASE stage[p] # "open"
    <3>1. \A x \in Jobs \cup Sources : Lock(p, x)' = "idle"
      BY <1>2, <2>1, <2>3 DEF LoopLocks, AtItem
    <3>2. /\ pc'[p] \in {"next", "create", "get"} /\ stage'[p] # "open"
          /\ cur'[p] \in Jobs \cup Sources
          /\ pc'[p] = "create" => stage'[p] = "output"
      BY <1>2, <1>3, <2>3 DEF FromNext, Stays, Becomes, ItemsOK, Frame, WorkTypes
    <3>3. AtItem(p)' = "idle"
      BY <3>2 DEF AtItem
    <3> QED BY <3>1, <3>2, <3>3 DEF LoopLocks, OpenLocks, SelfAsked, Turns
  <2> QED BY <2>2, <2>3
<1>4. CASE FromGet(p)
  <2>1. CASE Op(p, Here(p), "idle", "stat") /\ Stays(p, "stat")
    <3>1. Turns(p, cur[p], "stat")
      BY <1>2, <2>1, Moves
    <3>2. CASE stage[p] = "open"
      <4>1. cur[p] \in Deps[p[2]] /\ cur[p] \in todo[p]
        BY <1>4, <3>2 DEF FromGet, WInv, JobOK, DepsOpen
      <4> QED BY <1>2, <1>4, <2>1, <3>1, <3>2, <4>1
              DEF FromGet, Stays, Becomes, LoopLocks, OpenLocks, SelfAsked, Turns
    <3>3. CASE stage[p] # "open"
      BY <1>2, <1>4, <2>1, <3>1, <3>3
         DEF FromGet, Stays, Becomes, LoopLocks, OpenLocks, SelfAsked, Turns, AtItem
    <3> QED BY <3>2, <3>3
  <2>2. CASE stage[p] # "open" /\ op' = op /\ Breaks(p, "done")
    BY <1>2, <1>4, <2>2
       DEF FromGet, Breaks, Becomes, LoopLocks, OpenLocks, SelfAsked, Turns, AtItem, Lock
  <2> QED BY <1>4, <2>1, <2>2 DEF FromGet
<1>5. CASE FromStat(p)
  <2>1. CASE Op(p, Here(p), "stat", "reading")
    <3>1. Turns(p, cur[p], "reading")
      BY <1>2, <2>1, Moves
    <3>2. CASE stage[p] = "open" /\ Nexts(p)
      <4>1. cur[p] \in Deps[p[2]] /\ cur[p] \in todo[p]
        BY <1>5, <3>2 DEF FromStat, WInv, JobOK, DepsOpen
      <4> QED BY <1>2, <1>5, <2>1, <3>1, <3>2, <4>1
              DEF FromStat, Nexts, Becomes, LoopLocks, OpenLocks, SelfAsked, Turns
    <3>3. ASSUME stage[p] # "open", NEW a \in {"unlink", "unlockRead"}, Stays(p, a)
          PROVE  LoopLocks(p)' /\ OpenLocks(p)' /\ SelfAsked(p)'
      BY <1>2, <1>5, <3>1, <3>3
         DEF FromStat, Stays, Becomes, LoopLocks, OpenLocks, SelfAsked, Turns, AtItem
    <3>4. \/ stage[p] = "open" /\ Nexts(p)
          \/ stage[p] # "open" /\ (Stays(p, "unlink") \/ Stays(p, "unlockRead"))
      BY <1>5, <2>1 DEF FromStat, Op
    <3> QED BY <3>2, <3>3, <3>4
  <2>2. CASE Op(p, Here(p), "stat", "idle")
    <3>1. Turns(p, cur[p], "idle")
      BY <1>2, <2>2, Moves
    <3>2. /\ disk' = disk /\ stage[p] # "open"
          /\ (Stays(p, "request") /\ disk[Here(p)] = Absent) \/ Breaks(p, "done")
      BY <1>5, <2>2 DEF FromStat, Op
    <3>3. CASE Stays(p, "request") /\ disk[Here(p)] = Absent
      BY <1>2, <1>5, <2>2, <3>1, <3>2, <3>3
         DEF FromStat, Stays, Becomes, LoopLocks, OpenLocks, SelfAsked, Turns, AtItem, Here
    <3>4. CASE Breaks(p, "done")
      BY <1>2, <1>5, <3>1, <3>2, <3>4
         DEF FromStat, Breaks, Becomes, LoopLocks, OpenLocks, SelfAsked, Turns, AtItem
    <3> QED BY <3>2, <3>3, <3>4
  <2> QED BY <1>5, <2>1, <2>2 DEF FromStat
<1>6. CASE FromUnlockRead(p)
  <2>1. stage[p] # "open" /\ pc[p] = "unlockRead"
    BY <1>2, <1>6 DEF FromUnlockRead, InLoop
  <2>2. Turns(p, cur[p], "idle")
    BY <1>2, <1>6, Moves DEF FromUnlockRead
  <2>3. /\ pc'[p] \in {"next", "done"} /\ stage'[p] = stage[p] /\ cur'[p] = cur[p]
    BY <1>6 DEF FromUnlockRead, Nexts, Breaks, Becomes
  <2> QED BY <1>2, <2>1, <2>2, <2>3 DEF LoopLocks, OpenLocks, SelfAsked, Turns, AtItem
<1>7. CASE FromUnlink(p) \/ FromHardlink(p)
  <2>1. stage[p] = "link" /\ pc[p] \in {"unlink", "hardlink"}
    BY <1>2, <1>7 DEF FromUnlink, FromHardlink, ItemsOK
  <2>2. pc'[p] \in {"hardlink", "unlockRead"} /\ stage'[p] = stage[p] /\ cur'[p] = cur[p]
    BY <1>7 DEF FromUnlink, FromHardlink, Stays, Breaks, Becomes
  <2>3. op' = op
    BY <1>7 DEF FromUnlink, FromHardlink
  <2> QED BY <1>2, <2>1, <2>2, <2>3 DEF LoopLocks, OpenLocks, SelfAsked, Turns, AtItem, Lock
<1>8. CASE FromRequest(p)
  <2>1. pc[p] = "request" /\ stage[p] \in {"deps", "files"} /\ disk' = disk
    BY <1>8 DEF FromRequest
  <2>2. CASE stage[p] = "files" /\ op' = op /\ Stays(p, "create")
    BY <1>2, <2>1, <2>2 DEF Stays, Becomes, LoopLocks, OpenLocks, SelfAsked, Turns, AtItem, Lock
  <2>3. CASE op' = op /\ Breaks(p, "done")
    BY <1>2, <2>1, <2>3 DEF Breaks, Becomes, LoopLocks, OpenLocks, SelfAsked, Turns, AtItem, Lock
  <2>4. CASE /\ stage[p] = "deps" /\ loc[cur[p]] \in Workers \ dead
             /\ Op(p, There(p), "idle", "stat") /\ Stays(p, "serve")
    <3>1. /\ pc'[p] = "serve" /\ stage'[p] = "deps" /\ cur'[p] = cur[p] /\ Here(p)' = Here(p)
      BY <2>4 DEF Stays, Becomes, Here
    <3>2. SelfAsked(p)'
      BY <1>1, <1>2, <2>1, <2>4, <3>1 DEF SelfAsked
    <3>3. CASE loc[cur[p]] = p[1]
      <4>1. Turns(p, cur[p], "stat")
        BY <1>2, <2>4, <3>3, Moves
      <4> QED BY <1>1, <1>2, <2>1, <2>4, <3>1, <3>2, <3>3, <4>1 DEF LoopLocks, OpenLocks, AtItem, Turns
    <3>4. CASE loc[cur[p]] # p[1]
      <4>1. \A x \in Jobs \cup Sources : Lock(p, x)' = Lock(p, x)
        BY <1>2, <2>4, <3>4, MovesFar, WorkFacts
      <4> QED BY <1>1, <1>2, <2>1, <2>4, <3>1, <3>2, <3>4, <4>1 DEF LoopLocks, OpenLocks, AtItem, Turns
    <3> QED BY <3>3, <3>4
  <2> QED BY <1>8, <2>2, <2>3, <2>4 DEF FromRequest
<1>9. CASE FromServe(p)
  <2>1. pc[p] = "serve" /\ stage[p] = "deps" /\ disk' = disk /\ There(p) \in Entries
    BY <1>1, <1>2, <1>9, Known DEF FromServe, ItemsOK, ItemPlaces
  <2>2. CASE /\ disk[There(p)] # Absent /\ Op(p, There(p), "stat", "reading")
             /\ Stays(p, "create")
    <3>1. loc[cur[p]] # p[1]
      BY <1>2, <2>1, <2>2 DEF SelfAsked
    <3>2. \A x \in Jobs \cup Sources : Lock(p, x)' = Lock(p, x)
      BY <1>2, <2>1, <2>2, <3>1, MovesFar
    <3> QED BY <1>1, <1>2, <2>1, <2>2, <3>1, <3>2
            DEF Stays, Becomes, LoopLocks, OpenLocks, SelfAsked, Turns, AtItem
  <2>3. CASE Op(p, There(p), "stat", "idle") /\ Breaks(p, "done")
    <3>1. CASE loc[cur[p]] = p[1]
      <4>1. Turns(p, cur[p], "idle")
        BY <1>2, <2>3, <3>1, Moves
      <4> QED BY <1>1, <1>2, <2>1, <2>3, <4>1
              DEF Breaks, Becomes, LoopLocks, OpenLocks, SelfAsked, Turns, AtItem
    <3>2. CASE loc[cur[p]] # p[1]
      <4>1. \A x \in Jobs \cup Sources : Lock(p, x)' = Lock(p, x)
        BY <1>2, <2>1, <2>3, <3>2, MovesFar
      <4> QED BY <1>1, <1>2, <2>1, <2>3, <3>2, <4>1
              DEF Breaks, Becomes, LoopLocks, OpenLocks, SelfAsked, Turns, AtItem
    <3> QED BY <3>1, <3>2
  <2>4. CASE loc[cur[p]] \in dead /\ op' = op /\ Breaks(p, "done")
    <3>1. loc[cur[p]] # p[1]
      BY <1>2, <2>4
    <3> QED BY <1>1, <1>2, <2>1, <2>4, <3>1
            DEF Breaks, Becomes, LoopLocks, OpenLocks, SelfAsked, Turns, AtItem, Lock
  <2> QED BY <1>9, <2>1, <2>2, <2>3, <2>4 DEF FromServe
<1>10. CASE FromCreate(p)
  <2>1. /\ pc[p] = "create" /\ stage[p] \in {"deps", "files", "output"}
        /\ Target(p) = <<p[1], cur[p]>>
    BY <1>2, <1>10 DEF FromCreate, InLoop
  <2>2. CASE Op(p, Target(p), "idle", "creating") /\ Stays(p, "mkdir")
    <3>1. Turns(p, cur[p], "creating")
      BY <1>2, <2>1, <2>2, Moves
    <3> QED BY <1>1, <1>2, <2>1, <2>2, <3>1
            DEF Stays, Becomes, LoopLocks, OpenLocks, SelfAsked, Turns, AtItem
  <2>3. CASE op' = op /\ Breaks(p, "done")
    BY <1>2, <2>1, <2>3 DEF Breaks, Becomes, LoopLocks, OpenLocks, SelfAsked, Turns, AtItem, Lock
  <2> QED BY <1>10, <2>2, <2>3 DEF FromCreate
<1>11. CASE FromMkdir(p)
  <2>1. /\ pc[p] = "mkdir" /\ stage[p] \in {"deps", "files", "output"}
        /\ Target(p) = <<p[1], cur[p]>>
    BY <1>2, <1>11 DEF FromMkdir, InLoop
  <2>2. CASE /\ stage[p] = "output" /\ Op(p, Target(p), "creating", "writing")
             /\ Becomes(p, "next", "open", Deps[p[2]], cur[p], ok[p])
    <3>1. /\ Lock(p, p[2])' = "writing"
          /\ \A x \in (Jobs \cup Sources) \ {p[2]} : Lock(p, x)' = "idle"
      <4>1. cur[p] = p[2]
        BY <1>2, <2>2 DEF ItemsOK
      <4>2. Turns(p, cur[p], "writing")
        BY <1>2, <2>1, <2>2, Moves
      <4> QED BY <1>2, <2>2, <4>1, <4>2 DEF LoopLocks, AtItem, Turns
    <3> QED BY <1>2, <2>2, <3>1 DEF Becomes, LoopLocks, OpenLocks, SelfAsked, Turns
  <2>3. CASE /\ stage[p] # "output" /\ Op(p, Target(p), "creating", "writing")
             /\ Stays(p, "receive")
    <3>1. Turns(p, cur[p], "writing")
      BY <1>2, <2>1, <2>3, Moves
    <3> QED BY <1>1, <1>2, <2>1, <2>3, <3>1
            DEF Stays, Becomes, LoopLocks, OpenLocks, SelfAsked, Turns, AtItem
  <2>4. CASE Op(p, Target(p), "creating", "unlock") /\ Breaks(p, "unlockWrite")
    <3>1. Turns(p, cur[p], "unlock")
      BY <1>2, <2>1, <2>4, Moves
    <3> QED BY <1>1, <1>2, <2>1, <2>4, <3>1
            DEF Breaks, Becomes, LoopLocks, OpenLocks, SelfAsked, Turns, AtItem
  <2> QED BY <1>11, <2>2, <2>3, <2>4 DEF FromMkdir
<1>12. CASE FromReceive(p)
  <2>1. /\ pc[p] = "receive" /\ stage[p] \in {"deps", "files"}
        /\ Target(p) = <<p[1], cur[p]>> /\ Op(p, Target(p), "writing", "unlock")
        /\ Stays(p, "unlockWrite") \/ Breaks(p, "unlockWrite")
    BY <1>2, <1>12 DEF FromReceive, InLoop, Commits, GivesUp, Stumbles
  <2>2. Turns(p, cur[p], "unlock")
    BY <1>2, <2>1, Moves
  <2>3. pc'[p] = "unlockWrite" /\ stage'[p] = stage[p] /\ cur'[p] = cur[p]
    BY <2>1 DEF Stays, Breaks, Becomes
  <2> QED BY <1>1, <1>2, <2>1, <2>2, <2>3 DEF LoopLocks, OpenLocks, SelfAsked, Turns, AtItem
<1>13. CASE FromUnlockWrite(p)
  <2>1. /\ pc[p] = "unlockWrite" /\ Op(p, Target(p), "unlock", "idle")
        /\ pc'[p] \in {"next", "done"} /\ stage'[p] = stage[p] /\ cur'[p] = cur[p]
        /\ stage[p] = "open" => pc'[p] = "done"
    BY <1>13 DEF FromUnlockWrite, Nexts, Stays, Becomes
  <2>2. CASE stage[p] = "open"
    <3>1. Turns(p, p[2], "idle")
      BY <1>2, <2>1, <2>2, Moves
    <3> QED BY <1>1, <1>2, <2>1, <2>2, <3>1 DEF LoopLocks, OpenLocks, SelfAsked, Turns
  <2>3. CASE stage[p] # "open"
    <3>0. Target(p) = <<p[1], cur[p]>>
      BY <1>2, <2>1, <2>3 DEF ItemsOK
    <3>1. Turns(p, cur[p], "idle")
      BY <1>2, <2>1, <3>0, Moves
    <3> QED BY <1>1, <1>2, <2>1, <2>3, <3>1 DEF LoopLocks, OpenLocks, SelfAsked, Turns, AtItem
  <2> QED BY <2>2, <2>3
<1>14. CASE FromCommand(p)
  <2>1. pc[p] = "command" /\ stage[p] = "open" /\ todo[p] = {}
    BY <1>2, <1>14 DEF FromCommand, InLoop, WInv, JobOK, DepsOpen
  <2>2. CASE op' = op /\ Stays(p, "release")
    BY <1>2, <2>1, <2>2 DEF Stays, Becomes, LoopLocks, OpenLocks, SelfAsked, Turns, Lock
  <2>3. CASE GivesUp(p)
    <3>1. Turns(p, p[2], "unlock") /\ p \in hurt'
      BY <1>2, <2>1, <2>3, Moves DEF GivesUp
    <3> QED BY <1>2, <2>1, <2>3, <3>1
            DEF GivesUp, Breaks, Becomes, LoopLocks, OpenLocks, SelfAsked, Turns
  <2> QED BY <1>14, <2>2, <2>3 DEF FromCommand
<1>15. CASE FromRelease(p)
  <2>1. pc[p] = "release" /\ stage[p] = "open"
    BY <1>2, <1>15 DEF FromRelease, InLoop
  <2>2. ASSUME NEW d \in Deps[p[2]], Op(p, <<p[1], d>>, "reading", "idle"), Stays(p, "release")
        PROVE  LoopLocks(p)' /\ OpenLocks(p)' /\ SelfAsked(p)'
    <3>1. Turns(p, d, "idle")
      BY <1>2, <2>2, Moves
    <3> QED BY <1>2, <2>1, <2>2, <3>1 DEF Stays, Becomes, LoopLocks, OpenLocks, SelfAsked, Turns
  <2>3. CASE Held(p) = {} /\ (Commits(p) \/ GivesUp(p))
    <3>1. /\ Turns(p, p[2], "unlock")
          /\ pc'[p] = "unlockWrite" /\ stage'[p] = "open"
      BY <1>2, <2>1, <2>3, Moves DEF Commits, GivesUp, Stays, Breaks, Becomes
    <3>2. \A d \in Deps[p[2]] : Lock(p, d) = "idle"
      BY <1>2, <2>1, <2>3 DEF Held, OpenLocks, Lock
    <3> QED BY <1>2, <2>1, <3>1, <3>2 DEF LoopLocks, OpenLocks, SelfAsked, Turns
  <2> QED BY <1>15, <2>2, <2>3 DEF FromRelease
<1> QED BY <1>3, <1>4, <1>5, <1>6, <1>7, <1>8, <1>9, <1>10, <1>11, <1>12, <1>13, <1>14, <1>15
        DEF Steps

\* What a step of p changes in the caches: nobody else's locks, on another
\* worker only its own reads, and of the entries only the one it commits.
LEMMA StepsReach ==
    ASSUME WInv, Ordered, NEW p \in Procs, Steps(p)
    PROVE  /\ \A q \in Procs \ {p}, e \in Entries : op'[q][e] = op[q][e]
           /\ \A e \in Entries : \/ op'[p][e] = op[p][e]
                                 \/ e[1] = p[1]
                                 \/ /\ e = There(p) /\ op'[p][e] \in {"idle", "stat", "reading"}
                                    /\ stage[p] = "deps" /\ pc[p] \in ItemPlaces
           /\ \/ disk' = disk
              \/ /\ Commits(p)
                 /\ \/ pc[p] = "receive" /\ stage[p] \in {"deps", "files"}
                    \/ pc[p] = "release" /\ stage[p] = "open"
<1>1. /\ InLoop(p) /\ ItemsOK(p)
      /\ Target(p) \in Entries /\ Here(p) \in Entries
      /\ Here(p)[1] = p[1] /\ Target(p)[1] = p[1]
      /\ stage[p] = "deps" /\ pc[p] \in ItemPlaces => There(p) \in Entries
  <2>1. Running(p)
    BY StepsInside
  <2>2. Here(p) = <<p[1], cur[p]>> /\ Target(p) \in {p, <<p[1], cur[p]>>}
    BY DEF Here, Target, Own
  <2> QED BY <2>1, <2>2, Known
<1> DEFINE Mine(e)  == e \in Entries /\ e[1] = p[1]
           Yours(e) == e = There(p) /\ e \in Entries /\ stage[p] = "deps" /\ pc[p] \in ItemPlaces
<1>2. ASSUME NEW e, NEW from, NEW to, Op(p, e, from, to),
             Mine(e) \/ (Yours(e) /\ to \in {"idle", "stat", "reading"})
      PROVE  /\ \A q \in Procs \ {p}, x \in Entries : op'[q][x] = op[q][x]
             /\ \A x \in Entries : \/ op'[p][x] = op[p][x]
                                   \/ x[1] = p[1]
                                   \/ Yours(x) /\ op'[p][x] \in {"idle", "stat", "reading"}
  BY <1>2 DEF Op
<1>3. CASE op' = op
  <2>1. disk' = disk
    BY <1>3 DEF Steps, FromNext, FromGet, FromStat, FromUnlockRead, FromUnlink, FromHardlink,
       FromRequest, FromServe, FromCreate, FromMkdir, FromReceive, FromUnlockWrite,
       FromCommand, FromRelease, Commits, GivesUp, Stumbles, Op
  <2> QED BY <1>3, <2>1
<1>4. CASE FromNext(p) \/ FromUnlink(p) \/ FromHardlink(p)
  BY <1>4 DEF FromNext, FromUnlink, FromHardlink
<1>5. CASE FromGet(p) \/ FromStat(p) \/ FromUnlockRead(p)
  <2>1. /\ disk' = disk
        /\ op' = op \/ \E from, to : Op(p, Here(p), from, to)
    BY <1>5 DEF FromGet, FromStat, FromUnlockRead
  <2> QED BY <1>1, <1>2, <2>1
<1>6. CASE FromRequest(p)
  <2>1. /\ disk' = disk
        /\ op' = op \/ (stage[p] = "deps" /\ pc[p] = "request" /\ Op(p, There(p), "idle", "stat"))
    BY <1>6 DEF FromRequest
  <2> QED BY <1>1, <1>2, <2>1 DEF ItemPlaces
<1>7. CASE FromServe(p)
  <2>1. pc[p] = "serve" /\ stage[p] = "deps" /\ There(p) \in Entries
    BY <1>1, <1>7 DEF FromServe, ItemsOK, ItemPlaces
  <2>2. /\ disk' = disk
        /\ \/ op' = op
           \/ \E to \in {"idle", "reading"} : Op(p, There(p), "stat", to)
    BY <1>7, <2>1 DEF FromServe
  <2> QED BY <1>2, <2>1, <2>2 DEF ItemPlaces
<1>8. CASE FromCreate(p) \/ FromMkdir(p) \/ FromUnlockWrite(p)
  <2>1. /\ disk' = disk
        /\ op' = op \/ \E from, to : Op(p, Target(p), from, to)
    BY <1>8 DEF FromCreate, FromMkdir, FromUnlockWrite
  <2> QED BY <1>1, <1>2, <2>1
<1>9. CASE FromReceive(p)
  <2>1. /\ pc[p] = "receive" /\ stage[p] \in {"deps", "files"}
        /\ Op(p, Target(p), "writing", "unlock") /\ (Commits(p) \/ disk' = disk)
    BY <1>1, <1>9 DEF FromReceive, Commits, GivesUp, Stumbles, InLoop
  <2> QED BY <1>1, <1>2, <2>1
<1>10. CASE FromCommand(p)
  <2>1. op' = op \/ (Op(p, Target(p), "writing", "unlock") /\ disk' = disk)
    BY <1>10 DEF FromCommand, GivesUp
  <2> QED BY <1>1, <1>2, <1>3, <2>1
<1>11. CASE FromRelease(p)
  <2>1. pc[p] = "release" /\ stage[p] = "open"
    BY <1>1, <1>11 DEF FromRelease, InLoop
  <2>2. ASSUME NEW d \in Deps[p[2]], Op(p, <<p[1], d>>, "reading", "idle"), disk' = disk
        PROVE  /\ \A q \in Procs \ {p}, x \in Entries : op'[q][x] = op[q][x]
               /\ \A x \in Entries : \/ op'[p][x] = op[p][x]
                                     \/ x[1] = p[1]
    BY <2>2 DEF Op
  <2>3. CASE Commits(p) \/ GivesUp(p)
    <3>1. Op(p, Target(p), "writing", "unlock") /\ (Commits(p) \/ disk' = disk)
      BY <2>3 DEF Commits, GivesUp
    <3> QED BY <1>1, <1>2, <2>1, <3>1
  <2> QED BY <1>11, <2>2, <2>3 DEF FromRelease
<1> QED BY <1>4, <1>5, <1>6, <1>7, <1>8, <1>9, <1>10, <1>11 DEF Steps

\* p commits its own artifact, or a dependency or file it has downloaded.
LEMMA Committed ==
    ASSUME WInv, Ordered, NEW p \in Procs, Steps(p), NEW e \in Entries, disk'[e] # disk[e]
    PROVE  /\ e = Target(p) /\ e[1] = p[1] /\ disk[e] = Absent /\ disk'[e] = New
           /\ Commits(p)
           /\ \/ e = p /\ pc[p] = "release" /\ stage[p] = "open"
              \/ e = Here(p) /\ pc[p] = "receive" /\ stage[p] = "deps" /\ cur[p] \in Deps[p[2]]
              \/ /\ e = Here(p) /\ pc[p] = "receive" /\ stage[p] = "files"
                 /\ cur[p] \in SourceFiles[p[2]]
<1>1. /\ Running(p) /\ ItemsOK(p)
      /\ Target(p) \in Entries /\ Here(p) = <<p[1], cur[p]>>
      /\ Target(p) = IF stage[p] \in {"link", "open"} THEN p ELSE <<p[1], cur[p]>>
  BY StepsInside, Known DEF Here
<1>2. /\ Commits(p)
      /\ \/ pc[p] = "receive" /\ stage[p] \in {"deps", "files"}
         \/ pc[p] = "release" /\ stage[p] = "open"
  BY StepsReach
<1>3. /\ CacheOK /\ disk \in [Entries -> Contents \cup {Absent}]
  BY DEF WInv, CacheOK, CacheTypeOK
<1>4. e = Target(p) /\ disk'[e] = New /\ op[p][e] = "writing"
  BY <1>1, <1>2, <1>3 DEF Commits, Op
<1>5. disk[e] = Absent
  BY <1>3, <1>4 DEF CacheOK
<1> QED BY <1>1, <1>2, <1>4, <1>5 DEF ItemsOK, ItemPlaces

\* Nobody writes where a job looks for a dependency that its own worker made.
LEMMA SelfKept ==
    ASSUME WInv, Ordered, Locked, NEW p \in Procs, Steps(p), NEW q \in Procs, Running(q),
           stage[q] = "deps", pc[q] \in ItemPlaces, loc[cur[q]] = q[1],
           disk[Here(q)] = Absent, q # p
    PROVE  disk'[Here(q)] = Absent
<1>1. SUFFICES ASSUME disk'[Here(q)] # disk[Here(q)]
               PROVE  FALSE
  OBVIOUS
<1>2. /\ cur[q] \in Deps[q[2]] /\ cur[q] \in Jobs /\ Here(q) = <<q[1], cur[q]>>
      /\ Here(q) \in Entries /\ pc[<<q[1], cur[q]>>] \in {"over", "dead"}
  BY Known, Asked DEF Here
<1>3. Running(p) /\ Here(p) = <<p[1], cur[p]>>
  BY StepsInside DEF Here
<1>4. CASE Here(q) = p
  BY <1>2, <1>3, <1>4 DEF Running
<1>5. CASE Here(q) = Here(p) /\ pc[p] = "receive" /\ stage[p] = "deps"
  <2>1. cur[p] = cur[q] /\ p[1] = q[1] /\ SelfAsked(p)
    BY <1>2, <1>3, <1>5 DEF Locked, LocksOK
  <2> QED BY <1>5, <2>1 DEF SelfAsked
<1>6. CASE Here(q) = Here(p) /\ cur[p] \in SourceFiles[p[2]]
  <2>1. cur[p] = cur[q] /\ cur[p] \in Sources
    BY <1>2, <1>3, <1>6, WorkFacts
  <2> QED BY <1>2, <2>1, TwoCachesAssumption
<1> QED BY <1>1, <1>2, <1>4, <1>5, <1>6, Committed

\* What is over on another worker is reported there.
LEMMA StepsKeepLocked ==
    ASSUME WInv, Ordered, Locked, NEW p \in Procs, Steps(p), Apart
    PROVE  Locked'
<1>1. Running(p) /\ Frame(p) /\ UNCHANGED <<outcome, loc>> /\ hurt \subseteq hurt'
  BY StepsInside DEF Frame, Apart
<1>2. Remote'
  <2> SUFFICES ASSUME NEW q \in Procs, NEW e \in Entries, op'[q][e] # "idle", e[1] # q[1]
               PROVE  /\ op'[q][e] \in Reads
                      /\ e[2] \in Jobs /\ outcome[e[2]] # "open" /\ loc[e[2]] = e[1]
    BY <1>1 DEF Remote
  <2>1. CASE op'[q][e] = op[q][e]
    BY <2>1 DEF Locked, Remote
  <2>2. CASE op'[q][e] # op[q][e]
    <3>1. /\ q = p /\ e = There(p) /\ op'[q][e] \in {"idle", "stat", "reading"}
          /\ stage[p] = "deps" /\ pc[p] \in ItemPlaces
      BY <2>2, StepsReach
    <3>2. /\ cur[p] \in Jobs /\ outcome[cur[p]] # "open" /\ There(p) = <<loc[cur[p]], cur[p]>>
      BY <1>1, <3>1, Known DEF There
    <3> QED BY <3>1, <3>2 DEF Reads
  <2> QED BY <2>1, <2>2
<1>3. ASSUME NEW q \in Procs
      PROVE  LocksOK(q)'
  <2>1. CASE q = p
    BY <2>1, StepsKeepLocks DEF LocksOK
  <2>2. CASE q # p
    <3>1. /\ pc'[q] = pc[q] /\ stage'[q] = stage[q] /\ todo'[q] = todo[q]
          /\ cur'[q] = cur[q] /\ ok'[q] = ok[q] /\ loc' = loc /\ hurt \subseteq hurt'
      BY <1>1, <2>2 DEF Frame
    <3>2. \A x \in Jobs \cup Sources : Lock(q, x)' = Lock(q, x)
      BY <2>2, StepsReach, WorkFacts DEF Lock
    <3>3. SUFFICES ASSUME pc[q] # "dead", LoopLocks(q), OpenLocks(q), SelfAsked(q)
                   PROVE  LoopLocks(q)' /\ OpenLocks(q)' /\ SelfAsked(q)'
      BY <3>1 DEF Locked, LocksOK
    <3>4. cur[q] \in Jobs \cup Sources /\ q[2] \in Jobs /\ Deps[q[2]] \subseteq Jobs
      BY WorkFacts DEF WInv, WorkTypes
    <3>5. LoopLocks(q)'
      BY <3>1, <3>2, <3>3, <3>4 DEF LoopLocks, AtItem
    <3>6. OpenLocks(q)'
      BY <3>1, <3>2, <3>3, <3>4 DEF OpenLocks
    <3>7. SelfAsked(q)'
      <4>1. Here(q)' = Here(q)
        BY <3>1 DEF Here
      <4>2. ASSUME stage[q] = "deps", pc[q] \in {"request", "serve"}, loc[cur[q]] = q[1]
            PROVE  disk'[Here(q)] = Absent
        BY <2>2, <3>3, <4>2, SelfKept DEF SelfAsked, Running, ItemPlaces
      <4> QED BY <3>1, <3>3, <4>1, <4>2 DEF SelfAsked
    <3> QED BY <3>5, <3>6, <3>7
  <2> QED BY <2>1, <2>2
<1> QED BY <1>2, <1>3 DEF Locked

LEMMA LifeStepKeepsLocked ==
    ASSUME WInv, Ordered, Locked, Beside
    PROVE  Locked'
<1>1. /\ UNCHANGED <<disk, op, stage, cur, hurt>>
      /\ \A j \in Jobs : outcome[j] # "open" => outcome'[j] = outcome[j] /\ loc'[j] = loc[j]
  BY DEF Beside
<1>2. Remote'
  BY <1>1 DEF Locked, Remote
<1>3. ASSUME NEW q \in Procs
      PROVE  LocksOK(q)'
  <2> SUFFICES ASSUME pc'[q] # "dead"
               PROVE  LoopLocks(q)' /\ OpenLocks(q)' /\ SelfAsked(q)'
    BY DEF LocksOK
  <2>1. /\ \/ pc'[q] = pc[q] /\ todo'[q] = todo[q]
           \/ pc[q] \in {"off", "picked"} /\ pc'[q] \in {"picked", "next"}
           \/ pc[q] = "done" /\ pc'[q] = "over" /\ todo'[q] = todo[q]
        /\ pc[q] # "dead"
    <3>1. pc[q] = "dead" => pc'[q] = "dead"
      BY DEF Beside
    <3> QED BY <3>1 DEF Beside
  <2>2. LoopLocks(q) /\ OpenLocks(q) /\ SelfAsked(q) /\ InLoop(q) /\ ItemsOK(q)
    BY <2>1 DEF Locked, LocksOK, WInv, JobOK, Ordered
  <2>3. \A x \in Jobs \cup Sources : Lock(q, x)' = Lock(q, x)
    BY <1>1 DEF Lock
  <2>4. stage[q] = "deps" /\ pc[q] \in ItemPlaces => loc'[cur[q]] = loc[cur[q]]
    <3> SUFFICES ASSUME stage[q] = "deps", pc[q] \in ItemPlaces
                 PROVE  loc'[cur[q]] = loc[cur[q]]
      OBVIOUS
    <3>1. cur[q] \in Jobs /\ outcome[cur[q]] # "open"
      BY Known DEF Running, ItemPlaces
    <3> QED BY <1>1, <3>1
  <2>5. cur[q] \in Jobs \cup Sources /\ q[2] \in Jobs /\ Deps[q[2]] \subseteq Jobs
    BY WorkFacts DEF WInv, WorkTypes
  <2>6. AtItem(q)' = AtItem(q)
    BY <1>1, <2>1, <2>2, <2>4 DEF AtItem, ItemsOK, ItemPlaces
  <2>7. LoopLocks(q)'
    BY <1>1, <2>2, <2>3, <2>5, <2>6 DEF LoopLocks
  <2>8. OpenLocks(q)'
    BY <1>1, <2>1, <2>2, <2>3, <2>5 DEF OpenLocks, InLoop
  <2>9. SelfAsked(q)'
    BY <1>1, <2>1, <2>2, <2>4 DEF SelfAsked, Here, ItemPlaces
  <2> QED BY <2>7, <2>8, <2>9
<1> QED BY <1>2, <1>3 DEF Locked

LEMMA ServeStepKeepsLocked ==
    ASSUME WInv, Locked, ServeStep
    PROVE  Locked'
<1>1. PICK p \in Procs, e \in Entries :
          /\ e[1] # p[1] /\ Op(p, e, "reading", "idle")
          /\ UNCHANGED <<disk, outcome, loc, pc, stage, todo, cur, ok, hurt>>
  BY DEF ServeStep, coordVars, jobVars
<1>2. Remote'
  BY <1>1 DEF Locked, Remote, Op
<1>3. ASSUME NEW q \in Procs
      PROVE  LocksOK(q)'
  <2>1. \A x \in Jobs \cup Sources : Lock(q, x)' = Lock(q, x)
    BY <1>1, WorkFacts DEF Op, Lock
  <2>2. cur[q] \in Jobs \cup Sources /\ q[2] \in Jobs /\ Deps[q[2]] \subseteq Jobs
    BY WorkFacts DEF WInv, WorkTypes
  <2>3. Here(q)' = Here(q) /\ AtItem(q)' = AtItem(q)
    BY <1>1 DEF Here, AtItem
  <2>4. LoopLocks(q) => LoopLocks(q)'
    BY <1>1, <2>1, <2>2, <2>3 DEF LoopLocks
  <2>5. OpenLocks(q) => OpenLocks(q)'
    BY <1>1, <2>1, <2>2 DEF OpenLocks
  <2>6. SelfAsked(q) => SelfAsked(q)'
    BY <1>1, <2>3 DEF SelfAsked
  <2> QED BY <1>1, <2>4, <2>5, <2>6 DEF Locked, LocksOK
<1> QED BY <1>2, <1>3 DEF Locked

LEMMA InitLocked == WorkInit => Locked
<1> SUFFICES ASSUME WorkInit PROVE Locked
  OBVIOUS
<1>1. \A p \in Procs, e \in Entries : op[p][e] = "idle"
  BY DEF WorkInit, CacheInit
<1>2. Remote
  BY <1>1 DEF Remote
<1>3. ASSUME NEW p \in Procs PROVE LocksOK(p)
  <2>1. \A x \in Jobs \cup Sources : Lock(p, x) = "idle"
    BY <1>1, WorkFacts DEF Lock
  <2>2. pc[p] = "off" /\ stage[p] = "deps" /\ cur[p] \in Jobs
    BY WorkFacts DEF WorkInit
  <2> QED BY <2>1, <2>2 DEF LocksOK, LoopLocks, OpenLocks, SelfAsked, AtItem
<1> QED BY <1>2, <1>3 DEF Locked

LEMMA StepLocked ==
    ASSUME WInv, Ordered, Locked, [WorkNext]_workVars
    PROVE  Locked'
BY EveryStep, StepsKeepLocked, LifeStepKeepsOrdered, LifeStepKeepsLocked, ServeStepKeepsLocked

\* The three layers together.
OInv == WInv /\ Ordered /\ Locked

LEMMA InitOInv == WorkInit => OInv
BY InitWInv, InitOrdered, InitLocked DEF OInv

LEMMA StepOInv == OInv /\ [WorkNext]_workVars => OInv'
BY StepWInv, StepOrdered, StepLocked DEF OInv

\* And the table offers no job before the jobs it needs have ended: what
\* SignalBuild does for any workers is all that Schedule asks of it.
THEOREM WorkersRelyOnOrder == WorkSpec => Table!OffersInOrder(Deps)
<1> DEFINE Order == \A j \in Jobs : Table!Offer(j) => \A d \in Deps[j] : outcome[d] # "open"
<1>1. OInv /\ OInv' => Order
  <2> SUFFICES ASSUME OInv, OInv', NEW j \in Jobs, Table!Offer(j)
               PROVE  \A d \in Deps[j] : outcome[d] # "open"
    OBVIOUS
  <2>1. phase'[j] # "absent" /\ outcome' = outcome
    BY DEF Table!Offer, OInv, Ordered, Life, LifeTable
  <2>2. \A d \in Deps[j] : outcome'[d] # "open"
    BY <2>1 DEF OInv, Ordered, Life, LifeTable, DepsSettled
  <2> QED BY <2>1, <2>2
<1>2. OInv /\ OInv' => [Order]_(Table!vars)
  BY <1>1
<1> QED BY <1>2, InitOInv, StepOInv, PTL DEF WorkSpec, Table!OffersInOrder

\* Whatever fails on its way, a goroutine that is over has given back every
\* lock of its worker but those of a job whose command or commit has failed.
THEOREM LocksAreReturned == WorkSpec => []LocksReturned
<1>1. ASSUME OInv, NEW p \in Procs, NEW x \in Jobs \cup Sources, Ended(p)
      PROVE  \/ op[p][<<p[1], x>>] = "idle"
             \/ /\ op[p][<<p[1], x>>] = "reading" /\ x \in Deps[p[2]]
                /\ stage[p] = "open" /\ p \in hurt
  <2>1. LoopLocks(p) /\ OpenLocks(p) /\ pc[p] \in {"done", "over"}
    BY <1>1 DEF OInv, Locked, LocksOK, Ended
  <2>2. AtItem(p) = "idle" /\ p[2] \in Jobs /\ Deps[p[2]] \subseteq Jobs
    BY <2>1, WorkFacts DEF AtItem
  <2>3. CASE stage[p] = "open"
    BY <2>1, <2>2, <2>3 DEF OpenLocks, Lock
  <2>4. CASE stage[p] # "open"
    BY <2>1, <2>2, <2>4 DEF LoopLocks, Lock
  <2> QED BY <2>3, <2>4
<1>2. OInv => LocksReturned
  BY <1>1 DEF LocksReturned
<1> QED BY <1>2, InitOInv, StepOInv, PTL DEF WorkSpec

-----------------------------------------------------------------------------
(* A job fails for a reason.                                               *)

Reason(p) ==
    \/ p \in hurt
    \/ \E q \in hurt : q[1] = p[1] /\ Deps[q[2]] \cap Deps[p[2]] # {}
    \/ Disturbed(p)
    \/ disk[Own(p)] = Old
    \/ \E d \in Deps[p[2]] : outcome[d] = "failed" \/ loc[d] \in dead
    \/ \E j \in Jobs \ {p[2]} :
           outcome[j] # "open" /\ SourceFiles[p[2]] \cap SourceFiles[j] \cap gone # {}

\* The files that runJob has gone through are complete.
FilesPassed(p) ==
    Active(p) =>
        /\ stage[p] = "files" => \A f \in SourceFiles[p[2]] \ todo[p] : Stored(<<p[1], f>>)
        /\ stage[p] = "link"  => \A f \in SourceFiles[p[2]] : Stored(<<p[1], f>>)

\* Nobody does what p has begun to do, if nobody is in its way.
AloneOK(p) == ~Disturbed(p) =>
    /\ pc[p] \in {"request", "serve", "create"} /\ stage[p] \in {"deps", "files"} =>
           disk[Here(p)] = Absent
    /\ pc[p] = "hardlink" => Linked(p) = Nothing

\* The artifact of a job that has no outcome was left by an earlier life, or
\* the job has just written it.
JustWritten(p) ==
    disk[Own(p)] \notin {Absent, Old} /\ outcome[p[2]] = "open" =>
        pc[p] = "dead" \/ (stage[p] = "open" /\ pc[p] \in {"unlockWrite", "done"})

ReasonOK(p) == /\ JustWritten(p)
               /\ pc[p] # "dead" => /\ ~ok[p] => Reason(p)
                                    /\ FilesPassed(p) /\ AloneOK(p)

Hosts == {Host[w] : w \in Workers}

TempType == temp \in [Hosts -> [{Path[f] : f \in Sources} -> Sources \cup {Nothing}]]

ItemsOf(j) == Deps[j] \cup SourceFiles[j] \cup {j}

\* What lies in tmp/ was left by a job that was failed; who was failed has had
\* its job, and who is over has reported it.
StaleOK == \A e \in stale : \E q \in hurt : q[1] = e[1] /\ e[2] \in ItemsOf(q[2])
HurtOK  == hurt \subseteq Procs /\ \A q \in hurt : pc[q] # "off"
OverOK  == \A q \in Procs : pc[q] = "over" => outcome[q[2]] # "open" /\ loc[q[2]] = q[1]
Remains == StaleOK /\ HurtOK /\ OverOK

Reasons == TempType /\ Remains /\ \A p \in Procs : ReasonOK(p)

\* What has happened stays so.
Grows == /\ hurt \subseteq hurt' /\ dead \subseteq dead' /\ gone \subseteq gone'
         /\ \A j \in Jobs : outcome[j] # "open" => outcome'[j] = outcome[j] /\ loc'[j] = loc[j]
         /\ \A e \in Entries : disk[e] # Absent => disk'[e] = disk[e]
         /\ \A e \in Entries : Stored(e) => Stored(e)'

LEMMA StepGrows ==
    ASSUME OInv, [WorkNext]_workVars
    PROVE  Grows
<1>1. \A e \in Entries : Stored(e) => Stored(e)'
  <2>1. CASE UNCHANGED cacheVars
    BY <2>1 DEF cacheVars, Stored
  <2>2. ASSUME NEW p \in Procs, NEW e \in Entries, Calls(p, e)
        PROVE  \A x \in Entries : Stored(x) => Stored(x)'
    BY <2>2, CallKeeps DEF OInv, WInv
  <2> QED BY <2>1, <2>2, StepCalls DEF OInv
<1>2. CASE LifeStep
  <2>1. Beside
    BY <1>2, LifeStepKeepsOrdered DEF OInv
  <2> QED BY <1>1, <2>1 DEF Beside, Grows
<1>3. ASSUME NEW p \in Procs, Steps(p), Apart
      PROVE  Grows
  <2>1. /\ hurt \subseteq hurt' /\ UNCHANGED <<outcome, loc, gone, dead>>
    BY <1>3, StepsInside DEF OInv, Apart, Frame
  <2>2. \A e \in Entries : disk[e] # Absent => disk'[e] = disk[e]
    BY <1>3, Committed DEF OInv
  <2> QED BY <1>1, <2>1, <2>2 DEF Grows
<1>4. CASE ServeStep
  <2>1. UNCHANGED <<disk, outcome, loc, gone, dead, hurt>>
    BY <1>4 DEF ServeStep, coordVars
  <2> QED BY <1>1, <2>1 DEF Grows
<1> QED BY <1>2, <1>3, <1>4, EveryStep DEF OInv

\* A reason does not go away.
LEMMA ReasonStays ==
    ASSUME OInv, NEW p \in Procs, Live(p), Grows, mates[p] \subseteq mates'[p], Reason(p)
    PROVE  Reason(p)'
<1>1. Own(p) \in Entries /\ Own(p)' = Own(p) /\ Old # Absent
  BY WorkFacts DEF Own
<1>2. \A d \in Deps[p[2]] : outcome'[d] = outcome[d] /\ loc'[d] = loc[d]
  BY Asked DEF OInv, Grows
<1>3. CASE \/ p \in hurt
           \/ \E q \in hurt : q[1] = p[1] /\ Deps[q[2]] \cap Deps[p[2]] # {}
  BY <1>3 DEF Grows, Reason
<1>4. CASE Disturbed(p)
  <2>1. Disturbed(p)'
    BY <1>4 DEF Disturbed
  <2> QED BY <2>1 DEF Reason
<1>5. CASE disk[Own(p)] = Old
  BY <1>1, <1>5 DEF Grows, Reason
<1>6. CASE \E d \in Deps[p[2]] : outcome[d] = "failed" \/ loc[d] \in dead
  BY <1>2, <1>6 DEF Grows, Reason
<1>7. ASSUME NEW j \in Jobs \ {p[2]}, outcome[j] # "open",
             SourceFiles[p[2]] \cap SourceFiles[j] \cap gone # {}
      PROVE  Reason(p)'
  <2>1. outcome'[j] # "open" /\ SourceFiles[p[2]] \cap SourceFiles[j] \cap gone' # {}
    BY <1>7 DEF Grows
  <2> QED BY <2>1 DEF Reason
<1> QED BY <1>3, <1>4, <1>5, <1>6, <1>7 DEF Reason

-----------------------------------------------------------------------------
\* Who runs beside p on its host has met it.
LEMMA Together ==
    ASSUME OInv, NEW p \in Procs, NEW q \in Procs, Active(p), Active(q),
           Host[p[1]] = Host[q[1]], p # q
    PROVE  q \in mates[p]
BY DEF OInv, Ordered, Life, LifeBatch

\* On its own worker a goroutine locks the items of its job.
LEMMA LocksBelong ==
    ASSUME OInv, NEW q \in Procs, pc[q] # "dead", NEW x \in Jobs \cup Sources,
           Lock(q, x) # "idle"
    PROVE  x \in ItemsOf(q[2])
<1>1. LoopLocks(q) /\ OpenLocks(q) /\ ItemsOK(q) /\ stage[q] \in Loops
  BY DEF OInv, Locked, LocksOK, WInv, WorkTypes, Ordered
<1>2. CASE stage[q] = "open"
  BY <1>1, <1>2 DEF OpenLocks, ItemsOf
<1>3. CASE stage[q] # "open"
  <2>1. x = cur[q] /\ AtItem(q) # "idle"
    BY <1>1, <1>3 DEF LoopLocks
  <2>2. pc[q] \in ItemPlaces
    BY <2>1 DEF AtItem, ItemPlaces
  <2> QED BY <1>1, <1>3, <2>1, <2>2 DEF ItemsOK, Loops, ItemsOf
<1> QED BY <1>2, <1>3

\* Who holds a lock on its own worker is in runJob, or has left a dependency
\* locked that is there.
LEMMA HolderRuns ==
    ASSUME OInv, NEW q \in Procs, pc[q] # "dead", NEW x \in Jobs \cup Sources,
           Lock(q, x) # "idle"
    PROVE  Active(q) \/ (Lock(q, x) = "reading" /\ disk[<<q[1], x>>] # Absent)
<1>1. LoopLocks(q) /\ OpenLocks(q) /\ InLoop(q) /\ cur[q] \in Jobs \cup Sources
      /\ <<q[1], x>> \in Entries
  BY WorkFacts DEF OInv, Locked, LocksOK, WInv, JobOK, WorkTypes
<1>2. CASE ~Active(q)
  <2>1. pc[q] \in {"off", "picked", "done", "over"}
    BY <1>2 DEF Active
  <2>2. AtItem(q) = "idle"
    BY <2>1 DEF AtItem
  <2>3. stage[q] = "open" /\ pc[q] \in {"done", "over"}
    BY <1>1, <2>1, <2>2 DEF LoopLocks, InLoop
  <2>4. Lock(q, x) = "reading"
    BY <1>1, <2>3 DEF OpenLocks
  <2> QED BY <1>1, <2>4 DEF Lock, OInv, WInv, CacheOK
<1> QED BY <1>2

\* A job that is running has no outcome, the jobs it depends on have one.
LEMMA Unsettled ==
    ASSUME OInv, NEW p \in Procs, Live(p), pc[p] # "over"
    PROVE  /\ outcome[p[2]] = "open"
           /\ \A d \in Deps[p[2]] : d \in Jobs /\ outcome[d] # "open"
           /\ SourceFiles[p[2]] \subseteq Sources /\ p[2] \in Jobs
BY Asked, WorkFacts DEF OInv, Ordered, Life, LifeTable

\* Two jobs of a worker that are about one item are in each other's way.
LEMMA SameItem ==
    ASSUME OInv, NEW p \in Procs, NEW q \in Procs, Active(p), Active(q), p[1] = q[1], p # q,
           NEW x \in ItemsOf(p[2]) \cap ItemsOf(q[2])
    PROVE  Disturbed(p)
<1>1. q \in mates[p]
  BY Together
<1>2. /\ outcome[p[2]] = "open" /\ \A d \in Deps[p[2]] : d \in Jobs /\ outcome[d] # "open"
      /\ SourceFiles[p[2]] \subseteq Sources /\ p[2] \in Jobs
      /\ outcome[q[2]] = "open" /\ \A d \in Deps[q[2]] : d \in Jobs /\ outcome[d] # "open"
      /\ SourceFiles[q[2]] \subseteq Sources /\ q[2] \in Jobs
  BY Unsettled DEF Active, Live
<1>3. p[2] # q[2]
  BY WorkFacts
<1>4. CASE x \in SourceFiles[p[2]] /\ x \in SourceFiles[q[2]]
  BY <1>1, <1>4 DEF Disturbed
<1>5. CASE x \in Deps[p[2]] /\ x \in Deps[q[2]]
  BY <1>1, <1>5 DEF Disturbed
<1> QED BY <1>2, <1>3, <1>4, <1>5, TwoCachesAssumption DEF ItemsOf

\* An item that p wants and another has locked is locked by one in its way; or
\* it is a reported artifact, that is read from elsewhere.
LEMMA InTheWay ==
    ASSUME OInv, NEW p \in Procs, Active(p), NEW x \in ItemsOf(p[2]), Lock(p, x) = "idle"
    PROVE  /\ <<p[1], x>> \in writeLocked => Disturbed(p)
           /\ Busy(<<p[1], x>>) /\ disk[<<p[1], x>>] = Absent =>
                 \/ Disturbed(p)
                 \/ x \in Jobs /\ outcome[x] # "open" /\ loc[x] = p[1]
<1> DEFINE e == <<p[1], x>>
<1>1. /\ CacheOK /\ p[1] \notin dead
      /\ \A q \in Procs : pc[q] = "dead" <=> q[1] \in dead
  BY DEF OInv, WInv, Ordered, Life, LifeBatch, Active
<1>2. x \in Jobs \cup Sources /\ e \in Entries
  BY WorkFacts DEF ItemsOf
<1>3. ASSUME NEW q \in Procs, op[q][e] # "idle"
      PROVE  \/ Disturbed(p)
             \/ /\ op[q][e] \in Reads
                /\ disk[e] # Absent \/ (x \in Jobs /\ outcome[x] # "open" /\ loc[x] = p[1])
  <2>1. CASE q[1] # p[1]
    BY <1>2, <1>3, <2>1 DEF OInv, Locked, Remote
  <2>2. CASE q[1] = p[1]
    <3>1. pc[q] # "dead" /\ Lock(q, x) # "idle" /\ Lock(q, x) = op[q][e] /\ p # q
      BY <1>1, <1>3, <2>2 DEF Lock
    <3>2. Active(q) \/ (op[q][e] = "reading" /\ disk[e] # Absent)
      BY <1>2, <2>2, <3>1, HolderRuns
    <3>3. Active(q) => Disturbed(p)
      BY <1>2, <2>2, <3>1, LocksBelong, SameItem
    <3> QED BY <3>2, <3>3 DEF Reads
  <2> QED BY <2>1, <2>2
<1>4. ASSUME e \in writeLocked
      PROVE  Disturbed(p)
  <2>1. PICK q \in Writers(e) : TRUE
    BY <1>1, <1>2, <1>4 DEF CacheOK
  <2>2. q \in Procs /\ op[q][e] \in {"creating", "writing", "removing", "unlock"}
    BY DEF Writers
  <2> QED BY <1>3, <2>2 DEF Reads
<1>5. ASSUME readLocked[e] > 0, disk[e] = Absent
      PROVE  Disturbed(p) \/ (x \in Jobs /\ outcome[x] # "open" /\ loc[x] = p[1])
  <2>1. readLocked[e] = Cardinality(Readers(e))
    BY <1>1, <1>2 DEF CacheOK
  <2>2. Readers(e) # {}
    BY <1>2, <1>5, <2>1, ReadersCount
  <2>3. PICK q \in Readers(e) : TRUE
    BY <2>2
  <2>4. q \in Procs /\ op[q][e] \in {"stat", "reading"}
    BY DEF Readers
  <2> QED BY <1>3, <1>5, <2>4
<1> QED BY <1>4, <1>5 DEF Busy

-----------------------------------------------------------------------------
\* What p is about when it is about an item, and what it knows of it.
LEMMA Sure ==
    ASSUME OInv, Reasons, NEW p \in Procs, Running(p)
    PROVE  /\ CacheOK /\ WorkTypes /\ LoopLocks(p) /\ OpenLocks(p) /\ SelfAsked(p)
           /\ outcome[p[2]] = "open" /\ ReasonOK(p) /\ JobOK(p)
           /\ Here(p) = <<p[1], cur[p]>> /\ There(p) = <<loc[cur[p]], cur[p]>>
           /\ op[p][Here(p)] = Lock(p, cur[p])
           /\ stage[p] \in {"files", "link"} /\ pc[p] \in ItemPlaces
                  => cur[p] \in SourceFiles[p[2]] /\ cur[p] \in Sources /\ cur[p] \notin Jobs
           /\ stage[p] = "output" /\ pc[p] \in ItemPlaces => Here(p) = p
<1>1. Live(p) /\ pc[p] \notin {"over", "dead"} /\ ItemsOK(p) /\ p = <<p[1], p[2]>>
      /\ SourceFiles[p[2]] \subseteq Sources
  BY Known DEF OInv, Running
<1>2. /\ CacheOK /\ WorkTypes /\ LoopLocks(p) /\ OpenLocks(p) /\ SelfAsked(p)
      /\ outcome[p[2]] = "open" /\ ReasonOK(p) /\ JobOK(p)
  BY <1>1 DEF OInv, WInv, Locked, LocksOK, Ordered, Life, LifeTable, Reasons
<1>3. stage[p] \in {"files", "link"} /\ pc[p] \in ItemPlaces
                  => cur[p] \in SourceFiles[p[2]] /\ cur[p] \in Sources /\ cur[p] \notin Jobs
  BY <1>1, TwoCachesAssumption DEF ItemsOK
<1> QED BY <1>1, <1>2, <1>3 DEF Here, There, Lock, ItemsOK

\* A dependency that cannot be had from its worker has failed, or the worker
\* is dead.
LEMMA NotServed ==
    ASSUME OInv, Reasons, NEW p \in Procs, Running(p), stage[p] = "deps", pc[p] \in ItemPlaces,
           \/ loc[cur[p]] \notin Workers \ dead
           \/ There(p) \in writeLocked
           \/ disk[There(p)] = Absent
    PROVE  Reason(p)
<1>1. /\ cur[p] \in Deps[p[2]] /\ cur[p] \in Jobs /\ outcome[cur[p]] # "open"
      /\ loc[cur[p]] \in Workers /\ There(p) = <<loc[cur[p]], cur[p]>>
  BY Known DEF OInv, There
<1>2. outcome[cur[p]] \in {"ok", "failed"}
  BY <1>1 DEF OInv, WInv, WorkTypes
<1>3. outcome[cur[p]] = "ok" => disk[There(p)] # Absent /\ There(p) \notin writeLocked
  BY <1>1 DEF OInv, WInv, SucceededIsStored
<1> QED BY <1>1, <1>2, <1>3 DEF Reason

\* What p wants to create is refused to it for a reason.
LEMMA NotCreated ==
    ASSUME OInv, Reasons, NEW p \in Procs, Active(p), pc[p] = "create",
           disk[Target(p)] # Absent \/ Busy(Target(p))
    PROVE  Reason(p)
<1>0. Running(p)
  BY DEF Active, Running
<1>1. /\ stage[p] \in {"deps", "files", "output"} /\ p = <<p[1], p[2]>> /\ p[2] \in Jobs
      /\ Target(p) = Here(p) /\ Here(p) = <<p[1], cur[p]>>
  BY <1>0, Known DEF OInv, InLoop, Here
<1>2. /\ SelfAsked(p) /\ outcome[p[2]] = "open" /\ JustWritten(p) /\ AloneOK(p)
      /\ stage[p] = "files" => cur[p] \notin Jobs
      /\ stage[p] = "output" => Here(p) = p
      /\ Lock(p, cur[p]) = "idle" /\ cur[p] \in ItemsOf(p[2])
  <2>1. LoopLocks(p) /\ AtItem(p) = "idle"
    BY <1>0, Sure DEF AtItem
  <2>2. Lock(p, cur[p]) = "idle"
    BY <1>1, <2>1 DEF LoopLocks
  <2>3. ItemsOK(p)
    BY DEF OInv, Ordered
  <2>4. cur[p] \in ItemsOf(p[2])
    BY <1>1, <2>3 DEF ItemsOK, ItemPlaces, ItemsOf
  <2> QED BY <1>0, <2>2, <2>4, Sure DEF ItemPlaces, ReasonOK
<1>3. CASE disk[Here(p)] # Absent
  BY <1>1, <1>2, <1>3 DEF AloneOK, JustWritten, Reason, Own
<1>4. CASE disk[Here(p)] = Absent /\ Busy(Here(p))
  <2>1. \/ Disturbed(p)
        \/ cur[p] \in Jobs /\ outcome[cur[p]] # "open" /\ loc[cur[p]] = p[1]
    BY <1>1, <1>2, <1>4, InTheWay
  <2>2. stage[p] = "output" => cur[p] = p[2]
    BY <1>1, <1>2
  <2> QED BY <1>1, <1>2, <2>1, <2>2 DEF SelfAsked, Reason
<1> QED BY <1>1, <1>3, <1>4

\* What p stumbles on in tmp/ was left by a job with the same dependency.
LEMMA Stumbled ==
    ASSUME OInv, Reasons, NEW p \in Procs, Active(p), pc[p] = "receive", stage[p] = "deps",
           Target(p) \in stale
    PROVE  Reason(p)
<1>1. /\ Target(p) = <<p[1], cur[p]>> /\ cur[p] \in Deps[p[2]] /\ cur[p] \in Jobs
      /\ outcome[cur[p]] # "open" /\ loc[cur[p]] # p[1] /\ p[1] \notin dead
      /\ p[1] \in Workers
  <2>1. Running(p)
    BY DEF Active, Running
  <2>2. SelfAsked(p)
    BY <2>1, Sure
  <2> QED BY <2>1, <2>2, Known, Unsettled DEF OInv, ItemPlaces, SelfAsked
<1>2. PICK q \in hurt : q[1] = p[1] /\ cur[p] \in ItemsOf(q[2])
  BY <1>1 DEF Reasons, Remains, StaleOK
<1>3. q \in Procs /\ pc[q] # "off" /\ pc[q] # "dead" /\ SourceFiles[q[2]] \subseteq Sources
  BY <1>1, <1>2, WorkFacts DEF Reasons, Remains, HurtOK, OInv, Ordered, Life, LifeBatch
<1>4. cur[p] # q[2]
  <2>1. CASE pc[q] = "over"
    BY <1>1, <1>2, <1>3, <2>1 DEF Reasons, Remains, OverOK
  <2>2. CASE pc[q] # "over"
    BY <1>1, <1>3, <2>2, Unsettled DEF Live
  <2> QED BY <2>1, <2>2
<1>5. cur[p] \in Deps[q[2]]
  BY <1>1, <1>2, <1>3, <1>4, TwoCachesAssumption DEF ItemsOf
<1> QED BY <1>1, <1>2, <1>5 DEF Reason

\* Whatever step makes p fail, there is a reason.
LEMMA BreaksForReason ==
    ASSUME OInv, Reasons, NEW p \in Procs, Steps(p), Apart, ok[p], ~ok'[p]
    PROVE  Reason(p) \/ p \in hurt'
<1>1. Running(p) /\ Active(p)
  BY StepsInside DEF OInv
<1> USE DEF Becomes, Stays, Breaks, Nexts
<1>2. CASE FromNext(p) \/ FromUnlockRead(p) \/ FromUnlink(p) \/ FromUnlockWrite(p)
  BY <1>2 DEF FromNext, FromUnlockRead, FromUnlink, FromUnlockWrite
<1>3. CASE FromMkdir(p) \/ FromCommand(p) \/ FromRelease(p)
  BY <1>3 DEF FromMkdir, FromCommand, FromRelease, Commits, GivesUp
<1>10. CASE FromReceive(p)
  BY <1>1, <1>10, Stumbled DEF FromReceive, Commits, GivesUp, Stumbles
<1>4. CASE FromGet(p)
  <2>1. pc[p] = "get" /\ Here(p) \in writeLocked /\ stage[p] # "open"
    BY <1>4 DEF FromGet
  <2>2. LoopLocks(p) /\ AtItem(p) = "idle" /\ Here(p) = <<p[1], cur[p]>>
    BY <1>1, <2>1, Sure DEF AtItem
  <2>3. Lock(p, cur[p]) = "idle"
    BY <2>1, <2>2 DEF LoopLocks
  <2>4. ItemsOK(p) /\ stage[p] \in Loops
    BY DEF OInv, Ordered, WInv, WorkTypes
  <2>5. cur[p] \in ItemsOf(p[2])
    BY <2>1, <2>4 DEF ItemsOK, ItemPlaces, ItemsOf, Loops
  <2> QED BY <1>1, <2>1, <2>2, <2>3, <2>5, InTheWay DEF Reason
<1>5. CASE FromStat(p)
  <2>1. \/ p \in hurt'
        \/ pc[p] = "stat" /\ stage[p] = "link" /\ disk[Here(p)] = Absent
    BY <1>5 DEF FromStat
  <2>2. CASE pc[p] = "stat" /\ stage[p] = "link" /\ disk[Here(p)] = Absent
    <3>1. FilesPassed(p) /\ cur[p] \in SourceFiles[p[2]] /\ Here(p) = <<p[1], cur[p]>>
      BY <1>1, <2>2, Sure DEF ItemPlaces, ReasonOK
    <3> QED BY <1>1, <2>2, <3>1 DEF FilesPassed, Stored
  <2> QED BY <2>1, <2>2
<1>6. CASE FromHardlink(p)
  <2>1. pc[p] = "hardlink" /\ (Linked(p) # Nothing \/ p \in hurt') /\ AloneOK(p)
    BY <1>1, <1>6, Sure DEF FromHardlink, ReasonOK
  <2> QED BY <2>1 DEF AloneOK, Reason
<1>7. CASE FromRequest(p)
  <2>1. pc[p] = "request" /\ pc[p] \in ItemPlaces
    BY <1>7 DEF FromRequest, ItemPlaces
  <2>2. CASE stage[p] = "deps"
    BY <1>1, <1>7, <2>1, <2>2, NotServed DEF FromRequest
  <2>3. CASE stage[p] = "files" /\ cur[p] \in gone
    <3>1. PICK j \in Jobs : outcome[j] # "open" /\ cur[p] \in SourceFiles[j]
      BY <2>3 DEF OInv, Ordered, Life, LifeBatch
    <3>2. outcome[p[2]] = "open" /\ cur[p] \in SourceFiles[p[2]]
      BY <1>1, <2>1, <2>3, Sure
    <3>3. /\ j \in Jobs \ {p[2]}
          /\ SourceFiles[p[2]] \cap SourceFiles[j] \cap gone # {}
      BY <2>3, <3>1, <3>2
    <3> QED BY <3>1, <3>3 DEF Reason
  <2> QED BY <1>7, <2>2, <2>3 DEF FromRequest
<1>8. CASE FromServe(p)
  <2>1. pc[p] \in ItemPlaces /\ stage[p] = "deps"
    BY <1>1, <1>8, Known DEF FromServe, ItemPlaces, ItemsOK, OInv
  <2> QED BY <1>1, <1>8, <2>1, NotServed DEF FromServe
<1>9. CASE FromCreate(p)
  BY <1>1, <1>9, NotCreated DEF FromCreate
<1> QED BY <1>2, <1>3, <1>4, <1>5, <1>6, <1>7, <1>8, <1>9, <1>10 DEF Steps

-----------------------------------------------------------------------------
\* The step that is taken where p unlocks.
LEMMA Unlocks ==
    ASSUME NEW p \in Procs, Steps(p)
    PROVE  /\ pc[p] = "unlockRead"  => FromUnlockRead(p)
           /\ pc[p] = "unlockWrite" => FromUnlockWrite(p)
<1>1. \/ FromUnlockRead(p) \/ FromUnlockWrite(p)
      \/ pc[p] \notin {"unlockRead", "unlockWrite"}
  BY DEF Steps, FromNext, FromGet, FromStat, FromUnlink, FromHardlink, FromRequest, FromServe,
     FromCreate, FromMkdir, FromReceive, FromCommand, FromRelease
<1>2. (FromUnlockRead(p) => pc[p] = "unlockRead") /\ (FromUnlockWrite(p) => pc[p] = "unlockWrite")
  BY DEF FromUnlockRead, FromUnlockWrite
<1> QED BY <1>1, <1>2

\* What was found or downloaded is complete before the loop goes on.
LEMMA PassedFile ==
    ASSUME OInv, Reasons, Grows, NEW p \in Procs, Steps(p),
           pc[p] \in {"unlockRead", "unlockWrite"}, stage[p] \in {"files", "link"}, ok[p],
           NEW f \in Sources, f = cur[p]
    PROVE  Stored(<<p[1], f>>)'
<1>1. Running(p)
  BY StepsInside DEF OInv
<1> DEFINE e == <<p[1], f>>
<1>2. /\ e \in Entries /\ e = Here(p) /\ ItemsOK(p)
      /\ Target(p) = IF stage[p] \in {"link", "open"} THEN p ELSE <<p[1], cur[p]>>
      /\ CacheOK /\ Written(p)
  BY <1>1, Known, Sure DEF OInv, JobOK
<1>3. /\ disk[e] # Absent => disk'[e] = disk[e]
      /\ Stored(e) => Stored(e)'
  BY <1>2 DEF Grows
<1>4. CASE pc[p] = "unlockRead"
  <2>1. op[p][e] = "reading"
    BY <1>2, <1>4, Unlocks DEF FromUnlockRead, Op
  <2>2. Stored(e)
    BY <1>2, <2>1, ReaderSees
  <2> QED BY <1>3, <2>2
<1>5. CASE pc[p] = "unlockWrite"
  <2>1. stage[p] # "link" /\ Target(p) = e /\ disk[e] # Absent
    BY <1>2, <1>5 DEF ItemsOK, Written
  <2>2. e \notin writeLocked'
    BY <1>5, <2>1, Unlocks DEF FromUnlockWrite
  <2> QED BY <1>3, <2>1, <2>2 DEF Stored
<1> QED BY <1>4, <1>5

LEMMA StepsKeepFiles ==
    ASSUME OInv, Reasons, Grows, NEW p \in Procs, Steps(p)
    PROVE  FilesPassed(p)'
<1>1. Running(p) /\ Active(p)
  BY StepsInside DEF OInv
<1>2. /\ FilesPassed(p) /\ SourceFiles[p[2]] \subseteq Sources /\ InLoop(p)
      /\ \A f \in SourceFiles[p[2]] : <<p[1], f>> \in Entries
  BY <1>1, Sure, Known, WorkFacts DEF OInv, ReasonOK
<1>3. /\ stage[p] = "files" => \A f \in SourceFiles[p[2]] \ todo[p] : Stored(<<p[1], f>>)'
      /\ stage[p] = "link"  => \A f \in SourceFiles[p[2]] : Stored(<<p[1], f>>)'
  BY <1>1, <1>2 DEF FilesPassed, Grows
<1>4. CASE stage'[p] = stage[p] /\ todo'[p] = todo[p]
  BY <1>3, <1>4 DEF FilesPassed
<1>5. ASSUME Nexts(p), pc[p] \in {"unlockRead", "unlockWrite"}, ok[p]
      PROVE  FilesPassed(p)'
  <2>1. stage'[p] = stage[p] /\ todo'[p] = todo[p] \ {cur[p]}
    BY <1>5 DEF Nexts, Becomes
  <2>2. stage[p] = "files" => \A f \in SourceFiles[p[2]] : f = cur[p] => Stored(<<p[1], f>>)'
    BY <1>2, <1>5, PassedFile
  <2> QED BY <1>3, <2>1, <2>2 DEF FilesPassed
<1>6. CASE FromNext(p)
  <2>1. \/ stage'[p] = "files" /\ todo'[p] = SourceFiles[p[2]]
        \/ stage[p] = "files" /\ todo[p] = {} /\ stage'[p] = "link"
        \/ stage'[p] = "output"
        \/ stage'[p] = stage[p] /\ todo'[p] = todo[p]
    BY <1>6 DEF FromNext, Stays, Becomes
  <2> QED BY <1>3, <2>1 DEF FilesPassed
<1>7. CASE FromMkdir(p)
  <2>1. stage'[p] = "open" \/ (stage'[p] = stage[p] /\ todo'[p] = todo[p])
    BY <1>7 DEF FromMkdir, Stays, Breaks, Becomes
  <2> QED BY <1>4, <2>1 DEF FilesPassed
<1>8. CASE FromGet(p) \/ FromUnlockRead(p) \/ FromUnlink(p) \/ FromHardlink(p)
  BY <1>4, <1>5, <1>8 DEF FromGet, FromUnlockRead, FromUnlink, FromHardlink,
     Stays, Breaks, Becomes
<1>11. CASE FromStat(p)
  <2>1. stage'[p] = "open" \/ (stage'[p] = stage[p] /\ todo'[p] = todo[p])
    BY <1>11 DEF FromStat, Stays, Breaks, Nexts, Becomes
  <2> QED BY <1>4, <2>1 DEF FilesPassed
<1>9. CASE FromRequest(p) \/ FromServe(p) \/ FromCreate(p)
  BY <1>4, <1>9 DEF FromRequest, FromServe, FromCreate, Stays, Breaks, Becomes
<1>10. CASE FromReceive(p) \/ FromUnlockWrite(p) \/ FromCommand(p) \/ FromRelease(p)
  BY <1>4, <1>5, <1>10 DEF FromReceive, FromUnlockWrite, FromCommand, FromRelease,
     Commits, GivesUp, Stumbles, Stays, Breaks, Becomes
<1> QED BY <1>6, <1>7, <1>8, <1>9, <1>10, <1>11 DEF Steps

LEMMA StepsKeepAlone ==
    ASSUME OInv, Reasons, NEW p \in Procs, Steps(p), Apart
    PROVE  AloneOK(p)'
<1>1. Running(p) /\ mates' = mates
  BY StepsInside DEF OInv, Apart
<1>2. /\ AloneOK(p) /\ InLoop(p) /\ p[1] \in Workers
      /\ pc[p] = "unlink" => cur[p] \in Sources
  BY <1>1, Sure, Known, WorkFacts DEF OInv, ReasonOK, ItemsOK, ItemPlaces
<1> SUFFICES ASSUME ~Disturbed(p)
             PROVE  /\ pc'[p] \in {"request", "serve", "create"} /\ stage'[p] \in {"deps", "files"} =>
                           disk'[Here(p)'] = Absent
                    /\ pc'[p] = "hardlink" => Linked(p)' = Nothing
  BY <1>1 DEF AloneOK, Disturbed
<1>3. cur'[p] = cur[p] => Here(p)' = Here(p)
  BY DEF Here
<1>4. CASE FromNext(p)
  <2>1. pc'[p] \in {"next", "get", "command"} \/ (pc'[p] = "create" /\ stage'[p] = "output")
    BY <1>4 DEF FromNext, Stays, Becomes
  <2> QED BY <2>1
<1>5. CASE FromGet(p) \/ FromUnlockRead(p) \/ FromHardlink(p)
  BY <1>5 DEF FromGet, FromUnlockRead, FromHardlink, Stays, Breaks, Nexts, Becomes
<1>6. CASE FromStat(p)
  <2>1. disk' = disk /\ cur'[p] = cur[p]
    BY <1>6 DEF FromStat, Stays, Breaks, Nexts, Becomes
  <2>2. \/ pc'[p] \in {"next", "unlink", "unlockRead", "done"}
        \/ pc'[p] = "request" /\ disk[Here(p)] = Absent
    BY <1>6 DEF FromStat, Stays, Breaks, Nexts, Becomes
  <2> QED BY <1>3, <2>1, <2>2
<1>7. CASE FromUnlink(p)
  <2>1. CASE PutLink(p, Nothing) /\ Stays(p, "hardlink")
    <3>1. /\ pc'[p] = "hardlink" /\ cur'[p] = cur[p]
          /\ temp' = [temp EXCEPT ![Host[p[1]]][Path[cur[p]]] = Nothing]
      BY <2>1 DEF PutLink, Stays, Becomes
    <3>2. cur[p] \in Sources /\ Host[p[1]] \in Hosts
      BY <1>2, <1>7 DEF FromUnlink, Hosts
    <3>3. temp'[Host[p[1]]][Path[cur[p]]] = Nothing
      BY <3>1, <3>2 DEF Reasons, TempType
    <3> QED BY <3>1, <3>3 DEF Linked
  <2>2. CASE Breaks(p, "unlockRead")
    BY <2>2 DEF Breaks, Becomes
  <2> QED BY <1>7, <2>1, <2>2 DEF FromUnlink
<1>8. CASE FromRequest(p) \/ FromServe(p)
  <2>1. /\ disk' = disk /\ cur'[p] = cur[p] /\ stage'[p] = stage[p]
        /\ pc[p] \in {"request", "serve"} /\ pc'[p] \in {"create", "serve", "done"}
    BY <1>8 DEF FromRequest, FromServe, Stays, Breaks, Becomes
  <2> QED BY <1>2, <1>3, <2>1 DEF AloneOK
<1>9. CASE FromCreate(p) \/ FromMkdir(p) \/ FromReceive(p)
  BY <1>9 DEF FromCreate, FromMkdir, FromReceive, Commits, GivesUp, Stumbles, Stays, Breaks, Becomes
<1>10. CASE FromUnlockWrite(p) \/ FromCommand(p) \/ FromRelease(p)
  BY <1>10 DEF FromUnlockWrite, FromCommand, FromRelease, Commits, GivesUp, Stays, Breaks, Nexts, Becomes
<1> QED BY <1>4, <1>5, <1>6, <1>7, <1>8, <1>9, <1>10 DEF Steps

LEMMA StepsKeepWritten ==
    ASSUME OInv, Reasons, NEW p \in Procs, Steps(p)
    PROVE  JustWritten(p)'
<1>1. Running(p) /\ pc[p] # "done" /\ outcome' = outcome
  BY StepsInside DEF OInv, Frame
<1>2. JustWritten(p) /\ InLoop(p) /\ outcome[p[2]] = "open" /\ pc[p] # "dead"
      /\ p \in Entries /\ p = <<p[1], p[2]>> /\ p[2] \in Jobs
      /\ p[2] \notin Deps[p[2]] /\ SourceFiles[p[2]] \subseteq Sources
  BY <1>1, Sure, Known, WorkFacts DEF OInv, ReasonOK
<1>3. CASE disk'[p] = disk[p]
  <2> SUFFICES ASSUME disk[p] \notin {Absent, Old}
               PROVE  JustWritten(p)'
    BY <1>3 DEF JustWritten, Own
  <2>1. stage[p] = "open" /\ pc[p] = "unlockWrite"
    BY <1>1, <1>2 DEF JustWritten, Own
  <2>2. FromUnlockWrite(p)
    BY <2>1, Unlocks
  <2>3. stage'[p] = "open" /\ pc'[p] = "done"
    BY <2>1, <2>2 DEF FromUnlockWrite, Stays, Becomes
  <2> QED BY <2>3 DEF JustWritten
<1>4. CASE disk'[p] # disk[p]
  <2>1. cur[p] # p[2] \/ ~(cur[p] \in Deps[p[2]] \/ cur[p] \in SourceFiles[p[2]])
    BY <1>2, TwoCachesAssumption
  <2>2. Commits(p) /\ stage[p] = "open"
    BY <1>2, <1>4, <2>1, Committed DEF Here, OInv
  <2> QED BY <2>2 DEF Commits, Stays, Becomes, JustWritten
<1> QED BY <1>3, <1>4

\* A job links its own files, in the directory of its host.
LEMMA StepsKeepTemp ==
    ASSUME OInv, Reasons, NEW p \in Procs, Steps(p)
    PROVE  /\ TempType'
           /\ \A h \in Hosts : h # Host[p[1]] => temp'[h] = temp[h]
           /\ \/ temp' = temp
              \/ /\ pc[p] \in {"unlink", "hardlink"} /\ cur[p] \in SourceFiles[p[2]] \cap Sources
                 /\ \A f \in Sources : Path[f] # Path[cur[p]] =>
                        temp'[Host[p[1]]][Path[f]] = temp[Host[p[1]]][Path[f]]
<1>1. Running(p) /\ Host[p[1]] \in Hosts /\ TempType
  BY StepsInside, WorkFacts DEF OInv, Reasons, Hosts
<1>2. pc[p] \in {"unlink", "hardlink"} => cur[p] \in SourceFiles[p[2]] /\ cur[p] \in Sources
  <2>1. ItemsOK(p)
    BY <1>1, Known DEF OInv
  <2> QED BY <1>1, <2>1, Sure DEF ItemsOK, ItemPlaces
<1>3. CASE temp' = temp
  BY <1>1, <1>3 DEF TempType
<1>4. ASSUME NEW c \in Sources \cup {Nothing}, pc[p] \in {"unlink", "hardlink"}, PutLink(p, c)
      PROVE  /\ TempType'
             /\ \A h \in Hosts : h # Host[p[1]] => temp'[h] = temp[h]
             /\ \A f \in Sources : Path[f] # Path[cur[p]] =>
                    temp'[Host[p[1]]][Path[f]] = temp[Host[p[1]]][Path[f]]
  <2>1. cur[p] \in Sources
    BY <1>2, <1>4
  <2> DEFINE row == [temp[Host[p[1]]] EXCEPT ![Path[cur[p]]] = c]
  <2>2. temp[Host[p[1]]] \in [{Path[f] : f \in Sources} -> Sources \cup {Nothing}]
    BY <1>1 DEF TempType
  <2>3. /\ row \in [{Path[f] : f \in Sources} -> Sources \cup {Nothing}]
        /\ \A f \in Sources : Path[f] # Path[cur[p]] => row[Path[f]] = temp[Host[p[1]]][Path[f]]
    BY <1>4, <2>2
  <2>4. temp' = [temp EXCEPT ![Host[p[1]]] = row]
    BY <1>4 DEF PutLink
  <2> HIDE DEF row
  <2> QED BY <1>1, <2>3, <2>4 DEF TempType
<1>5. CASE FromUnlink(p)
  BY <1>2, <1>3, <1>4, <1>5 DEF FromUnlink
<1>6. CASE FromHardlink(p)
  BY <1>2, <1>3, <1>4, <1>6 DEF FromHardlink
<1>7. CASE \/ FromNext(p) \/ FromGet(p) \/ FromStat(p) \/ FromUnlockRead(p) \/ FromRequest(p)
           \/ FromServe(p) \/ FromCreate(p) \/ FromMkdir(p) \/ FromReceive(p)
           \/ FromUnlockWrite(p) \/ FromCommand(p) \/ FromRelease(p)
  BY <1>3, <1>7 DEF FromNext, FromGet, FromStat, FromUnlockRead, FromRequest, FromServe,
     FromCreate, FromMkdir, FromReceive, FromUnlockWrite, FromCommand, FromRelease
<1> QED BY <1>5, <1>6, <1>7 DEF Steps

\* Nobody does what another has begun to do, or has the reason of another.
LEMMA OthersReasons ==
    ASSUME OInv, Reasons, Grows, NEW p \in Procs, Steps(p), Apart, NEW q \in Procs, q # p
    PROVE  ReasonOK(q)'
<1>1. /\ Running(p) /\ outcome' = outcome /\ mates' = mates
      /\ pc'[q] = pc[q] /\ stage'[q] = stage[q] /\ todo'[q] = todo[q]
      /\ cur'[q] = cur[q] /\ ok'[q] = ok[q]
  BY StepsInside DEF OInv, Frame, Apart
<1>2. ReasonOK(q) /\ q = <<q[1], q[2]>> /\ q[1] \in Workers /\ q[2] \in Jobs /\ q \in Entries
      /\ cur[q] \in Jobs \cup Sources /\ Here(q) \in Entries /\ Here(q) = <<q[1], cur[q]>>
      /\ ItemsOK(q) /\ SourceFiles[q[2]] \subseteq Sources
  BY WorkFacts, Items DEF OInv, WInv, WorkTypes, Reasons, Here, Ordered
<1>3. /\ p[1] \in Workers /\ SourceFiles[p[2]] \subseteq Sources /\ Here(p) = <<p[1], cur[p]>>
      /\ stage[p] = "deps" /\ pc[p] \in ItemPlaces => outcome[cur[p]] # "open"
  BY <1>1, Known DEF OInv, Here
<1>4. Here(q)' = Here(q)
  BY <1>1 DEF Here
<1>5. JustWritten(q)'
  <2>1. CASE disk'[q] = disk[q]
    BY <1>1, <1>2, <2>1 DEF ReasonOK, JustWritten, Own
  <2>2. CASE disk'[q] # disk[q]
    <3>1. \/ Here(p) = q /\ pc[p] = "receive" /\ stage[p] = "deps"
          \/ Here(p) = q /\ cur[p] \in SourceFiles[p[2]]
      BY <1>2, <2>2, Committed DEF OInv
    <3>2. cur[p] = q[2] /\ cur[p] \notin Sources
      BY <1>2, <1>3, <3>1, TwoCachesAssumption
    <3>3. outcome[q[2]] # "open"
      BY <1>3, <3>1, <3>2 DEF ItemPlaces
    <3> QED BY <1>1, <3>3 DEF JustWritten
  <2> QED BY <2>1, <2>2
<1>6. ASSUME pc[q] # "dead", ~ok[q]
      PROVE  Reason(q)'
  <2>1. Live(q) /\ Reason(q)
    BY <1>2, <1>6 DEF Live, ItemsOK, ReasonOK
  <2> QED BY <1>1, <2>1, ReasonStays
<1>7. ASSUME pc[q] # "dead"
      PROVE  FilesPassed(q)'
  <2>1. \A f \in SourceFiles[q[2]] : <<q[1], f>> \in Entries
    BY <1>2, WorkFacts
  <2>2. \A f \in SourceFiles[q[2]] : Stored(<<q[1], f>>) => Stored(<<q[1], f>>)'
    BY <2>1 DEF Grows
  <2> QED BY <1>1, <1>2, <1>7, <2>2 DEF ReasonOK, FilesPassed, Active
<1>8. ASSUME pc[q] # "dead"
      PROVE  AloneOK(q)'
  <2> SUFFICES ASSUME ~Disturbed(q),
                      pc[q] \in {"request", "serve", "create", "hardlink"}
               PROVE  AloneOK(q)'
    BY <1>1 DEF AloneOK, Disturbed
  <2>1. /\ AloneOK(q) /\ Active(q) /\ Active(p) /\ ItemsOK(p)
        /\ pc[q] = "hardlink" => cur[q] \in SourceFiles[q[2]]
        /\ stage[q] \in {"deps", "files"} => cur[q] \in ItemsOf(q[2])
    BY <1>2, <1>8, StepsInside DEF ReasonOK, Active, OInv, Ordered, ItemsOK, ItemPlaces, ItemsOf
  <2>2. ASSUME stage[q] \in {"deps", "files"}
        PROVE  disk'[Here(q)] = disk[Here(q)]
    <3> SUFFICES ASSUME disk'[Here(q)] # disk[Here(q)]
                 PROVE  FALSE
      OBVIOUS
    <3>1. \/ Here(q) = p
          \/ /\ Here(q) = Here(p)
             /\ cur[p] \in Deps[p[2]] \/ cur[p] \in SourceFiles[p[2]]
      BY <1>2, Committed DEF OInv
    <3>2. p[1] = q[1] /\ cur[q] \in ItemsOf(p[2])
      BY <1>2, <1>3, <3>1, WorkFacts DEF ItemsOf
    <3>3. cur[q] \in ItemsOf(q[2]) \cap ItemsOf(p[2])
      BY <2>1, <2>2, <3>2
    <3> QED BY <2>1, <3>2, <3>3, SameItem
  <2>3. ASSUME pc[q] = "hardlink"
        PROVE  Linked(q)' = Linked(q)
    <3>1. cur[q] \in SourceFiles[q[2]] /\ cur[q] \in Sources /\ Host[q[1]] \in Hosts
      BY <1>2, <2>1, <2>3 DEF Hosts
    <3>2. CASE Host[p[1]] # Host[q[1]]
      BY <1>1, <3>1, <3>2, StepsKeepTemp DEF Linked
    <3>3. CASE Host[p[1]] = Host[q[1]]
      <4>1. p \in mates[q]
        BY <2>1, <3>3, Together
      <4>2. cur[p] \in SourceFiles[p[2]] => Path[cur[q]] # Path[cur[p]]
        BY <3>1, <4>1 DEF Disturbed
      <4> QED BY <1>1, <3>1, <3>3, <4>2, StepsKeepTemp DEF Linked
    <3> QED BY <3>2, <3>3
  <2> QED BY <1>1, <1>4, <2>1, <2>2, <2>3 DEF AloneOK
<1> QED BY <1>1, <1>5, <1>6, <1>7, <1>8 DEF ReasonOK

\* What p leaves in tmp/ is of its own job.
LEMMA StepsKeepRemains ==
    ASSUME OInv, Reasons, NEW p \in Procs, Steps(p), Apart, Leaves(p)
    PROVE  Remains'
<1>1. /\ Running(p) /\ Running(p)' /\ \A q \in Procs \ {p} : pc'[q] = pc[q]
      /\ UNCHANGED <<outcome, loc>> /\ hurt \subseteq hurt' /\ hurt' \subseteq hurt \cup {p}
  BY StepsInside DEF OInv, Frame, Apart, Leaves
<1>2. pc[p] \in {"receive", "command", "release"} =>
          Target(p)[1] = p[1] /\ Target(p)[2] \in ItemsOf(p[2])
  <2>1. InLoop(p) /\ ItemsOK(p)
        /\ Target(p) = IF stage[p] \in {"link", "open"} THEN p ELSE <<p[1], cur[p]>>
    BY <1>1, Known DEF OInv
  <2> QED BY <2>1 DEF InLoop, ItemsOK, ItemPlaces, ItemsOf
<1>3. StaleOK'
  BY <1>1, <1>2 DEF Leaves, Reasons, Remains, StaleOK
<1>4. HurtOK'
  BY <1>1 DEF Running, Reasons, Remains, HurtOK
<1>5. OverOK'
  BY <1>1 DEF Running, Reasons, Remains, OverOK
<1> QED BY <1>3, <1>4, <1>5 DEF Remains

LEMMA StepsKeepReasons ==
    ASSUME OInv, Reasons, Grows, NEW p \in Procs, Steps(p), Apart, Leaves(p)
    PROVE  Reasons'
<1>1. TempType'
  BY StepsKeepTemp
<1>2. Live(p) /\ Running(p) /\ mates' = mates
  BY StepsInside DEF OInv, Apart, Running, Live
<1>3. ASSUME ~ok'[p]
      PROVE  Reason(p)'
  <2>1. Reason(p) \/ p \in hurt'
    BY <1>2, <1>3, BreaksForReason, Sure DEF ReasonOK, Running
  <2>2. CASE Reason(p)
    BY <1>2, <2>2, ReasonStays
  <2>3. CASE p \in hurt'
    BY <2>3 DEF Reason
  <2> QED BY <2>1, <2>2, <2>3
<1>4. ReasonOK(p)'
  BY <1>3, StepsKeepFiles, StepsKeepAlone, StepsKeepWritten DEF ReasonOK
<1> QED BY <1>1, <1>4, StepsKeepRemains, OthersReasons DEF Reasons

LEMMA LifeStepKeepsReasons ==
    ASSUME OInv, Reasons, Grows, Beside
    PROVE  Reasons'
<1>1. /\ UNCHANGED <<disk, stale, writeLocked, stage, cur, ok, temp, hurt>>
      /\ \A j \in Jobs : outcome'[j] = "open" => outcome[j] = "open"
  BY DEF Beside
<1>2. TempType' /\ Remains'
  <2>1. TempType' /\ StaleOK'
    BY <1>1 DEF Reasons, TempType, Remains, StaleOK
  <2>2. HurtOK'
    BY <1>1 DEF Reasons, Remains, HurtOK, Beside
  <2>3. OverOK'
    BY WorkFacts DEF Reasons, Remains, OverOK, Beside
  <2> QED BY <2>1, <2>2, <2>3 DEF Remains
<1>3. ASSUME NEW q \in Procs
      PROVE  ReasonOK(q)'
  <2>1. ReasonOK(q) /\ InLoop(q) /\ ItemsOK(q) /\ q[2] \in Jobs
    BY WorkFacts DEF Reasons, OInv, WInv, JobOK, Ordered
  <2>2. pc[q] = "dead" => pc'[q] = "dead"
    BY DEF Beside
  <2>3. JustWritten(q)'
    <3>1. JustWritten(q)
      BY <2>1 DEF ReasonOK
    <3>2. pc'[q] = "over" => pc[q] = "over" \/ outcome'[q[2]] # "open"
      BY DEF Beside
    <3>3. pc[q] \in {"unlockWrite", "done"} => pc'[q] \in {pc[q], "over", "dead"}
      BY DEF Beside
    <3> QED BY <1>1, <2>1, <2>2, <3>1, <3>2, <3>3 DEF JustWritten, Own
  <2>4. ASSUME pc'[q] # "dead", ~ok[q]
        PROVE  Reason(q)'
    <3>1. pc[q] \notin {"off", "picked", "dead"} /\ mates[q] \subseteq mates'[q]
      BY <2>1, <2>2, <2>4 DEF ItemsOK, Beside
    <3>2. Live(q) /\ Reason(q)
      BY <2>1, <2>4, <3>1 DEF Live, ReasonOK
    <3> QED BY <3>1, <3>2, ReasonStays
  <2>5. ASSUME pc'[q] # "dead"
        PROVE  FilesPassed(q)' /\ AloneOK(q)'
    <3>1. \/ /\ pc'[q] = pc[q] /\ todo'[q] = todo[q] /\ mates[q] \subseteq mates'[q]
          \/ pc'[q] \in {"picked", "over"}
          \/ pc'[q] = "next" /\ stage[q] = "deps"
      BY <2>1, <2>5 DEF Beside, InLoop
    <3>2. FilesPassed(q) /\ AloneOK(q)
      BY <2>1, <2>2, <2>5 DEF ReasonOK
    <3>3. FilesPassed(q)'
      BY <1>1, <3>1, <3>2 DEF FilesPassed, Active, Stored
    <3>4. AloneOK(q)'
      BY <1>1, <3>1, <3>2 DEF AloneOK, Disturbed, Here, Linked
    <3> QED BY <3>3, <3>4
  <2> QED BY <1>1, <2>3, <2>4, <2>5 DEF ReasonOK
<1> QED BY <1>2, <1>3 DEF Reasons

LEMMA ServeStepKeepsReasons ==
    ASSUME Reasons, ServeStep
    PROVE  Reasons'
<1>1. UNCHANGED <<disk, stale, writeLocked, outcome, gone, loc, pc, stage, todo, cur, ok, temp, dead,
                  mates, hurt>>
  BY DEF ServeStep, coordVars, jobVars
<1>2. TempType' /\ Remains'
  BY <1>1 DEF Reasons, TempType, Remains, StaleOK, HurtOK, OverOK
<1>3. ASSUME NEW q \in Procs
      PROVE  ReasonOK(q)'
  <2>1. JustWritten(q) => JustWritten(q)'
    BY <1>1 DEF JustWritten, Own
  <2>2. Reason(q) => Reason(q)'
    BY <1>1 DEF Reason, Disturbed, Own
  <2>3. FilesPassed(q) => FilesPassed(q)'
    BY <1>1 DEF FilesPassed, Active, Stored
  <2>4. AloneOK(q) => AloneOK(q)'
    BY <1>1 DEF AloneOK, Disturbed, Here, Linked
  <2> QED BY <1>1, <2>1, <2>2, <2>3, <2>4 DEF Reasons, ReasonOK
<1> QED BY <1>2, <1>3 DEF Reasons

LEMMA InitReasons == WorkInit => Reasons
<1> SUFFICES ASSUME WorkInit PROVE Reasons
  OBVIOUS
<1>1. TempType /\ Remains
  BY DEF WorkInit, CacheInit, TempType, Hosts, Remains, StaleOK, HurtOK, OverOK
<1>2. ASSUME NEW p \in Procs PROVE ReasonOK(p)
  <2>1. disk[p] \in {Absent, Old}
    BY WorkFacts DEF WorkInit
  <2>2. pc[p] = "off" /\ ok[p]
    BY DEF WorkInit
  <2> QED BY <2>1, <2>2 DEF ReasonOK, JustWritten, Own, FilesPassed, Active, AloneOK
<1> QED BY <1>1, <1>2 DEF Reasons

\* The invariant of the theorem below: the layers, and a reason for each error.
RInv == OInv /\ Reasons

LEMMA InitRInv == WorkInit => RInv
BY InitOInv, InitReasons DEF RInv

LEMMA StepRInv == RInv /\ [WorkNext]_workVars => RInv'
<1> SUFFICES ASSUME OInv, Reasons, [WorkNext]_workVars
             PROVE  OInv' /\ Reasons'
  BY DEF RInv
<1>1. OInv' /\ Grows
  BY StepOInv, StepGrows
<1>2. CASE LifeStep
  BY <1>1, <1>2, LifeStepKeepsOrdered, LifeStepKeepsReasons DEF OInv
<1> QED BY <1>1, <1>2, EveryStep, StepsKeepReasons, ServeStepKeepsReasons DEF OInv

\* No job fails by the interplay of correct steps alone: it was failed by the
\* environment, or finds what a failed job has left in tmp/; or it was in the way
\* of a job of its host, or failed by an earlier life of its worker, or by a job it
\* depends on or shares a file with.
THEOREM FailuresHaveReasons == WorkSpec => []AloneSucceeds
<1>1. RInv => AloneSucceeds
  BY DEF RInv, Reasons, ReasonOK, Reason, AloneSucceeds, Ended
<1> QED BY <1>1, InitRInv, StepRInv, PTL DEF WorkSpec

-----------------------------------------------------------------------------
(* What is linked stays linked.                                            *)

\* A job that p has met on its host has a file of the same path.
Clash(p, f) == \E q \in mates[p] : \E g \in SourceFiles[q[2]] : Path[g] = Path[f]

\* f is where the commands of p look for it.
InPlace(p, f) == temp[Host[p[1]]][Path[f]] = f

\* executeJob has linked f for p.
IsLinked(p, f) == \/ stage[p] = "link" /\ f \notin todo[p]
                  \/ stage[p] = "link" /\ f = cur[p] /\ pc[p] = "unlockRead" /\ ok[p]
                  \/ stage[p] \in {"output", "open"}

LinksOK(p) == Active(p) => \A f \in SourceFiles[p[2]] :
                  IsLinked(p, f) => InPlace(p, f) \/ Clash(p, f)

Links == \A p \in Procs : LinksOK(p)

\* A step of p links the file it is about, or none.
LEMMA StepsLink ==
    ASSUME OInv, Reasons, NEW p \in Procs, Steps(p), NEW f \in SourceFiles[p[2]],
           IsLinked(p, f)'
    PROVE  \/ IsLinked(p, f) /\ (temp' = temp \/ f # cur[p])
           \/ InPlace(p, f)'
<1>1. Running(p)
  BY StepsInside DEF OInv
<1>2. /\ InLoop(p) /\ ItemsOK(p) /\ WorkTypes /\ Host[p[1]] \in Hosts /\ f \in Sources /\ TempType
      /\ stage[p] = "link" /\ pc[p] \in ItemPlaces => cur[p] \in todo[p]
  BY <1>1, Known, Sure DEF OInv, Reasons, ItemsOK, Hosts
<1> USE DEF IsLinked
<1>3. CASE FromUnlink(p)
  <2>1. stage[p] = "link" /\ pc[p] = "unlink" /\ cur[p] \in todo[p]
    BY <1>2, <1>3 DEF FromUnlink, ItemsOK, ItemPlaces
  <2>2. /\ stage'[p] = "link" /\ todo'[p] = todo[p] /\ cur'[p] = cur[p]
        /\ pc'[p] = "hardlink" \/ ~ok'[p]
    BY <1>2, <1>3, <2>1 DEF FromUnlink, Stays, Breaks, Becomes, WorkTypes
  <2>3. f \notin todo[p]
    BY <2>2
  <2> QED BY <2>1, <2>3
<1>4. CASE FromHardlink(p)
  <2>1. /\ stage[p] = "link" /\ stage'[p] = "link" /\ todo'[p] = todo[p] /\ cur'[p] = cur[p]
        /\ cur[p] \in todo[p]
    BY <1>2, <1>4 DEF FromHardlink, Stays, Breaks, Becomes, ItemsOK, ItemPlaces
  <2>2. CASE PutLink(p, cur[p])
    <3>1. f = cur[p] => InPlace(p, f)'
      BY <1>2, <2>2 DEF TempType, PutLink, InPlace
    <3> QED BY <2>1, <3>1
  <2>3. CASE temp' = temp /\ Breaks(p, "unlockRead")
    BY <2>1, <2>3 DEF Breaks, Becomes
  <2> QED BY <1>4, <2>2, <2>3 DEF FromHardlink
<1>5. CASE FromNext(p) \/ FromGet(p) \/ FromMkdir(p)
  <2>1. temp' = temp
    BY <1>5 DEF FromNext, FromGet, FromMkdir
  <2>2. IsLinked(p, f)
    BY <1>2, <1>5 DEF FromNext, FromGet, FromMkdir, Stays, Breaks, Becomes, InLoop
  <2> QED BY <2>1, <2>2
<1>6. CASE FromStat(p) \/ FromUnlockRead(p)
  <2>1. temp' = temp
    BY <1>6 DEF FromStat, FromUnlockRead
  <2>2. IsLinked(p, f)
    BY <1>2, <1>6 DEF FromStat, FromUnlockRead, Stays, Breaks, Nexts, Becomes
  <2> QED BY <2>1, <2>2
<1>7. CASE FromRequest(p) \/ FromServe(p) \/ FromCreate(p) \/ FromReceive(p)
  <2>1. temp' = temp
    BY <1>7 DEF FromRequest, FromServe, FromCreate, FromReceive
  <2>2. IsLinked(p, f)
    BY <1>2, <1>7 DEF FromRequest, FromServe, FromCreate, FromReceive, Commits, GivesUp,
       Stumbles, Stays, Breaks, Becomes
  <2> QED BY <2>1, <2>2
<1>8. CASE FromUnlockWrite(p) \/ FromCommand(p) \/ FromRelease(p)
  <2>1. temp' = temp
    BY <1>8 DEF FromUnlockWrite, FromCommand, FromRelease
  <2>2. IsLinked(p, f)
    BY <1>2, <1>8 DEF FromUnlockWrite, FromCommand, FromRelease, Commits, GivesUp,
       Stays, Breaks, Nexts, Becomes, ItemsOK
  <2> QED BY <2>1, <2>2
<1> QED BY <1>3, <1>4, <1>5, <1>6, <1>7, <1>8 DEF Steps

LEMMA StepsKeepLinks ==
    ASSUME OInv, Reasons, Links, NEW p \in Procs, Steps(p), Apart
    PROVE  Links'
<1>1. Active(p) /\ mates' = mates /\ \A q \in Procs \ {p} : pc'[q] = pc[q]
  BY StepsInside DEF OInv, Apart
<1>2. SourceFiles[p[2]] \subseteq Sources /\ p[2] \in Jobs
  BY WorkFacts
<1>3. LinksOK(p)'
  <2> SUFFICES ASSUME NEW f \in SourceFiles[p[2]], IsLinked(p, f)'
               PROVE  InPlace(p, f)' \/ Clash(p, f)'
    BY DEF LinksOK
  <2>1. Clash(p, f) => Clash(p, f)'
    BY <1>1 DEF Clash
  <2>2. IsLinked(p, f) => InPlace(p, f) \/ Clash(p, f)
    BY <1>1 DEF Links, LinksOK
  <2>3. f # cur[p] /\ InPlace(p, f) => InPlace(p, f)'
    <3>1. f # cur[p] /\ cur[p] \in SourceFiles[p[2]] => Path[f] # Path[cur[p]]
      BY <1>2, PathAssumption
    <3> QED BY <1>2, <3>1, StepsKeepTemp DEF InPlace
  <2>4. temp' = temp /\ InPlace(p, f) => InPlace(p, f)'
    BY DEF InPlace
  <2> QED BY <2>1, <2>2, <2>3, <2>4, StepsLink
<1>4. ASSUME NEW q \in Procs, q # p
      PROVE  LinksOK(q)'
  <2> SUFFICES ASSUME Active(q), NEW f \in SourceFiles[q[2]], IsLinked(q, f)
               PROVE  InPlace(q, f)' \/ Clash(q, f)'
    <3>1. /\ pc'[q] = pc[q] /\ stage'[q] = stage[q] /\ todo'[q] = todo[q]
          /\ cur'[q] = cur[q] /\ ok'[q] = ok[q]
      BY <1>4, StepsInside DEF OInv, Frame
    <3> QED BY <3>1 DEF LinksOK, Active, IsLinked
  <2>1. Clash(q, f) => Clash(q, f)'
    BY <1>1 DEF Clash
  <2>2. InPlace(q, f) \/ Clash(q, f)
    BY DEF Links, LinksOK
  <2>3. f \in Sources /\ Host[q[1]] \in Hosts
    BY WorkFacts DEF Hosts
  <2>4. CASE temp'[Host[q[1]]][Path[f]] = temp[Host[q[1]]][Path[f]]
    BY <2>1, <2>2, <2>4 DEF InPlace
  <2>5. CASE temp'[Host[q[1]]][Path[f]] # temp[Host[q[1]]][Path[f]]
    <3>1. Host[p[1]] = Host[q[1]] /\ cur[p] \in SourceFiles[p[2]] /\ Path[f] = Path[cur[p]]
      BY <2>3, <2>5, StepsKeepTemp
    <3>2. p \in mates[q]
      BY <1>1, <1>4, <3>1, Together
    <3>3. Clash(q, f)
      BY <3>1, <3>2 DEF Clash
    <3> QED BY <2>1, <3>3
  <2> QED BY <2>4, <2>5
<1> QED BY <1>3, <1>4 DEF Links

LEMMA OthersKeepLinks ==
    ASSUME OInv, Links, Beside \/ ServeStep
    PROVE  Links'
<1>1. UNCHANGED <<stage, cur, ok, temp>>
  BY DEF Beside, ServeStep, jobVars
<1>2. ASSUME NEW q \in Procs
      PROVE  LinksOK(q)'
  <2> SUFFICES ASSUME Active(q)', NEW f \in SourceFiles[q[2]], IsLinked(q, f)'
               PROVE  InPlace(q, f) \/ Clash(q, f)'
    BY <1>1 DEF LinksOK, InPlace
  <2>1. \/ pc'[q] = pc[q] /\ todo'[q] = todo[q] /\ mates[q] \subseteq mates'[q]
        \/ pc[q] = "picked"
    BY DEF Beside, ServeStep, jobVars, Active
  <2>2. InLoop(q) /\ LinksOK(q)
    BY DEF OInv, WInv, JobOK, Links
  <2>3. CASE pc[q] = "picked"
    <3>1. stage[q] = "deps"
      BY <2>2, <2>3 DEF InLoop
    <3> QED BY <1>1, <3>1 DEF IsLinked
  <2>4. CASE pc'[q] = pc[q] /\ todo'[q] = todo[q] /\ mates[q] \subseteq mates'[q]
    <3>1. Active(q) /\ IsLinked(q, f)
      BY <1>1, <2>4 DEF Active, IsLinked
    <3> QED BY <2>2, <2>4, <3>1 DEF LinksOK, Clash
  <2> QED BY <2>1, <2>3, <2>4
<1> QED BY <1>2 DEF Links

LEMMA InitLinks == WorkInit => Links
BY DEF WorkInit, Links, LinksOK, Active

LEMMA StepLinks == RInv /\ Links /\ [WorkNext]_workVars => Links'
BY EveryStep, StepsKeepLinks, OthersKeepLinks, LifeStepKeepsOrdered DEF RInv, OInv

\* When the commands of a job start, its source files lie where the commands
\* look for them, unless a job that was in runJob on the same host at the same
\* time, on whichever worker, has a file of the same path.
THEOREM InputsAreThere == WorkSpec => []InputsPresent
<1>1. ASSUME OInv, Links, NEW p \in Procs, pc[p] = "command", NEW f \in SourceFiles[p[2]]
      PROVE  InPlace(p, f) \/ Clash(p, f)
  <2>1. Active(p) /\ stage[p] = "open"
    BY <1>1 DEF Active, OInv, WInv, JobOK, InLoop
  <2> QED BY <1>1, <2>1 DEF Links, LinksOK, IsLinked
<1>2. RInv /\ Links => InputsPresent
  BY <1>1 DEF InputsPresent, At, InPlace, Clash, RInv
<1> QED BY <1>2, InitRInv, StepRInv, InitLinks, StepLinks, PTL DEF WorkSpec
=============================================================================
