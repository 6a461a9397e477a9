--------------------------- MODULE ArtifactCache ---------------------------
(***************************************************************************)
(* pkg/artifact/cache.go, which filecache.Cache wraps: the lock maps under *)
(* mu and the directory c/.  A call is split where it leaves mu: between   *)
(* taking a lock, looking at or changing the directory, and releasing it.  *)
(* Entries of several caches may be modelled at once, since two keys share *)
(* nothing but mu.  The directory tmp/<id> of a writer is private to it    *)
(* while it holds the write lock, so the lock stands for it; one that is   *)
(* left behind is found by the next Create of the same identifier.         *)
(***************************************************************************)
EXTENDS Naturals, FiniteSets

CONSTANTS Entries,    \* identifiers, of one cache or of several
          Procs,      \* goroutines that call the cache
          Contents,   \* what an entry may hold
          Absent,     \* the content of an entry that is not in c/
          MayFail     \* which operations of the system may fail

ASSUME AbsentAssumption == Absent \notin Contents
ASSUME ProcsAssumption  == IsFiniteSet(Procs)

VARIABLES disk,         \* disk[e]: the directory of e in c/
          writeLocked,  \* entries in the map writeLocked
          readLocked,   \* readLocked[e]: the counter of e, 0 if there is none
          op,           \* op[g][e]: how far the call of g on e is
          stale         \* entries whose tmp/<id> an earlier call has left

dirVars   == <<disk, stale>>
lockVars  == <<writeLocked, readLocked>>
cacheVars == <<disk, writeLocked, readLocked, op, stale>>

\* c/ outlives the process, the locks and tmp/ do not.
CacheInit == /\ disk \in [Entries -> Contents \cup {Absent}]
             /\ writeLocked = {}
             /\ readLocked = [e \in Entries |-> 0]
             /\ op = [g \in Procs |-> [e \in Entries |-> "idle"]]
             /\ stale = {}

Move(g, e, from, to) == /\ op[g][e] = from
                        /\ op' = [op EXCEPT ![g][e] = to]

-----------------------------------------------------------------------------
(* Get                                                                     *)

\* A fault for ReadRefused: readLock does not look at writeLocked.
NeverRefused(e) == FALSE

\* readLock answers ErrWriteLocked.
ReadRefused(e) == e \in writeLocked

readLock(g, e) == /\ ~ReadRefused(e)
                  /\ Move(g, e, "idle", "stat")
                  /\ readLocked' = [readLocked EXCEPT ![e] = @ + 1]
                  /\ UNCHANGED <<dirVars, writeLocked>>

\* The path and the unlock function are returned.
GetFound(g, e) == /\ disk[e] # Absent
                  /\ Move(g, e, "stat", "reading")
                  /\ UNCHANGED <<dirVars, lockVars>>

Unread(g, e, from) == /\ Move(g, e, from, "idle")
                      /\ readLocked' = [readLocked EXCEPT ![e] = @ - 1]
                      /\ UNCHANGED <<dirVars, writeLocked>>

\* A fault for GetMissing: the lock of a missing artifact is kept.
GetMissingLocked(g, e) == /\ disk[e] = Absent
                          /\ Move(g, e, "stat", "idle")
                          /\ UNCHANGED <<dirVars, lockVars>>

\* ErrNotFound, after readUnlock.
GetMissing(g, e) == disk[e] = Absent /\ Unread(g, e, "stat")

\* os.Stat fails for another reason, and its error is returned; writeLock
\* returns such an error before it changes anything.
StatFails == "stat" \in MayFail

GetFails(g, e) == StatFails /\ Unread(g, e, "stat")

readUnlock(g, e) == Unread(g, e, "reading")

-----------------------------------------------------------------------------
(* Create, commit, abort, Remove                                           *)

\* writeLock answers ErrExists, which it looks for first and Remove does not.
Exists(e) == disk[e] # Absent

\* A fault for Busy: readers do not keep a writer out.
BusyWriting(e) == e \in writeLocked

\* writeLock answers ErrWriteLocked or ErrReadLocked.
Busy(e) == e \in writeLocked \/ readLocked[e] > 0

writeLock(g, e, to) == /\ ~Busy(e)
                       /\ Move(g, e, "idle", to)
                       /\ writeLocked' = writeLocked \cup {e}
                       /\ UNCHANGED <<dirVars, readLocked>>

Create(g, e) == ~Exists(e) /\ writeLock(g, e, "creating")

\* MkdirAll of tmp/<id>, also if it is there; a failure goes on to writeUnlock.
CreateReady(g, e) == Move(g, e, "creating", "writing") /\ UNCHANGED <<dirVars, lockVars>>

CreateFails(g, e) == /\ "mkdir" \in MayFail
                     /\ Move(g, e, "creating", "unlock")
                     /\ UNCHANGED <<dirVars, lockVars>>

\* The rename of tmp/<id> into c/; tmp/<id> stays when it fails.
commit(g, e, c) == /\ Move(g, e, "writing", "unlock")
                   /\ disk' = [disk EXCEPT ![e] = c]
                   /\ stale' = stale \ {e}
                   /\ UNCHANGED lockVars

commitFails(g, e) == /\ "rename" \in MayFail
                     /\ Move(g, e, "writing", "unlock")
                     /\ stale' = stale \cup {e}
                     /\ UNCHANGED <<disk, lockVars>>

\* tmp/<id> is removed, or stays when RemoveAll fails.
abort(g, e) == /\ Move(g, e, "writing", "unlock")
               /\ \/ stale' = stale \ {e}
                  \/ "removeall" \in MayFail /\ stale' = stale \cup {e}
               /\ UNCHANGED <<disk, lockVars>>

Remove(g, e) == writeLock(g, e, "removing")

RemoveFiles(g, e) == /\ Move(g, e, "removing", "unlock")
                     /\ disk' = [disk EXCEPT ![e] = Absent]
                     /\ UNCHANGED <<stale, lockVars>>

RemoveFails(g, e) == /\ "removeall" \in MayFail
                     /\ Move(g, e, "removing", "unlock")
                     /\ UNCHANGED <<dirVars, lockVars>>

\* The deferred writeUnlock of each of them.
writeUnlock(g, e) == /\ Move(g, e, "unlock", "idle")
                     /\ writeLocked' = writeLocked \ {e}
                     /\ UNCHANGED <<dirVars, readLocked>>

-----------------------------------------------------------------------------
ReadStep(g, e) == \/ readLock(g, e) \/ GetFound(g, e) \/ GetMissing(g, e)
                  \/ GetFails(g, e) \/ readUnlock(g, e)

WriteStep(g, e) == \/ Create(g, e) \/ CreateReady(g, e) \/ CreateFails(g, e)
                   \/ \E c \in Contents : commit(g, e, c)
                   \/ commitFails(g, e) \/ abort(g, e)
                   \/ Remove(g, e) \/ RemoveFiles(g, e) \/ RemoveFails(g, e)
                   \/ writeUnlock(g, e)

CacheNext == \E g \in Procs, e \in Entries : ReadStep(g, e) \/ WriteStep(g, e)

CacheSpec == CacheInit /\ [][CacheNext]_cacheVars

-----------------------------------------------------------------------------
(* Properties                                                              *)

Readers(e) == {g \in Procs : op[g][e] \in {"stat", "reading"}}
Writers(e) == {g \in Procs : op[g][e] \in {"creating", "writing", "removing", "unlock"}}

CacheTypeOK ==
    /\ disk \in [Entries -> Contents \cup {Absent}]
    /\ writeLocked \subseteq Entries /\ readLocked \in [Entries -> Nat]
    /\ stale \subseteq Entries
    /\ op \in [Procs -> [Entries -> {"idle", "stat", "reading", "creating",
                                     "writing", "removing", "unlock"}]]

\* The maps say exactly who is inside, whichever call failed where: the count
\* of readers is their number, at most one goroutine writes, and nobody reads
\* then; what is being read is there, what is being written is not yet there.
CacheOK ==
    /\ CacheTypeOK
    /\ \A e \in Entries :
           /\ readLocked[e] = Cardinality(Readers(e))
           /\ e \in writeLocked <=> Writers(e) # {}
           /\ \A g, h \in Writers(e) : g = h
           /\ Readers(e) = {} \/ Writers(e) = {}
           /\ \A g \in Procs : op[g][e] = "reading" => disk[e] # Absent
           /\ \A g \in Procs : op[g][e] \in {"creating", "writing"} => disk[e] = Absent

\* Between Get and its unlock the directory a goroutine was given is neither
\* removed nor replaced.
ReadersUndisturbed ==
    [][\A g \in Procs, e \in Entries : op[g][e] = "reading" => disk'[e] = disk[e]]_cacheVars

Store == INSTANCE ArtifactStore WITH
    content <- disk,
    readers <- [e \in Entries |-> {g \in Procs : op[g][e] = "reading"}],
    writers <- [e \in Entries |-> {g \in Procs : op[g][e] \in {"creating", "writing"}}]

\* Every call is a step of the abstract store or changes nothing it can see.
ImplementsStore == Store!StoreSpec
=============================================================================
