------------------------------- MODULE Files -------------------------------
(***************************************************************************)
(* The file cache of the coordinator: pkg/filecache over ArtifactCache.    *)
(* Its users are the goroutines of PUT and GET /file and the watchers of   *)
(* SignalBuild, which remove the sources of a finished job.  Files share   *)
(* no state but mutexes, so the requests here are all about one File.      *)
(***************************************************************************)
EXTENDS ArtifactCache

CONSTANTS Puts, Gets,  \* requests, each with its goroutine
          Removers,    \* watchers
          File,        \* the file they are about
          Old,         \* the content an earlier build or process left
          Nobody       \* no leader, no answer yet

ASSUME RequestsAssumption == /\ Procs = Puts \cup Gets \cup Removers
                             /\ Puts \cap Gets = {} /\ Puts \cap Removers = {}
                             /\ Gets \cap Removers = {}
ASSUME FileAssumption == File \in Entries
ASSUME FileContentsAssumption == Contents = Puts \cup {Old}

VARIABLES pc,       \* pc[p]: where goroutine p is in its handler
          key,      \* the channel KeyLocker keeps for File: "free" or "held"
          leader,   \* the GET that runs the function of singleflight
          answer,   \* answer[p]: "ok", "error", the content a GET was sent, ...
          tries     \* tries[p]: how often a PUT came back to start

fileVars == <<cacheVars, pc, key, leader, answer, tries>>

FilesInit == /\ CacheInit
             /\ disk[File] \in {Absent, Old}
             /\ pc = [p \in Procs |-> "new"]
             /\ key = "free"
             /\ leader = Nobody
             /\ answer = [p \in Procs |-> Nobody]
             /\ tries = [p \in Puts |-> 0]

At(p, s) == pc[p] = s
Goto(p, s) == pc' = [pc EXCEPT ![p] = s]
Answer(p, a, s) == answer' = [answer EXCEPT ![p] = a] /\ Goto(p, s)

-----------------------------------------------------------------------------
(* handlePut                                                               *)

\* A fault for KeyFree: nobody waits for the key.
KeyIgnored == TRUE

\* KeyLocker.Lock: the send on the key's channel of capacity one gets through.
KeyFree == key = "free"

PutLock(p) == /\ At(p, "new") /\ KeyFree
              /\ key' = "held"
              /\ Goto(p, "start")
              /\ UNCHANGED <<cacheVars, leader, answer, tries>>

\* Cache.Write takes the write lock.
PutWrite(p) == /\ At(p, "start") /\ Create(p, File)
               /\ Goto(p, "mkdir")
               /\ UNCHANGED <<key, leader, answer, tries>>

PutExists(p) == /\ At(p, "start") /\ Exists(File)
                /\ tries' = [tries EXCEPT ![p] = @ + 1]
                /\ Goto(p, "remove")
                /\ UNCHANGED <<cacheVars, key, leader, answer>>

\* A fault for PutRefused: the key stays locked on this way out.
PutRefusedKeepsKey(p) == /\ \/ At(p, "start") /\ ~Exists(File)
                            \/ At(p, "remove")
                         /\ Busy(File)
                         /\ Answer(p, "error", "done")
                         /\ UNCHANGED <<cacheVars, key, leader, tries>>

\* Write or Remove finds the file locked, or its os.Stat fails.
PutRefused(p) == /\ \/ At(p, "start") /\ ~Exists(File) /\ Busy(File)
                    \/ At(p, "remove") /\ Busy(File)
                    \/ pc[p] \in {"start", "remove"} /\ StatFails
                 /\ Answer(p, "error", "return")
                 /\ UNCHANGED <<cacheVars, key, leader, tries>>

\* The file exists: it is removed, and the PUT goes back to start.
PutRemove(p) == /\ At(p, "remove") /\ Remove(p, File)
                /\ Goto(p, "removing")
                /\ UNCHANGED <<key, leader, answer, tries>>

PutRemoved(p) == /\ At(p, "removing")
                 /\ \/ RemoveFiles(p, File) /\ Goto(p, "restart") /\ UNCHANGED answer
                    \/ RemoveFails(p, File) /\ Answer(p, "error", "unlock")
                 /\ UNCHANGED <<key, leader, tries>>

PutRestart(p) == /\ At(p, "restart") /\ writeUnlock(p, File)
                 /\ Goto(p, "start")
                 /\ UNCHANGED <<key, leader, answer, tries>>

PutMkdir(p) == /\ At(p, "mkdir")
               /\ \/ CreateReady(p, File) /\ Goto(p, "create") /\ UNCHANGED answer
                  \/ CreateFails(p, File) /\ Answer(p, "error", "unlock")
               /\ UNCHANGED <<key, leader, tries>>

\* os.Create; when it fails, the abort that Write calls is nil: the panic
\* ends the request, the deferred unlock of the key runs, the write lock stays.
PutCreate(p) == /\ At(p, "create")
                /\ \/ Goto(p, "copy") /\ UNCHANGED answer
                   \/ "create" \in MayFail /\ Answer(p, "panic", "return")
                /\ UNCHANGED <<cacheVars, key, leader, tries>>

\* io.Copy and Close: the body arrives, or the client leaves in the middle of
\* it.  When Close fails the file may be there all the same: it always commits.
PutCopy(p) == /\ At(p, "copy")
              /\ \/ commit(p, File, p) /\ Answer(p, "ok", "unlock")
                 \/ abort(p, File) /\ Answer(p, "error", "unlock")
                 \/ /\ ("close" \in MayFail /\ commit(p, File, p)) \/ commitFails(p, File)
                    /\ Answer(p, "closeError", "closed")
              /\ UNCHANGED <<key, leader, tries>>

\* The commit that failed, or came after an f.Close that failed, unlocks.
PutClosed(p) == /\ At(p, "closed") /\ writeUnlock(p, File)
                /\ Goto(p, "abort")
                /\ UNCHANGED <<key, leader, answer, tries>>

\* The deferred abort of handlePut removes what is in tmp/ and unlocks again,
\* whoever has the lock now.
PutAbort(p) == /\ At(p, "abort")
               /\ writeLocked' = writeLocked \ {File}
               /\ \/ stale' = stale \ {File}
                  \/ "removeall" \in MayFail /\ UNCHANGED stale
               /\ Goto(p, "return")
               /\ UNCHANGED <<disk, readLocked, op, key, leader, answer, tries>>

PutUnlock(p) == /\ At(p, "unlock") /\ writeUnlock(p, File)
                /\ Goto(p, "return")
                /\ UNCHANGED <<key, leader, answer, tries>>

\* KeyLocker.Unlock: the receive takes the token out.
PutReturn(p) == /\ At(p, "return") /\ key = "held"
                /\ key' = "free"
                /\ Goto(p, "done")
                /\ UNCHANGED <<cacheVars, leader, answer, tries>>

-----------------------------------------------------------------------------
(* handleGet                                                               *)

\* singleflight.Do: the first caller runs the function, others join it.
GetDo(p) == /\ At(p, "new")
            /\ IF leader = Nobody
                 THEN leader' = p /\ Goto(p, "get")
                 ELSE Goto(p, "joined") /\ UNCHANGED leader
            /\ UNCHANGED <<cacheVars, key, answer, tries>>

GetLock(p) == /\ At(p, "get")
              /\ \/ readLock(p, File) /\ Goto(p, "stat") /\ UNCHANGED answer
                 \/ /\ ReadRefused(File) /\ Answer(p, "error", "land")
                    /\ UNCHANGED cacheVars
              /\ UNCHANGED <<key, leader, tries>>

GetStat(p) == /\ At(p, "stat")
              /\ \/ GetFound(p, File) /\ Goto(p, "send") /\ UNCHANGED answer
                 \/ /\ GetMissing(p, File) \/ GetFails(p, File)
                    /\ Answer(p, "error", "land")
              /\ UNCHANGED <<key, leader, tries>>

\* A fault for GetSend: an error returns before the unlock is deferred.
GetSendNoDefer(p) == /\ At(p, "send")
                     /\ \/ readUnlock(p, File) /\ Answer(p, disk[File], "land")
                        \/ Answer(p, "error", "land") /\ UNCHANGED cacheVars
                     /\ UNCHANGED <<key, leader, tries>>

\* The file is sent to the leader's client, or cannot be opened or sent; the
\* deferred unlock runs.
GetSend(p) == /\ At(p, "send") /\ readUnlock(p, File)
              /\ \E a \in {disk[File], "error"} : Answer(p, a, "land")
              /\ UNCHANGED <<key, leader, tries>>

\* A fault for GetLand: those who joined do not look at the leader's error.
GetLandIgnored(p) ==
    LET joined == {q \in Gets : At(q, "joined")}
    IN  /\ At(p, "land")
        /\ leader' = Nobody
        /\ pc' = [q \in Procs |-> IF q \in joined \cup {p} THEN "done" ELSE pc[q]]
        /\ answer' = [q \in Procs |-> IF q \in joined THEN "empty" ELSE answer[q]]
        /\ UNCHANGED <<cacheVars, key, tries>>

\* The call ends for everybody who joined it: they share the error of the
\* leader, or answer with status 200 and nothing.
GetLand(p) ==
    LET joined == {q \in Gets : At(q, "joined")}
    IN  /\ At(p, "land")
        /\ leader' = Nobody
        /\ pc' = [q \in Procs |-> IF q \in joined \cup {p} THEN "done" ELSE pc[q]]
        /\ answer' = [q \in Procs |->
              IF q \in joined THEN IF answer[p] = "error" THEN "error" ELSE "empty"
                              ELSE answer[q]]
        /\ UNCHANGED <<cacheVars, key, tries>>

-----------------------------------------------------------------------------
(* removeSourceFiles, in a watcher of SignalBuild                          *)

WatcherRemove(r) == /\ At(r, "new")
                    /\ \/ Remove(r, File) /\ Goto(r, "removing")
                       \/ (Busy(File) \/ StatFails) /\ Goto(r, "done") /\ UNCHANGED cacheVars
                    /\ UNCHANGED <<key, leader, answer, tries>>

WatcherRemoved(r) == /\ At(r, "removing")
                     /\ RemoveFiles(r, File) \/ RemoveFails(r, File)
                     /\ Goto(r, "unlock")
                     /\ UNCHANGED <<key, leader, answer, tries>>

WatcherUnlock(r) == /\ At(r, "unlock") /\ writeUnlock(r, File)
                    /\ Goto(r, "done")
                    /\ UNCHANGED <<key, leader, answer, tries>>

-----------------------------------------------------------------------------
PutStep(p) == \/ PutLock(p) \/ PutWrite(p) \/ PutExists(p) \/ PutRefused(p)
              \/ PutRemove(p) \/ PutRemoved(p) \/ PutRestart(p) \/ PutMkdir(p)
              \/ PutCreate(p) \/ PutCopy(p) \/ PutClosed(p) \/ PutAbort(p)
              \/ PutUnlock(p) \/ PutReturn(p)

GetStep(p) == GetDo(p) \/ GetLock(p) \/ GetStat(p) \/ GetSend(p) \/ GetLand(p)

WatcherStep(r) == WatcherRemove(r) \/ WatcherRemoved(r) \/ WatcherUnlock(r)

FilesNext == \/ \E p \in Puts : PutStep(p)
             \/ \E p \in Gets : GetStep(p)
             \/ \E r \in Removers : WatcherStep(r)

FilesSpec == FilesInit /\ [][FilesNext]_fileVars

\* Goroutines run while they can, and clients either send or leave.
FairFilesSpec == /\ FilesSpec
                 /\ \A p \in Puts : WF_fileVars(PutStep(p))
                 /\ \A p \in Gets : WF_fileVars(GetStep(p))
                 /\ \A r \in Removers : WF_fileVars(WatcherStep(r))

-----------------------------------------------------------------------------
(* Properties                                                              *)

\* "goto start //! one-shot": between a PUT's own Remove and its second Write
\* nobody else creates the file, so no PUT goes round twice.
OneShot == \A p \in Puts : tries[p] <= 1

\* Uploads of one file never refuse each other, as the test ConcurrentUpload
\* asks for: a PUT fails only for a reader, a watcher, the file system or its
\* client, or because the panic of another one left the write lock behind.
UploadsTakeTurns ==
    \A p, q \in Puts :
        p # q /\ pc[p] \in {"start", "remove"} =>
            op[q][File] = "idle" \/ answer[q] = "panic"

\* A handler that is over holds nothing, however it ended; the exception is
\* the write lock of a PUT that panicked.
HandlersLeaveNothing ==
    /\ \A p \in Procs : At(p, "done") /\ answer[p] # "panic" => op[p][File] = "idle"
    /\ (\A p \in Puts : pc[p] \in {"new", "done"}) => key = "free"

\* Every request gets an answer and every watcher gets on.
EveryRequestEnds == \A p \in Procs : <>At(p, "done")

\* "Nobody else can work with an artifact that is locked for writing": a
\* goroutine that writes or removes the file is alone with it, until an upload
\* whose Close failed has unlocked the file a second time.
AloneUnlessCloseFailed ==
    \/ \E p \in Puts : answer[p] = "closeError" /\ pc[p] \in {"return", "done"}
    \/ \A g \in Writers(File) : Writers(File) = {g} /\ Readers(File) = {}

\* A GET that is over was sent the content of one upload, or refused; only one
\* that joined a GET with such an answer was sent nothing and status 200.
GetsAreServed ==
    \A p \in Gets : At(p, "done") =>
        \/ answer[p] \in Contents \cup {"error"}
        \/ answer[p] = "empty" /\ \E q \in Gets : answer[q] \in Contents
=============================================================================
