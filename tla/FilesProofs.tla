---------------------------- MODULE FilesProofs ----------------------------
(***************************************************************************)
(* Proofs about the file cache for any finite number of requests.          *)
(*                                                                         *)
(* As long as Close does not fail, its handlers do nothing to the cache    *)
(* but call it, so what is proved of the cache holds here.  The rest holds *)
(* whatever fails: that the uploads take turns needs the key, of which at  *)
(* most one PUT is between Lock and Unlock, and where it is says which     *)
(* lock of the cache it took.  That a PUT goes round once needs both:      *)
(* while it has the key nobody else can create the file that it removed.   *)
(***************************************************************************)
EXTENDS Files, ArtifactCacheProofs

\* Where a goroutine may be, and what it then does in the cache.
FilePlaces == {"new", "start", "mkdir", "create", "copy", "remove", "removing", "restart",
               "closed", "abort", "unlock", "return", "done", "get", "joined", "stat", "send", "land"}

Doing(p) == CASE pc[p] = "mkdir"                -> "creating"
              [] pc[p] \in {"create", "copy"}   -> "writing"
              [] pc[p] = "removing"             -> "removing"
              [] pc[p] \in {"unlock", "restart", "closed"} -> "unlock"
              [] pc[p] = "stat"                 -> "stat"
              [] pc[p] = "send"                 -> "reading"
              [] OTHER                          -> "idle"

\* The PUT p is between Lock and Unlock of the key.
HasKey(p) == pc[p] \notin {"new", "done"}

FileTypes == /\ pc \in [Procs -> FilePlaces]
             /\ answer = [p \in Procs |-> answer[p]]
             /\ tries \in [Puts -> Nat]
             /\ key \in {"free", "held"}

\* The lock a goroutine has is the one its place says, but for the write lock
\* that a panic leaves.
LocksAsPlaced == \A p \in Procs :
    \/ op[p][File] = Doing(p)
    \/ p \in Puts /\ answer[p] = "panic" /\ pc[p] \in {"return", "done"}

OneKey == /\ key = "held" <=> \E p \in Puts : HasKey(p)
          /\ \A p, q \in Puts : HasKey(p) /\ HasKey(q) => p = q

\* A PUT that has been round is not again before a file that exists.
RoundOnce == \A p \in Puts :
    /\ pc[p] = "new" => tries[p] = 0
    /\ tries[p] <= 1
    /\ pc[p] \in {"start", "restart"} /\ tries[p] = 1 => disk[File] = Absent

CallTypes == /\ disk \in [Entries -> Contents \cup {Absent}]
             /\ op \in [Procs -> [Entries -> Places]]

FInv == CallTypes /\ FileTypes /\ LocksAsPlaced /\ OneKey /\ RoundOnce

-----------------------------------------------------------------------------
\* What the handlers do to the cache is a call of it, but for the second
\* unlock of a PUT whose Close failed.
LEMMA HandlersCallCache ==
    FilesNext => CacheNext \/ UNCHANGED cacheVars \/ \E p \in Puts : PutAbort(p)
<1> SUFFICES ASSUME FilesNext, ~UNCHANGED cacheVars, ~\E p \in Puts : PutAbort(p)
             PROVE  CacheNext
  OBVIOUS
<1>1. PICK p \in Procs : \/ p \in Puts /\ PutStep(p)
                         \/ p \in Gets /\ GetStep(p)
                         \/ p \in Removers /\ WatcherStep(p)
  BY RequestsAssumption DEF FilesNext
<1>2. File \in Entries /\ (p \in Puts => p \in Contents)
  BY FileAssumption, FileContentsAssumption
<1>3. ReadStep(p, File) \/ WriteStep(p, File)
  <2>1. CASE p \in Puts /\ PutStep(p)
    BY <1>2, <2>1 DEF PutStep, PutLock, PutWrite, PutExists, PutRefused, PutRemove,
       PutRemoved, PutRestart, PutMkdir, PutCreate, PutCopy, PutClosed, PutUnlock,
       PutReturn, WriteStep
  <2>2. CASE p \in Gets /\ GetStep(p)
    BY <2>2 DEF GetStep, GetDo, GetLock, GetStat, GetSend, GetLand, ReadStep
  <2>3. CASE p \in Removers /\ WatcherStep(p)
    BY <2>3 DEF WatcherStep, WatcherRemove, WatcherRemoved, WatcherUnlock, WriteStep
  <2> QED BY <1>1, <2>1, <2>2, <2>3
<1> QED BY <1>2, <1>3 DEF CacheNext

\* A call leaves contents in the directory and goroutines in their places.
LEMMA CallsTyped ==
    ASSUME CallTypes, FilesNext
    PROVE  CallTypes'
<1>1. CASE CacheNext
  <2>1. PICK g \in Procs, e \in Entries : ReadStep(g, e) \/ WriteStep(g, e)
    BY <1>1 DEF CacheNext
  <2>2. \E from, to \in Places : Move(g, e, from, to)
    BY <2>1 DEF ReadStep, WriteStep, readLock, GetFound, GetMissing, GetFails, readUnlock,
       Unread, Create, Remove, writeLock, CreateReady, CreateFails, commit, commitFails, abort,
       RemoveFiles, RemoveFails, writeUnlock, dirVars, Places, Reads, Writes
  <2>3. \E c \in Contents \cup {Absent} : disk' \in {disk, [disk EXCEPT ![e] = c]}
    BY <2>1 DEF ReadStep, WriteStep, readLock, GetFound, GetMissing, GetFails, readUnlock,
       Unread, Create, Remove, writeLock, CreateReady, CreateFails, commit, commitFails, abort,
       RemoveFiles, RemoveFails, writeUnlock, dirVars
  <2> QED BY <2>2, <2>3 DEF CallTypes, Move
<1>2. CASE UNCHANGED cacheVars
  BY <1>2 DEF CallTypes, cacheVars
<1>3. CASE \E p \in Puts : PutAbort(p)
  BY <1>3 DEF CallTypes, PutAbort
<1> QED BY <1>1, <1>2, <1>3, HandlersCallCache

-----------------------------------------------------------------------------
\* One goroutine goes on to the place s: what it must show for FInv.
LEMMA GoesOn ==
    ASSUME FInv, CallTypes', NEW p \in Procs, NEW s \in FilePlaces \ {"new"},
           pc' = [pc EXCEPT ![p] = s],
           \A q \in Procs \ {p} : op'[q][File] = op[q][File],
           \/ op'[p][File] = Doing(p)'
           \/ p \in Puts /\ answer'[p] = "panic" /\ s \in {"return", "done"},
           answer' = [q \in Procs |-> answer'[q]],
           \A q \in Puts \ {p} : answer'[q] = answer[q],
           tries' \in [Puts -> Nat],
           \A q \in Puts \ {p} : tries'[q] = tries[q],
           \/ key' = key /\ (p \in Puts => (HasKey(p) <=> s # "done"))
           \/ p \in Puts /\ key = "free" /\ key' = "held" /\ s # "done"
           \/ p \in Puts /\ HasKey(p) /\ s = "done" /\ key' = "free",
           \/ disk'[File] = disk[File]
           \/ disk'[File] = Absent
           \/ p \in Puts /\ HasKey(p),
           p \in Puts => /\ tries'[p] <= 1
                         /\ s \in {"start", "restart"} /\ tries'[p] = 1 => disk'[File] = Absent
    PROVE  FInv'
<1>1. /\ pc \in [Procs -> FilePlaces] /\ key \in {"free", "held"}
      /\ Puts \subseteq Procs
  BY RequestsAssumption DEF FInv, FileTypes
<1>2. pc'[p] = s /\ \A q \in Procs \ {p} : pc'[q] = pc[q]
  BY <1>1
<1>3. FileTypes'
  BY <1>1 DEF FileTypes
<1>4. LocksAsPlaced'
  <2> SUFFICES ASSUME NEW q \in Procs \ {p}
               PROVE  \/ op'[q][File] = Doing(q)'
                      \/ q \in Puts /\ answer'[q] = "panic" /\ pc'[q] \in {"return", "done"}
    BY <1>2 DEF LocksAsPlaced
  <2>1. Doing(q)' = Doing(q)
    BY <1>2 DEF Doing
  <2>2. \/ op[q][File] = Doing(q)
        \/ q \in Puts /\ answer[q] = "panic" /\ pc[q] \in {"return", "done"}
    BY DEF FInv, LocksAsPlaced
  <2> QED BY <1>2, <2>1, <2>2
<1>5. OneKey'
  <2>1. /\ \A q \in Puts \ {p} : HasKey(q)' <=> HasKey(q)
        /\ HasKey(p)' <=> s # "done"
    BY <1>1, <1>2 DEF HasKey
  <2> QED BY <1>1, <2>1 DEF FInv, OneKey
<1>6. RoundOnce'
  <2> SUFFICES ASSUME NEW q \in Puts
               PROVE  /\ pc'[q] = "new" => tries'[q] = 0
                      /\ tries'[q] <= 1
                      /\ pc'[q] \in {"start", "restart"} /\ tries'[q] = 1 => disk'[File] = Absent
    BY DEF RoundOnce
  <2>1. CASE q = p
    BY <1>2, <2>1
  <2>2. CASE q # p
    <3>1. pc[q] \in {"start", "restart"} /\ p \in Puts => ~HasKey(p)
      BY <2>2 DEF FInv, OneKey, HasKey
    <3> QED BY <1>1, <1>2, <2>2, <3>1 DEF FInv, RoundOnce
  <2> QED BY <2>1, <2>2
<1> QED BY <1>3, <1>4, <1>5, <1>6 DEF FInv

\* A call of the cache by p about File moves nobody else.
LEMMA Called ==
    ASSUME CallTypes, NEW p \in Procs, NEW from, NEW to \in Places, Move(p, File, from, to)
    PROVE  op'[p][File] = to /\ \A q \in Procs \ {p} : op'[q][File] = op[q][File]
BY FileAssumption DEF CallTypes, Move

\* The steps of a PUT, which has the key from its Lock to its Unlock.
LEMMA PutKeeps ==
    ASSUME FInv, CallTypes', NEW p \in Puts, PutStep(p)
    PROVE  FInv'
<1> /\ CallTypes /\ p \in Procs
    /\ pc \in [Procs -> FilePlaces] /\ answer = [q \in Procs |-> answer[q]]
    /\ tries \in [Puts -> Nat] /\ key \in {"free", "held"}
    /\ disk \in [Entries -> Contents \cup {Absent}] /\ File \in Entries
    /\ \/ op[p][File] = Doing(p)
       \/ answer[p] = "panic" /\ pc[p] \in {"return", "done"}
    /\ pc[p] = "new" => tries[p] = 0
    /\ tries[p] <= 1
    /\ pc[p] \in {"start", "restart"} /\ tries[p] = 1 => disk[File] = Absent
  BY RequestsAssumption, FileAssumption
     DEF FInv, FileTypes, LocksAsPlaced, RoundOnce, CallTypes
<1> USE DEF At, Goto, Answer
<1>1. CASE PutLock(p)
  <2>1. /\ pc[p] = "new" /\ pc' = [pc EXCEPT ![p] = "start"]
        /\ key = "free" /\ key' = "held" /\ UNCHANGED <<disk, op, answer, tries>>
    BY <1>1 DEF PutLock, KeyFree, cacheVars
  <2>2. op'[p][File] = Doing(p)'
    BY <2>1 DEF Doing
  <2>3. tries'[p] = 0 /\ "start" \in FilePlaces \ {"new"}
    BY <2>1 DEF FilePlaces
  <2>4. /\ \A q \in Procs \ {p} : op'[q][File] = op[q][File]
        /\ answer' = [q \in Procs |-> answer'[q]]
        /\ \A q \in Puts \ {p} : answer'[q] = answer[q]
        /\ tries' \in [Puts -> Nat]
        /\ \A q \in Puts \ {p} : tries'[q] = tries[q]
    BY <2>1
  <2>5. /\ disk'[File] = disk[File] /\ "start" # "done"
        /\ tries'[p] <= 1 /\ (tries'[p] = 1 => FALSE)
    BY <2>1, <2>3
  <2>6. "start" \in FilePlaces \ {"new"} /\ pc' = [pc EXCEPT ![p] = "start"]
    BY <2>1, <2>3
  <2>7. key = "free" /\ key' = "held"
    BY <2>1
  <2> QED BY ONLY <2>2, <2>4, <2>5, <2>6, <2>7, GoesOn, FInv, CallTypes', p \in Puts, p \in Procs
<1>2. CASE PutWrite(p)
  <2>1. /\ pc[p] = "start" /\ pc' = [pc EXCEPT ![p] = "mkdir"]
        /\ key' = key /\ tries' = tries /\ UNCHANGED answer /\ UNCHANGED disk
    BY <1>2 DEF PutWrite, Create, writeLock, dirVars
  <2>2. op'[p][File] = "creating" /\ \A q \in Procs \ {p} : op'[q][File] = op[q][File]
    BY <1>2, Called DEF PutWrite, Create, writeLock, Places, Reads, Writes
  <2>3. Doing(p)' = "creating"
    BY <2>1 DEF Doing
  <2> QED BY <2>1, <2>2, <2>3, GoesOn DEF HasKey, FilePlaces
<1>3. CASE PutExists(p)
  <2>1. /\ pc[p] = "start" /\ pc' = [pc EXCEPT ![p] = "remove"]
        /\ disk[File] # Absent /\ tries' = [tries EXCEPT ![p] = @ + 1]
        /\ UNCHANGED <<key, disk, op, answer>>
    BY <1>3 DEF PutExists, Exists, cacheVars
  <2>2. op'[p][File] = Doing(p)'
    BY <2>1 DEF Doing
  <2>3. /\ tries[p] = 0 /\ tries'[p] = 1 /\ tries' \in [Puts -> Nat]
        /\ \A q \in Puts \ {p} : tries'[q] = tries[q]
    BY <2>1
  <2>4. /\ \A q \in Procs \ {p} : op'[q][File] = op[q][File]
        /\ answer' = [q \in Procs |-> answer'[q]]
        /\ \A q \in Puts \ {p} : answer'[q] = answer[q]
    BY <2>1
  <2>5. /\ disk'[File] = disk[File] /\ key' = key
        /\ tries'[p] <= 1 /\ "remove" \notin {"start", "restart", "done"}
    BY <2>1, <2>3
  <2>6. "remove" \in FilePlaces \ {"new"} /\ pc' = [pc EXCEPT ![p] = "remove"]
    BY <2>1 DEF FilePlaces
  <2>7. HasKey(p)
    BY <2>1 DEF HasKey
  <2> QED BY ONLY <2>2, <2>3, <2>4, <2>5, <2>6, <2>7, GoesOn,
                  FInv, CallTypes', p \in Puts, p \in Procs
<1>4. CASE PutRefused(p)
  <2>1. /\ pc[p] \in {"start", "remove"} /\ pc' = [pc EXCEPT ![p] = "return"]
        /\ answer' = [answer EXCEPT ![p] = "error"]
        /\ UNCHANGED <<key, disk, op, tries>>
    BY <1>4 DEF PutRefused, cacheVars
  <2>2. Doing(p)' = Doing(p)
    BY <2>1 DEF Doing
  <2>3. answer' = [q \in Procs |-> answer'[q]] /\ \A q \in Puts \ {p} : answer'[q] = answer[q]
    BY <2>1
  <2> QED BY <2>1, <2>2, <2>3, GoesOn DEF HasKey, FilePlaces
<1>5. CASE PutRemove(p)
  <2>1. /\ pc[p] = "remove" /\ pc' = [pc EXCEPT ![p] = "removing"]
        /\ key' = key /\ tries' = tries /\ UNCHANGED answer /\ UNCHANGED disk
    BY <1>5 DEF PutRemove, Remove, writeLock, dirVars
  <2>2. op'[p][File] = "removing" /\ \A q \in Procs \ {p} : op'[q][File] = op[q][File]
    BY <1>5, Called DEF PutRemove, Remove, writeLock, Places, Reads, Writes
  <2>3. Doing(p)' = "removing"
    BY <2>1 DEF Doing
  <2> QED BY <2>1, <2>2, <2>3, GoesOn DEF HasKey, FilePlaces
<1>6. CASE PutRemoved(p)
  <2>1. /\ pc[p] = "removing" /\ UNCHANGED <<key, tries>>
        /\ \/ RemoveFiles(p, File) /\ Goto(p, "restart") /\ UNCHANGED answer
           \/ RemoveFails(p, File) /\ Answer(p, "error", "unlock")
    BY <1>6 DEF PutRemoved
  <2>2. CASE RemoveFiles(p, File) /\ Goto(p, "restart") /\ UNCHANGED answer
    <3>1. /\ pc' = [pc EXCEPT ![p] = "restart"] /\ disk'[File] = Absent
          /\ answer' = [q \in Procs |-> answer'[q]]
          /\ \A q \in Puts \ {p} : answer'[q] = answer[q]
      BY <2>2 DEF RemoveFiles
    <3>2. op'[p][File] = "unlock" /\ \A q \in Procs \ {p} : op'[q][File] = op[q][File]
      BY <2>2, Called DEF RemoveFiles, Places, Reads, Writes
    <3>3. Doing(p)' = "unlock"
      BY <3>1 DEF Doing
    <3> QED BY <2>1, <3>1, <3>2, <3>3, GoesOn DEF HasKey, FilePlaces
  <2>3. CASE RemoveFails(p, File) /\ Answer(p, "error", "unlock")
    <3>1. /\ pc' = [pc EXCEPT ![p] = "unlock"] /\ disk' = disk
          /\ answer' = [q \in Procs |-> answer'[q]]
          /\ \A q \in Puts \ {p} : answer'[q] = answer[q]
      BY <2>3 DEF RemoveFails, dirVars
    <3>2. op'[p][File] = "unlock" /\ \A q \in Procs \ {p} : op'[q][File] = op[q][File]
      BY <2>3, Called DEF RemoveFails, Places, Reads, Writes
    <3>3. Doing(p)' = "unlock"
      BY <3>1 DEF Doing
    <3> QED BY <2>1, <3>1, <3>2, <3>3, GoesOn DEF HasKey, FilePlaces
  <2> QED BY <2>1, <2>2, <2>3
<1>7. CASE PutRestart(p)
  <2>1. /\ pc[p] = "restart" /\ pc' = [pc EXCEPT ![p] = "start"]
        /\ key' = key /\ tries' = tries /\ UNCHANGED answer /\ UNCHANGED disk
    BY <1>7 DEF PutRestart, writeUnlock, dirVars
  <2>2. op'[p][File] = "idle" /\ \A q \in Procs \ {p} : op'[q][File] = op[q][File]
    BY <1>7, Called DEF PutRestart, writeUnlock, Places, Reads, Writes
  <2>3. Doing(p)' = "idle"
    BY <2>1 DEF Doing
  <2> QED BY <2>1, <2>2, <2>3, GoesOn DEF HasKey, FilePlaces
<1>8. CASE PutMkdir(p)
  <2>1. /\ pc[p] = "mkdir" /\ UNCHANGED <<key, tries>>
        /\ \/ CreateReady(p, File) /\ Goto(p, "create") /\ UNCHANGED answer
           \/ CreateFails(p, File) /\ Answer(p, "error", "unlock")
    BY <1>8 DEF PutMkdir
  <2>2. CASE CreateReady(p, File) /\ Goto(p, "create") /\ UNCHANGED answer
    <3>1. /\ pc' = [pc EXCEPT ![p] = "create"] /\ disk' = disk
          /\ answer' = [q \in Procs |-> answer'[q]]
          /\ \A q \in Puts \ {p} : answer'[q] = answer[q]
      BY <2>2 DEF CreateReady, dirVars
    <3>2. op'[p][File] = "writing" /\ \A q \in Procs \ {p} : op'[q][File] = op[q][File]
      BY <2>2, Called DEF CreateReady, Places, Reads, Writes
    <3>3. Doing(p)' = "writing"
      BY <3>1 DEF Doing
    <3> QED BY <2>1, <3>1, <3>2, <3>3, GoesOn DEF HasKey, FilePlaces
  <2>3. CASE CreateFails(p, File) /\ Answer(p, "error", "unlock")
    <3>1. /\ pc' = [pc EXCEPT ![p] = "unlock"] /\ disk' = disk
          /\ answer' = [q \in Procs |-> answer'[q]]
          /\ \A q \in Puts \ {p} : answer'[q] = answer[q]
      BY <2>3 DEF CreateFails, dirVars
    <3>2. op'[p][File] = "unlock" /\ \A q \in Procs \ {p} : op'[q][File] = op[q][File]
      BY <2>3, Called DEF CreateFails, Places, Reads, Writes
    <3>3. Doing(p)' = "unlock"
      BY <3>1 DEF Doing
    <3> QED BY <2>1, <3>1, <3>2, <3>3, GoesOn DEF HasKey, FilePlaces
  <2> QED BY <2>1, <2>2, <2>3
<1>9. CASE PutCreate(p)
  <2>1. /\ pc[p] = "create" /\ UNCHANGED <<key, tries, disk, op>>
        /\ \/ Goto(p, "copy") /\ UNCHANGED answer
           \/ Answer(p, "panic", "return")
    BY <1>9 DEF PutCreate, cacheVars
  <2>2. CASE Goto(p, "copy") /\ UNCHANGED answer
    <3>1. pc' = [pc EXCEPT ![p] = "copy"] /\ Doing(p)' = Doing(p)
      BY <2>1, <2>2 DEF Doing
    <3> QED BY <2>1, <2>2, <3>1, GoesOn DEF HasKey, FilePlaces
  <2>3. CASE Answer(p, "panic", "return")
    <3>1. /\ pc' = [pc EXCEPT ![p] = "return"] /\ answer'[p] = "panic"
          /\ answer' = [q \in Procs |-> answer'[q]]
          /\ \A q \in Puts \ {p} : answer'[q] = answer[q]
      BY <2>3
    <3> QED BY <2>1, <3>1, GoesOn DEF HasKey, FilePlaces
  <2> QED BY <2>1, <2>2, <2>3
<1>10. CASE PutCopy(p)
  <2>1. /\ pc[p] = "copy" /\ UNCHANGED <<key, tries>>
        /\ \/ commit(p, File, p) /\ Answer(p, "ok", "unlock")
           \/ abort(p, File) /\ Answer(p, "error", "unlock")
           \/ (commit(p, File, p) \/ commitFails(p, File)) /\ Answer(p, "closeError", "closed")
    BY <1>10 DEF PutCopy
  <2>2. CASE commit(p, File, p) /\ Answer(p, "ok", "unlock")
    <3>1. /\ pc' = [pc EXCEPT ![p] = "unlock"] /\ TRUE
          /\ answer' = [q \in Procs |-> answer'[q]]
          /\ \A q \in Puts \ {p} : answer'[q] = answer[q]
      BY <2>2 DEF commit
    <3>2. op'[p][File] = "unlock" /\ \A q \in Procs \ {p} : op'[q][File] = op[q][File]
      BY <2>2, Called DEF commit, Places, Reads, Writes
    <3>3. Doing(p)' = "unlock"
      BY <3>1 DEF Doing
    <3> QED BY <2>1, <3>1, <3>2, <3>3, GoesOn DEF HasKey, FilePlaces
  <2>3. CASE abort(p, File) /\ Answer(p, "error", "unlock")
    <3>1. /\ pc' = [pc EXCEPT ![p] = "unlock"] /\ disk' = disk
          /\ answer' = [q \in Procs |-> answer'[q]]
          /\ \A q \in Puts \ {p} : answer'[q] = answer[q]
      BY <2>3 DEF abort
    <3>2. op'[p][File] = "unlock" /\ \A q \in Procs \ {p} : op'[q][File] = op[q][File]
      BY <2>3, Called DEF abort, Places, Reads, Writes
    <3>3. Doing(p)' = "unlock"
      BY <3>1 DEF Doing
    <3> QED BY <2>1, <3>1, <3>2, <3>3, GoesOn DEF HasKey, FilePlaces
  <2>4. CASE (commit(p, File, p) \/ commitFails(p, File)) /\ Answer(p, "closeError", "closed")
    <3>1. /\ pc' = [pc EXCEPT ![p] = "closed"]
          /\ answer' = [q \in Procs |-> answer'[q]]
          /\ \A q \in Puts \ {p} : answer'[q] = answer[q]
      BY <2>4
    <3>2. op'[p][File] = "unlock" /\ \A q \in Procs \ {p} : op'[q][File] = op[q][File]
      BY <2>4, Called DEF commit, commitFails, Places, Reads, Writes
    <3>3. Doing(p)' = "unlock"
      BY <3>1 DEF Doing
    <3> QED BY <2>1, <3>1, <3>2, <3>3, GoesOn DEF HasKey, FilePlaces
  <2> QED BY <2>1, <2>2, <2>3, <2>4
<1>11. CASE PutUnlock(p)
  <2>1. /\ pc[p] = "unlock" /\ pc' = [pc EXCEPT ![p] = "return"]
        /\ key' = key /\ tries' = tries /\ UNCHANGED answer /\ UNCHANGED disk
    BY <1>11 DEF PutUnlock, writeUnlock, dirVars
  <2>2. op'[p][File] = "idle" /\ \A q \in Procs \ {p} : op'[q][File] = op[q][File]
    BY <1>11, Called DEF PutUnlock, writeUnlock, Places, Reads, Writes
  <2>3. Doing(p)' = "idle"
    BY <2>1 DEF Doing
  <2> QED BY <2>1, <2>2, <2>3, GoesOn DEF HasKey, FilePlaces
<1>12. CASE PutReturn(p)
  <2>1. /\ pc[p] = "return" /\ pc' = [pc EXCEPT ![p] = "done"]
        /\ key' = "free" /\ UNCHANGED <<disk, op, answer, tries>>
    BY <1>12 DEF PutReturn, cacheVars
  <2>2. Doing(p)' = Doing(p)
    BY <2>1 DEF Doing
  <2> QED BY <2>1, <2>2, GoesOn DEF HasKey, FilePlaces
<1>13. CASE PutClosed(p)
  <2>1. /\ pc[p] = "closed" /\ pc' = [pc EXCEPT ![p] = "abort"]
        /\ key' = key /\ tries' = tries /\ UNCHANGED answer /\ UNCHANGED disk
    BY <1>13 DEF PutClosed, writeUnlock, dirVars
  <2>2. op'[p][File] = "idle" /\ \A q \in Procs \ {p} : op'[q][File] = op[q][File]
    BY <1>13, Called DEF PutClosed, writeUnlock, Places, Reads, Writes
  <2>3. Doing(p)' = "idle"
    BY <2>1 DEF Doing
  <2> QED BY <2>1, <2>2, <2>3, GoesOn DEF HasKey, FilePlaces
<1>14. CASE PutAbort(p)
  <2>1. /\ pc[p] = "abort" /\ pc' = [pc EXCEPT ![p] = "return"]
        /\ UNCHANGED <<disk, op, key, answer, tries>>
    BY <1>14 DEF PutAbort
  <2>2. Doing(p)' = Doing(p)
    BY <2>1 DEF Doing
  <2> QED BY <2>1, <2>2, GoesOn DEF HasKey, FilePlaces
<1> QED BY <1>1, <1>2, <1>3, <1>4, <1>5, <1>6, <1>7, <1>8, <1>9, <1>10, <1>11, <1>12,
           <1>13, <1>14
        DEF PutStep

\* The steps of a GET: it has no key, and its answer is nobody's panic.
LEMMA GetKeeps ==
    ASSUME FInv, CallTypes', NEW p \in Gets, GetStep(p)
    PROVE  FInv'
<1> /\ CallTypes /\ p \in Procs /\ p \notin Puts
    /\ pc \in [Procs -> FilePlaces] /\ answer = [q \in Procs |-> answer[q]]
    /\ tries \in [Puts -> Nat]
    /\ op[p][File] = Doing(p)
  BY RequestsAssumption DEF FInv, FileTypes, LocksAsPlaced
<1> USE DEF At, Goto, Answer
\* Every step of a GET but the last one of its leader.
<1>1. ASSUME NEW s \in FilePlaces \ {"new"}, pc' = [pc EXCEPT ![p] = s],
             \A q \in Procs \ {p} : op'[q][File] = op[q][File],
             op'[p][File] = Doing(p)',
             answer' = [q \in Procs |-> answer'[q]],
             \A q \in Procs \ {p} : answer'[q] = answer[q],
             UNCHANGED <<disk, key, tries>>
      PROVE  FInv'
  <2>1. /\ \A q \in Puts \ {p} : answer'[q] = answer[q]
        /\ \A q \in Puts \ {p} : tries'[q] = tries[q]
    BY <1>1, RequestsAssumption
  <2> QED BY <1>1, <2>1, GoesOn
<1>2. CASE GetDo(p)
  <2>1. /\ pc[p] = "new" /\ UNCHANGED <<disk, op, key, answer, tries>>
        /\ \E s \in {"get", "joined"} : pc' = [pc EXCEPT ![p] = s]
    BY <1>2 DEF GetDo, cacheVars
  <2>2. Doing(p)' = Doing(p)
    BY <2>1 DEF Doing
  <2> QED BY <1>1, <2>1, <2>2 DEF FilePlaces
<1>3. CASE GetLock(p)
  <2>1. /\ pc[p] = "get" /\ UNCHANGED <<key, tries>>
        /\ \/ readLock(p, File) /\ Goto(p, "stat") /\ UNCHANGED answer
           \/ Answer(p, "error", "land") /\ UNCHANGED cacheVars
    BY <1>3 DEF GetLock
  <2>2. CASE readLock(p, File) /\ Goto(p, "stat") /\ UNCHANGED answer
    <3>1. disk' = disk /\ pc' = [pc EXCEPT ![p] = "stat"]
      BY <2>2 DEF readLock, dirVars
    <3>2. op'[p][File] = "stat" /\ \A q \in Procs \ {p} : op'[q][File] = op[q][File]
      BY <2>2, Called DEF readLock, Places, Reads
    <3>3. Doing(p)' = "stat"
      BY <3>1 DEF Doing
    <3> QED BY <1>1, <2>1, <2>2, <3>1, <3>2, <3>3 DEF FilePlaces
  <2>3. CASE Answer(p, "error", "land") /\ UNCHANGED cacheVars
    <3>1. UNCHANGED <<disk, op>> /\ pc' = [pc EXCEPT ![p] = "land"]
      BY <2>3 DEF cacheVars
    <3>2. Doing(p)' = Doing(p)
      BY <2>1, <3>1 DEF Doing
    <3> QED BY <1>1, <2>1, <2>3, <3>1, <3>2 DEF FilePlaces
  <2> QED BY <2>1, <2>2, <2>3
<1>4. CASE GetStat(p)
  <2>1. /\ pc[p] = "stat" /\ UNCHANGED <<key, tries>>
        /\ \/ GetFound(p, File) /\ Goto(p, "send") /\ UNCHANGED answer
           \/ (GetMissing(p, File) \/ GetFails(p, File)) /\ Answer(p, "error", "land")
    BY <1>4 DEF GetStat
  <2>2. CASE GetFound(p, File) /\ Goto(p, "send") /\ UNCHANGED answer
    <3>1. disk' = disk /\ pc' = [pc EXCEPT ![p] = "send"]
      BY <2>2 DEF GetFound, dirVars
    <3>2. op'[p][File] = "reading" /\ \A q \in Procs \ {p} : op'[q][File] = op[q][File]
      BY <2>2, Called DEF GetFound, Places, Reads
    <3>3. Doing(p)' = "reading"
      BY <3>1 DEF Doing
    <3> QED BY <1>1, <2>1, <2>2, <3>1, <3>2, <3>3 DEF FilePlaces
  <2>3. CASE (GetMissing(p, File) \/ GetFails(p, File)) /\ Answer(p, "error", "land")
    <3>1. disk' = disk /\ pc' = [pc EXCEPT ![p] = "land"]
      BY <2>3 DEF GetMissing, GetFails, Unread, dirVars
    <3>2. op'[p][File] = "idle" /\ \A q \in Procs \ {p} : op'[q][File] = op[q][File]
      BY <2>3, Called DEF GetMissing, GetFails, Unread, Places
    <3>3. Doing(p)' = "idle"
      BY <3>1 DEF Doing
    <3> QED BY <1>1, <2>1, <2>3, <3>1, <3>2, <3>3 DEF FilePlaces
  <2> QED BY <2>1, <2>2, <2>3
<1>5. CASE GetSend(p)
  <2>1. /\ disk' = disk /\ pc' = [pc EXCEPT ![p] = "land"]
        /\ UNCHANGED <<key, tries>>
        /\ answer' = [q \in Procs |-> answer'[q]]
        /\ \A q \in Procs \ {p} : answer'[q] = answer[q]
    BY <1>5 DEF GetSend, readUnlock, Unread, dirVars
  <2>2. op'[p][File] = "idle" /\ \A q \in Procs \ {p} : op'[q][File] = op[q][File]
    BY <1>5, Called DEF GetSend, readUnlock, Unread, Places
  <2>3. Doing(p)' = "idle"
    BY <2>1 DEF Doing
  <2> QED BY <1>1, <2>1, <2>2, <2>3 DEF FilePlaces
<1>6. CASE GetLand(p)
  <2>1. /\ UNCHANGED <<disk, op, key, tries>>
        /\ pc[p] = "land"
        /\ pc' = [q \in Procs |-> IF q \in {r \in Gets : pc[r] = "joined"} \cup {p}
                                    THEN "done" ELSE pc[q]]
        /\ answer' = [q \in Procs |-> answer'[q]]
        /\ \A q \in Procs \ Gets : answer'[q] = answer[q]
    <3>1. /\ pc[p] = "land" /\ UNCHANGED <<disk, op, key, tries>>
          /\ pc' = [q \in Procs |-> IF q \in {r \in Gets : pc[r] = "joined"} \cup {p}
                                      THEN "done" ELSE pc[q]]
      BY <1>6 DEF GetLand, cacheVars
    <3>2. /\ answer' = [q \in Procs |-> answer'[q]]
          /\ \A q \in Procs \ Gets : answer'[q] = answer[q]
      BY <1>6 DEF GetLand
    <3> QED BY <3>1, <3>2
  <2>2. /\ Puts \subseteq Procs /\ Puts \cap Gets = {}
        /\ \A q \in Puts : pc'[q] = pc[q] /\ answer'[q] = answer[q]
        /\ \A q \in Puts : HasKey(q)' <=> HasKey(q)
    BY <2>1, RequestsAssumption DEF HasKey
  <2>3. FileTypes'
    BY <2>1 DEF FInv, FileTypes, FilePlaces
  <2>4. LocksAsPlaced'
    <3>1. ASSUME NEW q \in Procs
          PROVE  Doing(q)' = Doing(q)
      <4> DEFINE J == {r \in Gets : pc[r] = "joined"} \cup {p}
      <4>1. CASE q \in J
        <5>1. pc[q] \in {"land", "joined"}
          BY <2>1, <4>1
        <5>2. pc'[q] = "done"
          BY <2>1, <4>1
        <5> QED BY <5>1, <5>2 DEF Doing
      <4>2. CASE q \notin J
        <5>1. pc'[q] = pc[q]
          BY <2>1, <4>2
        <5> QED BY <5>1 DEF Doing
      <4> QED BY <4>1, <4>2
    <3>2. \A q \in Puts : pc'[q] = pc[q] /\ answer'[q] = answer[q]
      BY <2>2
    <3> QED BY <2>1, <3>1, <3>2 DEF FInv, LocksAsPlaced
  <2>5. OneKey' /\ RoundOnce'
    BY <2>1, <2>2 DEF FInv, OneKey, RoundOnce
  <2> QED BY <2>3, <2>4, <2>5 DEF FInv
<1> QED BY <1>2, <1>3, <1>4, <1>5, <1>6 DEF GetStep

\* The steps of a watcher, which may remove the file.
LEMMA WatcherKeeps ==
    ASSUME FInv, CallTypes', NEW p \in Removers, WatcherStep(p)
    PROVE  FInv'
<1> /\ CallTypes /\ p \in Procs /\ p \notin Puts
    /\ pc \in [Procs -> FilePlaces] /\ answer = [q \in Procs |-> answer[q]]
    /\ tries \in [Puts -> Nat]
    /\ disk \in [Entries -> Contents \cup {Absent}] /\ File \in Entries
    /\ op[p][File] = Doing(p)
  BY RequestsAssumption, FileAssumption
     DEF FInv, FileTypes, LocksAsPlaced, CallTypes
<1> USE DEF At, Goto, Answer
<1>1. ASSUME NEW s \in FilePlaces \ {"new"}, pc' = [pc EXCEPT ![p] = s],
             \A q \in Procs \ {p} : op'[q][File] = op[q][File],
             op'[p][File] = Doing(p)',
             disk'[File] \in {disk[File], Absent},
             UNCHANGED <<key, answer, tries>>
      PROVE  FInv'
  <2>1. /\ \A q \in Puts \ {p} : answer'[q] = answer[q]
        /\ \A q \in Puts \ {p} : tries'[q] = tries[q]
        /\ disk'[File] = disk[File] \/ disk'[File] = Absent
        /\ answer' = [q \in Procs |-> answer'[q]] /\ tries' \in [Puts -> Nat]
        /\ key' = key
    BY <1>1
  <2> QED BY <1>1, <2>1, GoesOn
<1>2. CASE WatcherRemove(p)
  <2>1. /\ pc[p] = "new" /\ UNCHANGED <<key, answer, tries>>
        /\ \/ Remove(p, File) /\ Goto(p, "removing")
           \/ Goto(p, "done") /\ UNCHANGED cacheVars
    BY <1>2 DEF WatcherRemove
  <2>2. CASE Remove(p, File) /\ Goto(p, "removing")
    <3>1. disk' = disk /\ pc' = [pc EXCEPT ![p] = "removing"]
      BY <2>2 DEF Remove, writeLock, dirVars
    <3>2. op'[p][File] = "removing" /\ \A q \in Procs \ {p} : op'[q][File] = op[q][File]
      BY <2>2, Called DEF Remove, writeLock, Places, Writes
    <3>3. Doing(p)' = "removing"
      BY <3>1 DEF Doing
    <3> QED BY <1>1, <2>1, <3>1, <3>2, <3>3 DEF FilePlaces
  <2>3. CASE Goto(p, "done") /\ UNCHANGED cacheVars
    <3>1. UNCHANGED <<disk, op>> /\ pc' = [pc EXCEPT ![p] = "done"]
      BY <2>3 DEF cacheVars
    <3>2. Doing(p)' = Doing(p)
      BY <2>1, <3>1 DEF Doing
    <3> QED BY <1>1, <2>1, <3>1, <3>2 DEF FilePlaces
  <2> QED BY <2>1, <2>2, <2>3
<1>3. CASE WatcherRemoved(p)
  <2>1. /\ disk'[File] \in {disk[File], Absent} /\ pc' = [pc EXCEPT ![p] = "unlock"]
        /\ UNCHANGED <<key, answer, tries>>
    BY <1>3 DEF WatcherRemoved, RemoveFiles, RemoveFails, dirVars
  <2>2. op'[p][File] = "unlock" /\ \A q \in Procs \ {p} : op'[q][File] = op[q][File]
    BY <1>3, Called DEF WatcherRemoved, RemoveFiles, RemoveFails, Places, Writes
  <2>3. Doing(p)' = "unlock"
    BY <2>1 DEF Doing
  <2> QED BY <1>1, <2>1, <2>2, <2>3 DEF FilePlaces
<1>4. CASE WatcherUnlock(p)
  <2>1. /\ disk' = disk /\ pc' = [pc EXCEPT ![p] = "done"]
        /\ UNCHANGED <<key, answer, tries>>
    BY <1>4 DEF WatcherUnlock, writeUnlock, dirVars
  <2>2. op'[p][File] = "idle" /\ \A q \in Procs \ {p} : op'[q][File] = op[q][File]
    BY <1>4, Called DEF WatcherUnlock, writeUnlock, Places
  <2>3. Doing(p)' = "idle"
    BY <2>1 DEF Doing
  <2> QED BY <1>1, <2>1, <2>2, <2>3 DEF FilePlaces
<1> QED BY <1>2, <1>3, <1>4 DEF WatcherStep

\* At first nobody has begun.
LEMMA InitFInv == FilesInit => FInv
<1> SUFFICES ASSUME FilesInit PROVE FInv
  OBVIOUS
<1>1. CallTypes
  BY DEF FilesInit, CacheInit, CallTypes, Places
<1>2. \A p \in Procs : pc[p] = "new" /\ op[p][File] = "idle"
  BY FileAssumption DEF FilesInit, CacheInit
<1>3. Puts \subseteq Procs
  BY RequestsAssumption
<1>4. LocksAsPlaced
  BY <1>2 DEF LocksAsPlaced, Doing
<1> QED BY <1>1, <1>2, <1>3, <1>4
        DEF FilesInit, FInv, FileTypes, FilePlaces, OneKey, HasKey, RoundOnce

\* Every step of every request keeps the invariant.
LEMMA StepFInv == FInv /\ [FilesNext]_fileVars => FInv'
<1> SUFFICES ASSUME FInv, [FilesNext]_fileVars PROVE FInv'
  OBVIOUS
<1>1. CASE FilesNext
  <2>1. CallTypes'
    BY <1>1, CallsTyped DEF FInv
  <2> QED BY <1>1, <2>1, PutKeeps, GetKeeps, WatcherKeeps DEF FilesNext
<1>2. CASE UNCHANGED fileVars
  <2>1. /\ UNCHANGED <<disk, writeLocked, readLocked, op, pc, key, leader, answer, tries>>
        /\ UNCHANGED cacheVars
    BY <1>2 DEF fileVars, cacheVars
  <2>2. CallTypes'
    BY <2>1 DEF FInv, CallTypes
  <2> QED BY <2>1, <2>2 DEF FInv, FileTypes, LocksAsPlaced, Doing, OneKey, HasKey, RoundOnce
<1> QED BY <1>1, <1>2

\* A PUT that finds the file removes it and goes back to start at most once,
\* as the comment at the goto says, however many uploads, downloads and
\* watchers there are.
THEOREM PutsGoRoundOnce == FilesSpec => []OneShot
<1>1. FInv => OneShot
  BY DEF FInv, RoundOnce, OneShot
<1> QED BY <1>1, InitFInv, StepFInv, PTL DEF FilesSpec

\* Uploads never refuse each other, however many there are.
THEOREM PutsTakeTurns == FilesSpec => []UploadsTakeTurns
<1>1. FInv => UploadsTakeTurns
  <2> SUFFICES ASSUME FInv, NEW p \in Puts, NEW q \in Puts, p # q,
                      pc[p] \in {"start", "remove"}
               PROVE  op[q][File] = "idle" \/ answer[q] = "panic"
    BY DEF UploadsTakeTurns
  <2>1. ~HasKey(q)
    BY DEF FInv, OneKey, HasKey
  <2>2. Doing(q) = "idle" /\ q \in Procs
    BY <2>1, RequestsAssumption DEF HasKey, Doing
  <2> QED BY <2>2 DEF FInv, LocksAsPlaced
<1> QED BY <1>1, InitFInv, StepFInv, PTL DEF FilesSpec

\* Handlers and watchers that are over hold neither key nor lock, but for the
\* write lock of a PUT whose os.Create failed.
THEOREM HandlersCleanUp == FilesSpec => []HandlersLeaveNothing
<1>1. FInv => HandlersLeaveNothing
  <2> SUFFICES ASSUME FInv PROVE HandlersLeaveNothing
    OBVIOUS
  <2>1. ASSUME NEW p \in Procs, At(p, "done"), answer[p] # "panic"
        PROVE  op[p][File] = "idle"
    <3>1. Doing(p) = "idle"
      BY <2>1 DEF At, Doing
    <3> QED BY <2>1, <3>1 DEF FInv, LocksAsPlaced
  <2>2. (\A p \in Puts : pc[p] \in {"new", "done"}) => key = "free"
    BY DEF FInv, FileTypes, OneKey, HasKey
  <2> QED BY <2>1, <2>2 DEF HandlersLeaveNothing
<1> QED BY <1>1, InitFInv, StepFInv, PTL DEF FilesSpec
-----------------------------------------------------------------------------
\* Closing a file and renaming its directory work.
CloseWorks == "close" \notin MayFail /\ "rename" \notin MayFail

\* No PUT is where a Close that failed leads.
NotClosed == \A p \in Puts : pc[p] # "closed" /\ pc[p] # "abort"

LEMMA StepNotClosed ==
    ASSUME CloseWorks, FInv, NotClosed, [FilesNext]_fileVars
    PROVE  NotClosed'
<1>1. CASE FilesNext
  <2>1. PICK p \in Procs : \/ p \in Puts /\ PutStep(p)
                           \/ p \in Gets /\ GetStep(p)
                           \/ p \in Removers /\ WatcherStep(p)
    BY <1>1, RequestsAssumption DEF FilesNext
  <2>2. pc \in [Procs -> FilePlaces] /\ Puts \subseteq Procs
    BY RequestsAssumption DEF FInv, FileTypes
  <2>3. CASE p \in Puts /\ PutStep(p)
    <3>1. \E s \in FilePlaces \ {"closed", "abort"} : pc' = [pc EXCEPT ![p] = s]
      BY <2>3 DEF CloseWorks, NotClosed, commitFails, PutStep, PutLock, PutWrite, PutExists,
         PutRefused, PutRemove, PutRemoved, PutRestart, PutMkdir, PutCreate, PutCopy,
         PutClosed, PutAbort, PutUnlock, PutReturn, At, Goto, Answer, FilePlaces
    <3> QED BY <2>2, <3>1 DEF NotClosed
  <2>4. CASE p \notin Puts
    <3>1. \A q \in Puts : pc'[q] = pc[q]
      BY <2>1, <2>2, <2>4, RequestsAssumption DEF GetStep, GetDo, GetLock, GetStat,
         GetSend, GetLand, WatcherStep, WatcherRemove, WatcherRemoved, WatcherUnlock,
         Goto, Answer
    <3> QED BY <3>1 DEF NotClosed
  <2> QED BY <2>1, <2>3, <2>4, RequestsAssumption
<1>2. CASE UNCHANGED fileVars
  BY <1>2 DEF fileVars, NotClosed
<1> QED BY <1>1, <1>2

\* If Close works, the requests use the cache as its specification allows.
THEOREM FilesUseCache == ASSUME CloseWorks PROVE FilesSpec => CacheSpec
<1>1. FilesInit => CacheInit /\ NotClosed
  BY RequestsAssumption DEF FilesInit, NotClosed
<1>2. FInv /\ NotClosed /\ [FilesNext]_fileVars => NotClosed'
  BY StepNotClosed
<1>3. NotClosed /\ [FilesNext]_fileVars => [CacheNext]_cacheVars
  BY HandlersCallCache DEF NotClosed, PutAbort, At, fileVars
<1> QED BY <1>1, <1>2, <1>3, InitFInv, StepFInv, PTL DEF FilesSpec, CacheSpec

\* However the requests on a file are interleaved and whatever fails but Close,
\* the cache's maps say exactly who is inside.
THEOREM FilesCacheOK == ASSUME CloseWorks PROVE FilesSpec => []CacheOK
<1>1. FilesSpec => CacheSpec
  BY FilesUseCache
<1> QED BY <1>1, MapsAreExact, PTL

\* What a download is reading is neither replaced by an upload nor removed by
\* a watcher, if Close works.
THEOREM DownloadsUndisturbed == ASSUME CloseWorks PROVE FilesSpec => ReadersUndisturbed
<1>1. FilesSpec => CacheSpec
  BY FilesUseCache
<1> QED BY <1>1, ReadsAreStable, PTL

\* Uploads, downloads and watchers see the abstract store, if Close works.
THEOREM FilesImplementStore == ASSUME CloseWorks PROVE FilesSpec => ImplementsStore
<1>1. FilesSpec => CacheSpec
  BY FilesUseCache
<1> QED BY <1>1, CacheImplementsStore, PTL

-----------------------------------------------------------------------------
(* Whatever fails, Close too: the maps are exact until an upload whose     *)
(* Close failed has unlocked the file twice.                               *)

Doubled == \E p \in Puts : answer[p] = "closeError" /\ pc[p] \in {"return", "done"}

\* A PUT that is about to unlock twice has said so already.
ClosingAnswered == \A p \in Puts : pc[p] \in {"closed", "abort"} => answer[p] = "closeError"

\* What the answers and places of the PUTs do in a step.
LEMMA PutsGoOn ==
    ASSUME FInv, FilesNext, NEW p \in Puts
    PROVE  /\ pc'[p] \in {"closed", "abort"} =>
                 \/ answer'[p] = "closeError"
                 \/ pc[p] \in {"closed", "abort"} /\ answer'[p] = answer[p]
           /\ pc[p] \in {"return", "done"} =>
                 pc'[p] \in {"return", "done"} /\ answer'[p] = answer[p]
<1>1. PICK q \in Procs : \/ q \in Puts /\ PutStep(q)
                         \/ q \in Gets /\ GetStep(q)
                         \/ q \in Removers /\ WatcherStep(q)
  BY RequestsAssumption DEF FilesNext
<1>2. /\ pc \in [Procs -> FilePlaces] /\ answer = [r \in Procs |-> answer[r]]
      /\ p \in Procs /\ p \notin Gets /\ p \notin Removers
  BY RequestsAssumption DEF FInv, FileTypes
<1> USE DEF At, Goto, Answer
<1>3. CASE q = p /\ PutStep(p)
  <2> DEFINE Goes(s) == pc' = [pc EXCEPT ![p] = s]
  <2>1. CASE PutLock(p) \/ PutWrite(p) \/ PutExists(p) \/ PutRemove(p) \/ PutRestart(p)
    <3>1. /\ pc[p] \notin {"return", "done"}
          /\ \E s \in FilePlaces \ {"closed", "abort"} : Goes(s)
      BY <2>1 DEF PutLock, PutWrite, PutExists, PutRemove, PutRestart, FilePlaces
    <3> QED BY <1>2, <3>1
  <2>2. CASE PutRefused(p) \/ PutRemoved(p) \/ PutMkdir(p) \/ PutCreate(p) \/ PutUnlock(p)
    <3>1. /\ pc[p] \notin {"return", "done"}
          /\ \E s \in FilePlaces \ {"closed", "abort"} : Goes(s)
      BY <2>2 DEF PutRefused, PutRemoved, PutMkdir, PutCreate, PutUnlock, FilePlaces
    <3> QED BY <1>2, <3>1
  <2>3. CASE PutCopy(p)
    <3>1. /\ pc[p] = "copy"
          /\ \/ Goes("unlock")
             \/ Goes("closed") /\ answer' = [answer EXCEPT ![p] = "closeError"]
      BY <2>3 DEF PutCopy
    <3> QED BY <1>2, <3>1
  <2>4. CASE PutClosed(p)
    <3>1. pc[p] = "closed" /\ Goes("abort") /\ answer' = answer
      BY <2>4 DEF PutClosed
    <3> QED BY <1>2, <3>1
  <2>5. CASE PutAbort(p)
    <3>1. pc[p] = "abort" /\ Goes("return") /\ answer' = answer
      BY <2>5 DEF PutAbort
    <3> QED BY <1>2, <3>1
  <2>6. CASE PutReturn(p)
    <3>1. pc[p] = "return" /\ Goes("done") /\ answer' = answer
      BY <2>6 DEF PutReturn
    <3> QED BY <1>2, <3>1
  <2> QED BY <1>3, <2>1, <2>2, <2>3, <2>4, <2>5, <2>6 DEF PutStep
<1>4. CASE q # p
  <2>1. pc'[p] = pc[p] /\ answer'[p] = answer[p]
    <3>1. CASE q \in Puts /\ PutStep(q)
      <4>1. /\ \E s : pc' = [pc EXCEPT ![q] = s]
            /\ answer' = answer \/ \E a : answer' = [answer EXCEPT ![q] = a]
        BY <3>1 DEF PutStep, PutLock, PutWrite, PutExists, PutRefused, PutRemove,
           PutRemoved, PutRestart, PutMkdir, PutCreate, PutCopy, PutClosed, PutAbort,
           PutUnlock, PutReturn
      <4> QED BY <1>2, <1>4, <4>1
    <3>2. CASE q \in Gets /\ (GetDo(q) \/ GetLock(q) \/ GetStat(q) \/ GetSend(q))
      <4>1. /\ \E s : pc' = [pc EXCEPT ![q] = s]
            /\ answer' = answer \/ \E a : answer' = [answer EXCEPT ![q] = a]
        BY <3>2 DEF GetDo, GetLock, GetStat, GetSend
      <4> QED BY <1>2, <1>4, <4>1
    <3>3. CASE q \in Gets /\ GetLand(q)
      BY <1>2, <3>3 DEF GetLand
    <3>4. CASE q \in Removers /\ WatcherStep(q)
      <4>1. /\ \E s : pc' = [pc EXCEPT ![q] = s]
            /\ answer' = answer
        BY <3>4 DEF WatcherStep, WatcherRemove, WatcherRemoved, WatcherUnlock
      <4> QED BY <1>2, <1>4, <4>1
    <3> QED BY <1>1, <3>1, <3>2, <3>3, <3>4 DEF GetStep
  <2> QED BY <2>1
<1> QED BY <1>1, <1>2, <1>3, <1>4, RequestsAssumption

LEMMA StepExactOrDoubled ==
    ASSUME FInv, ClosingAnswered, CacheOK \/ Doubled, [FilesNext]_fileVars
    PROVE  ClosingAnswered' /\ (CacheOK' \/ Doubled')
<1>1. CASE FilesNext
  <2>1. ClosingAnswered'
    BY <1>1, PutsGoOn DEF ClosingAnswered
  <2>2. CASE Doubled
    <3>1. PICK p \in Puts : answer[p] = "closeError" /\ pc[p] \in {"return", "done"}
      BY <2>2 DEF Doubled
    <3>2. answer'[p] = "closeError" /\ pc'[p] \in {"return", "done"}
      BY <1>1, <3>1, PutsGoOn
    <3>3. Doubled'
      BY <3>2 DEF Doubled
    <3> QED BY <2>1, <3>3
  <2>3. CASE CacheOK /\ ~\E p \in Puts : PutAbort(p)
    <3>1. [CacheNext]_cacheVars
      BY <1>1, <2>3, HandlersCallCache
    <3> QED BY <2>1, <2>3, <3>1, StepCacheOK
  <2>4. ASSUME NEW p \in Puts, PutAbort(p)
        PROVE  Doubled'
    <3>1. /\ pc[p] = "abort" /\ answer[p] = "closeError"
          /\ pc' = [pc EXCEPT ![p] = "return"] /\ answer' = answer
      BY <2>4 DEF PutAbort, At, Goto, ClosingAnswered
    <3>2. pc'[p] = "return"
      BY <3>1, RequestsAssumption DEF FInv, FileTypes
    <3> QED BY <3>1, <3>2 DEF Doubled
  <2> QED BY <2>1, <2>2, <2>3, <2>4
<1>2. CASE UNCHANGED fileVars
  <2>1. UNCHANGED cacheVars /\ UNCHANGED <<pc, answer>>
    BY <1>2 DEF fileVars
  <2>2. CacheOK => CacheOK'
    BY <2>1, StepCacheOK
  <2> QED BY <2>1, <2>2 DEF ClosingAnswered, Doubled
<1> QED BY <1>1, <1>2

\* "Nobody else can work with an artifact that is locked for writing", whatever
\* fails, until an upload whose Close failed has unlocked the file a second time.
THEOREM WritersAreAlone == FilesSpec => []AloneUnlessCloseFailed
<1>1. FilesInit => ClosingAnswered /\ (CacheOK \/ Doubled)
  BY InitCacheOK, RequestsAssumption DEF FilesInit, ClosingAnswered
<1>2. FInv /\ (ClosingAnswered /\ (CacheOK \/ Doubled)) /\ [FilesNext]_fileVars
         => (ClosingAnswered /\ (CacheOK \/ Doubled))'
  BY StepExactOrDoubled
<1>3. CacheOK \/ Doubled => AloneUnlessCloseFailed
  <2>1. CASE CacheOK
    <3>1. \A g, h \in Writers(File) : g = h
      BY <2>1, FileAssumption DEF CacheOK
    <3>2. Readers(File) = {} \/ Writers(File) = {}
      BY <2>1, FileAssumption DEF CacheOK
    <3> QED BY <3>1, <3>2 DEF AloneUnlessCloseFailed
  <2>2. CASE Doubled
    BY <2>2 DEF Doubled, AloneUnlessCloseFailed
  <2> QED BY <2>1, <2>2
<1> QED BY <1>1, <1>2, <1>3, InitFInv, StepFInv, PTL DEF FilesSpec

-----------------------------------------------------------------------------
(* What a GET is answered.                                                 *)

\* The leader has its answer when it lands; who is over has it too, or joined
\* a GET that was sent the file.
Served == \A p \in Gets :
    /\ pc[p] = "land" => answer[p] \in Contents \cup {"error"}
    /\ pc[p] = "done" =>
          \/ answer[p] \in Contents \cup {"error"}
          \/ /\ answer[p] = "empty"
             /\ \E q \in Gets : pc[q] = "done" /\ answer[q] \in Contents

LEMMA StepServed ==
    ASSUME FInv, CacheOK, Served, [FilesNext]_fileVars
    PROVE  Served'
<1>1. /\ pc \in [Procs -> FilePlaces] /\ answer = [r \in Procs |-> answer[r]]
      /\ Gets \subseteq Procs
  BY RequestsAssumption DEF FInv, FileTypes
<1> USE DEF At, Goto, Answer
\* A step that lets one goroutine land at most.
<1>2. ASSUME NEW g \in Procs, NEW s \in FilePlaces, pc' = [pc EXCEPT ![g] = s],
             answer' = [r \in Procs |-> answer'[r]],
             \A r \in Procs \ {g} : answer'[r] = answer[r],
             g \in Gets => /\ pc[g] # "done" /\ s # "done"
                           /\ s = "land" => answer'[g] \in Contents \cup {"error"}
      PROVE  Served'
  <2>1. /\ \A q \in Gets \ {g} : pc'[q] = pc[q] /\ answer'[q] = answer[q]
        /\ pc'[g] = s
    BY <1>1, <1>2
  <2>2. \A q \in Gets : pc[q] = "done" => pc'[q] = "done" /\ answer'[q] = answer[q]
    BY <1>2, <2>1
  <2> SUFFICES ASSUME NEW p \in Gets
               PROVE  /\ pc'[p] = "land" => answer'[p] \in Contents \cup {"error"}
                      /\ pc'[p] = "done" =>
                            \/ answer'[p] \in Contents \cup {"error"}
                            \/ /\ answer'[p] = "empty"
                               /\ \E q \in Gets : pc'[q] = "done" /\ answer'[q] \in Contents
    BY DEF Served
  <2>3. CASE p = g
    BY <1>2, <2>1, <2>3
  <2>4. CASE p # g
    BY <2>1, <2>2, <2>4 DEF Served
  <2> QED BY <2>3, <2>4
<1>3. ASSUME NEW p \in Puts, PutStep(p)
      PROVE  Served'
  <2>1. /\ \E s \in FilePlaces : pc' = [pc EXCEPT ![p] = s]
        /\ answer' = answer \/ \E a : answer' = [answer EXCEPT ![p] = a]
    BY <1>3 DEF PutStep, PutLock, PutWrite, PutExists, PutRefused, PutRemove,
       PutRemoved, PutRestart, PutMkdir, PutCreate, PutCopy, PutClosed, PutAbort,
       PutUnlock, PutReturn, FilePlaces
  <2>2. answer' = [r \in Procs |-> answer'[r]] /\ \A r \in Procs \ {p} : answer'[r] = answer[r]
    BY <1>1, <2>1
  <2> QED BY <1>2, <2>1, <2>2, RequestsAssumption
<1>4. ASSUME NEW r \in Removers, WatcherStep(r)
      PROVE  Served'
  <2>1. (\E s \in FilePlaces : pc' = [pc EXCEPT ![r] = s]) /\ answer' = answer
    BY <1>4 DEF WatcherStep, WatcherRemove, WatcherRemoved, WatcherUnlock, FilePlaces
  <2> QED BY <1>1, <1>2, <2>1, RequestsAssumption
<1>5. ASSUME NEW p \in Gets, GetDo(p)
      PROVE  Served'
  <2>1. /\ \E s \in FilePlaces \ {"land", "done"} : pc' = [pc EXCEPT ![p] = s]
        /\ pc[p] = "new" /\ answer' = answer
    BY <1>5 DEF GetDo, FilePlaces
  <2> QED BY <1>1, <1>2, <2>1
<1>6. ASSUME NEW p \in Gets, GetLock(p) \/ GetStat(p)
      PROVE  Served'
  <2>1. /\ pc[p] # "done"
        /\ \E s \in FilePlaces \ {"done"} :
              /\ pc' = [pc EXCEPT ![p] = s]
              /\ \/ s # "land" /\ answer' = answer
                 \/ answer' = [answer EXCEPT ![p] = "error"]
    BY <1>6 DEF GetLock, GetStat, FilePlaces
  <2>2. PICK s \in FilePlaces \ {"done"} :
              /\ pc' = [pc EXCEPT ![p] = s]
              /\ \/ s # "land" /\ answer' = answer
                 \/ answer' = [answer EXCEPT ![p] = "error"]
    BY <2>1
  <2>3. /\ answer' = [r \in Procs |-> answer'[r]]
        /\ \A r \in Procs \ {p} : answer'[r] = answer[r]
        /\ s = "land" => answer'[p] = "error"
    BY <1>1, <2>2
  <2> QED BY <1>1, <1>2, <2>1, <2>2, <2>3
<1>7. ASSUME NEW p \in Gets, GetSend(p)
      PROVE  Served'
  <2>1. /\ pc[p] = "send" /\ pc' = [pc EXCEPT ![p] = "land"]
        /\ \E a \in {disk[File], "error"} : answer' = [answer EXCEPT ![p] = a]
    BY <1>7 DEF GetSend
  <2>2. op[p][File] = "reading"
    BY <1>7, FileAssumption DEF GetSend, readUnlock, Unread, Move
  <2>3. disk[File] \in Contents
    BY <1>1, <2>2, FileAssumption DEF CacheOK, CacheTypeOK
  <2>4. /\ answer' = [r \in Procs |-> answer'[r]]
        /\ \A r \in Procs \ {p} : answer'[r] = answer[r]
        /\ answer'[p] \in Contents \cup {"error"}
    BY <1>1, <2>1, <2>3
  <2>5. "land" \in FilePlaces
    BY DEF FilePlaces
  <2> QED BY <1>1, <1>2, <2>1, <2>4, <2>5
<1>8. ASSUME NEW p \in Gets, GetLand(p)
      PROVE  Served'
  <2> DEFINE J == {q \in Gets : pc[q] = "joined"}
  <2>1. /\ pc[p] = "land"
        /\ pc' = [q \in Procs |-> IF q \in J \cup {p} THEN "done" ELSE pc[q]]
        /\ answer' = [q \in Procs |->
              IF q \in J THEN IF answer[p] = "error" THEN "error" ELSE "empty"
                         ELSE answer[q]]
    BY <1>8 DEF GetLand
  <2>2. answer[p] \in Contents \cup {"error"} /\ p \notin J
    BY <2>1 DEF Served
  <2>3. \A q \in Gets \ J : answer'[q] = answer[q]
    BY <1>1, <2>1
  <2>4. \A q \in Gets : pc[q] = "done" => pc'[q] = "done" /\ answer'[q] = answer[q]
    BY <1>1, <2>1
  <2>5. pc'[p] = "done" /\ answer'[p] = answer[p]
    BY <1>1, <2>1, <2>2
  <2> SUFFICES ASSUME NEW q \in Gets
               PROVE  /\ pc'[q] = "land" => answer'[q] \in Contents \cup {"error"}
                      /\ pc'[q] = "done" =>
                            \/ answer'[q] \in Contents \cup {"error"}
                            \/ /\ answer'[q] = "empty"
                               /\ \E r \in Gets : pc'[r] = "done" /\ answer'[r] \in Contents
    BY DEF Served
  <2>6. CASE q \in J
    <3>1. /\ pc'[q] = "done"
          /\ answer'[q] = IF answer[p] = "error" THEN "error" ELSE "empty"
      BY <1>1, <2>1, <2>6
    <3> QED BY <2>2, <2>5, <3>1
  <2>7. CASE q = p
    BY <2>2, <2>5, <2>7
  <2>8. CASE q \notin J /\ q # p
    <3>1. pc'[q] = pc[q] /\ answer'[q] = answer[q]
      BY <1>1, <2>1, <2>8
    <3> QED BY <2>4, <3>1 DEF Served
  <2> QED BY <2>6, <2>7, <2>8
<1>9. CASE UNCHANGED fileVars
  BY <1>9 DEF fileVars, Served
<1> QED BY <1>3, <1>4, <1>5, <1>6, <1>7, <1>8, <1>9 DEF FilesNext, GetStep

\* A download that is over was sent the content of one upload, or an error, if
\* Close works; with status 200 and no content it joined one that was sent it.
THEOREM DownloadsServed == ASSUME CloseWorks PROVE FilesSpec => []GetsAreServed
<1>1. FilesInit => Served
  BY RequestsAssumption DEF FilesInit, Served
<1>2. FInv /\ CacheOK /\ Served /\ [FilesNext]_fileVars => Served'
  BY StepServed
<1>3. Served => GetsAreServed
  BY DEF Served, GetsAreServed, At
<1>4. FilesSpec => []CacheOK
  BY FilesCacheOK
<1> QED BY <1>1, <1>2, <1>3, <1>4, InitFInv, StepFInv, PTL DEF FilesSpec
=============================================================================
