------------------------ MODULE ArtifactCacheProofs ------------------------
(***************************************************************************)
(* Proofs about the cache for any entries and any finite number of         *)
(* goroutines: its maps say exactly who is inside, what is read stays as   *)
(* it is, and every call is a step of the abstract store.                  *)
(*                                                                         *)
(* CacheOK is inductive.  A step moves one goroutine on one entry, so the  *)
(* proof is about the sets of readers and writers of that entry, and about *)
(* the number of readers, which the counter must follow.                   *)
(***************************************************************************)
EXTENDS ArtifactCache, FiniteSetTheorems, TLAPS

Reads  == {"stat", "reading"}
Writes == {"creating", "writing", "removing", "unlock"}
Places == {"idle"} \cup Reads \cup Writes

\* CacheOK of one entry.
EntryOK(e) == /\ readLocked[e] = Cardinality(Readers(e))
              /\ e \in writeLocked <=> Writers(e) # {}
              /\ \A g, h \in Writers(e) : g = h
              /\ Readers(e) = {} \/ Writers(e) = {}
              /\ \A g \in Procs : op[g][e] = "reading" => disk[e] # Absent
              /\ \A g \in Procs : op[g][e] \in {"creating", "writing"} => disk[e] = Absent

\* Nothing of the entry x changes but perhaps who is inside others.
Same(x) == /\ disk'[x] = disk[x] /\ readLocked'[x] = readLocked[x]
           /\ x \in writeLocked' <=> x \in writeLocked

-----------------------------------------------------------------------------
\* A goroutine moves: what that does to the readers and writers.
LEMMA Moved ==
    ASSUME CacheTypeOK, NEW g \in Procs, NEW e \in Entries,
           NEW from, NEW to \in Places, Move(g, e, from, to)
    PROVE  /\ op' \in [Procs -> [Entries -> Places]]
           /\ op[g][e] = from /\ op'[g][e] = to
           /\ \A h \in Procs, x \in Entries : h # g \/ x # e => op'[h][x] = op[h][x]
           /\ Readers(e)' = IF to \in Reads THEN Readers(e) \cup {g} ELSE Readers(e) \ {g}
           /\ Writers(e)' = IF to \in Writes THEN Writers(e) \cup {g} ELSE Writers(e) \ {g}
           /\ \A x \in Entries \ {e} : Readers(x)' = Readers(x) /\ Writers(x)' = Writers(x)
<1>1. op \in [Procs -> [Entries -> Places]]
  BY DEF CacheTypeOK, Places, Reads, Writes
<1>2. op[g][e] = from /\ op' = [op EXCEPT ![g][e] = to]
  BY DEF Move
<1>3. /\ op' \in [Procs -> [Entries -> Places]]
      /\ op'[g][e] = to
      /\ \A h \in Procs, x \in Entries : h # g \/ x # e => op'[h][x] = op[h][x]
  BY <1>1, <1>2
<1>4. Readers(e)' = IF to \in Reads THEN Readers(e) \cup {g} ELSE Readers(e) \ {g}
  BY <1>3 DEF Readers, Reads
<1>5. Writers(e)' = IF to \in Writes THEN Writers(e) \cup {g} ELSE Writers(e) \ {g}
  BY <1>3 DEF Writers, Writes
<1>6. \A x \in Entries \ {e} : Readers(x)' = Readers(x) /\ Writers(x)' = Writers(x)
  BY <1>3 DEF Readers, Writers
<1> QED BY <1>2, <1>3, <1>4, <1>5, <1>6

\* The readers of an entry are counted; one more comes, or one leaves.
LEMMA ReadersCount ==
    ASSUME NEW e
    PROVE  /\ IsFiniteSet(Readers(e)) /\ Cardinality(Readers(e)) \in Nat
           /\ Cardinality(Readers(e)) = 0 <=> Readers(e) = {}
           /\ \A g \in Procs \ Readers(e) :
                 Cardinality(Readers(e) \cup {g}) = Cardinality(Readers(e)) + 1
           /\ \A g \in Readers(e) :
                 Cardinality(Readers(e) \ {g}) = Cardinality(Readers(e)) - 1
<1>1. IsFiniteSet(Readers(e))
  BY ProcsAssumption, FS_Subset DEF Readers
<1> QED BY <1>1, FS_CardinalityType, FS_EmptySet, FS_AddElement, FS_RemoveElement

\* A step on e leaves the other entries as they are.
LEMMA Elsewhere ==
    ASSUME CacheOK, NEW g \in Procs, NEW e \in Entries,
           NEW from, NEW to \in Places, Move(g, e, from, to),
           \A x \in Entries \ {e} : Same(x),
           EntryOK(e)',
           disk' \in [Entries -> Contents \cup {Absent}],
           writeLocked' \subseteq Entries, readLocked' \in [Entries -> Nat],
           stale' \subseteq Entries
    PROVE  CacheOK'
<1>1. CacheTypeOK
  BY DEF CacheOK
<1>2. /\ op' \in [Procs -> [Entries -> Places]]
      /\ \A h \in Procs, x \in Entries : h # g \/ x # e => op'[h][x] = op[h][x]
      /\ \A x \in Entries \ {e} : Readers(x)' = Readers(x) /\ Writers(x)' = Writers(x)
  BY <1>1, Moved
<1>3. CacheTypeOK'
  BY <1>2 DEF CacheTypeOK, Places, Reads, Writes
<1>4. ASSUME NEW x \in Entries \ {e}
      PROVE  EntryOK(x)'
  <2>1. EntryOK(x)
    BY DEF CacheOK, EntryOK
  <2> QED BY <1>2, <2>1 DEF EntryOK, Same
<1>5. \A x \in Entries : EntryOK(x)'
  BY <1>4
<1> QED BY <1>3, <1>5 DEF CacheOK, EntryOK

\* The types of the maps, and the invariant of the entry a step is about.
LEMMA Facts ==
    ASSUME CacheOK, NEW g \in Procs, NEW e \in Entries
    PROVE  /\ disk \in [Entries -> Contents \cup {Absent}]
           /\ writeLocked \subseteq Entries /\ readLocked \in [Entries -> Nat]
           /\ stale \subseteq Entries /\ CacheTypeOK /\ EntryOK(e)
           /\ g \in Readers(e) <=> op[g][e] \in Reads
           /\ g \in Writers(e) <=> op[g][e] \in Writes
BY DEF CacheOK, CacheTypeOK, EntryOK, Readers, Writers, Reads, Writes

-----------------------------------------------------------------------------
\* Readers: the counter follows the number of readers.
LEMMA ReadKeeps ==
    ASSUME CacheOK, NEW g \in Procs, NEW e \in Entries, ReadStep(g, e)
    PROVE  CacheOK'
<1> USE DEF dirVars
<1> /\ disk \in [Entries -> Contents \cup {Absent}]
    /\ writeLocked \subseteq Entries /\ readLocked \in [Entries -> Nat]
    /\ stale \subseteq Entries /\ CacheTypeOK /\ EntryOK(e)
    /\ g \in Readers(e) <=> op[g][e] \in Reads
    /\ g \in Writers(e) <=> op[g][e] \in Writes
  BY Facts
<1>1. CASE readLock(g, e)
  <2>1. /\ Move(g, e, "idle", "stat") /\ e \notin writeLocked
        /\ readLocked' = [readLocked EXCEPT ![e] = @ + 1]
        /\ UNCHANGED <<dirVars, writeLocked>>
    BY <1>1 DEF readLock, ReadRefused
  <2>2. /\ op[g][e] = "idle" /\ op'[g][e] = "stat"
        /\ \A h \in Procs : h # g => op'[h][e] = op[h][e]
        /\ Readers(e)' = Readers(e) \cup {g} /\ Writers(e)' = Writers(e) \ {g}
    BY <2>1, Moved DEF Places, Reads, Writes
  <2>3. g \notin Readers(e) /\ g \notin Writers(e) /\ Writers(e) = {}
    BY <2>1, <2>2 DEF EntryOK, Reads, Writes
  <2>4. readLocked'[e] = Cardinality(Readers(e)')
    BY <2>1, <2>2, <2>3, ReadersCount DEF EntryOK
  <2>5. EntryOK(e)'
    BY <2>1, <2>2, <2>3, <2>4 DEF EntryOK
  <2>6. \A x \in Entries \ {e} : Same(x)
    BY <2>1 DEF Same
  <2> QED BY <2>1, <2>5, <2>6, Elsewhere DEF Places, Reads
<1>2. CASE GetFound(g, e)
  <2>1. /\ Move(g, e, "stat", "reading") /\ disk[e] # Absent
        /\ UNCHANGED <<dirVars, readLocked, writeLocked>>
    BY <1>2 DEF GetFound, lockVars
  <2>2. /\ op[g][e] = "stat" /\ op'[g][e] = "reading"
        /\ \A h \in Procs : h # g => op'[h][e] = op[h][e]
        /\ Readers(e)' = Readers(e) \cup {g} /\ Writers(e)' = Writers(e) \ {g}
    BY <2>1, Moved DEF Places, Reads, Writes
  <2>3. Readers(e)' = Readers(e) /\ Writers(e)' = Writers(e)
    BY <2>2 DEF Reads, Writes
  <2>4. EntryOK(e)'
    BY <2>1, <2>2, <2>3 DEF EntryOK
  <2>5. \A x \in Entries \ {e} : Same(x)
    BY <2>1 DEF Same
  <2> QED BY <2>1, <2>4, <2>5, Elsewhere DEF Places, Reads
<1>3. ASSUME NEW from \in Reads, Unread(g, e, from)
      PROVE  CacheOK'
  <2>1. /\ Move(g, e, from, "idle")
        /\ readLocked' = [readLocked EXCEPT ![e] = @ - 1]
        /\ UNCHANGED <<dirVars, writeLocked>>
    BY <1>3 DEF Unread
  <2>2. /\ op[g][e] = from /\ op'[g][e] = "idle"
        /\ \A h \in Procs : h # g => op'[h][e] = op[h][e]
        /\ Readers(e)' = Readers(e) \ {g} /\ Writers(e)' = Writers(e) \ {g}
    BY <2>1, Moved DEF Places, Reads, Writes
  <2>3. g \in Readers(e) /\ g \notin Writers(e)
    BY <1>3, <2>2 DEF Reads, Writes
  <2>4. /\ readLocked'[e] = Cardinality(Readers(e)')
        /\ readLocked' \in [Entries -> Nat]
    BY <2>1, <2>2, <2>3, ReadersCount DEF EntryOK
  <2>5. EntryOK(e)'
    BY <2>1, <2>2, <2>3, <2>4 DEF EntryOK
  <2>6. \A x \in Entries \ {e} : Same(x)
    BY <2>1 DEF Same
  <2> QED BY <2>1, <2>4, <2>5, <2>6, Elsewhere DEF Places
<1>4. CASE GetMissing(g, e)
  BY <1>3, <1>4 DEF GetMissing, Reads
<1>5. CASE GetFails(g, e)
  BY <1>3, <1>5 DEF GetFails, Reads
<1>6. CASE readUnlock(g, e)
  BY <1>3, <1>6 DEF readUnlock, Reads
<1> QED BY <1>1, <1>2, <1>4, <1>5, <1>6 DEF ReadStep

\* Writers: each is alone on its entry.
LEMMA WriteKeeps ==
    ASSUME CacheOK, NEW g \in Procs, NEW e \in Entries, WriteStep(g, e)
    PROVE  CacheOK'
<1> USE DEF dirVars
<1> /\ disk \in [Entries -> Contents \cup {Absent}]
    /\ writeLocked \subseteq Entries /\ readLocked \in [Entries -> Nat]
    /\ stale \subseteq Entries /\ CacheTypeOK /\ EntryOK(e)
    /\ g \in Readers(e) <=> op[g][e] \in Reads
    /\ g \in Writers(e) <=> op[g][e] \in Writes
  BY Facts
\* g takes the lock.
<1>1. ASSUME NEW to \in {"creating", "removing"}, writeLock(g, e, to),
             to = "creating" => disk[e] = Absent
      PROVE  CacheOK'
  <2>1. /\ Move(g, e, "idle", to) /\ ~Busy(e)
        /\ writeLocked' = writeLocked \cup {e}
        /\ UNCHANGED <<dirVars, readLocked>>
    BY <1>1 DEF writeLock
  <2>2. /\ op[g][e] = "idle" /\ op'[g][e] = to
        /\ \A h \in Procs : h # g => op'[h][e] = op[h][e]
        /\ Readers(e)' = Readers(e) \ {g} /\ Writers(e)' = Writers(e) \cup {g}
    BY <1>1, <2>1, Moved DEF Places, Reads, Writes
  <2>3. Writers(e) = {} /\ Readers(e) = {}
    <3>1. e \notin writeLocked /\ ~(readLocked[e] > 0) /\ readLocked[e] \in Nat
      BY <2>1 DEF Busy
    <3>2. readLocked[e] = 0
      BY <3>1
    <3> QED BY <3>1, <3>2, ReadersCount DEF EntryOK
  <2>4. EntryOK(e)'
    BY <1>1, <2>1, <2>2, <2>3 DEF EntryOK
  <2>5. \A x \in Entries \ {e} : Same(x)
    BY <2>1 DEF Same
  <2>6. to \in Places
    BY <1>1 DEF Places, Writes
  <2> QED BY <2>1, <2>4, <2>5, <2>6, Elsewhere
\* g keeps the lock; what it writes is seen by nobody.
<1>2. ASSUME NEW from \in {"creating", "writing", "removing"},
             NEW to \in {"writing", "unlock"}, NEW c \in Contents \cup {Absent},
             Move(g, e, from, to), disk' = [disk EXCEPT ![e] = c],
             to = "writing" => c = Absent,
             stale' \subseteq Entries, UNCHANGED lockVars
      PROVE  CacheOK'
  <2>1. UNCHANGED <<writeLocked, readLocked>>
    BY <1>2 DEF lockVars
  <2>2. /\ op[g][e] = from /\ op'[g][e] = to
        /\ \A h \in Procs : h # g => op'[h][e] = op[h][e]
        /\ Readers(e)' = Readers(e) \ {g} /\ Writers(e)' = Writers(e) \cup {g}
    BY <1>2, Moved DEF Places, Reads, Writes
  <2>3. g \in Writers(e) /\ Readers(e) = {}
    BY <1>2, <2>2 DEF EntryOK, Writes
  <2>4. Readers(e)' = Readers(e) /\ Writers(e)' = Writers(e)
    BY <2>2, <2>3
  <2>5. \A h \in Procs : op'[h][e] # "reading"
    BY <2>3, <2>4 DEF Readers
  <2>6. \A h \in Procs : op'[h][e] \in {"creating", "writing"} => h = g
    BY <2>3, <2>4 DEF Writers, EntryOK
  <2>7. disk'[e] = c
    BY <1>2
  <2>8. EntryOK(e)'
    BY <1>2, <2>1, <2>2, <2>4, <2>5, <2>6, <2>7 DEF EntryOK
  <2>9. \A x \in Entries \ {e} : Same(x)
    BY <1>2, <2>1 DEF Same
  <2>10. to \in Places /\ disk' \in [Entries -> Contents \cup {Absent}]
    BY <1>2 DEF Places, Writes
  <2> QED BY <1>2, <2>1, <2>8, <2>9, <2>10, Elsewhere
\* g gives the lock back.
<1>3. CASE writeUnlock(g, e)
  <2>1. /\ Move(g, e, "unlock", "idle")
        /\ writeLocked' = writeLocked \ {e} /\ UNCHANGED <<dirVars, readLocked>>
    BY <1>3 DEF writeUnlock
  <2>2. /\ op[g][e] = "unlock" /\ op'[g][e] = "idle"
        /\ \A h \in Procs : h # g => op'[h][e] = op[h][e]
        /\ Readers(e)' = Readers(e) \ {g} /\ Writers(e)' = Writers(e) \ {g}
    BY <2>1, Moved DEF Places, Reads, Writes
  <2>3. Writers(e)' = {} /\ Readers(e) = {}
    BY <2>2 DEF EntryOK, Writes
  <2>4. EntryOK(e)'
    BY <2>1, <2>2, <2>3 DEF EntryOK
  <2>5. \A x \in Entries \ {e} : Same(x)
    BY <2>1 DEF Same
  <2> QED BY <2>1, <2>4, <2>5, Elsewhere DEF Places
<1>4. disk = [disk EXCEPT ![e] = disk[e]] /\ disk[e] \in Contents \cup {Absent}
  OBVIOUS
<1>5. CASE Create(g, e)
  BY <1>1, <1>5 DEF Create, Exists
<1>6. CASE CreateReady(g, e)
  <2>1. disk[e] = Absent
    BY <1>6 DEF CreateReady, Move, EntryOK
  <2> QED BY <1>2, <1>4, <1>6, <2>1 DEF CreateReady
<1>7. CASE CreateFails(g, e)
  BY <1>2, <1>4, <1>7 DEF CreateFails
<1>8. CASE \E c \in Contents : commit(g, e, c)
  BY <1>2, <1>8 DEF commit
<1>9. CASE commitFails(g, e) \/ abort(g, e)
  BY <1>2, <1>4, <1>9 DEF commitFails, abort
<1>10. CASE Remove(g, e)
  BY <1>1, <1>10 DEF Remove
<1>11. CASE RemoveFiles(g, e)
  BY <1>2, <1>11 DEF RemoveFiles
<1>12. CASE RemoveFails(g, e)
  BY <1>2, <1>4, <1>12 DEF RemoveFails
<1> QED BY <1>3, <1>5, <1>6, <1>7, <1>8, <1>9, <1>10, <1>11, <1>12 DEF WriteStep

-----------------------------------------------------------------------------
\* Nobody is inside a cache that was just opened.
LEMMA InitCacheOK == CacheInit => CacheOK
<1> SUFFICES ASSUME CacheInit PROVE CacheOK
  OBVIOUS
<1>1. CacheTypeOK
  BY DEF CacheInit, CacheTypeOK
<1>2. \A g \in Procs, e \in Entries : op[g][e] = "idle"
  BY DEF CacheInit
<1>3. \A e \in Entries : Readers(e) = {} /\ Writers(e) = {}
  BY <1>2 DEF Readers, Writers
<1>4. \A e \in Entries : readLocked[e] = Cardinality(Readers(e))
  BY <1>3, FS_EmptySet DEF CacheInit
<1> QED BY <1>1, <1>2, <1>3, <1>4 DEF CacheInit, CacheOK

\* Every step keeps the maps exact.
LEMMA StepCacheOK == CacheOK /\ [CacheNext]_cacheVars => CacheOK'
<1> SUFFICES ASSUME CacheOK, [CacheNext]_cacheVars PROVE CacheOK'
  OBVIOUS
<1>1. CASE CacheNext
  BY <1>1, ReadKeeps, WriteKeeps DEF CacheNext
<1>2. CASE UNCHANGED cacheVars
  <2>1. UNCHANGED <<disk, stale, writeLocked, readLocked, op>>
    BY <1>2 DEF cacheVars
  <2>2. \A e \in Entries : Readers(e)' = Readers(e) /\ Writers(e)' = Writers(e)
    BY <2>1 DEF Readers, Writers
  <2>3. CacheTypeOK'
    BY <2>1 DEF CacheOK, CacheTypeOK
  <2> QED BY <2>1, <2>2, <2>3 DEF CacheOK
<1> QED BY <1>1, <1>2

\* The maps of the cache say exactly who is inside: the readers are counted,
\* a writer is alone, and what is read is in c/, whatever fails.
THEOREM MapsAreExact == CacheSpec => []CacheOK
BY InitCacheOK, StepCacheOK, PTL DEF CacheSpec

\* A goroutine that reads an entry shares it with no writer, so the directory
\* it was given stays as it is until it unlocks it.
THEOREM ReadsAreStable == CacheSpec => ReadersUndisturbed
<1>1. CacheOK /\ [CacheNext]_cacheVars =>
      [\A g \in Procs, e \in Entries : op[g][e] = "reading" => disk'[e] = disk[e]]_cacheVars
  <2> SUFFICES ASSUME CacheOK, NEW g \in Procs, NEW e \in Entries,
                      ReadStep(g, e) \/ WriteStep(g, e),
                      NEW h \in Procs, NEW x \in Entries, op[h][x] = "reading"
               PROVE  disk'[x] = disk[x]
    BY DEF CacheNext
  <2>1. disk \in [Entries -> Contents \cup {Absent}]
    BY Facts
  <2>2. ASSUME NEW from \in {"writing", "removing"}, NEW to, Move(g, e, from, to),
               NEW c, disk' = [disk EXCEPT ![e] = c]
        PROVE  disk'[x] = disk[x]
    <3>1. g \in Writers(e)
      BY <2>2 DEF Move, Writers
    <3>2. h \in Readers(x)
      BY DEF Readers
    <3>3. x # e
      BY <3>1, <3>2 DEF CacheOK
    <3> QED BY <2>1, <2>2, <3>3
  <2>3. CASE ReadStep(g, e)
    BY <2>3 DEF ReadStep, readLock, GetFound, GetMissing, GetFails, readUnlock, Unread,
                dirVars
  <2>4. CASE WriteStep(g, e)
    <3>1. CASE \E c \in Contents : commit(g, e, c)
      BY <2>2, <3>1 DEF commit
    <3>2. CASE RemoveFiles(g, e)
      BY <2>2, <3>2 DEF RemoveFiles
    <3>3. CASE \/ Create(g, e) \/ CreateReady(g, e) \/ CreateFails(g, e)
               \/ commitFails(g, e) \/ abort(g, e) \/ Remove(g, e)
               \/ RemoveFails(g, e) \/ writeUnlock(g, e)
      BY <3>3 DEF Create, Remove, writeLock, CreateReady, CreateFails, commitFails,
                  abort, RemoveFails, writeUnlock, dirVars
    <3> QED BY <2>4, <3>1, <3>2, <3>3 DEF WriteStep
  <2> QED BY <2>3, <2>4
<1> QED BY <1>1, MapsAreExact, PTL DEF CacheSpec, ReadersUndisturbed

-----------------------------------------------------------------------------
\* Who reads and who writes, as the abstract store sees it.
Reading == [e \in Entries |-> {g \in Procs : op[g][e] = "reading"}]
Writing == [e \in Entries |-> {g \in Procs : op[g][e] \in {"creating", "writing"}}]

\* What a step makes of the store's readers and writers.
LEMMA Mapped ==
    ASSUME CacheTypeOK, NEW g \in Procs, NEW e \in Entries,
           NEW from \in Places, NEW to \in Places, Move(g, e, from, to)
    PROVE  /\ Reading' = [Reading EXCEPT ![e] = IF to = "reading" THEN @ \cup {g} ELSE @ \ {g}]
           /\ Writing' = [Writing EXCEPT ![e] = IF to \in {"creating", "writing"}
                                                  THEN @ \cup {g} ELSE @ \ {g}]
           /\ from # "reading" => g \notin Reading[e]
           /\ from = "reading" => g \in Reading[e]
           /\ from \notin {"creating", "writing"} => g \notin Writing[e]
           /\ from \in {"creating", "writing"} => g \in Writing[e]
<1>1. /\ op[g][e] = from /\ op'[g][e] = to
      /\ \A h \in Procs, x \in Entries : h # g \/ x # e => op'[h][x] = op[h][x]
  BY Moved
<1>2. Reading'[e] = IF to = "reading" THEN Reading[e] \cup {g} ELSE Reading[e] \ {g}
  BY <1>1 DEF Reading
<1>3. Writing'[e] = IF to \in {"creating", "writing"}
                      THEN Writing[e] \cup {g} ELSE Writing[e] \ {g}
  BY <1>1 DEF Writing
<1>4. \A x \in Entries \ {e} : Reading'[x] = Reading[x] /\ Writing'[x] = Writing[x]
  BY <1>1 DEF Reading, Writing
<1>5. /\ from # "reading" => g \notin Reading[e]
      /\ from = "reading" => g \in Reading[e]
      /\ from \notin {"creating", "writing"} => g \notin Writing[e]
      /\ from \in {"creating", "writing"} => g \in Writing[e]
  BY <1>1 DEF Reading, Writing
<1>6. /\ Reading = [x \in Entries |-> Reading[x]] /\ Writing = [x \in Entries |-> Writing[x]]
      /\ Reading' = [x \in Entries |-> Reading'[x]]
      /\ Writing' = [x \in Entries |-> Writing'[x]]
  BY DEF Reading, Writing
<1> QED BY <1>2, <1>3, <1>4, <1>5, <1>6

\* A step of the cache is one of the store's or changes nothing it can see.
LEMMA StepMaps ==
    ASSUME CacheOK, NEW g \in Procs, NEW e \in Entries,
           ReadStep(g, e) \/ WriteStep(g, e)
    PROVE  Store!StoreNext \/ UNCHANGED Store!storeVars
<1> USE DEF dirVars
<1>1. /\ disk \in [Entries -> Contents \cup {Absent}]
      /\ CacheTypeOK /\ EntryOK(e)
  BY Facts
<1>2. Reading[e] \subseteq Readers(e) /\ Writing[e] \subseteq Writers(e)
  BY DEF Reading, Writing, Readers, Writers
<1>3. \A h \in Writers(e) : \A i \in Writing[e] : h = i
  BY <1>1, <1>2 DEF EntryOK
<1>4. disk = [disk EXCEPT ![e] = disk[e]]
  BY <1>1
<1>5. /\ Reading = [Reading EXCEPT ![e] = Reading[e]]
      /\ Writing = [Writing EXCEPT ![e] = Writing[e]]
  BY DEF Reading, Writing
<1>6. /\ Store!storeVars = <<disk, Reading, Writing>>
      /\ Store!storeVars' = <<disk', Reading', Writing'>>
  BY DEF Store!storeVars, Reading, Writing
\* A step the store does not see.
<1>7. ASSUME NEW from \in Places \ {"reading", "creating", "writing"},
             NEW to \in Places \ {"reading", "creating", "writing"},
             Move(g, e, from, to), UNCHANGED disk
      PROVE  UNCHANGED Store!storeVars
  <2>1. /\ Reading' = [Reading EXCEPT ![e] = @ \ {g}]
        /\ Writing' = [Writing EXCEPT ![e] = @ \ {g}]
        /\ g \notin Reading[e] /\ g \notin Writing[e]
    BY <1>1, <1>7, Mapped
  <2>2. Reading' = Reading /\ Writing' = Writing
    BY <1>5, <2>1
  <2> QED BY <1>6, <1>7, <2>2
\* A writer is done.
<1>8. ASSUME NEW from \in {"creating", "writing"}, Move(g, e, from, "unlock"),
             NEW c \in Contents \cup {Absent}, disk' = [disk EXCEPT ![e] = c]
      PROVE  Store!EndWrite(g, e, c)
  <2>1. /\ Reading' = [Reading EXCEPT ![e] = @ \ {g}]
        /\ Writing' = [Writing EXCEPT ![e] = @ \ {g}]
        /\ g \in Writing[e]
    BY <1>1, <1>8, Mapped DEF Places, Writes
  <2>2. g \notin Reading[e]
    BY <1>1, <1>2, <2>1 DEF EntryOK
  <2>3. Reading' = Reading
    BY <1>5, <2>1, <2>2
  <2>4. Writing[e] \ {g} = {}
    BY <1>2, <1>3, <2>1
  <2>5. Writing' = [Writing EXCEPT ![e] = {}]
    BY <2>1, <2>4
  <2> QED BY <1>8, <2>1, <2>3, <2>5 DEF Store!EndWrite, Reading, Writing
<1>9. disk[e] \in Contents \cup {Absent}
  BY <1>1
<1>10. CASE readLock(g, e)
  BY <1>7, <1>10 DEF readLock, Places, Reads
<1>11. CASE GetFound(g, e)
  <2>1. Move(g, e, "stat", "reading") /\ disk[e] # Absent /\ disk' = disk
    BY <1>11 DEF GetFound
  <2>2. /\ Reading' = [Reading EXCEPT ![e] = @ \cup {g}]
        /\ Writing' = [Writing EXCEPT ![e] = @ \ {g}]
        /\ g \notin Writing[e]
    BY <1>1, <2>1, Mapped DEF Places, Reads
  <2>3. Writing[e] = {} /\ Writing' = Writing
    <3>1. g \in Readers(e)
      BY <2>1 DEF Move, Readers
    <3> QED BY <1>1, <1>2, <1>5, <2>2, <3>1 DEF EntryOK
  <2>4. Store!BeginRead(g, e)
    BY <2>1, <2>2, <2>3 DEF Store!BeginRead, Reading, Writing
  <2> QED BY <2>4 DEF Store!StoreNext
<1>12. CASE GetMissing(g, e) \/ GetFails(g, e)
  BY <1>7, <1>12 DEF GetMissing, GetFails, Unread, Places, Reads
<1>13. CASE readUnlock(g, e)
  <2>1. Move(g, e, "reading", "idle") /\ disk' = disk
    BY <1>13 DEF readUnlock, Unread
  <2>2. /\ Reading' = [Reading EXCEPT ![e] = @ \ {g}]
        /\ Writing' = [Writing EXCEPT ![e] = @ \ {g}]
        /\ g \in Reading[e] /\ g \notin Writing[e]
    BY <1>1, <2>1, Mapped DEF Places, Reads
  <2>3. Writing' = Writing
    BY <1>5, <2>2
  <2>4. Store!EndRead(g, e)
    BY <2>1, <2>2, <2>3 DEF Store!EndRead, Reading, Writing
  <2> QED BY <2>4 DEF Store!StoreNext
<1>14. CASE Create(g, e)
  <2>1. Move(g, e, "idle", "creating") /\ disk[e] = Absent /\ disk' = disk /\ ~Busy(e)
    BY <1>14 DEF Create, Exists, writeLock
  <2>2. /\ Reading' = [Reading EXCEPT ![e] = @ \ {g}]
        /\ Writing' = [Writing EXCEPT ![e] = @ \cup {g}]
        /\ g \notin Reading[e]
    BY <1>1, <2>1, Mapped DEF Places, Writes
  <2>3. Writers(e) = {} /\ Readers(e) = {}
    <3>1. e \notin writeLocked /\ ~(readLocked[e] > 0) /\ readLocked[e] \in Nat
      BY <2>1, Facts DEF Busy
    <3> QED BY <1>1, <3>1, ReadersCount DEF EntryOK
  <2>4. /\ Reading[e] = {} /\ Writing[e] = {} /\ Reading' = Reading
        /\ Writing' = [Writing EXCEPT ![e] = {g}]
    BY <1>2, <1>5, <2>2, <2>3
  <2>5. Store!BeginWrite(g, e)
    BY <2>1, <2>4 DEF Store!BeginWrite, Store!Free, Reading, Writing
  <2> QED BY <2>5 DEF Store!StoreNext
<1>15. CASE CreateReady(g, e)
  <2>1. Move(g, e, "creating", "writing") /\ disk' = disk
    BY <1>15 DEF CreateReady
  <2>2. /\ Reading' = [Reading EXCEPT ![e] = @ \ {g}]
        /\ Writing' = [Writing EXCEPT ![e] = @ \cup {g}]
        /\ g \notin Reading[e] /\ g \in Writing[e]
    BY <1>1, <2>1, Mapped DEF Places, Writes
  <2>3. Reading' = Reading /\ Writing' = Writing
    BY <1>5, <2>2
  <2> QED BY <2>1, <2>3, <1>6
<1>16. CASE CreateFails(g, e)
  <2>1. Move(g, e, "creating", "unlock") /\ disk' = [disk EXCEPT ![e] = disk[e]]
    BY <1>4, <1>16 DEF CreateFails
  <2> QED BY <1>8, <1>9, <2>1 DEF Store!StoreNext
<1>17. CASE \E c \in Contents : commit(g, e, c)
  BY <1>8, <1>17 DEF commit, Store!StoreNext
<1>18. CASE commitFails(g, e) \/ abort(g, e)
  <2>1. Move(g, e, "writing", "unlock") /\ disk' = [disk EXCEPT ![e] = disk[e]]
    BY <1>4, <1>18 DEF commitFails, abort
  <2> QED BY <1>8, <1>9, <2>1 DEF Store!StoreNext
<1>19. CASE Remove(g, e)
  BY <1>7, <1>19 DEF Remove, writeLock, Places, Writes
<1>20. CASE RemoveFiles(g, e)
  <2>1. Move(g, e, "removing", "unlock") /\ disk' = [disk EXCEPT ![e] = Absent]
    BY <1>20 DEF RemoveFiles
  <2>2. /\ Reading' = [Reading EXCEPT ![e] = @ \ {g}]
        /\ Writing' = [Writing EXCEPT ![e] = @ \ {g}]
        /\ g \notin Reading[e] /\ g \notin Writing[e]
    BY <1>1, <2>1, Mapped DEF Places, Writes
  <2>3. g \in Writers(e)
    BY <2>1 DEF Move, Writers
  <2>4. Reading[e] = {} /\ Writing[e] = {} /\ Reading' = Reading /\ Writing' = Writing
    BY <1>1, <1>2, <1>3, <1>5, <2>2, <2>3 DEF EntryOK
  <2>5. Store!Drop(e)
    BY <2>1, <2>4 DEF Store!Drop, Store!Free, Reading, Writing
  <2> QED BY <2>5 DEF Store!StoreNext
<1>21. CASE RemoveFails(g, e)
  BY <1>7, <1>21 DEF RemoveFails, Places, Writes
<1>22. CASE writeUnlock(g, e)
  BY <1>7, <1>22 DEF writeUnlock, Places, Writes
<1> QED BY <1>10, <1>11, <1>12, <1>13, <1>14, <1>15, <1>16, <1>17, <1>18, <1>19,
          <1>20, <1>21, <1>22 DEF ReadStep, WriteStep

\* The cache implements the abstract store: one writer or many readers, and
\* a commit or a removal is seen at once and by nobody who is reading.
THEOREM CacheImplementsStore == CacheSpec => ImplementsStore
<1>1. CacheInit => Store!StoreInit
  BY DEF CacheInit, Store!StoreInit
<1>2. CacheOK /\ [CacheNext]_cacheVars => [Store!StoreNext]_(Store!storeVars)
  <2> SUFFICES ASSUME CacheOK, [CacheNext]_cacheVars
               PROVE  Store!StoreNext \/ UNCHANGED Store!storeVars
    OBVIOUS
  <2>1. CASE CacheNext
    BY <2>1, StepMaps DEF CacheNext
  <2>2. CASE UNCHANGED cacheVars
    BY <2>2 DEF cacheVars, Store!storeVars
  <2> QED BY <2>1, <2>2
<1> QED BY <1>1, <1>2, MapsAreExact, PTL DEF CacheSpec, ImplementsStore, Store!StoreSpec
=============================================================================
