--------------------------- MODULE ArtifactStore ---------------------------
(***************************************************************************)
(* What artifact.Cache promises its callers, without mutex, counters,      *)
(* directories or failures of the file system: an entry has many readers   *)
(* or one writer; what is committed appears at once, stays as it is while  *)
(* somebody reads it, and is only removed when nobody uses it.             *)
(***************************************************************************)
CONSTANTS Entries,    \* identifiers of artifacts or files
          Procs,      \* goroutines
          Contents,   \* what an entry may hold
          Absent      \* the content of an entry that is not in the cache

VARIABLES content, readers, writers

storeVars == <<content, readers, writers>>

StoreInit == /\ content \in [Entries -> Contents \cup {Absent}]
             /\ readers = [e \in Entries |-> {}]
             /\ writers = [e \in Entries |-> {}]

Free(e) == readers[e] = {} /\ writers[e] = {}

BeginRead(p, e) == /\ content[e] # Absent /\ writers[e] = {}
                   /\ readers' = [readers EXCEPT ![e] = @ \cup {p}]
                   /\ UNCHANGED <<content, writers>>

EndRead(p, e) == /\ p \in readers[e]
                 /\ readers' = [readers EXCEPT ![e] = @ \ {p}]
                 /\ UNCHANGED <<content, writers>>

BeginWrite(p, e) == /\ content[e] = Absent /\ Free(e)
                    /\ writers' = [writers EXCEPT ![e] = {p}]
                    /\ UNCHANGED <<content, readers>>

\* The writer commits c, or aborts and leaves the entry absent.
EndWrite(p, e, c) == /\ p \in writers[e]
                     /\ writers' = [writers EXCEPT ![e] = {}]
                     /\ content' = [content EXCEPT ![e] = c]
                     /\ UNCHANGED readers

Drop(e) == /\ Free(e)
           /\ content' = [content EXCEPT ![e] = Absent]
           /\ UNCHANGED <<readers, writers>>

StoreNext == \E e \in Entries :
    \/ Drop(e)
    \/ \E p \in Procs : \/ BeginRead(p, e) \/ EndRead(p, e) \/ BeginWrite(p, e)
                        \/ \E c \in Contents \cup {Absent} : EndWrite(p, e, c)

StoreSpec == StoreInit /\ [][StoreNext]_storeVars
=============================================================================
