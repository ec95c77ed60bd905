------------------------------ MODULE RagStore ------------------------------
(***************************************************************************)
(* ai_agent/sources: rag_add, rag_delete and rag_sync, the clients of the  *)
(* document store.  They keep the vectors of the chunks in Chroma in step  *)
(* with it.  A client waits for an answer for a limited time; the request  *)
(* it gives up on goes on.                                                 *)
(***************************************************************************)
EXTENDS DocumentStore

CONSTANTS
    NChunks,    \* chunks of a document
    BatchSize   \* documents of a page of rag_sync

ASSUME RagAssumption == {NChunks, BatchSize} \subseteq Nat \ {0}

VARIABLES
    vectors,  \* the document of each vector in Chroma, by the id of its chunk
    adder,    \* the rag_add of each session
    deleter,  \* the rag_delete
    rs,       \* the rag_sync
    deleted,  \* documents some rag_delete has named
    calm      \* nothing but the rag_sync has moved since it began

ragVars == <<vectors, adder, deleter, rs, deleted>>
vars == <<storeVars, ragVars, calm>>

NoReader == [at |-> "idle", offset |-> 0, initial |-> {}, source |-> {}, page |-> {}, last |-> FALSE,
             synced |-> FALSE]
Adder == [at : {"idle", "put", "attach", "embed", "rollback", "added", "failed", "clean", "dirty"},
          doc : {0} \cup Id, chunks : SUBSET Id]
Reader == [at : {"idle", "sync", "initial", "page", "read", "finalize", "done"}, offset : 0 .. MaxId,
           initial : SUBSET Id, source : SUBSET Id, page : SUBSET Id, last : BOOLEAN, synced : BOOLEAN]

TypeOK ==
    /\ StoreTypeOK
    /\ vectors \in [Id -> {None} \cup Id] /\ adder \in [Session -> Adder] /\ rs \in Reader
    /\ deleter \in [at : {"idle", "delete", "vectors"}, found : SUBSET Id]
    /\ deleted \subseteq Id /\ calm \in BOOLEAN

Init ==
    /\ StoreInit /\ vectors = NoRecords
    /\ adder = [s \in Session |-> [at |-> "idle", doc |-> 0, chunks |-> {}]]
    /\ deleter = [at |-> "idle", found |-> {}] /\ rs = NoReader
    /\ deleted = {} /\ calm = FALSE

-----------------------------------------------------------------------------
(* rag_add: the document, its chunks one after the other, their vectors; a *)
(* failure after the first is rolled back by deleting the document.        *)

Adds(s, here) == adder[s].at = here
To(s, there) == adder' = [adder EXCEPT ![s].at = there]
DropAnswer(s) == job' = [job EXCEPT ![s] = NoJob]

AddDocument(s) ==
    /\ Adds(s, "idle") /\ To(s, "put") /\ Start(s, "put", 0)
    /\ UNCHANGED <<db, dirs, nextId, del, sync, lost, faults, vectors, deleter, rs, deleted>>

Attach(s) == Start(s, "attach", adder[s].doc)

PutAnswered(s) ==
    /\ Adds(s, "put")
    /\ \/ /\ job[s].step = "ok"
          /\ adder' = [adder EXCEPT ![s].at = "attach", ![s].doc = job[s].id]
          /\ Start(s, "attach", job[s].id)
       \/ job[s].step = "error" /\ To(s, "failed") /\ DropAnswer(s)
    /\ UNCHANGED <<db, dirs, nextId, del, sync, lost, faults, vectors, deleter, rs, deleted>>

ChunkAnswered(s) ==
    /\ Adds(s, "attach")
    /\ \/ /\ job[s].step = "ok"
          /\ LET chunks == adder[s].chunks \cup {job[s].id}
                 all == Cardinality(chunks) = NChunks
             IN  /\ adder' = [adder EXCEPT ![s].at = IF all THEN "embed" ELSE "attach", ![s].chunks = chunks]
                 /\ IF all THEN DropAnswer(s) ELSE Attach(s)
       \/ job[s].step = "error" /\ To(s, "rollback") /\ DropAnswer(s)
    /\ UNCHANGED <<db, dirs, nextId, del, sync, lost, faults, vectors, deleter, rs, deleted>>

\* The client's wait ends first; the request is still served.
GiveUp(s) ==
    /\ Fault /\ job[s].step \notin {"none", "ok", "error"}
    /\ \/ Adds(s, "put") /\ To(s, "failed")
       \/ Adds(s, "attach") /\ To(s, "rollback")
    /\ UNCHANGED <<db, dirs, nextId, job, del, sync, lost, vectors, deleter, rs, deleted>>

WithVectors(chunks, doc) == [i \in Id |-> IF i \in chunks THEN doc ELSE vectors[i]]

\* collection.add; an error may come before or after the vectors are in.
Embed(s) ==
    /\ Adds(s, "embed")
    /\ \/ vectors' = WithVectors(adder[s].chunks, adder[s].doc) /\ To(s, "added") /\ UNCHANGED faults
       \/ /\ Fault /\ To(s, "rollback")
          /\ vectors' \in {vectors, WithVectors(adder[s].chunks, adder[s].doc)}
    /\ UNCHANGED <<db, dirs, nextId, job, del, sync, lost, deleter, rs, deleted>>

Rollback(s) ==
    /\ Adds(s, "rollback")
    /\ \/ DeleteRequest(s, adder[s].doc) /\ UNCHANGED <<adder, faults>>
       \/ /\ del.owner = s /\ del.step \in {"ok", "error"} /\ del' = NoDelete
          /\ To(s, IF del.step = "ok" THEN "clean" ELSE "dirty") /\ UNCHANGED faults
       \/ /\ Fault /\ To(s, "dirty") /\ del' = IF del.owner = s THEN [del EXCEPT !.owner = "nobody"] ELSE del
    /\ UNCHANGED <<db, dirs, nextId, job, sync, lost, vectors, deleter, rs, deleted>>

RagAdd(s) ==
    AddDocument(s) \/ PutAnswered(s) \/ ChunkAnswered(s) \/ GiveUp(s) \/ Embed(s) \/ Rollback(s)

-----------------------------------------------------------------------------
(* rag_delete: the vectors are looked up first, and deleted last.          *)

RemoveDocument(doc) ==
    /\ deleter.at = "idle" /\ doc \notin deleted /\ \E s \in Session : Adds(s, "added") /\ adder[s].doc = doc
    /\ deleter' = [at |-> "delete", found |-> {i \in Id : vectors[i] = doc}]
    /\ DeleteRequest("rag_delete", doc) /\ deleted' = deleted \cup {doc}
    /\ UNCHANGED <<db, dirs, nextId, job, sync, lost, faults, vectors, adder, rs>>

DeleterEnds == deleter' = [at |-> "idle", found |-> {}]

DeleteAnswered ==
    /\ deleter.at = "delete" /\ del.owner = "rag_delete"
    /\ \/ del.step = "ok" /\ del' = NoDelete /\ deleter' = [deleter EXCEPT !.at = "vectors"] /\ UNCHANGED faults
       \/ del.step = "error" /\ del' = NoDelete /\ DeleterEnds /\ UNCHANGED faults
       \/ Fault /\ del' = [del EXCEPT !.owner = "nobody"] /\ DeleterEnds
    /\ UNCHANGED <<db, dirs, nextId, job, sync, lost, vectors, adder, rs, deleted>>

DeleteVectors ==
    /\ deleter.at = "vectors"
    /\ \/ /\ vectors' = [i \in Id |-> IF i \in deleter.found THEN None ELSE vectors[i]]
          /\ DeleterEnds /\ UNCHANGED faults
       \/ Fault /\ DeleterEnds /\ UNCHANGED vectors
    /\ UNCHANGED <<db, dirs, nextId, job, del, sync, lost, adder, rs, deleted>>

RagDelete == (\E d \in Id : RemoveDocument(d)) \/ DeleteAnswered \/ DeleteVectors

-----------------------------------------------------------------------------
(* rag_sync: the dispatcher's sync, the ids of all vectors, then page by   *)
(* page each chunk is read, embedded and upserted; what was there at first *)
(* and did not come up is deleted in the end.                              *)

SyncRag ==
    /\ rs.at = "idle" /\ SyncRequest /\ rs' = [NoReader EXCEPT !.at = "sync"]
    /\ UNCHANGED <<db, dirs, nextId, job, del, lost, faults, vectors, adder, deleter, deleted>>

\* Only the error code of the request is looked at, not the one the backend has printed
\* into its output (synced).
SyncAnswered ==
    /\ rs.at = "sync" /\ sync.step \in {"ok", "failed", "error"} /\ sync' = NoSync
    /\ rs' = [rs EXCEPT !.at = IF sync.step = "error" THEN "idle" ELSE "initial", !.synced = sync.step = "ok"]
    /\ UNCHANGED <<db, dirs, nextId, job, del, lost, faults, vectors, adder, deleter, deleted>>

ListVectors ==
    /\ rs.at = "initial" /\ rs' = [rs EXCEPT !.at = "page", !.initial = Recorded(vectors)]
    /\ UNCHANGED <<storeVars, vectors, adder, deleter, deleted>>

\* Mutant: the first page is taken for the whole list.
GetPageOnce ==
    /\ rs.at = "page"
    /\ LET docs == Page(rs.offset, BatchSize)
           chunks == {i \in Chunks(db) : db[i] \in docs}
       IN  rs' = [rs EXCEPT !.at = IF chunks # {} THEN "read" ELSE "finalize", !.page = chunks, !.last = TRUE]
    /\ UNCHANGED <<storeVars, vectors, adder, deleter, deleted>>

\* A chunk that comes up again is an error.
GetPage ==
    /\ rs.at = "page"
    /\ LET docs == Page(rs.offset, BatchSize)
           chunks == {i \in Chunks(db) : db[i] \in docs}
           last == Remaining(rs.offset, BatchSize) <= 0
       IN  rs' = IF chunks \cap rs.source # {} THEN NoReader
                 ELSE [rs EXCEPT !.at = IF chunks # {} THEN "read" ELSE IF last THEN "finalize" ELSE "page",
                                 !.page = chunks, !.last = last, !.offset = @ + Cardinality(docs)]
    /\ UNCHANGED <<storeVars, vectors, adder, deleter, deleted>>

\* The document of a chunk, taken from the page, is still its parent.
UpsertVector ==
    /\ rs.at = "read"
    /\ LET i == Min(rs.page)
       IN  IF Readable(i)
             THEN /\ vectors' = [vectors EXCEPT ![i] = Parent(i)]
                  /\ rs' = [rs EXCEPT !.page = @ \ {i}, !.source = @ \cup {i},
                                      !.at = IF rs.page # {i} THEN "read" ELSE IF rs.last THEN "finalize" ELSE "page"]
             ELSE rs' = NoReader /\ UNCHANGED vectors
    /\ UNCHANGED <<storeVars, adder, deleter, deleted>>

Finalize ==
    /\ rs.at = "finalize"
    /\ vectors' = [i \in Id |-> IF i \in rs.initial \ rs.source THEN None ELSE vectors[i]]
    /\ rs' = [NoReader EXCEPT !.at = "done", !.synced = rs.synced]
    /\ UNCHANGED <<storeVars, adder, deleter, deleted>>

\* An embedding, a request or Chroma fails; nothing is deleted then.
RagSyncFails ==
    /\ rs.at \in {"initial", "page", "read", "finalize"} /\ Fault /\ rs' = NoReader
    /\ UNCHANGED <<db, dirs, nextId, job, del, sync, lost, vectors, adder, deleter, deleted>>

RagSync ==
    SyncAnswered \/ ListVectors \/ GetPage \/ UpsertVector \/ Finalize \/ RagSyncFails

-----------------------------------------------------------------------------
Quiet ==
    /\ \A s \in Session : job[s].step \in {"none", "ok", "error"} /\ ~Adds(s, "embed")
    /\ DeleteFree /\ deleter.at = "idle"

Next ==
    \/ SyncRag /\ calm' = Quiet
    \/ RagSync /\ UNCHANGED calm
    \/ SyncStep /\ UNCHANGED <<ragVars, calm>>
    \/ /\ calm' = FALSE
       /\ \/ \E s \in Session : RagAdd(s)
          \/ RagDelete
          \/ ((\E s \in Session : JobStep(s)) \/ DeleteStepTaken \/ LoseDatabase) /\ UNCHANGED ragVars

Spec == Init /\ [][Next]_vars

-----------------------------------------------------------------------------
(* Properties.                                                             *)

\* A sync that nothing else disturbed, and whose backend has met no exception, leaves the
\* database equal to the storage tree, whatever failures, kills and races came before
\* it, the loss of the database included (synchronize_records).
SyncReconciles == calm /\ rs.synced /\ rs.at \in {"initial", "page", "read", "finalize", "done"} => db = dirs

VectorsOf(records) ==
    [i \in Id |-> IF i \in Chunks(records) /\ records[i] \in Documents(records) THEN records[i] ELSE None]

\* A rag_sync that nothing else disturbed leaves in Chroma the vector of each chunk of a
\* document of the database, with the right document, and no other; and when the sync
\* of the database had succeeded, that of each chunk in the storage tree
\* (reconcile_chroma_pages).
VectorsReconciled ==
    calm /\ rs.at = "done" => vectors = VectorsOf(db) /\ (rs.synced => vectors = VectorsOf(dirs))

\* rag_sync.json:10: "First synchronizes persistent file storage into the document DB
\* [...] Chroma records whose IDs are not current chunk IDs are deleted."  A rag_sync that
\* ended with success has the vector of each chunk in the storage tree; it has not
\* when the backend's sync had failed and its answer passed for a success.
StoredAreSearchable ==
    calm /\ rs.at = "done" => \A i \in Chunks(dirs) : dirs[i] \in Documents(dirs) => vectors[i] = dirs[i]

\* As long as the database is not lost, what rag_add reported as added stays in the
\* storage tree, document and chunks, until a rag_delete names it: no rollback of another
\* session, no request given up that goes on, no sync and no failure touches it.
AddedIsStored ==
    ~lost => \A s \in Session : Adds(s, "added") /\ adder[s].doc \notin deleted =>
        dirs[adder[s].doc] = adder[s].doc /\ \A i \in adder[s].chunks : dirs[i] = adder[s].doc

\* As long as the database is not lost, row and directory of an id never name two
\* different parents: read_id has no other conflict to report than a record under
\* construction.
RecordsAgree == ~lost => \A i \in Id : db[i] \in {None, 0} \/ dirs[i] \in {None, 0} \/ db[i] = dirs[i]

\* delete_doc.json:11: "Deleting a document also deletes all chunks belonging to it."
\* A rollback that was answered with success leaves no chunk of its document behind
\* (rag_add reports "Records are consistent" then).
DeleteTakesChunks ==
    \A s \in Session : Adds(s, "clean") /\ job[s].step \in {"none", "ok", "error"} =>
        ChunksOf(db, adder[s].doc) \cup ChunksOf(dirs, adder[s].doc) = {}
=============================================================================
