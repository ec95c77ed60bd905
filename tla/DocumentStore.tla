---------------------------- MODULE DocumentStore ----------------------------
(***************************************************************************)
(* docs_dispatcher/sources/backend/mysql: documents and chunks are kept as *)
(* directories of a storage tree and as rows of a database.  Requests of   *)
(* put_doc and attach_doc_chunk run in parallel, one for each session;     *)
(* delete_doc and sync have a server each.  Every write to either side is  *)
(* a step, and a request may fail or be killed at each of them.            *)
(* A record, on either side, is the id of its parent: its own id for a     *)
(* document, 0 while it is under construction, None where there is none.   *)
(***************************************************************************)
EXTENDS Integers, FiniteSetsExt

CONSTANTS
    Session,   \* sessions of put_doc and attach_doc_chunk
    MaxId,     \* bound: the last id the database gives out
    MaxFaults  \* bound: failed or killed requests

ASSUME StoreAssumption == {MaxId, MaxFaults} \subseteq Nat

VARIABLES
    db, dirs,  \* rows of file_records and directories of the storage, by id
    nextId,    \* the AUTO_INCREMENT counter
    job,       \* the request each session has at put_doc or attach_doc_chunk
    del,       \* the request at delete_doc
    sync,      \* the request at sync
    lost,      \* the database has been lost, and ids may be given out again
    faults     \* failures so far

storeVars == <<db, dirs, nextId, job, del, sync, lost, faults>>

Id == 1 .. MaxId
None == -1
Record == {None, 0} \cup Id
NoRecords == [i \in Id |-> None]
NoJob == [step |-> "none", kind |-> "put", id |-> 0, doc |-> 0]
NoDelete == [step |-> "none", owner |-> "nobody", doc |-> 0, targets |-> {}, left |-> {}]
NoSync == [step |-> "none", rows |-> NoRecords, files |-> NoRecords, todo |-> {}, fresh |-> FALSE]

Job == [step : {"none", "check", "insert", "mkdir", "commit", "update", "undo dir", "undo row", "ok", "error"},
        kind : {"put", "attach"}, id : {0} \cup Id, doc : {0} \cup Id]
Sync == [step : {"none", "rows", "files", "records", "ok", "failed", "error"},
         rows : [Id -> Record], files : [Id -> Record], todo : SUBSET Id, fresh : BOOLEAN]
Delete == [step : {"none", "select", "dirs", "sql", "ok", "error"},
           owner : Session \cup {"rag_delete", "nobody"},
           doc : {0} \cup Id, targets : SUBSET Id, left : SUBSET Id]

StoreTypeOK ==
    /\ db \in [Id -> Record] /\ dirs \in [Id -> Record] /\ nextId \in 1 .. MaxId + 1
    /\ \A i \in Id : db[i] # None => i < nextId
    /\ job \in [Session -> Job] /\ del \in Delete /\ sync \in Sync
    /\ lost \in BOOLEAN /\ faults \in 0 .. MaxFaults

StoreInit ==
    /\ db = NoRecords /\ dirs = NoRecords /\ nextId = 1
    /\ job = [s \in Session |-> NoJob] /\ del = NoDelete /\ sync = NoSync
    /\ lost = FALSE /\ faults = 0

Recorded(records) == {i \in Id : records[i] # None}
Documents(records) == {i \in Id : records[i] = i}
Chunks(records) == {i \in Id : records[i] \notin {None, 0, i}}
ChunksOf(records, doc) == {i \in Chunks(records) : records[i] = doc}

\* Failures are bounded; each may come instead of a step.
Fault == faults < MaxFaults /\ faults' = faults + 1

-----------------------------------------------------------------------------
(* put_doc and attach_doc_chunk.  The first has no rollback; the second    *)
(* removes what it knows to have created.                                  *)

Goto(s, step) == job' = [job EXCEPT ![s].step = step]
At(s, here, there) == job[s].step = here /\ Goto(s, there)
Start(s, kind, doc) ==
    job' = [job EXCEPT ![s] = [step |-> IF kind = "put" THEN "insert" ELSE "check",
                               kind |-> kind, id |-> 0, doc |-> doc]]

\* The parent must be a full document on both sides.
CheckParent(s) ==
    /\ At(s, "check", IF job[s].doc \in Documents(db) \cap Documents(dirs) THEN "insert" ELSE "error")
    /\ UNCHANGED <<db, dirs, nextId, del, sync, lost, faults>>

\* Mutant: the id after the last row is given out, though it had been in use before.
InsertRowReusingId(s) ==
    LET id == 1 + Max(Recorded(db) \cup {0})
    IN  /\ job[s].step = "insert" /\ id <= MaxId
        /\ db' = [db EXCEPT ![id] = 0] /\ nextId' = id + 1
        /\ job' = [job EXCEPT ![s].step = "mkdir", ![s].id = id,
                              ![s].doc = IF job[s].kind = "put" THEN id ELSE @]
        /\ UNCHANGED <<dirs, del, sync, lost, faults>>

InsertRow(s) ==
    /\ job[s].step = "insert" /\ nextId <= MaxId
    /\ db' = [db EXCEPT ![nextId] = 0] /\ nextId' = nextId + 1
    /\ job' = [job EXCEPT ![s].step = "mkdir", ![s].id = nextId,
                          ![s].doc = IF job[s].kind = "put" THEN nextId ELSE @]
    /\ UNCHANGED <<dirs, del, sync, lost, faults>>

AfterError(s, step) == IF job[s].kind = "put" THEN "error" ELSE step

\* add_abstract_document, add_abstract_chunk: an id that has a directory is an error.
MakeDir(s) ==
    /\ job[s].step = "mkdir"
    /\ IF dirs[job[s].id] = None
         THEN dirs' = [dirs EXCEPT ![job[s].id] = 0] /\ Goto(s, "commit")
         ELSE Goto(s, AfterError(s, "undo row")) /\ UNCHANGED dirs
    /\ UNCHANGED <<db, nextId, del, sync, lost, faults>>

\* commit_doc, update_record: the parent is written, if the directory is still there.
CommitDir(s) ==
    /\ job[s].step = "commit"
    /\ IF dirs[job[s].id] # None
         THEN dirs' = [dirs EXCEPT ![job[s].id] = job[s].doc] /\ Goto(s, "update")
         ELSE Goto(s, AfterError(s, "undo dir")) /\ UNCHANGED dirs
    /\ UNCHANGED <<db, nextId, del, sync, lost, faults>>

\* update_file_record_ext: a row that has gone is passed over.
UpdateRow(s) ==
    /\ At(s, "update", "ok")
    /\ db' = [db EXCEPT ![job[s].id] = IF @ = None THEN None ELSE job[s].doc]
    /\ UNCHANGED <<dirs, nextId, del, sync, lost, faults>>

UndoDir(s) ==
    /\ At(s, "undo dir", "undo row") /\ dirs' = [dirs EXCEPT ![job[s].id] = None]
    /\ UNCHANGED <<db, nextId, del, sync, lost, faults>>

UndoRow(s) ==
    /\ At(s, "undo row", "error") /\ db' = [db EXCEPT ![job[s].id] = None]
    /\ UNCHANGED <<dirs, nextId, del, sync, lost, faults>>

\* A write fails, or the process is killed.  A directory of which a part was written
\* is not known to the rollback.
JobFails(s) ==
    /\ Fault
    /\ \/ job[s].step \in {"insert", "undo dir", "undo row"} /\ Goto(s, "error") /\ UNCHANGED dirs
       \/ job[s].step \in {"mkdir", "commit", "update"} /\ Goto(s, "error") /\ UNCHANGED dirs
       \/ /\ job[s].step = "mkdir" /\ dirs[job[s].id] = None
          /\ dirs' \in {dirs, [dirs EXCEPT ![job[s].id] = 0]} /\ Goto(s, AfterError(s, "undo row"))
       \/ job[s].step \in {"commit", "update"} /\ Goto(s, AfterError(s, "undo dir")) /\ UNCHANGED dirs
    /\ UNCHANGED <<db, nextId, del, sync, lost>>

JobStep(s) ==
    CheckParent(s) \/ InsertRow(s) \/ MakeDir(s) \/ CommitDir(s) \/ UpdateRow(s) \/ UndoDir(s) \/ UndoRow(s)
        \/ JobFails(s)

-----------------------------------------------------------------------------
(* delete_doc: the rows are selected, the directories removed one by one,  *)
(* the rows then deleted together.                                         *)

DeleteFree == del.step = "none" \/ (del.owner = "nobody" /\ del.step \in {"ok", "error"})
DeleteRequest(owner, doc) ==
    /\ DeleteFree
    /\ del' = [NoDelete EXCEPT !.step = "select", !.owner = owner, !.doc = doc]

\* Mutant: records under construction, whose parent is 0, are selected as well.
SelectUnfinished ==
    /\ del.step = "select"
    /\ LET targets == {i \in Recorded(db) : db[i] \in {0, del.doc}}
       IN  del' = [del EXCEPT !.step = IF targets = {} THEN "error" ELSE "dirs", !.targets = targets, !.left = targets]
    /\ UNCHANGED <<db, dirs, nextId, job, sync, lost, faults>>

SelectRecords ==
    /\ del.step = "select"
    /\ LET targets == ChunksOf(db, del.doc) \cup {i \in {del.doc} : db[i] # None}
       IN  del' = [del EXCEPT !.step = IF targets = {} THEN "error" ELSE "dirs", !.targets = targets, !.left = targets]
    /\ UNCHANGED <<db, dirs, nextId, job, sync, lost, faults>>

RemoveDir ==
    /\ del.step = "dirs"
    /\ LET i == Min(del.left)
       IN  /\ dirs' = [dirs EXCEPT ![i] = None]
           /\ del' = [del EXCEPT !.left = @ \ {i}, !.step = IF del.left = {i} THEN "sql" ELSE "dirs"]
    /\ UNCHANGED <<db, nextId, job, sync, lost, faults>>

DeleteRows ==
    /\ del.step = "sql"
    /\ db' = [i \in Id |-> IF i \in del.targets THEN None ELSE db[i]]
    /\ del' = [del EXCEPT !.step = IF del.doc \in del.targets THEN "ok" ELSE "error"]
    /\ UNCHANGED <<dirs, nextId, job, sync, lost, faults>>

DeleteFails ==
    /\ del.step \in {"select", "dirs", "sql"} /\ Fault /\ del' = [del EXCEPT !.step = "error"]
    /\ UNCHANGED <<db, dirs, nextId, job, sync, lost>>

DeleteStepTaken == SelectRecords \/ RemoveDir \/ DeleteRows \/ DeleteFails

-----------------------------------------------------------------------------
(* sync: the rows and then the directories are read; rows without a        *)
(* directory are deleted, those that differ updated, missing ones created, *)
(* each with a commit of its own.  An exception is caught: the backend     *)
(* prints its error and exits with 0, so the request ends like a           *)
(* successful one ("failed"), and only a kill, or a backend without a      *)
(* database, makes it an error.                                            *)

SyncRequest == sync.step = "none" /\ sync' = [NoSync EXCEPT !.step = "rows"]

ReadRows ==
    /\ sync.step = "rows" /\ sync' = [sync EXCEPT !.step = "files", !.rows = db]
    /\ UNCHANGED <<db, dirs, nextId, job, del, lost, faults>>

ReadFiles ==
    /\ sync.step = "files"
    /\ LET todo == Recorded(sync.rows) \cup Recorded(dirs)
       IN  sync' = IF todo = {} THEN [NoSync EXCEPT !.step = "ok"]
                   ELSE [sync EXCEPT !.step = "records", !.files = dirs, !.todo = todo]
    /\ UNCHANGED <<db, dirs, nextId, job, del, lost, faults>>

\* Rows without a directory come first, then those that have one, then the new ones,
\* each in the order of the ids.
Stage(i) == IF sync.files[i] = None THEN 1 ELSE IF sync.rows[i] # None THEN 2 ELSE 3
Before(i, j) == Stage(i) < Stage(j) \/ (Stage(i) = Stage(j) /\ i <= j)
Synchronizes(i) ==
    /\ sync.step = "records" /\ i \in sync.todo /\ \A j \in sync.todo : Before(i, j)
    /\ UNCHANGED <<dirs, job, del, lost, faults>>

Passed(i, fresh) ==
    sync' = IF sync.todo = {i} THEN [NoSync EXCEPT !.step = "ok"]
            ELSE [sync EXCEPT !.todo = @ \ {i}, !.fresh = fresh]
Written(i) == Passed(i, TRUE)
SyncError == sync' = [NoSync EXCEPT !.step = "failed"]

SyncDelete(i) ==
    /\ Synchronizes(i) /\ sync.files[i] = None
    /\ db' = [db EXCEPT ![i] = None] /\ Written(i) /\ UNCHANGED nextId

\* A commit of the session makes it read its rows again when they are next looked at:
\* a row compared later is the current one, and one that has gone is an error.
SyncUpdate(i) ==
    /\ Synchronizes(i) /\ sync.files[i] # None /\ sync.rows[i] # None /\ UNCHANGED nextId
    /\ LET seen == IF sync.fresh THEN db[i] ELSE sync.rows[i]
       IN  \/ seen = None /\ SyncError /\ UNCHANGED db
           \/ seen = sync.files[i] /\ Passed(i, sync.fresh) /\ UNCHANGED db
           \/ /\ seen \notin {None, sync.files[i]}
              /\ IF db[i] = None THEN (SyncError \/ Passed(i, sync.fresh)) /\ UNCHANGED db
                 ELSE db' = [db EXCEPT ![i] = sync.files[i]] /\ Written(i)

\* Mutant: a chunk is created without its parent.
SyncCreateOrphan(i) ==
    /\ Synchronizes(i) /\ sync.rows[i] = None
    /\ IF db[i] # None THEN SyncError /\ UNCHANGED <<db, nextId>>
       ELSE /\ db' = [db EXCEPT ![i] = IF sync.files[i] = i THEN i ELSE 0] /\ Written(i)
            /\ nextId' = IF nextId > i THEN nextId ELSE i + 1

\* Mutant: the counter does not follow the ids that are given.
SyncCreateUncounted(i) ==
    /\ Synchronizes(i) /\ sync.rows[i] = None
    /\ IF db[i] # None THEN SyncError /\ UNCHANGED db ELSE db' = [db EXCEPT ![i] = sync.files[i]] /\ Written(i)
    /\ UNCHANGED nextId

\* create_file_record_with_uid: an id that has a row by now is an error.
SyncCreate(i) ==
    /\ Synchronizes(i) /\ sync.rows[i] = None
    /\ IF db[i] # None THEN SyncError /\ UNCHANGED <<db, nextId>>
       ELSE /\ db' = [db EXCEPT ![i] = sync.files[i]] /\ Written(i)
            /\ nextId' = IF nextId > i THEN nextId ELSE i + 1

SyncFails ==
    /\ sync.step \in {"rows", "files", "records"} /\ Fault
    /\ SyncError \/ sync' = [NoSync EXCEPT !.step = "error"]
    /\ UNCHANGED <<db, dirs, nextId, job, del, lost>>

SyncStep ==
    \/ ReadRows \/ ReadFiles \/ SyncFails
    \/ \E i \in Id : SyncDelete(i) \/ SyncUpdate(i) \/ SyncCreate(i)

\* The database is replaced by an empty one, between requests; the storage tree stays.
\* Bound: this happens once.
LoseDatabase ==
    /\ ~lost /\ \A s \in Session : job[s].step \in {"none", "ok", "error"}
    /\ del.step \in {"none", "ok", "error"} /\ sync.step \in {"none", "ok", "failed", "error"}
    /\ db' = NoRecords /\ nextId' = 1 /\ lost' = TRUE
    /\ UNCHANGED <<dirs, job, del, sync, faults>>

-----------------------------------------------------------------------------
(* What the reading requests answer: get_docs and read_id.                 *)

\* A page of documents in the order of their ids, with the chunks of each, and how
\* many documents follow.
DocumentNumber(n) == CHOOSE i \in Documents(db) : Cardinality({j \in Documents(db) : j < i}) = n
Page(offset, limit) ==
    {DocumentNumber(n) : n \in {k \in offset .. offset + limit - 1 : k < Cardinality(Documents(db))}}
Remaining(offset, limit) == Cardinality(Documents(db)) - offset - Cardinality(Page(offset, limit))

\* One side is enough to find a record; where both have it they must agree, and its
\* document must be in the storage.
Parent(i) == IF db[i] # None THEN db[i] ELSE dirs[i]
Readable(i) ==
    /\ db[i] # None /\ dirs[i] # None => db[i] = dirs[i]
    /\ Parent(i) \in Documents(dirs)
=============================================================================
