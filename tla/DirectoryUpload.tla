--------------------------- MODULE DirectoryUpload ---------------------------
(***************************************************************************)
(* utility/file-uploader: one request of streaming_directory_upload.  A    *)
(* producer fills the staging tree; the main thread reconciles the tree    *)
(* and queues files that stood still for two scans; worker threads send    *)
(* each file through an upload of their own to the service                 *)
(* streaming_file_upload, whose processor stores it; the source is removed *)
(* and counted when that upload has confirmed it.  That service has a      *)
(* serial server: it reads its exec FIFO with one cat after the other and  *)
(* serves the lines of a read one by one.                                  *)
(*                                                                         *)
(* A path names an inode, an inode has a length: a rename puts another     *)
(* inode at a path, a write in place makes the inode longer.               *)
(***************************************************************************)
EXTENDS Naturals, Sequences, SequencesExt, FiniteSets

CONSTANTS
    Path,       \* relative paths of regular files
    Worker,     \* the worker threads
    MaxInode,   \* bound: files a producer makes
    Growing,    \* those of them that it writes in place instead of renaming them
    KindChoices, \* what each of them may be: an allowed file, one that the filters or its
                \* size of zero exclude, or a link or special file
    MaxLength,  \* bound: chunks of a file
    QueueSize,  \* tasks.maxsize
    MaxFiles,   \* MAX_FILES, the admission limit
    Nobody      \* marks a free lock, a worker without a task, an answer without channels

ASSUME UploadAssumption ==
    /\ Growing \subseteq 1 .. MaxInode /\ Nobody \notin Path \cup Worker
    /\ {MaxInode, MaxLength, QueueSize, MaxFiles} \subseteq Nat \ {0}
    /\ KindChoices \subseteq [1 .. MaxInode -> {"allowed", "filtered", "link"}]
    /\ IsFiniteSet(Worker)

Inode == 1 .. MaxInode
NoFile == 0

VARIABLES
    stage, length,     \* the inode at each path, the length of each inode
    made, kind,        \* inodes made so far, and the kind of each
    phase, todo,       \* where the main thread is, and the paths it has still to visit
    current, snapshot, \* this scan's identity of each path, and the last scan's
    active,            \* last_activity is known; this scan saw activity
    queued, tasks,     \* the set of paths ever queued, and the queue
    wpc, job,          \* where each worker is, and its path
    local,             \* the upload a worker uses, the inode it opened, its size, bytes sent
    lock,              \* nested_allocation_lock
    server, exec,      \* where the serial server is; the requests it has read and not served
    reply, sessions,   \* the handshake in each worker's result FIFO; the FIFOs that exist
    claimed,           \* the upload that has the session lock of each worker
    nested, expected,  \* the nested upload of each path, and the expected_bytes asked for
    temporary,         \* the content of its temporary file
    destination,       \* the content stored at each path of the final directory
    result,            \* completed, failed, skipped and unsupported paths
    stopped, failed,   \* stop_event; failed, the event
    tolerate, error,   \* tolerate_errors; whether processing_error is set
    late               \* history: the workers that gave up a wait for a reply

stageVars == <<stage, length, made, kind>>
scanVars == <<phase, todo, current, snapshot, active, queued, error>>
workerVars == <<wpc, job, local, lock>>
uploadVars == <<claimed, nested, expected, temporary, destination>>
nestedVars == <<server, exec, reply, sessions, uploadVars>>
vars == <<stageVars, scanVars, tasks, workerVars, nestedVars, result, stopped, failed, tolerate, late>>

-----------------------------------------------------------------------------
Content == {<<>>} \cup (Inode \X (0 .. MaxLength))
Identity(p) == IF stage[p] = NoFile THEN <<>> ELSE <<stage[p], length[stage[p]]>>
Kind(p) == IF stage[p] = NoFile THEN "none" ELSE kind[stage[p]]
Nothing == [p \in Path |-> <<>>]

\* What a result FIFO holds: nothing, the channels of an upload, or an answer without
\* channels.
NoReply == <<>>
Refusal == <<Nobody>>
Reply == {NoReply, Refusal} \cup {<<c>> : c \in Path}
NoUpload == [channel |-> Nobody, inode |-> 0, size |-> 0, sent |-> 0]

\* A worker counts as active between the two updates of active under the lock.
Holding(w) == wpc[w] # "idle" /\ wpc[w] # "ended"
Active == {w \in Worker : Holding(w) /\ wpc[w] \notin {"taken", "finishing"}}
Unfinished == Len(tasks) + Cardinality({w \in Worker : Holding(w)})

TreeTypes ==
    /\ stage \in [Path -> Inode \cup {NoFile}] /\ length \in [Inode -> 0 .. MaxLength]
    /\ made \in 0 .. MaxInode /\ kind \in [Inode -> {"allowed", "filtered", "link"}]
ScanTypes ==
    /\ phase \in {"scan", "schedule", "join", "responded"}
    /\ todo \subseteq Path /\ current \in [Path -> Content] /\ snapshot \in [Path -> Content]
    /\ active \in [ever : BOOLEAN, now : BOOLEAN] /\ error \in BOOLEAN
QueueTypes ==
    /\ queued \subseteq Path
    /\ tasks \in Seq(queued) /\ Len(tasks) <= QueueSize
WorkerTypes ==
    /\ wpc \in [Worker -> {"idle", "taken", "request", "reply", "open", "send", "confirm", "blocked",
                           "unlink", "failed", "finishing", "ended"}]
    /\ job \in [Worker -> Path \cup {Nobody}] /\ lock \in Worker \cup {Nobody}
    /\ local \in [Worker -> [channel : Path \cup {Nobody}, inode : Inode \cup {0},
                             size : 0 .. MaxLength, sent : 0 .. MaxLength]]
ServiceTypes ==
    /\ server \in {"read", "closing", "serve"} /\ exec \in Seq(Worker \X Path)
    /\ reply \in [Worker -> Reply] /\ sessions \subseteq Worker
    /\ claimed \in [Worker -> Path \cup {Nobody}]
    /\ nested \in [Path -> {"none", "drain", "link", "stored", "refused", "expired", "gone"}]
    /\ expected \in [Path -> 0 .. MaxLength]
    /\ temporary \in [Path -> Content] /\ destination \in [Path -> Content]
OutcomeTypes ==
    /\ result \in [completed : SUBSET Path, failed : SUBSET Path, skipped : SUBSET Path, unsupported : SUBSET Path]
    /\ stopped \in BOOLEAN /\ failed \in BOOLEAN /\ tolerate \in BOOLEAN /\ late \subseteq Worker
TypeOK == TreeTypes /\ ScanTypes /\ QueueTypes /\ WorkerTypes /\ ServiceTypes /\ OutcomeTypes

\* prepare_channels makes an empty staging directory in the request.
StageInit ==
    /\ stage = [p \in Path |-> NoFile] /\ length = [i \in Inode |-> 0]
    /\ made = 0 /\ kind \in KindChoices

Init ==
    /\ StageInit
    /\ phase = "scan" /\ todo = Path /\ current = Nothing /\ snapshot = Nothing
    /\ active = [ever |-> FALSE, now |-> FALSE] /\ queued = {} /\ tasks = <<>>
    /\ wpc = [w \in Worker |-> "idle"] /\ job = [w \in Worker |-> Nobody]
    /\ local = [w \in Worker |-> NoUpload] /\ lock = Nobody
    /\ server = "read" /\ exec = <<>> /\ reply = [w \in Worker |-> NoReply] /\ sessions = {}
    /\ claimed = [w \in Worker |-> Nobody] /\ late = {}
    /\ nested = [p \in Path |-> "none"] /\ expected = [p \in Path |-> 0]
    /\ temporary = Nothing /\ destination = Nothing
    /\ result = [completed |-> {}, failed |-> {}, skipped |-> {}, unsupported |-> {}]
    /\ stopped = FALSE /\ failed = FALSE /\ tolerate \in BOOLEAN /\ error = FALSE

-----------------------------------------------------------------------------
(* The producer, and the signal that ends the request early.               *)

\* A new file of one chunk is created at, or renamed to, a path.
Produce(p) ==
    /\ made < MaxInode
    /\ made' = made + 1 /\ UNCHANGED kind
    /\ stage' = [stage EXCEPT ![p] = made + 1]
    /\ length' = [length EXCEPT ![made + 1] = 1]

\* The producer goes on writing to a file it has made at a path.
Grow(p) ==
    /\ stage[p] \in Growing /\ Kind(p) = "allowed" /\ length[stage[p]] < MaxLength
    /\ length' = [length EXCEPT ![stage[p]] = @ + 1]
    /\ UNCHANGED <<stage, made, kind>>

Producer ==
    /\ phase # "responded"
    /\ \E p \in Path : Produce(p) \/ Grow(p)
    /\ UNCHANGED <<scanVars, tasks, workerVars, nestedVars, result, stopped, failed, tolerate, late>>

Stop ==
    /\ ~stopped /\ phase # "responded"
    /\ stopped' = TRUE
    /\ UNCHANGED <<stageVars, scanVars, tasks, workerVars, nestedVars, result, failed, tolerate, late>>

-----------------------------------------------------------------------------
(* The main thread.                                                        *)

Main(next) == phase = next /\ UNCHANGED <<workerVars, nestedVars, stopped, failed, tolerate, late>>

Unlink(p) == stage' = [stage EXCEPT ![p] = NoFile] /\ UNCHANGED <<length, made, kind>>

\* os.walk lists a node and lstat identifies it, unless a worker was faster.
Scan(p) ==
    /\ Main("scan") /\ p \in todo
    /\ todo' = todo \ {p}
    /\ IF Kind(p) = "link"
         THEN /\ Unlink(p)
              /\ result' = [result EXCEPT !.unsupported = @ \cup {p}]
              /\ active' = IF p \in result.unsupported THEN active ELSE [ever |-> TRUE, now |-> TRUE]
              /\ UNCHANGED current
         ELSE current' = [current EXCEPT ![p] = Identity(p)] /\ UNCHANGED <<stageVars, result, active>>
    /\ UNCHANGED <<phase, snapshot, queued, tasks, error>>

Seen == {p \in Path : current[p] # <<>>}
Allowed == {p \in Seen : kind[current[p][1]] = "allowed"}
Accepted == queued \ result.skipped

Admit ==
    /\ Main("scan") /\ todo = {}
    /\ IF Cardinality(Accepted \cup Allowed) > MaxFiles
         THEN phase' = "join" /\ error' = TRUE /\ UNCHANGED <<active, todo>>
         ELSE /\ phase' = "schedule" /\ todo' = Seen
              /\ active' = IF \E p \in Seen : snapshot[p] # current[p]
                             THEN [ever |-> TRUE, now |-> TRUE] ELSE active
              /\ UNCHANGED error
    /\ UNCHANGED <<stageVars, current, snapshot, queued, tasks, result>>

\* Mutant: a path given to the workers is not remembered.
ScheduleForgetful(p) ==
    /\ Main("schedule") /\ p \in todo /\ ~failed /\ p \in Allowed
    /\ todo' = todo \ {p}
    /\ IF p \in queued \/ snapshot[p] # current[p] THEN UNCHANGED tasks
         ELSE Len(tasks) < QueueSize /\ tasks' = Append(tasks, p)
    /\ UNCHANGED <<phase, queued, result, stageVars, error, current, snapshot, active>>

\* A path whose identity two scans agree on is queued, once and for ever, or
\* removed if it is filtered; tasks.put blocks while the queue is full.
Schedule(p) ==
    /\ Main("schedule") /\ p \in todo /\ ~failed
    /\ todo' = todo \ {p}
    /\ IF p \in queued \/ snapshot[p] # current[p]
         THEN UNCHANGED <<phase, queued, tasks, result, stageVars, error>>
         ELSE /\ queued' = queued \cup {p}
              /\ IF p \in Allowed
                   THEN /\ Len(tasks) < QueueSize
                        /\ tasks' = Append(tasks, p)
                        /\ UNCHANGED <<phase, stageVars, result, error>>
                 ELSE IF stage[p] = NoFile
                   THEN phase' = "join" /\ error' = TRUE /\ UNCHANGED <<tasks, stageVars, result>>
                   ELSE /\ Unlink(p)
                        /\ result' = [result EXCEPT !.skipped = @ \cup {p}]
                        /\ UNCHANGED <<phase, tasks, error>>
    /\ UNCHANGED <<current, snapshot, active>>

\* The end of a pass; snapshots = current.
PassEnds ==
    /\ Main("schedule") /\ (todo = {} \/ failed)
    /\ snapshot' = current
    /\ UNCHANGED <<stageVars, queued, tasks, result>>

\* Mutant: only running transfers count, not tasks that are queued or being taken.
IdleActiveOnly == Active = {}

Idle == Unfinished = 0 /\ Active = {}

\* The update timeout cannot have passed in a pass that saw activity.
Quiet ==
    /\ PassEnds /\ active.ever /\ ~active.now /\ Idle /\ Seen \subseteq queued
    /\ phase' = "join" /\ UNCHANGED <<todo, current, active, error>>

InitialTimeout ==
    /\ PassEnds /\ ~active.ever
    /\ phase' = "join" /\ error' = TRUE /\ UNCHANGED <<todo, current, active>>

\* Another pass, unless there was a stop or a failure that is not tolerated.
ScanAgain ==
    /\ PassEnds /\ UNCHANGED error
    /\ IF stopped \/ failed
         THEN phase' = "join" /\ UNCHANGED <<todo, current, active>>
         ELSE /\ phase' = "scan" /\ todo' = Path /\ current' = Nothing
              /\ active' = [active EXCEPT !.now = FALSE]

\* tasks.join(), one None for each worker, the response, and the removal of what is
\* left of the staging tree.
Respond ==
    /\ phase = "join" /\ Unfinished = 0
    /\ phase' = "responded" /\ stage' = [p \in Path |-> NoFile]
    /\ wpc' = [w \in Worker |-> "ended"]
    /\ UNCHANGED <<length, made, kind, todo, current, snapshot, active, queued, error, tasks, job, local, lock,
                   nestedVars, result, stopped, failed, tolerate, late>>

MainThread ==
    \/ \E p \in Path : Scan(p) \/ Schedule(p)
    \/ Admit \/ Quiet \/ InitialTimeout \/ ScanAgain \/ Respond

-----------------------------------------------------------------------------
(* A worker thread.  Each of its failures reaches the same handler.        *)

Working(w, here) == wpc[w] = here /\ UNCHANGED <<scanVars, stopped, tolerate>>
Goto(w, there) == wpc' = [wpc EXCEPT ![w] = there]
Fail(w) == Goto(w, "failed") /\ lock' = (IF lock = w THEN Nobody ELSE lock)
Keep(w) == UNCHANGED <<result, failed, tasks, job, late>>
Endpoint == UNCHANGED <<server, exec, reply, sessions>>
Upload(w) == nested[local[w].channel]
UploadBecomes(w, state) ==
    /\ nested' = [nested EXCEPT ![local[w].channel] = state]
    /\ UNCHANGED <<claimed, expected, temporary, destination>> /\ Endpoint

Take(w) ==
    /\ Working(w, "idle") /\ tasks # <<>>
    /\ job' = [job EXCEPT ![w] = Head(tasks)] /\ tasks' = Tail(tasks)
    /\ Goto(w, "taken")
    /\ UNCHANGED <<stageVars, nestedVars, local, lock, result, failed, late>>

\* active += 1; source.stat() for expected_bytes, before the lock is asked for.
MakeRequest(w) ==
    /\ Working(w, "taken") /\ Keep(w)
    /\ IF stage[job[w]] = NoFile
         THEN Fail(w) /\ UNCHANGED expected
         ELSE /\ expected' = [expected EXCEPT ![job[w]] = length[stage[job[w]]]]
              /\ Goto(w, "request") /\ UNCHANGED lock
    /\ UNCHANGED <<stageVars, claimed, nested, temporary, destination, local>> /\ Endpoint

\* exec takes a line while a cat has it open; a cat that closes takes no more, so
\* that the line is lost.
Written(line) ==
    /\ server \in {"read", "closing"}
    /\ exec' = IF server = "read" THEN Append(exec, line) ELSE exec

\* Mutant: no lock around the request and its answer.
WriteRequestUnlocked(w) ==
    /\ Working(w, "request") /\ Keep(w)
    /\ IF stopped THEN Fail(w) /\ UNCHANGED exec
       ELSE Written(<<w, job[w]>>) /\ Goto(w, "reply") /\ UNCHANGED lock
    /\ UNCHANGED <<stageVars, server, reply, sessions, uploadVars, local>>

\* With the lock: wait_for_path gives up at once after a stop, else the open waits for
\* a cat and the request is written; a cat that has closed meanwhile is an error.
WriteRequest(w) ==
    /\ Working(w, "request") /\ lock = Nobody /\ Keep(w)
    /\ \/ stopped /\ Fail(w) /\ UNCHANGED exec
       \/ ~stopped /\ Written(<<w, job[w]>>) /\ Goto(w, "reply") /\ lock' = w
       \/ ~stopped /\ server = "closing" /\ Fail(w) /\ UNCHANGED exec
    /\ UNCHANGED <<stageVars, server, reply, sessions, uploadVars, local>>

\* The FIFO of a new session has 5 s to appear; one that exists is read however long
\* that takes, and what it holds is not questioned.
ReadReply(w) ==
    /\ Working(w, "reply") /\ UNCHANGED <<result, failed, tasks, job>>
    /\ \/ /\ stopped \/ w \notin sessions
          /\ Fail(w) /\ UNCHANGED <<local, reply>>
          /\ late' = IF stopped THEN late ELSE late \cup {w}
       \/ /\ reply[w] # NoReply
          /\ reply' = [reply EXCEPT ![w] = NoReply]
          /\ IF reply[w] = Refusal
               THEN Fail(w) /\ UNCHANGED local
               ELSE /\ local' = [local EXCEPT ![w].channel = reply[w][1]]
                    /\ Goto(w, "open") /\ lock' = (IF lock = w THEN Nobody ELSE lock)
          /\ UNCHANGED late
    /\ UNCHANGED <<stageVars, server, exec, sessions, uploadVars>>

\* stat, open and fstat agree on an inode and its size, or the upload fails.
OpenSource(w) ==
    /\ Working(w, "open") /\ Keep(w)
    /\ IF stage[job[w]] = NoFile \/ Upload(w) = "gone"
         THEN Fail(w) /\ UNCHANGED local
         ELSE /\ local' = [local EXCEPT ![w].inode = stage[job[w]],
                                        ![w].size = length[stage[job[w]]]]
              /\ Goto(w, "send") /\ UNCHANGED lock
    /\ UNCHANGED <<stageVars, nestedVars>>

\* The nested upload has received n chunks and compares them with expected_bytes; a
\* mismatch removes the temporary file.
EndOfInput(w, n) ==
    LET p == local[w].channel
    IN  /\ IF n = expected[p]
             THEN /\ nested' = [nested EXCEPT ![p] = "link"]
                  /\ temporary' = [temporary EXCEPT ![p] = <<local[w].inode, n>>]
             ELSE nested' = [nested EXCEPT ![p] = "refused"] /\ UNCHANGED temporary
        /\ UNCHANGED <<claimed, expected, destination>> /\ Endpoint

\* The input FIFO is opened and the file written to it, to its end; a stop or a
\* reader that goes away ends it before, a FIFO that is gone ends it at once.
Send(w) ==
    /\ Working(w, "send") /\ Keep(w)
    /\ \/ /\ Upload(w) = "drain" /\ ~stopped
          /\ Goto(w, "confirm") /\ UNCHANGED lock
          /\ local' = [local EXCEPT ![w].sent = length[local[w].inode]]
          /\ EndOfInput(w, length[local[w].inode])
       \/ /\ Upload(w) = "drain" /\ stopped /\ Fail(w) /\ UNCHANGED local
          /\ \E n \in 0 .. length[local[w].inode] : EndOfInput(w, n)
       \/ Upload(w) \in {"expired", "gone"} /\ Fail(w) /\ UNCHANGED <<local, nestedVars>>
    /\ UNCHANGED stageVars

\* Mutant: the answer is not looked at.
ReadConfirmationAny(w) ==
    /\ Working(w, "confirm") /\ Keep(w) /\ Upload(w) \in {"stored", "refused"}
    /\ Goto(w, "unlink") /\ UploadBecomes(w, "expired")
    /\ UNCHANGED <<stageVars, local, lock>>

\* The result: its error code, and its byte count against what was sent and
\* announced.  wait_for_path fails after a stop and when the request is gone.  With
\* its result read the upload ends, and its request is still to be removed.
ReadConfirmation(w) ==
    /\ Working(w, "confirm") /\ Keep(w)
    /\ \/ /\ stopped \/ Upload(w) = "gone"
          /\ Fail(w) /\ UNCHANGED nestedVars
       \/ /\ Upload(w) \in {"stored", "refused"}
          /\ UploadBecomes(w, "expired")
          /\ IF Upload(w) = "stored" /\ local[w].sent = local[w].size
               THEN Goto(w, "unlink") /\ UNCHANGED lock ELSE Fail(w)
    /\ UNCHANGED <<stageVars, local>>

\* Opening a FIFO whose other end is gone blocks; nothing wakes the worker when the
\* request is removed.
Block(w) ==
    /\ wpc[w] \in {"send", "confirm"} /\ Working(w, wpc[w]) /\ Upload(w) = "expired"
    /\ Goto(w, "blocked") /\ Keep(w)
    /\ UNCHANGED <<stageVars, nestedVars, local, lock>>

\* Mutant: the file is counted before its source is removed.
ConsumeCountingFirst(w) ==
    /\ Working(w, "unlink")
    /\ result' = [result EXCEPT !.completed = @ \cup {job[w]}]
    /\ IF stage[job[w]] = NoFile THEN Fail(w) /\ UNCHANGED stageVars
       ELSE Unlink(job[w]) /\ Goto(w, "finishing") /\ UNCHANGED lock
    /\ UNCHANGED <<nestedVars, tasks, job, local, failed, late>>

\* source.unlink(), by its path.
Consume(w) ==
    /\ Working(w, "unlink")
    /\ IF stage[job[w]] = NoFile
         THEN Fail(w) /\ UNCHANGED <<result, stageVars>>
         ELSE /\ Unlink(job[w])
              /\ result' = [result EXCEPT !.completed = @ \cup {job[w]}]
              /\ Goto(w, "finishing") /\ UNCHANGED lock
    /\ UNCHANGED <<nestedVars, tasks, job, local, failed, late>>

RecordFailure(w) ==
    /\ Working(w, "failed")
    /\ result' = [result EXCEPT !.failed = @ \cup {job[w]}]
    /\ failed' = (failed \/ ~tolerate)
    /\ Goto(w, "finishing")
    /\ UNCHANGED <<stageVars, nestedVars, tasks, job, local, lock, late>>

TaskDone(w) ==
    /\ Working(w, "finishing")
    /\ Goto(w, "idle") /\ job' = [job EXCEPT ![w] = Nobody]
    /\ local' = [local EXCEPT ![w] = NoUpload]
    /\ UNCHANGED <<stageVars, nestedVars, tasks, lock, result, failed, late>>

WorkerThread(w) ==
    \/ Take(w) \/ MakeRequest(w) \/ WriteRequest(w) \/ ReadReply(w) \/ OpenSource(w) \/ Send(w)
    \/ ReadConfirmation(w) \/ Block(w) \/ Consume(w) \/ RecordFailure(w) \/ TaskDone(w)

-----------------------------------------------------------------------------
(* streaming_file_upload: its server, and the processor of each upload.    *)

Elsewhere == UNCHANGED <<stageVars, scanVars, tasks, job, local, result, stopped, failed, tolerate, late>>
Threads == UNCHANGED <<wpc, lock>>

\* cat has the end of file of a write, and is about to close exec.
CatAtEOF ==
    /\ server = "read" /\ exec # <<>>
    /\ server' = "closing"
    /\ UNCHANGED <<exec, reply, sessions, uploadVars>> /\ Elsewhere /\ Threads

\* exec_watchdog: an answer of the session that nobody has read is drained before the
\* session's next line runs; whoever waits for an answer then may read an empty one.
Drain(w) ==
    /\ server # "read" /\ exec # <<>> /\ Head(exec)[1] = w /\ reply[w] # NoReply
    /\ server' = "serve"
    /\ reply' = [reply EXCEPT ![w] = NoReply]
    /\ \/ wpc[w] = "reply" /\ Fail(w)
       \/ Threads
    /\ UNCHANGED <<exec, sessions, uploadVars>> /\ Elsewhere

\* cat has ended.  The launcher gives the session one upload at a time, and may fail
\* for its own reasons: its answer is then empty.  After the last line a new cat reads.
Launch(w, p) ==
    /\ server # "read" /\ exec # <<>> /\ Head(exec) = <<w, p>> /\ reply[w] = NoReply
    /\ exec' = Tail(exec)
    /\ server' = IF Tail(exec) = <<>> THEN "read" ELSE "serve"
    /\ sessions' = sessions \cup {w}
    /\ \/ /\ claimed[w] = Nobody
          /\ claimed' = [claimed EXCEPT ![w] = p]
          /\ nested' = [nested EXCEPT ![p] = "drain"]
          /\ reply' = [reply EXCEPT ![w] = <<p>>]
       \/ reply' = [reply EXCEPT ![w] = Refusal] /\ UNCHANGED <<claimed, nested>>
    /\ UNCHANGED <<expected, temporary, destination>> /\ Elsewhere /\ Threads

SerialServer ==
    \/ CatAtEOF
    \/ \E w \in Worker : Drain(w) \/ \E p \in Path : Launch(w, p)

\* The temporary file is linked to its final name and unlinked.
Link(p) ==
    /\ nested[p] = "link"
    /\ nested' = [nested EXCEPT ![p] = "stored"]
    /\ destination' = [destination EXCEPT ![p] = temporary[p]]
    /\ temporary' = [temporary EXCEPT ![p] = <<>>]
    /\ UNCHANGED <<claimed, expected>> /\ Endpoint /\ Elsewhere /\ Threads

\* A timeout, an error or a signal ends the processor, which removes its temporary
\* file, or the wait for a reader of its result.
Expire(p) ==
    /\ nested[p] \in {"drain", "link", "stored", "refused"}
    /\ nested' = [nested EXCEPT ![p] = "expired"]
    /\ temporary' = [temporary EXCEPT ![p] = <<>>]
    /\ UNCHANGED <<claimed, expected, destination>> /\ Endpoint /\ Elsewhere /\ Threads

\* The executor removes the request directory, its FIFOs and the session lock.
RemoveRequest(p) ==
    /\ nested[p] = "expired"
    /\ nested' = [nested EXCEPT ![p] = "gone"]
    /\ claimed' = [w \in Worker |-> IF claimed[w] = p THEN Nobody ELSE claimed[w]]
    /\ UNCHANGED <<expected, temporary, destination>> /\ Endpoint /\ Elsewhere /\ Threads

NestedUpload == \E p \in Path : Link(p) \/ Expire(p) \/ RemoveRequest(p)

Next ==
    \/ Producer \/ Stop \/ MainThread \/ (\E w \in Worker : WorkerThread(w))
    \/ SerialServer \/ NestedUpload
Spec == Init /\ [][Next]_vars

-----------------------------------------------------------------------------
(* Properties.                                                             *)

\* A file is removed from the staging tree as transferred only when its place in the
\* destination holds the inode the worker opened, of the length it had then: not a
\* part of it, and not what an upload of another file left there (nested_upload).  A
\* worker that has given up the 5 s wait for a reply is excepted: it reads that reply
\* as the answer to its next request (ReadIsOfThisAllocation).
CompletedIsStored ==
    \A w \in Worker : wpc[w] = "unlink" /\ w \notin late =>
        destination[job[w]] = <<local[w].inode, local[w].size>>

\* "Writing the request first ensures the subsequent read belongs to this
\* allocation": the channels a worker has are those of its own request.  The code
\* does not keep this after a wait that was given up.
ReadIsOfThisAllocation ==
    \A w \in Worker : wpc[w] = "open" => local[w].channel = job[w]

\* The request does not end its discovery by the quiet period while a file it has
\* queued is not settled, or a file its last scan saw is not queued: no transfer
\* falls between queue and worker when the idle test looks (process_directory).
QuietMeansSettled ==
    phase \in {"join", "responded"} /\ ~stopped /\ ~failed /\ ~error =>
        /\ queued = result.completed \cup result.failed \cup result.skipped
        /\ Seen \subseteq queued

\* The response is the truth, after a stop and after failures too: every file that
\* was ever queued is exactly one of completed, failed and skipped, a skipped file is
\* not in the destination, no nested upload that could still store one has a sender,
\* and, unless a worker has given up a wait for a reply, a completed file is in the
\* destination (build_response, after tasks.join()).
ResponseAccounts ==
    phase = "responded" =>
        /\ queued = result.completed \cup result.failed \cup result.skipped
        /\ result.completed \cap result.failed = {}
        /\ result.skipped \cap (result.completed \cup result.failed) = {}
        /\ late = {} => \A p \in result.completed : destination[p] # <<>>
        /\ \A p \in result.skipped : destination[p] = <<>>
        /\ \A w \in Worker : job[w] = Nobody

\* "Two writers must never overlap": unless a worker has given up a wait, a worker
\* that waits for a reply has its request with the server, alone, or its reply in its
\* result FIFO.  A request written while the server's cat closes exec is lost, and
\* its worker may wait for ever (nested_allocation_lock).
NoRequestIsLost ==
    late = {} =>
        \A w \in Worker : wpc[w] = "reply" =>
            exec = <<<<w, job[w]>>>> \/ reply[w] \in {<<job[w]>>, Refusal}
=============================================================================
