----------------------- MODULE DirectoryUpload_proofs -----------------------
(***************************************************************************)
(* Proofs about DirectoryUpload for every set of paths, any finite number  *)
(* of workers and any bounds.  Where a worker has given up the wait for a  *)
(* reply the properties themselves say what is left of them.               *)
(***************************************************************************)
EXTENDS DirectoryUpload, FiniteSetTheorems, TLAPS

-----------------------------------------------------------------------------
(* The inductive invariant.                                                *)

Waiting(p) == \E i \in 1 .. Len(tasks) : tasks[i] = p
Has(w, p) == Holding(w) /\ job[w] = p

\* A path is given to one worker only: it waits in the queue once, or one
\* worker has it.
Queueing ==
    /\ \A w \in Worker : Holding(w) => job[w] \in queued /\ ~Waiting(job[w])
    /\ \A w \in Worker : ~Holding(w) => job[w] = Nobody
    /\ \A v, w \in Worker : Holding(v) /\ Holding(w) /\ job[v] = job[w] => v = w
    /\ \A i, j \in 1 .. Len(tasks) : tasks[i] = tasks[j] => i = j
    /\ \A w \in Worker : wpc[w] \in {"send", "confirm", "blocked", "unlink"} => local[w].inode \in Inode

Typing == TypeOK /\ Queueing

\* A worker that has opened, or will open, the channels of an upload.
Using(w) == wpc[w] \in {"open", "send", "confirm", "blocked", "unlink"}

\* The server has read a request of a worker for a path; the worker has asked for
\* an upload of it and has, or may still get, its channels.
Line(w, c) == \E i \in 1 .. Len(exec) : exec[i] = <<w, c>>
Asked(w, c) == Line(w, c) \/ reply[w] = <<c>> \/ (Using(w) /\ local[w].channel = c)
Unasked(w) == reply[w] = NoReply /\ \A c \in Path : ~Line(w, c)

\* Only its own worker ever asks for an upload of a path, and uses it.
Asking ==
    /\ \A w \in Worker, c \in Path : Asked(w, c) =>
          c \in queued /\ ~Waiting(c) /\ \A v \in Worker : Has(v, c) => v = w
    /\ \A w \in Worker : Using(w) => local[w].channel \in Path
    /\ \A p \in Path : nested[p] # "none" => p \in queued

\* A worker that has not given up a wait asks once, gets the answer to that, and
\* leaves nothing behind before a stop.
PromptOf(w) ==
    /\ \A i, j \in 1 .. Len(exec) : exec[i][1] = w /\ exec[j][1] = w => i = j
    /\ wpc[w] = "reply" => \A c \in Path : Line(w, c) => c = job[w] /\ reply[w] = NoReply
    /\ wpc[w] = "reply" => reply[w] \in {NoReply, Refusal, <<job[w]>>}
    /\ Using(w) => Unasked(w) /\ local[w].channel = job[w]
    /\ ~stopped /\ wpc[w] \notin {"reply", "ended"} => Unasked(w)
Prompt == \A w \in Worker \ late : PromptOf(w)

\* Whoever waits for a reply has the lock.  Unless somebody has given up a wait,
\* nobody else's request is with the server, and none is written while cat closes.
Turns ==
    /\ \A v, w \in Worker : wpc[v] = "ended" => wpc[w] = "ended"
    /\ \A w \in Worker : wpc[w] = "reply" => lock = w
    /\ lock # Nobody => wpc[lock] \in {"reply", "ended"}
    /\ exec = <<>> => server = "read"
    /\ late = {} /\ lock = Nobody /\ ~stopped => exec = <<>> \/ \A w \in Worker : wpc[w] = "ended"
    /\ late = {} => \A w \in Worker : wpc[w] = "reply" =>
          \/ exec = <<<<w, job[w]>>>> /\ reply[w] = NoReply
          \/ exec = <<>> /\ reply[w] \in {<<job[w]>>, Refusal}

\* What is stored at a path is what its worker has sent, if that gave up no wait.
ContentsOf(w) ==
    /\ wpc[w] \in {"open", "send"} \/ (wpc[w] = "reply" /\ reply[w] = <<job[w]>>) =>
         nested[job[w]] \in {"drain", "expired", "gone"}
    /\ wpc[w] = "confirm" =>
         /\ nested[job[w]] \notin {"none", "drain"}
         /\ nested[job[w]] = "link" => temporary[job[w]] = <<local[w].inode, local[w].sent>>
         /\ nested[job[w]] = "stored" => destination[job[w]] = <<local[w].inode, local[w].sent>>
    /\ wpc[w] = "unlink" =>
         /\ nested[job[w]] \in {"expired", "gone"}
         /\ destination[job[w]] = <<local[w].inode, local[w].size>>
Contents == \A w \in Worker \ late : ContentsOf(w)

-----------------------------------------------------------------------------
(* Types, and who has which path.                                          *)

\* The types hold initially.
LEMMA InitTyping == Init => Typing
  <1> SUFFICES ASSUME Init PROVE Typing
    OBVIOUS
  <1> USE UploadAssumption DEF Init, StageInit, Nothing, NoUpload, NoFile, Inode, Content, Reply
  <1>0. kind \in [Inode -> {"allowed", "filtered", "link"}]
    OBVIOUS
  <1>1. TreeTypes
    BY <1>0 DEF TreeTypes
  <1>5. ScanTypes
    BY DEF ScanTypes
  <1>2. QueueTypes /\ WorkerTypes
    BY DEF QueueTypes, WorkerTypes
  <1>3. ServiceTypes
    BY DEF ServiceTypes
  <1>6. OutcomeTypes
    BY DEF OutcomeTypes
  <1>4. Queueing
    BY DEF Queueing, Holding, Waiting
  <1> QED BY <1>1, <1>2, <1>3, <1>4, <1>5, <1>6 DEF Typing, TypeOK

\* A step that leaves the variables of a part alone keeps the part.
LEMMA Framing ==
    /\ TreeTypes /\ UNCHANGED stageVars => TreeTypes'
    /\ ScanTypes /\ UNCHANGED scanVars => ScanTypes'
    /\ QueueTypes /\ UNCHANGED <<tasks, queued>> => QueueTypes'
    /\ WorkerTypes /\ UNCHANGED workerVars => WorkerTypes'
    /\ ServiceTypes /\ UNCHANGED nestedVars => ServiceTypes'
    /\ OutcomeTypes /\ UNCHANGED <<result, stopped, failed, tolerate, late>> => OutcomeTypes'
    /\ Queueing /\ UNCHANGED <<tasks, queued, workerVars>> => Queueing'
  <1> USE DEF stageVars, scanVars, workerVars, nestedVars, uploadVars
  <1>1. TreeTypes /\ UNCHANGED stageVars => TreeTypes'
    BY DEF TreeTypes
  <1>2. ScanTypes /\ UNCHANGED scanVars => ScanTypes'
    BY DEF ScanTypes
  <1>3. QueueTypes /\ UNCHANGED <<tasks, queued>> => QueueTypes'
    BY DEF QueueTypes
  <1>4. WorkerTypes /\ UNCHANGED workerVars => WorkerTypes'
    BY DEF WorkerTypes
  <1>5. ServiceTypes /\ UNCHANGED nestedVars => ServiceTypes'
    BY DEF ServiceTypes
  <1>6. OutcomeTypes /\ UNCHANGED <<result, stopped, failed, tolerate, late>> => OutcomeTypes'
    BY DEF OutcomeTypes
  <1>7. Queueing /\ UNCHANGED <<tasks, queued, workerVars>> => Queueing'
    BY DEF Queueing, Holding, Waiting
  <1> QED BY <1>1, <1>2, <1>3, <1>4, <1>5, <1>6, <1>7

\* A producer and a stop disturb only the tree and the flag.
LEMMA ProducerTyping ==
    ASSUME Typing, Producer \/ Stop
    PROVE  Typing'
  <1>1. CASE Producer
    <2>1. TreeTypes
      BY DEF Typing, TypeOK
    <2>2. ASSUME NEW p \in Path, Produce(p) PROVE TreeTypes'
      BY <2>1, <2>2, UploadAssumption DEF Produce, TreeTypes, Inode, NoFile
    <2>3. ASSUME NEW p \in Path, Grow(p) PROVE TreeTypes'
      <3>1. stage[p] \in Inode /\ length[stage[p]] + 1 \in 0 .. MaxLength
        BY <2>1, <2>3, UploadAssumption DEF Grow, Kind, TreeTypes, Inode, NoFile
      <3> QED BY <2>1, <2>3, <3>1 DEF Grow, TreeTypes
    <2>4. TreeTypes'
      BY <1>1, <2>2, <2>3 DEF Producer
    <2> QED BY <1>1, <2>4, Framing DEF Producer, Typing, TypeOK, scanVars
  <1>2. CASE Stop
    <2>1. OutcomeTypes'
      BY <1>2 DEF Stop, Typing, TypeOK, OutcomeTypes
    <2> QED BY <1>2, <2>1, Framing DEF Stop, Typing, TypeOK, scanVars
  <1> QED BY <1>1, <1>2

\* Between taking a task and giving it back a worker only moves on.
LEMMA MovingOn ==
    ASSUME Queueing, NEW w \in Worker, Holding(w), Holding(w)', UNCHANGED <<tasks, queued, job>>,
           \A v \in Worker \ {w} : wpc'[v] = wpc[v] /\ local'[v] = local[v],
           wpc'[w] \in {"send", "confirm", "blocked", "unlink"} => local'[w].inode \in Inode
    PROVE  Queueing'
  <1>1. \A v \in Worker : Holding(v)' = Holding(v)
    BY DEF Holding
  <1>2. \A v \in Worker : wpc'[v] \in {"send", "confirm", "blocked", "unlink"} => local'[v].inode \in Inode
    BY DEF Queueing
  <1> QED BY <1>1, <1>2 DEF Queueing, Waiting

\* A step of the server or of a nested upload disturbs only the service, or ends the
\* wait of a worker whose answer it drains.
LEMMA NestedTyping ==
    ASSUME Typing, SerialServer \/ NestedUpload
    PROVE  Typing'
  <1> USE DEF Elsewhere, Threads, Endpoint
  <1>0. exec \in Seq(Worker \X Path) /\ server \in {"read", "closing", "serve"}
    BY DEF Typing, TypeOK, ServiceTypes
  <1>1. CASE CatAtEOF
    <2>1. ServiceTypes'
      BY <1>1 DEF CatAtEOF, Typing, TypeOK, ServiceTypes, uploadVars
    <2> QED BY <1>1, <2>1, Framing DEF CatAtEOF, Typing, TypeOK, scanVars, workerVars
  <1>2. ASSUME NEW w \in Worker, Drain(w) PROVE Typing'
    <2>1. ServiceTypes'
      BY <1>2 DEF Drain, Typing, TypeOK, ServiceTypes, uploadVars, Reply
    <2>2. WorkerTypes'
      BY <1>2 DEF Drain, Fail, Goto, Typing, TypeOK, WorkerTypes
    <2>3. Queueing'
      <3>1. wpc' = wpc \/ (wpc[w] = "reply" /\ wpc' = [wpc EXCEPT ![w] = "failed"])
        BY <1>2 DEF Drain, Fail, Goto
      <3>2. UNCHANGED <<tasks, queued, job, local>>
        BY <1>2 DEF Drain, scanVars
      <3>3. CASE wpc' = wpc
        BY <3>2, <3>3 DEF Typing, Queueing, Holding, Waiting
      <3>4. CASE wpc[w] = "reply" /\ wpc' = [wpc EXCEPT ![w] = "failed"]
        <4>1. wpc'[w] = "failed" /\ \A v \in Worker \ {w} : wpc'[v] = wpc[v]
          BY <3>4 DEF Typing, TypeOK, WorkerTypes
        <4> QED BY <3>2, <3>4, <4>1, MovingOn DEF Typing, Holding
      <3> QED BY <3>1, <3>3, <3>4
    <2> QED BY <1>2, <2>1, <2>2, <2>3, Framing DEF Drain, Typing, TypeOK, scanVars
  <1>3. ASSUME NEW w \in Worker, NEW p \in Path, Launch(w, p) PROVE Typing'
    <2>1. exec' \in Seq(Worker \X Path) /\ server' \in {"read", "closing", "serve"}
      <3>1. exec # <<>> /\ exec' = Tail(exec) /\ server' = IF Tail(exec) = <<>> THEN "read" ELSE "serve"
        BY <1>3 DEF Launch
      <3> QED BY <1>0, <3>1
    <2>3. reply' \in [Worker -> Reply] /\ claimed' \in [Worker -> Path \cup {Nobody}]
      <3>1. reply \in [Worker -> Reply] /\ claimed \in [Worker -> Path \cup {Nobody}]
        BY DEF Typing, TypeOK, ServiceTypes
      <3>2. Refusal \in Reply /\ <<p>> \in Reply
        BY DEF Reply
      <3>3. /\ reply' = [reply EXCEPT ![w] = <<p>>] \/ reply' = [reply EXCEPT ![w] = Refusal]
            /\ claimed' = [claimed EXCEPT ![w] = p] \/ UNCHANGED claimed
        BY <1>3 DEF Launch
      <3> QED BY <3>1, <3>2, <3>3
    <2>4. sessions' \subseteq Worker /\ UNCHANGED <<expected, temporary, destination>>
      BY <1>3 DEF Launch, Typing, TypeOK, ServiceTypes
    <2>5. nested' = nested \/ nested' = [nested EXCEPT ![p] = "drain"]
      BY <1>3 DEF Launch
    <2> HIDE DEF Elsewhere, Threads, Endpoint
    <2>2. ServiceTypes'
      BY <2>1, <2>3, <2>4, <2>5 DEF Typing, TypeOK, ServiceTypes
    <2> USE DEF Elsewhere, Threads
    <2> QED BY <1>3, <2>2, Framing DEF Launch, Typing, TypeOK, scanVars, workerVars
  <1>4. ASSUME NEW p \in Path, Link(p) \/ Expire(p) \/ RemoveRequest(p) PROVE Typing'
    <2>1. ServiceTypes'
      <3>1. claimed' \in [Worker -> Path \cup {Nobody}]
        BY <1>4 DEF Link, Expire, RemoveRequest, Typing, TypeOK, ServiceTypes
      <3> QED BY <1>4, <3>1 DEF Link, Expire, RemoveRequest, Typing, TypeOK, ServiceTypes, Content
    <2> QED BY <1>4, <2>1, Framing DEF Link, Expire, RemoveRequest, Typing, TypeOK, scanVars, workerVars
  <1> QED BY <1>1, <1>2, <1>3, <1>4 DEF SerialServer, NestedUpload

\* Unfinished counts the tasks that wait and the workers that have one.
LEMMA NothingUnfinished ==
    ASSUME Typing, Unfinished = 0
    PROVE  tasks = <<>> /\ \A w \in Worker : ~Holding(w)
  <1> DEFINE H == {w \in Worker : Holding(w)}
  <1>1. IsFiniteSet(H)
    BY FS_Subset, UploadAssumption
  <1>2. Cardinality(H) \in Nat
    BY <1>1, FS_CardinalityType
  <1>3. Len(tasks) \in Nat /\ (Len(tasks) = 0 => tasks = <<>>)
    BY DEF Typing, TypeOK, QueueTypes
  <1>4. Len(tasks) + Cardinality(H) = 0
    BY DEF Unfinished
  <1>5. Len(tasks) = 0 /\ Cardinality(H) = 0
    BY <1>2, <1>3, <1>4
  <1>6. H = {}
    BY <1>1, <1>5, FS_EmptySet
  <1> QED BY <1>3, <1>5, <1>6

\* A path that is queued now was never queued before, so that nobody has it.
LEMMA ScheduleTyping ==
    ASSUME Typing, NEW p \in Path, Schedule(p)
    PROVE  Typing'
  <1> USE DEF Schedule, Main
  <1>1. TreeTypes'
    BY DEF Typing, TypeOK, TreeTypes, Unlink, stageVars, NoFile
  <1>2. ScanTypes'
    BY DEF Typing, TypeOK, ScanTypes
  <1>3. QueueTypes'
    <2>1. CASE UNCHANGED tasks
      <3>1. queued' \subseteq Path /\ queued \subseteq queued' /\ tasks \in Seq(queued) /\ Len(tasks) <= QueueSize
        BY DEF Typing, TypeOK, QueueTypes
      <3>2. tasks \in Seq(queued')
        BY <3>1
      <3> QED BY <2>1, <3>1, <3>2 DEF QueueTypes
    <2>2. CASE queued' = queued \cup {p} /\ Len(tasks) < QueueSize /\ tasks' = Append(tasks, p)
      <3>1. queued' \subseteq Path /\ tasks \in Seq(queued)
        BY <2>2 DEF Typing, TypeOK, QueueTypes
      <3>2. tasks \in Seq(queued') /\ p \in queued'
        BY <2>2, <3>1
      <3>3. tasks' \in Seq(queued') /\ Len(tasks') = Len(tasks) + 1 /\ Len(tasks) \in Nat
        BY <2>2, <3>2
      <3> QED BY <2>2, <3>1, <3>3, UploadAssumption DEF QueueTypes
    <2> QED BY <2>1, <2>2
  <1>4. OutcomeTypes'
    BY DEF Typing, TypeOK, OutcomeTypes
  <1>5. Queueing'
    <2>1. CASE UNCHANGED <<queued, tasks>>
      BY <2>1, Framing DEF Typing
    <2>2. CASE p \notin queued /\ queued' = queued \cup {p} /\ UNCHANGED tasks
      BY <2>2 DEF Typing, TypeOK, QueueTypes, Queueing, Holding, Waiting, workerVars
    <2>3. CASE p \notin queued /\ queued' = queued \cup {p} /\ tasks' = Append(tasks, p)
      <3>1. /\ Len(tasks) \in Nat /\ Len(tasks') = Len(tasks) + 1 /\ tasks'[Len(tasks) + 1] = p
            /\ \A i \in 1 .. Len(tasks) : tasks'[i] = tasks[i] /\ tasks[i] \in queued
        BY <2>3 DEF Typing, TypeOK, QueueTypes
      <3> QED BY <2>3, <3>1 DEF Typing, Queueing, Holding, Waiting, workerVars
    <2> QED BY <2>1, <2>2, <2>3
  <1> QED BY <1>1, <1>2, <1>3, <1>4, <1>5, Framing DEF Typing, TypeOK

\* The main thread keeps the types.
LEMMA MainTyping ==
    ASSUME Typing, MainThread
    PROVE  Typing'
  <1> USE DEF Main
  <1>1. ASSUME NEW p \in Path, Scan(p) PROVE Typing'
    <2>1. TreeTypes'
      BY <1>1 DEF Scan, Typing, TypeOK, TreeTypes, Unlink, stageVars, NoFile
    <2>2. Identity(p) \in Content
      BY UploadAssumption DEF Identity, Content, Typing, TypeOK, TreeTypes, NoFile, Inode
    <2>3. ScanTypes'
      <3>1. active' \in [ever : BOOLEAN, now : BOOLEAN]
        <4>1. active \in [ever : BOOLEAN, now : BOOLEAN]
          BY DEF Typing, TypeOK, ScanTypes
        <4>2. active' = active \/ active' = [ever |-> TRUE, now |-> TRUE]
          BY <1>1 DEF Scan
        <4>3. [ever |-> TRUE, now |-> TRUE] \in [ever : BOOLEAN, now : BOOLEAN]
          OBVIOUS
        <4> QED BY <4>1, <4>2, <4>3, Zenon
      <3>2. current' \in [Path -> Content]
        BY <1>1, <2>2 DEF Scan, Typing, TypeOK, ScanTypes
      <3> QED BY <1>1, <3>1, <3>2 DEF Scan, Typing, TypeOK, ScanTypes
    <2>4. OutcomeTypes'
      BY <1>1 DEF Scan, Typing, TypeOK, OutcomeTypes
    <2> QED BY <1>1, <2>1, <2>3, <2>4, Framing DEF Scan, Typing, TypeOK
  <1>2. ASSUME NEW p \in Path, Schedule(p) PROVE Typing'
    BY <1>2, ScheduleTyping
  <1>3. CASE Admit
    <2>1. ScanTypes'
      <3>1. active' \in [ever : BOOLEAN, now : BOOLEAN] /\ todo' \subseteq Path
        <4>1. active \in [ever : BOOLEAN, now : BOOLEAN] /\ todo \subseteq Path
          BY DEF Typing, TypeOK, ScanTypes
        <4>2. active' = active \/ active' = [ever |-> TRUE, now |-> TRUE]
          BY <1>3 DEF Admit
        <4>3. todo' = todo \/ todo' = Seen
          BY <1>3 DEF Admit
        <4>4. [ever |-> TRUE, now |-> TRUE] \in [ever : BOOLEAN, now : BOOLEAN] /\ Seen \subseteq Path
          BY DEF Seen
        <4> QED BY <4>1, <4>2, <4>3, <4>4, Zenon
      <3>2. error' \in BOOLEAN /\ phase' \in {"join", "schedule"} /\ UNCHANGED <<current, snapshot>>
        BY <1>3 DEF Admit, Typing, TypeOK, ScanTypes
      <3> QED BY <3>1, <3>2 DEF Typing, TypeOK, ScanTypes
    <2> QED BY <1>3, <2>1, Framing DEF Admit, Typing, TypeOK
  <1>4. CASE Quiet \/ InitialTimeout \/ ScanAgain
    <2>1. ScanTypes'
      BY <1>4 DEF Quiet, InitialTimeout, ScanAgain, PassEnds, Nothing, Typing, TypeOK, ScanTypes, Content
    <2> QED BY <1>4, <2>1, Framing DEF Quiet, InitialTimeout, ScanAgain, PassEnds, Typing, TypeOK
  <1>5. CASE Respond
    <2>1. TreeTypes'
      BY <1>5 DEF Respond, Typing, TypeOK, TreeTypes, NoFile
    <2>2. ScanTypes'
      BY <1>5 DEF Respond, Typing, TypeOK, ScanTypes
    <2>3. WorkerTypes'
      BY <1>5 DEF Respond, Typing, TypeOK, WorkerTypes
    <2>4. Queueing'
      BY <1>5, NothingUnfinished DEF Respond, Typing, Queueing, Holding, Waiting
    <2> QED BY <1>5, <2>1, <2>2, <2>3, <2>4, Framing DEF Respond, Typing, TypeOK
  <1> QED BY <1>1, <1>2, <1>3, <1>4, <1>5 DEF MainThread

-----------------------------------------------------------------------------
\* A task leaves the queue, where it was once, for the hands of one worker.
LEMMA TakeTyping ==
    ASSUME Typing, NEW w \in Worker, Take(w)
    PROVE  Typing'
  <1> USE DEF Take, Working, Goto
  <1>0. tasks \in Seq(queued) /\ tasks # <<>>
    BY DEF Typing, TypeOK, QueueTypes
  <1> PICK p \in queued : p = Head(tasks)
    BY <1>0
  <1>1. /\ Len(tasks) \in Nat \ {0} /\ p = tasks[1] /\ p \in queued /\ queued \subseteq Path
        /\ Len(tasks') = Len(tasks) - 1 /\ tasks' \in Seq(queued)
        /\ \A i \in 1 .. Len(tasks') : tasks'[i] = tasks[i + 1]
    BY DEF Typing, TypeOK, QueueTypes
  <1>2. QueueTypes'
    BY <1>1, UploadAssumption DEF Typing, TypeOK, QueueTypes, scanVars
  <1>3. WorkerTypes'
    BY <1>1 DEF Typing, TypeOK, WorkerTypes
  <1>4. Queueing'
    <2>1. \A i, j \in 1 .. Len(tasks') : tasks'[i] = tasks'[j] => i = j
      BY <1>1 DEF Typing, Queueing
    <2>2. \A v \in Worker : Holding(v) => job[v] \in queued /\ ~Waiting(job[v])
      BY DEF Typing, Queueing
    <2>3. \A i \in 1 .. Len(tasks') : tasks'[i] # p
      BY <1>1 DEF Typing, Queueing
    <2>4. \A q : Waiting(q)' => Waiting(q)
      BY <1>1 DEF Waiting
    <2>5. Waiting(p) /\ ~Waiting(p)'
      BY <1>1, <2>3 DEF Waiting
    <2>6. \A v \in Worker : v # w => Holding(v)' = Holding(v) /\ job'[v] = job[v] /\ wpc'[v] = wpc[v]
      BY DEF Typing, TypeOK, WorkerTypes, Holding
    <2>7. job'[w] = p /\ wpc'[w] = "taken" /\ queued' = queued /\ local' = local
      BY DEF Typing, TypeOK, WorkerTypes, scanVars
    <2> HIDE DEF Take
    <2> QED BY <1>1, <2>1, <2>2, <2>4, <2>5, <2>6, <2>7 DEF Typing, Queueing, Holding
  <1> QED BY <1>2, <1>3, <1>4, Framing DEF Typing, TypeOK, scanVars, ScanTypes

\* A worker keeps the types.
LEMMA WorkerTyping ==
    ASSUME Typing, NEW w \in Worker, WorkerThread(w)
    PROVE  Typing'
  <1> USE DEF Working, Goto, Fail, Keep
  <1>0. Holding(w) => job[w] \in Path
    BY DEF Typing, TypeOK, Queueing, QueueTypes
  <1>1. CASE Take(w)
    BY <1>1, TakeTyping
  <1>2. CASE MakeRequest(w)
    <2>1. WorkerTypes'
      BY <1>2 DEF MakeRequest, Typing, TypeOK, WorkerTypes
    <2>2. length[stage[job[w]]] \in 0 .. MaxLength \/ stage[job[w]] = NoFile
      BY <1>0, <1>2 DEF MakeRequest, Typing, TypeOK, TreeTypes, NoFile, Holding
    <2>3. ServiceTypes'
      BY <1>2, <2>2 DEF MakeRequest, Endpoint, Typing, TypeOK, ServiceTypes
    <2>4. Queueing'
      <3>1. Holding(w) /\ Holding(w)' /\ wpc'[w] \in {"failed", "request"}
        BY <1>2 DEF MakeRequest, Typing, TypeOK, WorkerTypes, Holding
      <3> QED BY <1>2, <3>1, MovingOn DEF MakeRequest, Typing, TypeOK, WorkerTypes, scanVars
    <2> QED BY <1>2, <2>1, <2>3, <2>4, Framing DEF MakeRequest, Typing, TypeOK, scanVars
  <1>3. CASE WriteRequest(w)
    <2>1. WorkerTypes'
      BY <1>3 DEF WriteRequest, Typing, TypeOK, WorkerTypes
    <2>2. <<w, job[w]>> \in Worker \X Path
      BY <1>0, <1>3 DEF WriteRequest, Holding
    <2>3. ServiceTypes'
      <3>1. exec' \in Seq(Worker \X Path)
        <4>1. exec \in Seq(Worker \X Path)
          BY DEF Typing, TypeOK, ServiceTypes
        <4>2. exec' = exec \/ exec' = Append(exec, <<w, job[w]>>)
          BY <1>3 DEF WriteRequest, Written
        <4> QED BY <2>2, <4>1, <4>2
      <3> QED BY <1>3, <3>1 DEF WriteRequest, Typing, TypeOK, ServiceTypes, uploadVars
    <2>4. Queueing'
      <3>1. Holding(w) /\ Holding(w)' /\ wpc'[w] \in {"failed", "reply"}
        BY <1>3 DEF WriteRequest, Typing, TypeOK, WorkerTypes, Holding
      <3> QED BY <1>3, <3>1, MovingOn DEF WriteRequest, Typing, TypeOK, WorkerTypes, scanVars
    <2> QED BY <1>3, <2>1, <2>3, <2>4, Framing DEF WriteRequest, Typing, TypeOK, scanVars
  <1>4. CASE ReadReply(w)
    <2>1. WorkerTypes'
      <3>1. reply[w] \notin {NoReply, Refusal} => reply[w][1] \in Path
        BY DEF Typing, TypeOK, ServiceTypes, Reply
      <3>2. local' \in [Worker -> [channel : Path \cup {Nobody}, inode : Inode \cup {0},
                                  size : 0 .. MaxLength, sent : 0 .. MaxLength]]
        BY <1>4, <3>1 DEF ReadReply, Typing, TypeOK, WorkerTypes
      <3> QED BY <1>4, <3>2 DEF ReadReply, Typing, TypeOK, WorkerTypes
    <2>2. ServiceTypes'
      BY <1>4 DEF ReadReply, Typing, TypeOK, ServiceTypes, uploadVars, Reply
    <2>4. OutcomeTypes'
      BY <1>4 DEF ReadReply, Typing, TypeOK, OutcomeTypes
    <2>3. Queueing'
      <3>1. Holding(w) /\ Holding(w)' /\ wpc'[w] \in {"failed", "open"}
        BY <1>4 DEF ReadReply, Typing, TypeOK, WorkerTypes, Holding
      <3> QED BY <1>4, <3>1, MovingOn DEF ReadReply, Typing, TypeOK, WorkerTypes, scanVars
    <2> QED BY <1>4, <2>1, <2>2, <2>3, <2>4, Framing DEF ReadReply, Typing, TypeOK, scanVars
  <1>5. CASE OpenSource(w)
    <2>1. stage[job[w]] = NoFile \/ (stage[job[w]] \in Inode /\ length[stage[job[w]]] \in 0 .. MaxLength)
      BY <1>0, <1>5 DEF OpenSource, Typing, TypeOK, TreeTypes, Holding
    <2>4. local' \in [Worker -> [channel : Path \cup {Nobody}, inode : Inode \cup {0},
                                size : 0 .. MaxLength, sent : 0 .. MaxLength]]
      <3>1. local \in [Worker -> [channel : Path \cup {Nobody}, inode : Inode \cup {0},
                                 size : 0 .. MaxLength, sent : 0 .. MaxLength]]
        BY DEF Typing, TypeOK, WorkerTypes
      <3>2. \/ UNCHANGED local
            \/ /\ stage[job[w]] \in Inode /\ length[stage[job[w]]] \in 0 .. MaxLength
               /\ local' = [local EXCEPT ![w].inode = stage[job[w]], ![w].size = length[stage[job[w]]]]
        BY <1>5, <2>1 DEF OpenSource
      <3> QED BY <3>1, <3>2
    <2>2. WorkerTypes'
      BY <1>5, <2>4 DEF OpenSource, Typing, TypeOK, WorkerTypes
    <2>3. Queueing'
      <3>1. Holding(w) /\ Holding(w)' /\ wpc'[w] \in {"failed", "send"}
        BY <1>5 DEF OpenSource, Typing, TypeOK, WorkerTypes, Holding
      <3>2. wpc'[w] = "send" => local'[w].inode \in Inode
        BY <1>5, <2>1 DEF OpenSource, Typing, TypeOK, WorkerTypes
      <3> QED BY <1>5, <3>1, <3>2, MovingOn DEF OpenSource, Typing, TypeOK, WorkerTypes, scanVars
    <2> QED BY <1>5, <2>2, <2>3, Framing DEF OpenSource, Typing, TypeOK, scanVars
  <1>6. CASE Send(w)
    <2>1. local[w].inode \in Inode /\ length[local[w].inode] \in 0 .. MaxLength
      BY <1>6 DEF Send, Typing, TypeOK, TreeTypes, Queueing
    <2>2. WorkerTypes'
      BY <1>6, <2>1 DEF Send, Typing, TypeOK, WorkerTypes
    <2>3. ASSUME NEW n \in 0 .. length[local[w].inode], EndOfInput(w, n) PROVE ServiceTypes'
      <3>1. <<local[w].inode, n>> \in Content
        BY <2>1, UploadAssumption DEF Content
      <3> QED BY <2>3, <3>1 DEF EndOfInput, Endpoint, Typing, TypeOK, ServiceTypes
    <2>4. length[local[w].inode] \in 0 .. length[local[w].inode]
      BY <2>1
    <2>5. ServiceTypes'
      BY <1>6, <2>3, <2>4, Framing DEF Send, Typing, TypeOK
    <2>6. Queueing'
      <3>1. Holding(w) /\ Holding(w)' /\ local'[w].inode = local[w].inode
        BY <1>6 DEF Send, Typing, TypeOK, WorkerTypes, Holding
      <3> QED BY <1>6, <2>1, <3>1, MovingOn DEF Send, Typing, TypeOK, WorkerTypes, scanVars
    <2> QED BY <1>6, <2>2, <2>5, <2>6, Framing DEF Send, Typing, TypeOK, scanVars
  <1>7. CASE ReadConfirmation(w)
    <2>1. WorkerTypes'
      BY <1>7 DEF ReadConfirmation, Typing, TypeOK, WorkerTypes
    <2>2. ServiceTypes'
      BY <1>7, Framing DEF ReadConfirmation, UploadBecomes, Endpoint, Typing, TypeOK, ServiceTypes, nestedVars
    <2>3. Queueing'
      <3>1. Holding(w) /\ Holding(w)' /\ local[w].inode \in Inode
        BY <1>7 DEF ReadConfirmation, Typing, TypeOK, WorkerTypes, Holding, Queueing
      <3> QED BY <1>7, <3>1, MovingOn DEF ReadConfirmation, Typing, TypeOK, WorkerTypes, scanVars
    <2> QED BY <1>7, <2>1, <2>2, <2>3, Framing DEF ReadConfirmation, Typing, TypeOK, scanVars
  <1>8. CASE Block(w)
    <2>1. WorkerTypes'
      BY <1>8 DEF Block, Typing, TypeOK, WorkerTypes
    <2>2. Queueing'
      <3>1. Holding(w) /\ Holding(w)' /\ local[w].inode \in Inode
        BY <1>8 DEF Block, Typing, TypeOK, WorkerTypes, Holding, Queueing
      <3> QED BY <1>8, <3>1, MovingOn DEF Block, Typing, TypeOK, WorkerTypes, scanVars
    <2> QED BY <1>8, <2>1, <2>2, Framing DEF Block, Typing, TypeOK, scanVars
  <1>9. CASE Consume(w)
    <2>1. WorkerTypes'
      BY <1>9 DEF Consume, Typing, TypeOK, WorkerTypes
    <2>2. TreeTypes'
      BY <1>9 DEF Consume, Unlink, Typing, TypeOK, TreeTypes, stageVars, NoFile
    <2>3. OutcomeTypes'
      BY <1>0, <1>9 DEF Consume, Typing, TypeOK, OutcomeTypes, Holding
    <2>4. Queueing'
      <3>1. Holding(w) /\ Holding(w)' /\ wpc'[w] \in {"failed", "finishing"}
        BY <1>9 DEF Consume, Typing, TypeOK, WorkerTypes, Holding
      <3> QED BY <1>9, <3>1, MovingOn DEF Consume, Typing, TypeOK, WorkerTypes, scanVars
    <2> QED BY <1>9, <2>1, <2>2, <2>3, <2>4, Framing DEF Consume, Typing, TypeOK, scanVars
  <1>10. CASE RecordFailure(w)
    <2>1. WorkerTypes'
      BY <1>10 DEF RecordFailure, Typing, TypeOK, WorkerTypes
    <2>2. OutcomeTypes'
      BY <1>0, <1>10 DEF RecordFailure, Typing, TypeOK, OutcomeTypes, Holding
    <2>3. Queueing'
      <3>1. Holding(w) /\ Holding(w)' /\ wpc'[w] = "finishing"
        BY <1>10 DEF RecordFailure, Typing, TypeOK, WorkerTypes, Holding
      <3> QED BY <1>10, <3>1, MovingOn DEF RecordFailure, Typing, TypeOK, WorkerTypes, scanVars
    <2> QED BY <1>10, <2>1, <2>2, <2>3, Framing DEF RecordFailure, Typing, TypeOK, scanVars
  <1>11. CASE TaskDone(w)
    <2>1. WorkerTypes'
      BY <1>11, UploadAssumption DEF TaskDone, NoUpload, Typing, TypeOK, WorkerTypes
    <2>2. Queueing'
      BY <1>11 DEF TaskDone, Typing, TypeOK, WorkerTypes, Queueing, Holding, Waiting, scanVars
    <2> QED BY <1>11, <2>1, <2>2, Framing DEF TaskDone, Typing, TypeOK, scanVars
  <1> QED BY <1>1, <1>2, <1>3, <1>4, <1>5, <1>6, <1>7, <1>8, <1>9, <1>10, <1>11 DEF WorkerThread

\* Every step keeps the types.
LEMMA NextTyping == Typing /\ [Next]_vars => Typing'
  <1> SUFFICES ASSUME Typing, [Next]_vars PROVE Typing'
    OBVIOUS
  <1>1. CASE UNCHANGED vars
    BY <1>1, Framing DEF vars, Typing, TypeOK, scanVars
  <1> QED BY <1>1, ProducerTyping, MainTyping, WorkerTyping, NestedTyping DEF Next

\* Every variable keeps its type.
THEOREM TypeCorrect == Spec => []TypeOK
  <1>1. Typing => TypeOK
    BY DEF Typing
  <1> QED BY <1>1, InitTyping, NextTyping, PTL DEF Spec

-----------------------------------------------------------------------------
(* Requests: who has asked for an upload of which path.                    *)

\* A worker moves no other.
LEMMA OthersRest ==
    ASSUME WorkerTypes, NEW w \in Worker, WorkerThread(w), NEW v \in Worker, v # w
    PROVE  wpc'[v] = wpc[v] /\ job'[v] = job[v] /\ local'[v] = local[v]
  <1> USE DEF WorkerTypes, Working, Goto, Fail, Keep
  <1>1. CASE Take(w) \/ MakeRequest(w) \/ WriteRequest(w) \/ ReadReply(w)
    BY <1>1 DEF Take, MakeRequest, WriteRequest, ReadReply
  <1>2. CASE OpenSource(w) \/ Send(w) \/ ReadConfirmation(w) \/ Block(w)
    BY <1>2 DEF OpenSource, Send, ReadConfirmation, Block
  <1>3. CASE Consume(w) \/ RecordFailure(w) \/ TaskDone(w)
    BY <1>3 DEF Consume, RecordFailure, TaskDone
  <1> QED BY <1>1, <1>2, <1>3 DEF WorkerThread

\* The steps of a worker outside allocate_nested_upload.
Apart(w) ==
    \/ Take(w) \/ MakeRequest(w) \/ OpenSource(w) \/ Send(w) \/ ReadConfirmation(w) \/ Block(w)
    \/ Consume(w) \/ RecordFailure(w) \/ TaskDone(w)

\* They leave the server alone, and change no upload but the one the worker uses.
LEMMA ApartStep ==
    ASSUME Typing, NEW w \in Worker, Apart(w)
    PROVE  /\ wpc[w] \notin {"reply", "ended"} /\ wpc'[w] \notin {"reply", "ended"}
           /\ UNCHANGED <<server, exec, reply, stopped, late, queued>> /\ (lock' = lock \/ lock = w)
           /\ Using(w)' => Using(w) /\ local'[w].channel = local[w].channel /\ job'[w] = job[w]
           /\ \A v \in Worker : v # w => wpc'[v] = wpc[v] /\ job'[v] = job[v] /\ local'[v] = local[v]
           /\ \A q \in Path : Waiting(q)' => Waiting(q)
           /\ \A q \in Path : Has(w, q)' => Has(w, q) \/ Waiting(q)
           /\ \A p \in Path : (Using(w) /\ p = local[w].channel) \/
                 (nested'[p] = nested[p] /\ temporary'[p] = temporary[p] /\ destination'[p] = destination[p])
  <1>0. WorkerTypes /\ ServiceTypes /\ tasks \in Seq(queued) /\ queued \subseteq Path
    BY DEF Typing, TypeOK, QueueTypes
  <1>1. \A v \in Worker : v # w => wpc'[v] = wpc[v] /\ job'[v] = job[v] /\ local'[v] = local[v]
    BY <1>0, OthersRest DEF Apart, WorkerThread
  <1> USE DEF Working, Goto, Fail, Keep, Endpoint, nestedVars, uploadVars, scanVars
  <1>2. CASE Take(w)
    <2>1. /\ wpc[w] = "idle" /\ wpc'[w] = "taken" /\ tasks # <<>> /\ tasks' = Tail(tasks) /\ job'[w] = Head(tasks)
          /\ UNCHANGED <<server, exec, reply, stopped, late, queued, lock, nested, temporary, destination>>
      BY <1>0, <1>2 DEF Take, WorkerTypes
    <2>2. /\ Len(tasks) \in Nat \ {0} /\ Len(tasks') = Len(tasks) - 1 /\ Head(tasks) = tasks[1]
          /\ \A i \in 1 .. Len(tasks') : tasks'[i] = tasks[i + 1] /\ i + 1 \in 1 .. Len(tasks)
      BY <1>0, <2>1
    <2>3. \A q \in Path : Waiting(q)' => Waiting(q)
      BY <2>2 DEF Waiting
    <2>4. \A q \in Path : Has(w, q)' => Waiting(q)
      <3>1. 1 \in 1 .. Len(tasks)
        BY <2>2
      <3> QED BY <2>1, <2>2, <3>1 DEF Has, Waiting
    <2> QED BY <1>1, <2>1, <2>3, <2>4 DEF Using
  <1>3. CASE MakeRequest(w) \/ OpenSource(w) \/ Block(w) \/ Consume(w) \/ RecordFailure(w) \/ TaskDone(w)
    <2>1. /\ UNCHANGED <<server, exec, reply, stopped, late, queued, tasks, nested, temporary, destination>>
          /\ lock' = lock \/ lock = w
      BY <1>3 DEF MakeRequest, OpenSource, Block, Consume, RecordFailure, TaskDone
    <2>2. \/ /\ wpc[w] \in {"taken", "open", "send", "confirm", "unlink", "failed"} /\ job'[w] = job[w]
             /\ wpc'[w] \in {"request", "send", "blocked", "finishing", "failed"}
             /\ local'[w].channel = local[w].channel
             /\ wpc'[w] \in {"send", "blocked"} => wpc[w] \in {"open", "send", "confirm"}
          \/ wpc[w] = "finishing" /\ wpc'[w] = "idle"
      BY <1>0, <1>3 DEF MakeRequest, OpenSource, Block, Consume, RecordFailure, TaskDone, WorkerTypes
    <2> QED BY <1>1, <2>1, <2>2 DEF Using, Has, Holding, Waiting
  <1>4. CASE Send(w) \/ ReadConfirmation(w)
    <2>1. /\ UNCHANGED <<server, exec, reply, stopped, late, queued, tasks, job>>
          /\ lock' = lock \/ lock = w
      BY <1>4 DEF Send, ReadConfirmation, EndOfInput, UploadBecomes
    <2>2. /\ wpc[w] \in {"send", "confirm"} /\ wpc'[w] \in {"confirm", "failed", "unlink"}
          /\ local'[w].channel = local[w].channel
      BY <1>0, <1>4 DEF Send, ReadConfirmation, WorkerTypes
    <2>3. \A p \in Path : p # local[w].channel =>
             nested'[p] = nested[p] /\ temporary'[p] = temporary[p] /\ destination'[p] = destination[p]
      BY <1>0, <1>4 DEF Send, ReadConfirmation, EndOfInput, UploadBecomes, ServiceTypes
    <2> QED BY <1>1, <2>1, <2>2, <2>3 DEF Using, Has, Holding, Waiting
  <1> QED BY <1>2, <1>3, <1>4 DEF Apart

\* Requests keep their owners while nobody asks anew, and no path is given out that
\* was asked for.
LEMMA Kept ==
    ASSUME Asking, queued \subseteq queued',
           \A q \in Path : Waiting(q)' => Waiting(q) \/ q \notin queued,
           \A v \in Worker, q \in Path : Has(v, q)' => Has(v, q) \/ Waiting(q),
           \A v \in Worker, q \in Path : Asked(v, q)' => Asked(v, q),
           \A v \in Worker : Using(v)' => local'[v].channel \in Path,
           \A p \in Path : nested'[p] # "none" => nested[p] # "none" \/ \E v \in Worker : Asked(v, p)
    PROVE  Asking'
  BY DEF Asking

\* The same with one request more, for a path that its worker has.
LEMMA KeptOneMore ==
    ASSUME Typing, Asking, NEW w \in Worker, Holding(w), UNCHANGED <<queued, tasks, job, local, nested>>,
           \A v \in Worker, q \in Path : Has(v, q)' <=> Has(v, q),
           \A v \in Worker, q \in Path : Asked(v, q)' => Asked(v, q) \/ (v = w /\ q = job[w]),
           \A v \in Worker : Using(v)' => Using(v)
    PROVE  Asking'
  <1>1. job[w] \in queued /\ ~Waiting(job[w]) /\ \A v \in Worker : Has(v, job[w]) => v = w
    BY DEF Typing, Queueing, Has
  <1>2. \A q \in Path : Waiting(q)' = Waiting(q)
    BY DEF Waiting
  <1> QED BY <1>1, <1>2 DEF Asking

\* The lines of exec after a write.
LEMMA Written1 ==
    ASSUME Typing, NEW w \in Worker, NEW p \in Path, exec' = Append(exec, <<w, p>>)
    PROVE  /\ Len(exec') = Len(exec) + 1 /\ Len(exec) \in Nat /\ exec' # <<>>
           /\ \A i \in 1 .. Len(exec) : exec'[i] = exec[i]
           /\ exec'[Len(exec) + 1] = <<w, p>>
           /\ \A v, c : Line(v, c)' <=> Line(v, c) \/ (v = w /\ c = p)
  <1>1. exec \in Seq(Worker \X Path)
    BY DEF Typing, TypeOK, ServiceTypes
  <1>2. /\ Len(exec') = Len(exec) + 1 /\ Len(exec) \in Nat /\ exec' # <<>>
        /\ \A i \in 1 .. Len(exec) : exec'[i] = exec[i]
        /\ exec'[Len(exec) + 1] = <<w, p>>
    BY <1>1
  <1>3. ASSUME NEW v, NEW c PROVE Line(v, c)' <=> Line(v, c) \/ (v = w /\ c = p)
    BY <1>2 DEF Line
  <1> QED BY <1>2, <1>3

\* What is left when the first line is served.
LEMMA Served1 ==
    ASSUME Typing, exec # <<>>, exec' = Tail(exec)
    PROVE  /\ Len(exec) \in Nat \ {0} /\ Len(exec') = Len(exec) - 1 /\ Head(exec) = exec[1]
           /\ exec[1] \in Worker \X Path
           /\ \A i \in 1 .. Len(exec') : exec'[i] = exec[i + 1] /\ i + 1 \in 1 .. Len(exec)
           /\ \A v, c : Line(v, c)' => Line(v, c)
  <1>1. exec \in Seq(Worker \X Path)
    BY DEF Typing, TypeOK, ServiceTypes
  <1>2. /\ Len(exec) \in Nat \ {0} /\ Len(exec') = Len(exec) - 1 /\ Head(exec) = exec[1]
        /\ exec[1] \in Worker \X Path
        /\ \A i \in 1 .. Len(exec') : exec'[i] = exec[i + 1] /\ i + 1 \in 1 .. Len(exec)
    BY <1>1
  <1>3. ASSUME NEW v, NEW c, Line(v, c)' PROVE Line(v, c)
    BY <1>2, <1>3 DEF Line
  <1> QED BY <1>2, <1>3


\* Nobody has asked for anything yet.
LEMMA InitAsking == Init => Asking
  BY DEF Init, StageInit, Asking, Asked, Line, Using, NoReply

\* The main thread queues only paths that nobody has asked for.
LEMMA MainAsking ==
    ASSUME Typing, Asking, MainThread
    PROVE  Asking'
  <1> USE DEF Main, workerVars, nestedVars, uploadVars
  <1>0. tasks \in Seq(queued) /\ queued \subseteq Path
    BY DEF Typing, TypeOK, QueueTypes
  <1>1. ASSUME UNCHANGED <<queued, tasks, wpc, job, local, exec, reply, nested>> PROVE Asking'
    BY <1>1 DEF Asking, Asked, Line, Using, Has, Holding, Waiting
  <1>2. ASSUME NEW p \in Path, Scan(p) PROVE Asking'
    BY <1>1, <1>2 DEF Scan
  <1>3. CASE Admit \/ Quiet \/ InitialTimeout \/ ScanAgain
    BY <1>1, <1>3 DEF Admit, Quiet, InitialTimeout, ScanAgain, PassEnds
  <1>4. CASE Respond
    BY <1>4 DEF Respond, Typing, TypeOK, WorkerTypes, Asking, Asked, Line, Using, Has, Holding, Waiting
  <1>5. ASSUME NEW p \in Path, Schedule(p) PROVE Asking'
    <2>1. UNCHANGED <<wpc, job, local, exec, reply, nested>> /\ queued \subseteq queued'
      BY <1>5 DEF Schedule
    <2>2. tasks' = tasks \/ (p \notin queued /\ tasks' = Append(tasks, p))
      BY <1>5 DEF Schedule
    <2>3. \A q \in Path : Waiting(q)' => Waiting(q) \/ q \notin queued
      BY <1>0, <2>2 DEF Waiting
    <2>4. \A v \in Worker, q \in Path : (Has(v, q)' <=> Has(v, q)) /\ (Asked(v, q)' <=> Asked(v, q))
      BY <2>1 DEF Has, Holding, Asked, Line, Using
    <2>5. \A v \in Worker : Using(v)' => local'[v].channel \in Path
      BY <2>1 DEF Asking, Using
    <2> QED BY <2>1, <2>3, <2>4, <2>5, Kept
  <1> QED BY <1>2, <1>3, <1>4, <1>5 DEF MainThread

\* A worker asks for its own path, and uses what it was answered.
LEMMA WorkerAsking ==
    ASSUME Typing, Asking, NEW w \in Worker, WorkerThread(w)
    PROVE  Asking'
  <1> USE DEF Working, Goto, Fail, Keep
  <1>0. WorkerTypes /\ ServiceTypes
    BY DEF Typing, TypeOK
  <1>1. \A v \in Worker : v # w => wpc'[v] = wpc[v] /\ job'[v] = job[v] /\ local'[v] = local[v]
    BY <1>0, OthersRest
  <1>2. CASE Apart(w)
    <2>1. \A v \in Worker, q \in Path : Has(v, q)' => Has(v, q) \/ Waiting(q)
      BY <1>1, <1>2, ApartStep DEF Has, Holding
    <2>2. \A v \in Worker, q \in Path : Asked(v, q)' => Asked(v, q)
      BY <1>1, <1>2, ApartStep DEF Asked, Line, Using
    <2>3. \A v \in Worker : Using(v)' => local'[v].channel \in Path
      BY <1>1, <1>2, ApartStep DEF Asking, Using
    <2>4. \A p \in Path : nested'[p] # "none" => nested[p] # "none" \/ \E v \in Worker : Asked(v, p)
      BY <1>2, ApartStep DEF Asked
    <2>5. queued' = queued /\ \A q \in Path : Waiting(q)' => Waiting(q)
      BY <1>2, ApartStep
    <2> QED BY <2>1, <2>2, <2>3, <2>4, <2>5, Kept
  <1>3. CASE WriteRequest(w)
    <2>1. /\ wpc[w] = "request" /\ wpc'[w] \in {"failed", "reply"}
          /\ UNCHANGED <<queued, tasks, job, local, nested, reply>>
      BY <1>0, <1>3 DEF WriteRequest, WorkerTypes, scanVars, uploadVars
    <2>2. exec' = exec \/ exec' = Append(exec, <<w, job[w]>>)
      BY <1>3 DEF WriteRequest, Written
    <2>3. Holding(w) /\ job[w] \in Path
      BY <2>1 DEF Holding, Typing, TypeOK, Queueing, QueueTypes
    <2>4. \A v \in Worker, q \in Path : Has(v, q)' <=> Has(v, q)
      BY <1>1, <2>1 DEF Has, Holding
    <2>5. \A v \in Worker : Using(v)' => Using(v)
      BY <1>1, <2>1 DEF Using
    <2>6. \A v \in Worker, q \in Path : Asked(v, q)' => Asked(v, q) \/ (v = w /\ q = job[w])
      <3>1. \A v \in Worker, q \in Path : Line(v, q)' => Line(v, q) \/ (v = w /\ q = job[w])
        BY <2>2, <2>3, Written1 DEF Line
      <3> QED BY <2>1, <2>5, <3>1 DEF Asked
    <2> QED BY <2>1, <2>3, <2>4, <2>5, <2>6, KeptOneMore
  <1>4. CASE ReadReply(w)
    <2>1. /\ wpc[w] = "reply" /\ UNCHANGED <<queued, tasks, job, exec, nested>>
      BY <1>4 DEF ReadReply, scanVars, uploadVars
    <2>2. \/ wpc'[w] = "failed" /\ UNCHANGED <<local, reply>>
          \/ wpc'[w] = "failed" /\ UNCHANGED local /\ reply' = [reply EXCEPT ![w] = NoReply]
          \/ /\ reply[w] \notin {NoReply, Refusal} /\ wpc'[w] = "open"
             /\ local'[w].channel = reply[w][1] /\ reply' = [reply EXCEPT ![w] = NoReply]
      BY <1>0, <1>4 DEF ReadReply, WorkerTypes
    <2>3. \A v \in Worker, q \in Path : reply'[v] = <<q>> => reply[v] = <<q>>
      <3>1. reply' = reply \/ reply' = [reply EXCEPT ![w] = NoReply]
        BY <2>2
      <3>2. \A v \in Worker : reply'[v] = reply[v] \/ reply'[v] = NoReply
        BY <1>0, <3>1 DEF ServiceTypes
      <3> QED BY <3>2 DEF NoReply
    <2>4. reply[w] \notin {NoReply, Refusal} => reply[w][1] \in Path /\ reply[w] = <<reply[w][1]>>
      BY <1>0 DEF ServiceTypes, Reply
    <2>5. \A v \in Worker, q \in Path : Asked(v, q)' => Asked(v, q)
      BY <1>1, <2>1, <2>2, <2>3, <2>4 DEF Asked, Line, Using
    <2>6. \A v \in Worker : Using(v)' => local'[v].channel \in Path
      BY <1>1, <2>2, <2>4 DEF Asking, Using
    <2>7. \A v \in Worker, q \in Path : Has(v, q)' => Has(v, q)
      BY <1>1, <2>1 DEF Has, Holding
    <2> QED BY <2>1, <2>5, <2>6, <2>7, Kept DEF Waiting
  <1> QED BY <1>2, <1>3, <1>4 DEF WorkerThread, Apart

\* The server and the uploads answer only what was asked.
LEMMA ServiceAsking ==
    ASSUME Typing, Asking, SerialServer \/ NestedUpload
    PROVE  Asking'
  <1> USE DEF Elsewhere, Threads, Endpoint, uploadVars, scanVars
  <1>0. WorkerTypes /\ ServiceTypes
    BY DEF Typing, TypeOK
  <1>1. UNCHANGED <<queued, tasks, job, local>>
    BY DEF SerialServer, NestedUpload, CatAtEOF, Drain, Launch, Link, Expire, RemoveRequest
  <1>2. \A q \in Path : Waiting(q)' = Waiting(q)
    BY <1>1 DEF Waiting
  <1>3. ASSUME UNCHANGED <<wpc, exec, reply>>,
               \A p \in Path : nested'[p] # "none" => nested[p] # "none"
        PROVE  Asking'
    BY <1>1, <1>2, <1>3 DEF Asking, Asked, Line, Using, Has, Holding
  <1>4. CASE CatAtEOF
    BY <1>3, <1>4 DEF CatAtEOF
  <1>5. ASSUME NEW p \in Path, Link(p) \/ Expire(p) \/ RemoveRequest(p) PROVE Asking'
    BY <1>0, <1>3, <1>5 DEF Link, Expire, RemoveRequest, ServiceTypes
  <1>6. ASSUME NEW w \in Worker, Drain(w) PROVE Asking'
    <2>1. UNCHANGED <<exec, nested>> /\ reply' = [reply EXCEPT ![w] = NoReply]
      BY <1>6 DEF Drain
    <2>2. wpc' = wpc \/ (wpc[w] = "reply" /\ wpc' = [wpc EXCEPT ![w] = "failed"])
      BY <1>6 DEF Drain, Fail, Goto
    <2>3. \A v \in Worker : (Using(v)' <=> Using(v)) /\ \A q \in Path : Has(v, q)' <=> Has(v, q)
      BY <1>0, <1>1, <2>2 DEF WorkerTypes, Using, Has, Holding
    <2>4. \A v \in Worker, q \in Path : Asked(v, q)' => Asked(v, q)
      BY <1>0, <1>1, <2>1, <2>3 DEF Asked, Line, ServiceTypes, NoReply
    <2> QED BY <1>1, <1>2, <2>1, <2>3, <2>4 DEF Asking
  <1>7. ASSUME NEW w \in Worker, NEW p \in Path, Launch(w, p) PROVE Asking'
    <2>1. exec # <<>> /\ exec' = Tail(exec) /\ Head(exec) = <<w, p>> /\ wpc' = wpc
      BY <1>7 DEF Launch
    <2>2. Line(w, p) /\ \A v \in Worker, q \in Path : Line(v, q)' => Line(v, q)
      BY <2>1, Served1 DEF Line
    <2>3. reply' = [reply EXCEPT ![w] = <<p>>] \/ reply' = [reply EXCEPT ![w] = Refusal]
      BY <1>7 DEF Launch
    <2>4. \A v \in Worker, q \in Path : reply'[v] = <<q>> => reply[v] = <<q>> \/ (v = w /\ q = p)
      BY <1>0, <2>3, UploadAssumption DEF ServiceTypes, Refusal
    <2>5. \A v \in Worker, q \in Path : Asked(v, q)' => Asked(v, q)
      BY <1>1, <2>1, <2>2, <2>4 DEF Asked, Using
    <2>6. \A q \in Path : nested'[q] # "none" => nested[q] # "none" \/ q = p
      BY <1>0, <1>7 DEF Launch, ServiceTypes
    <2>7. \A q \in Path : nested'[q] # "none" => nested[q] # "none" \/ \E v \in Worker : Asked(v, q)
      BY <2>2, <2>6 DEF Asked
    <2>8. \A v \in Worker : Using(v)' => local'[v].channel \in Path
      BY <1>1, <2>1 DEF Asking, Using
    <2>9. \A v \in Worker, q \in Path : Has(v, q)' => Has(v, q)
      BY <1>1, <2>1 DEF Has, Holding
    <2> QED BY <1>1, <1>2, <2>5, <2>7, <2>8, <2>9, Kept
  <1> QED BY <1>4, <1>5, <1>6, <1>7 DEF SerialServer, NestedUpload

\* Every step keeps who has asked for what.
LEMMA NextAsking == Typing /\ Asking /\ [Next]_vars => Asking'
  <1> SUFFICES ASSUME Typing, Asking, [Next]_vars PROVE Asking'
    OBVIOUS
  <1>1. CASE UNCHANGED vars \/ Producer \/ Stop
    <2>1. UNCHANGED <<queued, tasks, wpc, job, local, exec, reply, nested>>
      BY <1>1 DEF vars, Producer, Stop, scanVars, workerVars, nestedVars, uploadVars
    <2> QED BY <2>1 DEF Asking, Asked, Line, Using, Has, Holding, Waiting
  <1> QED BY <1>1, MainAsking, WorkerAsking, ServiceAsking DEF Next

-----------------------------------------------------------------------------
(* Promptness: the requests of a worker that has given up no wait.         *)

\* No worker has begun.
LEMMA InitPrompt == Init => Prompt
  BY DEF Init, StageInit, Prompt, PromptOf, Unasked, Line, Using

\* What happens to the requests of others is nothing to a worker.
LEMMA PromptRest ==
    ASSUME ServiceTypes, NEW v \in Worker, PromptOf(v),
           wpc'[v] = wpc[v], job'[v] = job[v], local'[v] = local[v], reply'[v] = reply[v], stopped => stopped',
           \/ exec' = exec
           \/ \E w \in Worker \ {v}, p \in Path : exec' = Append(exec, <<w, p>>)
           \/ exec # <<>> /\ exec' = Tail(exec)
    PROVE  PromptOf(v)'
  <1>0. exec \in Seq(Worker \X Path)
    BY DEF ServiceTypes
  <1>1. \A i, j \in 1 .. Len(exec') : exec'[i][1] = v /\ exec'[j][1] = v => i = j
    <2>1. CASE exec' = exec
      BY <2>1 DEF PromptOf
    <2>2. ASSUME NEW w \in Worker \ {v}, NEW p \in Path, exec' = Append(exec, <<w, p>>)
          PROVE  \A i, j \in 1 .. Len(exec') : exec'[i][1] = v /\ exec'[j][1] = v => i = j
      <3>1. /\ Len(exec') = Len(exec) + 1 /\ Len(exec) \in Nat /\ exec'[Len(exec) + 1][1] = w
            /\ \A i \in 1 .. Len(exec) : exec'[i] = exec[i]
        BY <1>0, <2>2
      <3> QED BY <3>1 DEF PromptOf
    <2>3. CASE exec # <<>> /\ exec' = Tail(exec)
      <3>1. /\ Len(exec') = Len(exec) - 1 /\ Len(exec) \in Nat
            /\ \A i \in 1 .. Len(exec') : exec'[i] = exec[i + 1] /\ i + 1 \in 1 .. Len(exec)
        BY <1>0, <2>3
      <3>2. \A i, j \in 1 .. Len(exec') : exec'[i][1] = v /\ exec'[j][1] = v => i + 1 = j + 1
        BY <3>1 DEF PromptOf
      <3> QED BY <3>1, <3>2
    <2> QED BY <2>1, <2>2, <2>3
  <1>2. \A c \in Path : Line(v, c)' => Line(v, c)
    <2>1. CASE exec' = exec
      BY <2>1 DEF Line
    <2>2. ASSUME NEW w \in Worker \ {v}, NEW p \in Path, exec' = Append(exec, <<w, p>>), NEW c \in Path, Line(v, c)'
          PROVE  Line(v, c)
      <3>1. /\ Len(exec') = Len(exec) + 1 /\ Len(exec) \in Nat /\ exec'[Len(exec) + 1][1] = w
            /\ \A i \in 1 .. Len(exec) : exec'[i] = exec[i]
        BY <1>0, <2>2
      <3>2. PICK i \in 1 .. Len(exec') : exec'[i] = <<v, c>>
        BY <2>2 DEF Line
      <3>3. i # Len(exec) + 1
        BY <3>1, <3>2
      <3> QED BY <3>1, <3>2, <3>3 DEF Line
    <2>3. CASE exec # <<>> /\ exec' = Tail(exec)
      <3>1. /\ Len(exec') = Len(exec) - 1 /\ Len(exec) \in Nat
            /\ \A i \in 1 .. Len(exec') : exec'[i] = exec[i + 1]
        BY <1>0, <2>3
      <3> QED BY <3>1 DEF Line
    <2> QED BY <2>1, <2>2, <2>3
  <1> QED BY <1>1, <1>2 DEF PromptOf, Unasked, Using

\* A worker asks once with its lock, and leaves the wait with the answer, or after a stop.
LEMMA WorkerPrompt ==
    ASSUME Typing, Prompt, NEW w \in Worker, WorkerThread(w)
    PROVE  Prompt'
  <1> USE DEF Working, Goto, Fail, Keep
  <1>0. WorkerTypes /\ ServiceTypes /\ late \subseteq late'
    <2>1. late \subseteq late'
      BY DEF WorkerThread, Take, MakeRequest, WriteRequest, ReadReply, OpenSource, Send, ReadConfirmation, Block,
             Consume, RecordFailure, TaskDone
    <2> QED BY <2>1 DEF Typing, TypeOK
  <1>1. \A v \in Worker : v # w => wpc'[v] = wpc[v] /\ job'[v] = job[v] /\ local'[v] = local[v]
    BY <1>0, OthersRest
  <1>s. stopped' = stopped
    BY DEF WorkerThread, Take, MakeRequest, WriteRequest, ReadReply, OpenSource, Send, ReadConfirmation, Block,
           Consume, RecordFailure, TaskDone
  <1>2. CASE Apart(w)
    <2>1. UNCHANGED <<exec, reply>>
      BY <1>2, ApartStep
    <2>2. ASSUME NEW v \in Worker \ late', v # w PROVE PromptOf(v)'
      BY <1>0, <1>1, <1>s, <2>1, <2>2, PromptRest DEF Prompt
    <2>3. ASSUME w \notin late' PROVE PromptOf(w)'
      <3>1. PromptOf(w)
        BY <1>0, <2>3 DEF Prompt
      <3> QED BY <1>2, <1>s, <2>1, <3>1, ApartStep DEF PromptOf, Unasked, Line, Using
    <2> QED BY <2>2, <2>3 DEF Prompt
  <1>3. CASE WriteRequest(w)
    <2>1. /\ wpc[w] = "request" /\ UNCHANGED <<job, local, reply, late>> /\ job[w] \in Path
          /\ \/ wpc'[w] = "failed" /\ exec' = exec
             \/ wpc'[w] = "reply" /\ ~stopped /\ (exec' = exec \/ exec' = Append(exec, <<w, job[w]>>))
      <3>1. wpc[w] = "request" /\ UNCHANGED <<job, local, reply, late>>
        BY <1>3 DEF WriteRequest
      <3>2. job[w] \in Path
        BY <3>1 DEF Holding, Typing, TypeOK, Queueing, QueueTypes
      <3>3. \/ wpc'[w] = "failed" /\ exec' = exec
            \/ wpc'[w] = "reply" /\ ~stopped /\ (exec' = exec \/ exec' = Append(exec, <<w, job[w]>>))
        BY <1>0, <1>3 DEF WriteRequest, Written, WorkerTypes
      <3> QED BY <3>1, <3>2, <3>3
    <2>2. ASSUME NEW v \in Worker \ late', v # w PROVE PromptOf(v)'
      BY <1>0, <1>1, <1>s, <2>1, <2>2, PromptRest DEF Prompt
    <2>3. ASSUME w \notin late' PROVE PromptOf(w)'
      <3>1. PromptOf(w)
        BY <2>1, <2>3 DEF Prompt
      <3>2. CASE exec' = exec
        BY <1>s, <2>1, <3>1, <3>2 DEF PromptOf, Unasked, Line, Using
      <3>3. CASE wpc'[w] = "reply" /\ ~stopped /\ exec' = Append(exec, <<w, job[w]>>)
        <4>1. Unasked(w)
          BY <2>1, <3>1, <3>3 DEF PromptOf
        <4>2. \A c \in Path : Line(w, c)' => c = job[w]
          BY <2>1, <3>3, <4>1, Written1 DEF Unasked
        <4>3. \A i \in 1 .. Len(exec) : exec[i][1] # w
          <5> SUFFICES ASSUME NEW i \in 1 .. Len(exec), exec[i][1] = w PROVE FALSE
            OBVIOUS
          <5>1. exec[i] \in Worker \X Path
            BY <1>0 DEF ServiceTypes
          <5>2. exec[i] = <<w, exec[i][2]>> /\ exec[i][2] \in Path
            BY <5>1
          <5> QED BY <4>1, <5>2 DEF Unasked, Line
        <4>4. \A i, j \in 1 .. Len(exec') : exec'[i][1] = w /\ exec'[j][1] = w => i = j
          BY <2>1, <3>3, <4>3, Written1
        <4> QED BY <2>1, <3>3, <4>1, <4>2, <4>4 DEF PromptOf, Unasked, Using
      <3> QED BY <2>1, <3>2, <3>3
    <2> QED BY <2>2, <2>3 DEF Prompt
  <1>4. CASE ReadReply(w)
    <2>1. wpc[w] = "reply" /\ UNCHANGED <<job, exec>> /\ \A v \in Worker : v # w => reply'[v] = reply[v]
      BY <1>0, <1>4 DEF ReadReply, ServiceTypes
    <2>2. ASSUME NEW v \in Worker \ late', v # w PROVE PromptOf(v)'
      BY <1>0, <1>1, <1>s, <2>1, <2>2, PromptRest DEF Prompt
    <2>3. ASSUME w \notin late' PROVE PromptOf(w)'
      <3>1. PromptOf(w)
        BY <1>0, <2>3 DEF Prompt
      <3>2. \/ wpc'[w] = "failed" /\ stopped
            \/ reply[w] # NoReply /\ reply'[w] = NoReply /\ wpc'[w] = "failed"
            \/ /\ reply[w] \notin {NoReply, Refusal} /\ reply'[w] = NoReply /\ wpc'[w] = "open"
               /\ local'[w].channel = reply[w][1]
        BY <1>0, <1>4, <2>3 DEF ReadReply, WorkerTypes, ServiceTypes
      <3>3. reply[w] # NoReply => \A c \in Path : ~Line(w, c)
        BY <2>1, <3>1 DEF PromptOf
      <3>4. reply[w] \notin {NoReply, Refusal} => reply[w][1] = job[w]
        <4>1. reply[w] \in {NoReply, Refusal, <<job[w]>>}
          BY <2>1, <3>1 DEF PromptOf
        <4> QED BY <4>1
      <3> QED BY <1>s, <2>1, <3>1, <3>2, <3>3, <3>4 DEF PromptOf, Unasked, Line, Using
    <2> QED BY <2>2, <2>3 DEF Prompt
  <1> QED BY <1>2, <1>3, <1>4 DEF WorkerThread, Apart

\* The server answers the one line of a worker that waits; a worker that has left the
\* wait before a stop has nothing to be drained.
LEMMA ServerPrompt ==
    ASSUME Typing, Prompt, SerialServer
    PROVE  Prompt'
  <1> USE DEF Elsewhere, Threads
  <1>0. WorkerTypes /\ ServiceTypes
    BY DEF Typing, TypeOK
  <1>1. CASE CatAtEOF
    BY <1>1 DEF CatAtEOF, Prompt, PromptOf, Unasked, Line, Using
  <1>2. ASSUME NEW w \in Worker, Drain(w) PROVE Prompt'
    <2>1. /\ UNCHANGED <<job, local, stopped, exec, late>> /\ reply[w] # NoReply /\ reply'[w] = NoReply
          /\ \A v \in Worker : v # w => reply'[v] = reply[v] /\ wpc'[v] = wpc[v]
          /\ wpc'[w] = wpc[w] \/ wpc[w] = "reply"
      <3>1. /\ UNCHANGED <<job, local, stopped, exec, late>> /\ reply[w] # NoReply
            /\ reply' = [reply EXCEPT ![w] = NoReply]
        BY <1>2 DEF Drain
      <3>2. wpc' = wpc \/ (wpc[w] = "reply" /\ wpc' = [wpc EXCEPT ![w] = "failed"])
        BY <1>2 DEF Drain, Fail, Goto
      <3> QED BY <1>0, <3>1, <3>2 DEF WorkerTypes, ServiceTypes
    <2>2. ASSUME NEW v \in Worker \ late', v # w PROVE PromptOf(v)'
      BY <1>0, <2>1, <2>2, PromptRest DEF Prompt
    <2>3. ASSUME w \notin late' PROVE PromptOf(w)'
      <3>1. PromptOf(w)
        BY <2>1, <2>3 DEF Prompt
      <3>2. PICK p \in Path : Line(w, p)
        <4>1. exec # <<>> /\ Head(exec)[1] = w /\ exec \in Seq(Worker \X Path)
          BY <1>0, <1>2 DEF Drain, ServiceTypes
        <4>2. Len(exec) \in Nat \ {0} /\ Head(exec) = exec[1] /\ exec[1] \in Worker \X Path
          BY <4>1
        <4>3. exec[1] = <<w, exec[1][2]>> /\ exec[1][2] \in Path /\ 1 \in 1 .. Len(exec)
          BY <4>1, <4>2
        <4> QED BY <4>3 DEF Line
      <3>3. wpc[w] # "reply" /\ ~Using(w) /\ wpc'[w] = wpc[w]
        BY <2>1, <3>1, <3>2 DEF PromptOf, Unasked
      <3>4. stopped \/ wpc[w] = "ended"
        BY <3>1, <3>2, <3>3 DEF PromptOf, Unasked
      <3> QED BY <2>1, <3>1, <3>3, <3>4 DEF PromptOf, Using
    <2> QED BY <2>2, <2>3 DEF Prompt
  <1>3. ASSUME NEW w \in Worker, NEW p \in Path, Launch(w, p) PROVE Prompt'
    <2>1. /\ UNCHANGED <<wpc, job, local, stopped, late>> /\ exec # <<>> /\ exec' = Tail(exec)
          /\ Head(exec) = <<w, p>> /\ reply[w] = NoReply /\ reply'[w] \in {<<p>>, Refusal}
          /\ \A v \in Worker : v # w => reply'[v] = reply[v]
      BY <1>0, <1>3 DEF Launch, ServiceTypes
    <2>2. ASSUME NEW v \in Worker \ late', v # w PROVE PromptOf(v)'
      BY <1>0, <2>1, <2>2, PromptRest DEF Prompt
    <2>3. ASSUME w \notin late' PROVE PromptOf(w)'
      <3>1. PromptOf(w)
        BY <2>1, <2>3 DEF Prompt
      <3>2. /\ Len(exec) \in Nat \ {0} /\ Len(exec') = Len(exec) - 1 /\ exec[1] = <<w, p>>
            /\ \A i \in 1 .. Len(exec') : exec'[i] = exec[i + 1] /\ i + 1 \in 1 .. Len(exec)
        BY <2>1, Served1
      <3>3. Line(w, p)
        BY <3>2 DEF Line
      <3>4. \A i \in 1 .. Len(exec') : exec'[i][1] # w
        BY <3>1, <3>2 DEF PromptOf
      <3>5. \A c \in Path : ~Line(w, c)'
        BY <3>4 DEF Line
      <3>6. ~Using(w) /\ (wpc[w] = "reply" => p = job[w])
        BY <3>1, <3>3 DEF PromptOf, Unasked
      <3>7. wpc[w] \in {"reply", "ended"} \/ stopped
        BY <3>1, <3>3 DEF PromptOf, Unasked
      <3> QED BY <2>1, <3>4, <3>5, <3>6, <3>7 DEF PromptOf, Using
    <2> QED BY <2>2, <2>3 DEF Prompt
  <1> QED BY <1>1, <1>2, <1>3 DEF SerialServer

\* Every step keeps the promptness.
LEMMA NextPrompt == Typing /\ Prompt /\ [Next]_vars => Prompt'
  <1> SUFFICES ASSUME Typing, Prompt, [Next]_vars PROVE Prompt'
    OBVIOUS
  <1>1. ASSUME UNCHANGED <<wpc, job, local, exec, reply, late>>, stopped => stopped' PROVE Prompt'
    BY <1>1 DEF Prompt, PromptOf, Unasked, Line, Using
  <1>2. CASE UNCHANGED vars \/ Producer \/ Stop \/ Quiet \/ InitialTimeout \/ ScanAgain \/ Admit
    BY <1>1, <1>2 DEF vars, Producer, Stop, Quiet, InitialTimeout, ScanAgain, PassEnds, Admit, Main, workerVars,
                     nestedVars
  <1>3. ASSUME NEW p \in Path, Scan(p) \/ Schedule(p) \/ Link(p) \/ Expire(p) \/ RemoveRequest(p) PROVE Prompt'
    BY <1>1, <1>3 DEF Scan, Schedule, Main, Link, Expire, RemoveRequest, Elsewhere, Endpoint, Threads, workerVars,
                      nestedVars
  <1>4. CASE Respond
    <2>1. UNCHANGED <<job, exec, reply, late, stopped>> /\ \A w \in Worker : wpc'[w] = "ended"
      BY <1>4 DEF Respond, nestedVars
    <2> QED BY <2>1 DEF Prompt, PromptOf, Unasked, Line, Using
  <1> QED BY <1>2, <1>3, <1>4, WorkerPrompt, ServerPrompt DEF Next, MainThread, NestedUpload

-----------------------------------------------------------------------------
(* Turns at the FIFO of the upload service.                                *)

\* The turns hold initially.
LEMMA InitTurns == Init => Turns
  BY DEF Init, StageInit, Turns

\* A worker outside the allocation keeps the turns.
LEMMA ApartTurns ==
    ASSUME Typing, Turns, NEW w \in Worker, Apart(w)
    PROVE  Turns'
  <1>1. lock' = lock
    BY ApartStep, UploadAssumption DEF Turns
  <1>2. /\ wpc[w] \notin {"reply", "ended"} /\ wpc'[w] \notin {"reply", "ended"}
        /\ UNCHANGED <<server, exec, reply, stopped, late>>
        /\ \A v \in Worker : v # w => wpc'[v] = wpc[v] /\ job'[v] = job[v]
    BY ApartStep
  <1>3. \A v \in Worker : (wpc'[v] = "reply" => wpc[v] = "reply" /\ v # w) /\ wpc'[v] # "ended"
    BY <1>2 DEF Turns
  <1>4. lock # Nobody => lock \in Worker \ {w}
    BY <1>2 DEF Turns, Typing, TypeOK, WorkerTypes
  <1> QED BY <1>1, <1>2, <1>3, <1>4 DEF Turns

\* With the lock, and no stop, the server has read everything that was written, so
\* that no cat is closing.
LEMMA WriteRequestTurns ==
    ASSUME Typing, Prompt, Turns, NEW w \in Worker, WriteRequest(w)
    PROVE  Turns'
  <1>0. /\ WorkerTypes /\ wpc[w] = "request" /\ lock = Nobody /\ UNCHANGED <<reply, stopped, job, late, server>>
        /\ exec \in Seq(Worker \X Path)
    BY DEF WriteRequest, Working, Keep, Typing, TypeOK, ServiceTypes
  <1>1. \A v \in Worker : wpc[v] # "reply" /\ wpc[v] # "ended" /\ v # Nobody
    BY <1>0, UploadAssumption DEF Turns
  <1>2. CASE Fail(w) /\ UNCHANGED exec
    <2>1. lock' = Nobody /\ wpc'[w] = "failed" /\ \A v \in Worker : v # w => wpc'[v] = wpc[v]
      BY <1>0, <1>2 DEF Fail, Goto, WorkerTypes
    <2> QED BY <1>0, <1>1, <1>2, <2>1 DEF Turns
  <1>3. CASE ~stopped /\ Written(<<w, job[w]>>) /\ Goto(w, "reply") /\ lock' = w
    <2>1. wpc'[w] = "reply" /\ \A v \in Worker : v # w => wpc'[v] = wpc[v]
      BY <1>0, <1>3 DEF Goto, WorkerTypes
    <2>2. exec' = <<>> => server' = "read"
      BY <1>0, <1>3 DEF Written, Turns
    <2>3. late = {} => exec = <<>> /\ exec' = <<<<w, job[w]>>>> /\ reply[w] = NoReply
      <3> SUFFICES ASSUME late = {} PROVE exec = <<>> /\ exec' = <<<<w, job[w]>>>> /\ reply[w] = NoReply
        OBVIOUS
      <3>1. exec = <<>> /\ server = "read"
        BY <1>0, <1>1, <1>3 DEF Turns
      <3>2. Unasked(w)
        BY <1>0, <1>3 DEF Prompt, PromptOf
      <3>3. exec' = Append(exec, <<w, job[w]>>)
        BY <1>3, <3>1 DEF Written
      <3> QED BY <3>1, <3>2, <3>3 DEF Unasked
    <2> QED BY <1>0, <1>1, <1>3, <2>1, <2>2, <2>3, UploadAssumption DEF Turns
  <1> QED BY <1>2, <1>3 DEF WriteRequest

\* The one who waits takes its own reply, or gives up.
LEMMA ReadReplyTurns ==
    ASSUME Typing, Turns, NEW w \in Worker, ReadReply(w)
    PROVE  Turns'
  <1>0. /\ WorkerTypes /\ ServiceTypes /\ wpc[w] = "reply" /\ lock = w /\ lock' = Nobody
        /\ UNCHANGED <<server, exec, stopped, job>> /\ late \subseteq late'
    BY DEF ReadReply, Working, Fail, Turns, Typing, TypeOK
  <1>1. \A v \in Worker : v # w => wpc[v] \notin {"reply", "ended"} /\ wpc'[v] = wpc[v]
    BY <1>0 DEF Turns, ReadReply, Fail, Goto, WorkerTypes
  <1>2. wpc'[w] \in {"failed", "open"}
    BY <1>0 DEF ReadReply, Fail, Goto, WorkerTypes
  <1>3. late' = {} /\ ~stopped => reply[w] # NoReply
    BY <1>0 DEF ReadReply
  <1>4. late' = {} /\ ~stopped => exec = <<>>
    BY <1>0, <1>3 DEF Turns
  <1> QED BY <1>0, <1>1, <1>2, <1>4 DEF Turns

\* The server serves the worker that waits for it, unless somebody has given up.
LEMMA ServerTurns ==
    ASSUME Typing, Turns, SerialServer
    PROVE  Turns'
  <1> USE DEF Elsewhere, Threads
  <1>0. WorkerTypes /\ ServiceTypes
    BY DEF Typing, TypeOK
  <1>1. CASE CatAtEOF
    BY <1>1 DEF CatAtEOF, Turns
  <1>2. ASSUME NEW w \in Worker, Drain(w) PROVE Turns'
    <2>1. /\ UNCHANGED <<job, local, stopped, exec, late>> /\ reply[w] # NoReply /\ exec # <<>> /\ Head(exec)[1] = w
          /\ exec \in Seq(Worker \X Path)
      BY <1>0, <1>2 DEF Drain, ServiceTypes
    <2>2. late = {} => \A v \in Worker : wpc[v] # "reply"
      <3> SUFFICES ASSUME late = {}, NEW v \in Worker, wpc[v] = "reply" PROVE FALSE
        OBVIOUS
      <3>1. exec = <<<<v, job[v]>>>> /\ reply[v] = NoReply
        BY <2>1 DEF Turns
      <3>2. Head(exec)[1] = v
        BY <3>1
      <3> QED BY <2>1, <3>1, <3>2
    <2>3. CASE UNCHANGED <<wpc, lock>>
      BY <2>1, <2>2, <2>3 DEF Turns
    <2>4. CASE wpc[w] = "reply" /\ Fail(w)
      <3>1. lock = w /\ lock' = Nobody /\ late' # {}
        BY <2>1, <2>2, <2>4 DEF Turns, Fail
      <3>2. wpc'[w] = "failed" /\ \A v \in Worker : v # w => wpc'[v] = wpc[v] /\ wpc[v] \notin {"reply", "ended"}
        BY <1>0, <2>4, <3>1 DEF Fail, Goto, WorkerTypes, Turns
      <3> QED BY <2>1, <3>1, <3>2 DEF Turns
    <2> QED BY <1>2, <2>3, <2>4 DEF Drain
  <1>3. ASSUME NEW w \in Worker, NEW p \in Path, Launch(w, p) PROVE Turns'
    <2>1. /\ UNCHANGED <<wpc, lock, job, stopped, late>> /\ exec # <<>> /\ exec' = Tail(exec)
          /\ Head(exec) = <<w, p>> /\ reply'[w] \in {<<p>>, Refusal}
          /\ server' = IF Tail(exec) = <<>> THEN "read" ELSE "serve"
      BY <1>0, <1>3 DEF Launch, ServiceTypes
    <2>2. ASSUME late = {}, NEW v \in Worker, wpc[v] = "reply"
          PROVE  exec' = <<>> /\ reply'[v] \in {<<job[v]>>, Refusal}
      <3>1. exec = <<<<v, job[v]>>>>
        BY <2>1, <2>2 DEF Turns
      <3>2. Head(exec) = <<v, job[v]>> /\ Tail(exec) = <<>>
        BY <3>1
      <3>3. v = w /\ job[v] = p
        BY <2>1, <3>2
      <3> QED BY <2>1, <3>2, <3>3
    <2>3. exec' = <<>> => server' = "read"
      BY <2>1
    <2>4. late = {} /\ lock = Nobody /\ ~stopped => \A v \in Worker : wpc[v] = "ended"
      BY <2>1 DEF Turns
    <2> QED BY <2>1, <2>2, <2>3, <2>4 DEF Turns
  <1> QED BY <1>1, <1>2, <1>3 DEF SerialServer

\* Every step keeps the turns.
LEMMA NextTurns == Typing /\ Prompt /\ Turns /\ [Next]_vars => Turns'
  <1> SUFFICES ASSUME Typing, Prompt, Turns, [Next]_vars PROVE Turns'
    OBVIOUS
  <1>1. ASSUME UNCHANGED <<wpc, lock, job, server, exec, reply, late>>, stopped => stopped' PROVE Turns'
    BY <1>1 DEF Turns
  <1>2. CASE UNCHANGED vars \/ Producer \/ Stop \/ Quiet \/ InitialTimeout \/ ScanAgain \/ Admit
    BY <1>1, <1>2 DEF vars, Producer, Stop, Quiet, InitialTimeout, ScanAgain, PassEnds, Admit, Main, workerVars,
                     nestedVars
  <1>3. ASSUME NEW p \in Path, Scan(p) \/ Schedule(p) \/ Link(p) \/ Expire(p) \/ RemoveRequest(p) PROVE Turns'
    BY <1>1, <1>3 DEF Scan, Schedule, Main, Link, Expire, RemoveRequest, Elsewhere, Endpoint, Threads, workerVars,
                      nestedVars
  <1>4. CASE Respond
    <2>1. UNCHANGED <<lock, server, exec, reply, late, stopped>> /\ \A w \in Worker : wpc'[w] = "ended"
      BY <1>4 DEF Respond, nestedVars
    <2> QED BY <2>1 DEF Turns, Typing, TypeOK, WorkerTypes
  <1>5. ASSUME NEW w \in Worker, WorkerThread(w) PROVE Turns'
    BY <1>5, ApartTurns, WriteRequestTurns, ReadReplyTurns DEF WorkerThread, Apart
  <1> QED BY <1>2, <1>3, <1>4, <1>5, ServerTurns DEF Next, MainThread, NestedUpload

\* Unless a worker has given up a wait, the one who waits has its request with the
\* server, alone, or its reply in its result FIFO.
THEOREM RequestsAreServed == Spec => []NoRequestIsLost
  <1> DEFINE Inv == Typing /\ Prompt /\ Turns
  <1>1. Init => Inv
    BY InitTyping, InitPrompt, InitTurns
  <1>2. Inv /\ [Next]_vars => Inv'
    BY NextTyping, NextPrompt, NextTurns
  <1>3. Inv => NoRequestIsLost
    BY DEF Turns, NoRequestIsLost
  <1> QED BY <1>1, <1>2, <1>3, PTL DEF Spec

-----------------------------------------------------------------------------
(* Contents: what a worker has sent is what is stored at its path.         *)

\* No worker has begun.
LEMMA InitContents == Init => Contents
  BY DEF Init, StageInit, Contents, ContentsOf

\* A worker keeps what it knows of its own path while nobody else touches that.
LEMMA ContentsRest ==
    ASSUME NEW v \in Worker, ContentsOf(v), wpc'[v] = wpc[v], job'[v] = job[v], local'[v] = local[v],
           reply'[v] = <<job[v]>> => reply[v] = <<job[v]>>,
           Holding(v) => /\ nested'[job[v]] = nested[job[v]] /\ temporary'[job[v]] = temporary[job[v]]
                         /\ destination'[job[v]] = destination[job[v]]
    PROVE  ContentsOf(v)'
  BY DEF ContentsOf, Holding

\* An upload that a worker asked for is of no path that another worker has.
LEMMA OwnUpload ==
    ASSUME Typing, Asking, NEW w \in Worker, NEW c \in Path, Asked(w, c), NEW v \in Worker, v # w, Holding(v)
    PROVE  job[v] # c
  BY DEF Asking, Has

\* A worker that has sent its file knows what the upload has of it, and removes the
\* file only when that is all.
LEMMA WorkerContents ==
    ASSUME Typing, Asking, Prompt, Contents, NEW w \in Worker, WorkerThread(w)
    PROVE  Contents'
  <1> USE DEF Working, Goto, Fail, Keep
  <1>0. WorkerTypes /\ ServiceTypes /\ QueueTypes /\ Queueing
    BY DEF Typing, TypeOK
  <1>1. \A v \in Worker : v # w => wpc'[v] = wpc[v] /\ job'[v] = job[v] /\ local'[v] = local[v]
    BY <1>0, OthersRest
  <1>2. CASE WriteRequest(w) \/ ReadReply(w)
    <2>1. UNCHANGED <<nested, temporary, destination, job>> /\ late \subseteq late'
          /\ \A v \in Worker : reply'[v] = reply[v] \/ reply'[v] = NoReply
      BY <1>0, <1>2 DEF WriteRequest, ReadReply, uploadVars, ServiceTypes
    <2>2. ASSUME NEW v \in Worker \ late', v # w PROVE ContentsOf(v)'
      BY <1>1, <2>1, <2>2, ContentsRest DEF Contents, NoReply
    <2>3. ASSUME w \notin late' PROVE ContentsOf(w)'
      <3>1. PromptOf(w) /\ ContentsOf(w)
        BY <2>1, <2>3 DEF Prompt, Contents
      <3>2. CASE WriteRequest(w)
        <4>1. wpc[w] = "request" /\ reply' = reply /\ (wpc'[w] = "failed" \/ (wpc'[w] = "reply" /\ ~stopped))
          BY <1>0, <3>2 DEF WriteRequest, WorkerTypes
        <4>2. wpc'[w] = "reply" => reply[w] = NoReply
          BY <3>1, <4>1 DEF PromptOf, Unasked
        <4> QED BY <4>1, <4>2 DEF ContentsOf, NoReply
      <3>3. CASE ReadReply(w)
        <4>1. wpc[w] = "reply" /\ (wpc'[w] = "failed" \/ (wpc'[w] = "open" /\ reply[w] \notin {NoReply, Refusal}))
          BY <1>0, <3>3 DEF ReadReply, WorkerTypes
        <4>2. wpc'[w] = "open" => reply[w] = <<job[w]>>
          BY <3>1, <4>1 DEF PromptOf
        <4> QED BY <2>1, <3>1, <4>1, <4>2 DEF ContentsOf
      <3> QED BY <1>2, <3>2, <3>3
    <2> QED BY <2>2, <2>3 DEF Contents
  <1>3. CASE Apart(w)
    <2>1. UNCHANGED <<reply, late>>
      BY <1>3, ApartStep
    <2>2. ASSUME NEW v \in Worker \ late', v # w PROVE ContentsOf(v)'
      <3>1. ContentsOf(v)
        BY <2>1, <2>2 DEF Contents
      <3>2. Holding(v) => job[v] \in Path
        BY <1>0 DEF Queueing, QueueTypes
      <3>3. Holding(v) /\ Using(w) => job[v] # local[w].channel
        BY <2>2, OwnUpload DEF Asked, Asking
      <3>4. Holding(v) => /\ nested'[job[v]] = nested[job[v]] /\ temporary'[job[v]] = temporary[job[v]]
                          /\ destination'[job[v]] = destination[job[v]]
        BY <1>3, <3>2, <3>3, ApartStep
      <3> QED BY <1>1, <2>1, <2>2, <3>1, <3>4, ContentsRest
    <2>3. ASSUME w \notin late' PROVE ContentsOf(w)'
      <3>1. PromptOf(w) /\ ContentsOf(w)
        BY <2>1, <2>3 DEF Prompt, Contents
      <3>2. CASE \/ Take(w) \/ MakeRequest(w) \/ Block(w) \/ Consume(w) \/ RecordFailure(w) \/ TaskDone(w)
        <4>1. wpc'[w] \in {"taken", "request", "blocked", "finishing", "idle", "failed"}
          BY <1>0, <3>2 DEF Take, MakeRequest, Block, Consume, RecordFailure, TaskDone, WorkerTypes
        <4> QED BY <4>1 DEF ContentsOf
      <3>3. CASE OpenSource(w)
        <4>1. /\ wpc[w] = "open" /\ wpc'[w] \in {"failed", "send"} /\ UNCHANGED <<job, nested>>
          BY <1>0, <3>3 DEF OpenSource, WorkerTypes, nestedVars, uploadVars
        <4> QED BY <3>1, <4>1 DEF ContentsOf
      <3>4. CASE Send(w)
        <4>1. /\ job' = job /\ wpc[w] = "send" /\ local[w].channel = job[w] /\ job[w] \in Path
              /\ wpc'[w] \in {"confirm", "failed"}
          BY <1>0, <3>1, <3>4 DEF Send, WorkerTypes, PromptOf, Using, Asking
        <4>2. ASSUME wpc'[w] = "confirm" PROVE ContentsOf(w)'
          <5>1. /\ EndOfInput(w, length[local[w].inode])
                /\ local'[w].inode = local[w].inode /\ local'[w].sent = length[local[w].inode]
            BY <1>0, <3>4, <4>2 DEF Send, WorkerTypes
          <5>2. /\ nested'[job[w]] \in {"link", "refused"}
                /\ nested'[job[w]] = "link" => temporary'[job[w]] = <<local'[w].inode, local'[w].sent>>
            BY <1>0, <4>1, <5>1 DEF EndOfInput, ServiceTypes
          <5> QED BY <4>1, <4>2, <5>2 DEF ContentsOf
        <4> QED BY <4>1, <4>2 DEF ContentsOf
      <3>5. CASE ReadConfirmation(w)
        <4>1. /\ UNCHANGED <<job, local, temporary, destination>> /\ wpc[w] = "confirm"
              /\ local[w].channel = job[w] /\ job[w] \in Path /\ wpc'[w] \in {"unlink", "failed"}
          BY <1>0, <3>1, <3>5 DEF ReadConfirmation, UploadBecomes, WorkerTypes, PromptOf, Using, Asking,
                                 nestedVars, uploadVars
        <4>2. wpc'[w] = "unlink" => /\ nested[job[w]] = "stored" /\ local[w].sent = local[w].size
                                    /\ nested' = [nested EXCEPT ![job[w]] = "expired"]
          BY <1>0, <3>5, <4>1 DEF ReadConfirmation, UploadBecomes, Upload, WorkerTypes
        <4>3. wpc'[w] = "unlink" => nested'[job[w]] = "expired"
          BY <1>0, <4>1, <4>2 DEF ServiceTypes
        <4> QED BY <3>1, <4>1, <4>2, <4>3 DEF ContentsOf
      <3> QED BY <1>3, <3>2, <3>3, <3>4, <3>5 DEF Apart
    <2> QED BY <2>2, <2>3 DEF Contents
  <1> QED BY <1>2, <1>3 DEF WorkerThread, Apart

\* The server begins an upload only of what was asked for; the link moves the content;
\* no upload that a worker has confirmed goes on.
LEMMA ServiceContents ==
    ASSUME Typing, Asking, Prompt, Contents, SerialServer \/ NestedUpload
    PROVE  Contents'
  <1> USE DEF Elsewhere, Threads, Endpoint
  <1>0. WorkerTypes /\ ServiceTypes
    BY DEF Typing, TypeOK
  <1>p. \A v \in Worker : Holding(v) => job[v] \in Path
    BY DEF Typing, TypeOK, Queueing, QueueTypes
  <1>1. CASE CatAtEOF
    BY <1>1 DEF CatAtEOF, Contents, ContentsOf, uploadVars
  <1>2. ASSUME NEW w \in Worker, Drain(w) PROVE Contents'
    <2>1. /\ UNCHANGED <<job, local, late, nested, temporary, destination>>
          /\ \A v \in Worker : reply'[v] = reply[v] \/ reply'[v] = NoReply
          /\ \A v \in Worker : wpc'[v] = wpc[v] \/ wpc'[v] = "failed"
      BY <1>0, <1>2 DEF Drain, Fail, Goto, WorkerTypes, ServiceTypes, uploadVars
    <2> QED BY <2>1 DEF Contents, ContentsOf, NoReply
  <1>3. ASSUME NEW w \in Worker, NEW p \in Path, Launch(w, p) PROVE Contents'
    <2>1. /\ UNCHANGED <<wpc, job, local, late, temporary, destination>>
          /\ reply[w] = NoReply /\ \A v \in Worker : v # w => reply'[v] = reply[v]
          /\ \A q \in Path : q # p => nested'[q] = nested[q]
          /\ \/ reply'[w] = <<p>> /\ nested'[p] = "drain"
             \/ reply'[w] = Refusal
      BY <1>0, <1>3 DEF Launch, ServiceTypes
    <2>2. Line(w, p)
      <3>1. exec # <<>> /\ Head(exec) = <<w, p>> /\ exec \in Seq(Worker \X Path)
        BY <1>0, <1>3 DEF Launch, ServiceTypes
      <3> QED BY <3>1 DEF Line
    <2>3. ASSUME NEW v \in Worker \ late', v # w PROVE ContentsOf(v)'
      <3>1. ContentsOf(v) /\ (Holding(v) => job[v] # p)
        BY <2>1, <2>2, <2>3, OwnUpload DEF Contents, Asked
      <3> QED BY <1>p, <2>1, <2>3, <3>1, ContentsRest
    <2>4. ASSUME w \notin late' PROVE ContentsOf(w)'
      <3>1. PromptOf(w)
        BY <2>1, <2>4 DEF Prompt
      <3>2. ~Using(w) /\ (wpc[w] = "reply" => job[w] = p)
        BY <2>2, <3>1 DEF PromptOf, Unasked
      <3>3. reply'[w] = <<job[w]>> /\ wpc[w] = "reply" => nested'[job[w]] = "drain"
        BY <2>1, <3>2, UploadAssumption DEF Refusal
      <3> QED BY <2>1, <3>2, <3>3 DEF ContentsOf, Using
    <2> QED BY <2>3, <2>4 DEF Contents
  <1>4. ASSUME NEW p \in Path, Link(p) \/ Expire(p) \/ RemoveRequest(p) PROVE Contents'
    <2>1. /\ UNCHANGED <<wpc, job, local, late, reply>>
          /\ \A q \in Path : q # p => /\ nested'[q] = nested[q] /\ temporary'[q] = temporary[q]
                                      /\ destination'[q] = destination[q]
      BY <1>0, <1>4 DEF Link, Expire, RemoveRequest, ServiceTypes
    <2>2. \/ nested[p] = "link" /\ nested'[p] = "stored" /\ destination'[p] = temporary[p]
          \/ nested'[p] \in {"expired", "gone"} /\ destination'[p] = destination[p]
      BY <1>0, <1>4 DEF Link, Expire, RemoveRequest, ServiceTypes
    <2>3. ASSUME NEW v \in Worker \ late' PROVE ContentsOf(v)'
      <3>1. ContentsOf(v)
        BY <2>1, <2>3 DEF Contents
      <3>2. CASE Holding(v) /\ job[v] = p
        BY <2>1, <2>2, <3>1, <3>2 DEF ContentsOf
      <3>3. CASE ~(Holding(v) /\ job[v] = p)
        BY <1>p, <2>1, <3>1, <3>3, ContentsRest
      <3> QED BY <3>2, <3>3
    <2> QED BY <2>3 DEF Contents
  <1> QED BY <1>1, <1>2, <1>3, <1>4 DEF SerialServer, NestedUpload

\* Every step keeps the contents.
LEMMA NextContents == Typing /\ Asking /\ Prompt /\ Contents /\ [Next]_vars => Contents'
  <1> SUFFICES ASSUME Typing, Asking, Prompt, Contents, [Next]_vars PROVE Contents'
    OBVIOUS
  <1>1. ASSUME UNCHANGED <<wpc, job, local, nested, temporary, destination, reply, late>> PROVE Contents'
    BY <1>1 DEF Contents, ContentsOf
  <1>2. CASE UNCHANGED vars \/ Producer \/ Stop \/ Quiet \/ InitialTimeout \/ ScanAgain \/ Admit
    BY <1>1, <1>2 DEF vars, Producer, Stop, Quiet, InitialTimeout, ScanAgain, PassEnds, Admit, Main,
                     workerVars, nestedVars, uploadVars
  <1>3. ASSUME NEW p \in Path, Scan(p) \/ Schedule(p) PROVE Contents'
    BY <1>1, <1>3 DEF Scan, Schedule, Main, workerVars, nestedVars, uploadVars
  <1>4. CASE Respond
    BY <1>4 DEF Respond, Typing, TypeOK, WorkerTypes, Contents, ContentsOf
  <1> QED BY <1>2, <1>3, <1>4, ServiceContents, WorkerContents DEF Next, MainThread

\* A worker that has given up no wait removes a staged file as transferred only when the
\* destination holds the inode it opened, in the length it had.
THEOREM StoredBeforeRemoved == Spec => []CompletedIsStored
  <1> DEFINE Inv == Typing /\ Asking /\ Prompt /\ Contents
  <1>1. Init => Inv
    BY InitTyping, InitAsking, InitPrompt, InitContents
  <1>2. Inv /\ [Next]_vars => Inv'
    BY NextTyping, NextAsking, NextPrompt, NextContents
  <1>3. Inv => CompletedIsStored
    BY DEF Contents, ContentsOf, CompletedIsStored
  <1> QED BY <1>1, <1>2, <1>3, PTL DEF Spec
-----------------------------------------------------------------------------
(***************************************************************************)
(* Proofs about what a streaming_directory_upload request tells of its     *)
(* files: its end by quiet, and its response.                              *)
(***************************************************************************)

Settled == result.completed \cup result.failed \cup result.skipped

\* What the main thread knows of the tree: what it saw and has not queued is
\* still there, since only a worker or the queueing removes a file.
Scanning ==
    /\ phase = "scan" => \A p \in todo : current[p] = <<>>
    /\ phase \in {"scan", "schedule"} => \A p \in Path \ queued : current[p] # <<>> => stage[p] # NoFile
    /\ phase = "schedule" => todo \subseteq Seen

\* Every queued path has one outcome, or is still to get it.
Accounts ==
    /\ Settled \subseteq queued
    /\ \A p \in queued : p \in Settled \/ Waiting(p) \/ \E w \in Worker : Has(w, p)
    /\ \A p \in result.completed \cup result.failed :
          ~Waiting(p) /\ \A w \in Worker : Has(w, p) => wpc[w] = "finishing"
    /\ \A w \in Worker : wpc[w] = "finishing" => job[w] \in result.completed \cup result.failed
    /\ result.completed \cap result.failed = {}
    /\ result.skipped \cap (result.completed \cup result.failed) = {}
    /\ \A p \in result.skipped : ~Waiting(p) /\ \A w \in Worker : ~Has(w, p)

\* The end by quiet finds no task waiting and no worker with one.
Quietness ==
    /\ phase \in {"join", "responded"} /\ ~stopped /\ ~failed /\ ~error =>
          tasks = <<>> /\ (\A w \in Worker : ~Holding(w)) /\ Seen \subseteq queued
    /\ phase = "responded" => tasks = <<>> /\ \A w \in Worker : wpc[w] = "ended"

\* What an outcome says of the destination.
Outcomes ==
    /\ \A p \in Path : nested[p] = "none" => destination[p] = <<>>
    /\ \A p \in Path : nested[p] = "link" => temporary[p] # <<>>
    /\ \A p \in result.skipped : nested[p] = "none" /\ \A w \in Worker : ~Asked(w, p)
    /\ late = {} => \A p \in result.completed : destination[p] # <<>>

-----------------------------------------------------------------------------
(* Scanning.                                                               *)

\* Nothing is scanned yet.
LEMMA InitScanning == Init => Scanning
  BY DEF Init, StageInit, Scanning, Nothing

\* The main thread is scanning, or queues what it has seen.
LEMMA MainScanning ==
    ASSUME Typing, Scanning, MainThread
    PROVE  Scanning'
  <1>0. TreeTypes /\ ScanTypes /\ QueueTypes
    BY DEF Typing, TypeOK
  <1>1. ASSUME NEW p \in Path, Scan(p) PROVE Scanning'
    <2>1. phase = "scan" /\ phase' = "scan" /\ p \in todo /\ todo' = todo \ {p} /\ queued' = queued /\ todo \subseteq Path
      BY <1>0, <1>1 DEF Scan, Main, ScanTypes
    <2>2. \A q \in Path : q # p => current'[q] = current[q] /\ stage'[q] = stage[q]
      BY <1>0, <1>1 DEF Scan, TreeTypes, ScanTypes, Unlink, stageVars
    <2>3. current'[p] # <<>> => stage'[p] # NoFile
      BY <1>0, <1>1, <2>1 DEF Scan, TreeTypes, ScanTypes, Identity, stageVars, Scanning
    <2> QED BY <2>1, <2>2, <2>3 DEF Scanning
  <1>2. CASE Admit
    BY <1>0, <1>2 DEF Admit, Main, stageVars, Scanning, Seen
  <1>3. ASSUME NEW p \in Path, Schedule(p) PROVE Scanning'
    <2>1. phase = "schedule" /\ phase' \in {"schedule", "join"} /\ todo' \subseteq todo /\ current' = current
      BY <1>3 DEF Schedule, Main
    <2>2. queued \subseteq queued' /\ \A q \in Path : q \in queued' \/ stage'[q] = stage[q]
      BY <1>0, <1>3 DEF Schedule, TreeTypes, Unlink, stageVars
    <2> QED BY <2>1, <2>2 DEF Scanning, Seen
  <1>4. CASE Quiet \/ InitialTimeout \/ ScanAgain \/ Respond
    BY <1>4 DEF Quiet, InitialTimeout, ScanAgain, Respond, PassEnds, Nothing, Scanning
  <1> QED BY <1>1, <1>2, <1>3, <1>4 DEF MainThread

\* A worker removes only a file that is queued.
LEMMA WorkerScanning ==
    ASSUME Typing, Scanning, NEW w \in Worker, WorkerThread(w)
    PROVE  Scanning'
  <1> USE DEF Working, Keep
  <1>0. TreeTypes /\ QueueTypes /\ WorkerTypes /\ Queueing
    BY DEF Typing, TypeOK
  <1>1. UNCHANGED <<phase, todo, current, queued>>
    BY DEF WorkerThread, Take, MakeRequest, WriteRequest, ReadReply, OpenSource, Send, ReadConfirmation, Block,
           Consume, RecordFailure, TaskDone, scanVars
  <1>2. \A q \in Path : q \in queued \/ stage'[q] = stage[q]
    <2>1. CASE Consume(w)
      <3>1. job[w] \in queued
        BY <1>0, <2>1 DEF Consume, Queueing, Holding
      <3> QED BY <1>0, <2>1, <3>1 DEF Consume, Unlink, stageVars, TreeTypes
    <2>2. CASE ~Consume(w)
      BY <2>2 DEF WorkerThread, Take, MakeRequest, WriteRequest, ReadReply, OpenSource, Send, ReadConfirmation, Block,
             RecordFailure, TaskDone, stageVars
    <2> QED BY <2>1, <2>2
  <1> QED BY <1>1, <1>2 DEF Scanning, Seen

\* Every step keeps what the main thread knows.
LEMMA NextScanning == Typing /\ Scanning /\ [Next]_vars => Scanning'
  <1> SUFFICES ASSUME Typing, Scanning, [Next]_vars PROVE Scanning'
    OBVIOUS
  <1>1. ASSUME UNCHANGED <<stage, phase, todo, current, queued>> PROVE Scanning'
    BY <1>1 DEF Scanning, Seen
  <1>2. CASE UNCHANGED vars \/ Stop \/ SerialServer \/ NestedUpload
    BY <1>1, <1>2 DEF vars, Stop, SerialServer, CatAtEOF, Drain, Launch, NestedUpload, Link, Expire, RemoveRequest,
                     Elsewhere, stageVars, scanVars
  <1>3. CASE Producer
    <2>1. UNCHANGED <<phase, todo, current, queued>>
      BY <1>3 DEF Producer, scanVars
    <2>2. \A q \in Path : stage[q] # NoFile => stage'[q] # NoFile
      BY <1>3, UploadAssumption DEF Producer, Produce, Grow, NoFile, Typing, TypeOK, TreeTypes
    <2> QED BY <2>1, <2>2 DEF Scanning, Seen
  <1> QED BY <1>2, <1>3, MainScanning, WorkerScanning DEF Next

-----------------------------------------------------------------------------
(* Accounts.                                                               *)

\* Nothing is queued yet.
LEMMA InitAccounts == Init => Accounts
  BY DEF Init, StageInit, Accounts, Settled

\* A path that is queued waits for a worker, or is skipped; the removal of a
\* filtered file finds it, so that no path is queued without an outcome to come.
LEMMA ScheduleAccounts ==
    ASSUME Typing, Scanning, Accounts, NEW p \in Path, Schedule(p)
    PROVE  Accounts'
  <1>0. tasks \in Seq(queued) /\ OutcomeTypes /\ Queueing
    BY DEF Typing, TypeOK, QueueTypes
  <1>1. UNCHANGED <<wpc, job>>
    BY DEF Schedule, Main, workerVars
  <1>2. CASE UNCHANGED <<queued, tasks, result>>
    BY <1>1, <1>2 DEF Accounts, Settled, Has, Holding, Waiting
  <1>3. ASSUME p \notin queued, queued' = queued \cup {p}, tasks' = Append(tasks, p), UNCHANGED result
        PROVE  Accounts'
    <2>1. \A q : Waiting(q)' <=> Waiting(q) \/ q = p
      BY <1>0, <1>3 DEF Waiting
    <2>2. \A w \in Worker : ~Has(w, p)
      BY <1>0, <1>3 DEF Queueing, Has
    <2> QED BY <1>1, <1>3, <2>1, <2>2 DEF Accounts, Settled, Has, Holding
  <1>4. ASSUME p \notin queued, queued' = queued \cup {p}, UNCHANGED tasks,
               result' = [result EXCEPT !.skipped = @ \cup {p}]
        PROVE  Accounts'
    <2>1. ~Waiting(p) /\ \A w \in Worker : ~Has(w, p)
      BY <1>0, <1>4 DEF Queueing, Has, Waiting
    <2>2. /\ result'.skipped = result.skipped \cup {p}
          /\ result'.completed = result.completed /\ result'.failed = result.failed
      BY <1>0, <1>4 DEF OutcomeTypes
    <2> QED BY <1>1, <1>4, <2>1, <2>2 DEF Accounts, Settled, Has, Holding, Waiting
  <1>5. p \notin queued => stage[p] # NoFile
    BY DEF Schedule, Main, Scanning, Seen
  <1> QED BY <1>2, <1>3, <1>4, <1>5 DEF Schedule

\* A worker that has not finished with its path keeps it.
LEMMA KeepingOn ==
    ASSUME Accounts, NEW w \in Worker, Holding(w), Holding(w)', wpc[w] # "finishing", wpc'[w] # "finishing",
           UNCHANGED <<job, tasks, queued, result>>, \A v \in Worker \ {w} : wpc'[v] = wpc[v]
    PROVE  Accounts'
  <1>1. \A v \in Worker : Holding(v)' = Holding(v)
    BY DEF Holding
  <1>2. \A v \in Worker : wpc'[v] = "finishing" <=> wpc[v] = "finishing"
    OBVIOUS
  <1>3. \A q : \A v \in Worker : Has(v, q)' = Has(v, q)
    BY <1>1 DEF Has
  <1>4. \A q : Waiting(q)' = Waiting(q)
    BY DEF Waiting
  <1> QED BY <1>2, <1>3, <1>4 DEF Accounts, Settled

\* A worker that is done with its path adds it to the completed or to the failed.
LEMMA Settling ==
    ASSUME Typing, Accounts, NEW w \in Worker, Holding(w), wpc[w] # "finishing", wpc'[w] = "finishing",
           UNCHANGED <<job, tasks, queued>>, \A v \in Worker \ {w} : wpc'[v] = wpc[v],
           \/ result' = [result EXCEPT !.completed = @ \cup {job[w]}]
           \/ result' = [result EXCEPT !.failed = @ \cup {job[w]}]
    PROVE  Accounts'
  <1>1. \A v \in Worker : Holding(v)' = Holding(v)
    BY DEF Holding
  <1>2. \A q : \A v \in Worker : Has(v, q)' = Has(v, q)
    BY <1>1 DEF Has
  <1>3. \A q : Waiting(q)' = Waiting(q)
    BY DEF Waiting
  <1>4. /\ result'.skipped = result.skipped
        /\ \/ result'.completed = result.completed \cup {job[w]} /\ result'.failed = result.failed
           \/ result'.failed = result.failed \cup {job[w]} /\ result'.completed = result.completed
    BY DEF Typing, TypeOK, OutcomeTypes
  <1>5. /\ job[w] \in queued /\ ~Waiting(job[w]) /\ Has(w, job[w])
        /\ \A v \in Worker : Has(v, job[w]) => v = w
    BY DEF Typing, Queueing, Has
  <1>6. job[w] \notin Settled
    BY <1>5 DEF Accounts, Settled
  <1> QED BY <1>2, <1>3, <1>4, <1>5, <1>6 DEF Accounts, Settled

\* A worker keeps the accounts.
LEMMA WorkerAccounts ==
    ASSUME Typing, Accounts, NEW w \in Worker, WorkerThread(w)
    PROVE  Accounts'
  <1> USE DEF Working, Goto, Fail, Keep
  <1>0. tasks \in Seq(queued) /\ WorkerTypes /\ Queueing
    BY DEF Typing, TypeOK, QueueTypes
  <1>1. \A v \in Worker \ {w} : wpc'[v] = wpc[v] /\ job'[v] = job[v]
    BY <1>0, OthersRest
  <1>2. queued' = queued
    BY DEF WorkerThread, Take, MakeRequest, WriteRequest, ReadReply, OpenSource, Send, ReadConfirmation, Block,
           Consume, RecordFailure, TaskDone, scanVars
  <1>3. CASE Take(w)
    <2>1. /\ wpc[w] = "idle" /\ wpc'[w] = "taken" /\ job'[w] = Head(tasks) /\ tasks # <<>> /\ tasks' = Tail(tasks)
          /\ result' = result
      BY <1>0, <1>3 DEF Take, WorkerTypes
    <2> PICK p \in queued : p = Head(tasks)
      BY <1>0, <2>1
    <2>2. /\ Len(tasks) \in Nat \ {0} /\ p = tasks[1] /\ Len(tasks') = Len(tasks) - 1
          /\ \A i \in 1 .. Len(tasks') : tasks'[i] = tasks[i + 1]
      BY <1>0, <2>1
    <2>3. Waiting(p) /\ p \notin Settled
      BY <2>2 DEF Waiting, Accounts, Settled
    <2>4. \A q : Waiting(q)' => Waiting(q)
      BY <2>2 DEF Waiting
    <2>5. \A q : Waiting(q) => Waiting(q)' \/ q = p
      <3> SUFFICES ASSUME NEW i \in 1 .. Len(tasks), tasks[i] # p PROVE \E j \in 1 .. Len(tasks') : tasks'[j] = tasks[i]
        BY DEF Waiting
      <3>1. i - 1 \in 1 .. Len(tasks') /\ (i - 1) + 1 = i
        BY <2>2
      <3> QED BY <2>2, <3>1
    <2>6. /\ ~Holding(w) /\ Has(w, p)' /\ \A q : Has(w, q)' => q = p
          /\ \A q : \A v \in Worker \ {w} : Has(v, q)' = Has(v, q)
      BY <1>1, <2>1 DEF Has, Holding
    <2>7. \A v \in Worker \ {w} : wpc'[v] = "finishing" => wpc[v] = "finishing" /\ job'[v] = job[v]
      BY <1>1
    <2>a. \A q \in queued' : q \in Settled' \/ Waiting(q)' \/ \E v \in Worker : Has(v, q)'
      BY <1>2, <2>1, <2>5, <2>6, SMTT(20) DEF Accounts, Settled, Has
    <2>b. \A q \in (result.completed \cup result.failed)' :
             ~Waiting(q)' /\ \A v \in Worker : Has(v, q)' => wpc'[v] = "finishing"
      BY <1>1, <2>1, <2>3, <2>4, <2>6 DEF Accounts, Settled
    <2>c. \A q \in result'.skipped : ~Waiting(q)' /\ \A v \in Worker : ~Has(v, q)'
      BY <2>1, <2>3, <2>4, <2>6 DEF Accounts, Settled
    <2>d. \A v \in Worker : wpc'[v] = "finishing" => job'[v] \in (result.completed \cup result.failed)'
      BY <2>1, <2>7 DEF Accounts
    <2> QED BY <1>2, <2>1, <2>a, <2>b, <2>c, <2>d DEF Accounts, Settled
  <1>4. CASE MakeRequest(w) \/ WriteRequest(w) \/ ReadReply(w) \/ OpenSource(w)
    <2>1. Holding(w) /\ Holding(w)' /\ wpc[w] # "finishing" /\ wpc'[w] # "finishing"
      BY <1>0, <1>4 DEF MakeRequest, WriteRequest, ReadReply, OpenSource, WorkerTypes, Holding
    <2> QED BY <1>1, <1>2, <1>4, <2>1, KeepingOn DEF MakeRequest, WriteRequest, ReadReply, OpenSource
  <1>5. CASE Send(w) \/ ReadConfirmation(w) \/ Block(w)
    <2>1. Holding(w) /\ Holding(w)' /\ wpc[w] # "finishing" /\ wpc'[w] # "finishing"
      BY <1>0, <1>5 DEF Send, ReadConfirmation, Block, WorkerTypes, Holding
    <2> QED BY <1>1, <1>2, <1>5, <2>1, KeepingOn DEF Send, ReadConfirmation, Block
  <1>6. CASE Consume(w)
    <2>1. CASE stage[job[w]] = NoFile
      <3>1. Holding(w) /\ Holding(w)' /\ wpc[w] # "finishing" /\ wpc'[w] # "finishing"
        BY <1>0, <1>6, <2>1 DEF Consume, WorkerTypes, Holding
      <3> QED BY <1>1, <1>2, <1>6, <2>1, <3>1, KeepingOn DEF Consume
    <2>2. CASE stage[job[w]] # NoFile
      <3>1. Holding(w) /\ wpc[w] # "finishing" /\ wpc'[w] = "finishing"
        BY <1>0, <1>6, <2>2 DEF Consume, WorkerTypes, Holding
      <3> QED BY <1>1, <1>2, <1>6, <2>2, <3>1, Settling DEF Consume
    <2> QED BY <2>1, <2>2
  <1>7. CASE RecordFailure(w)
    <2>1. Holding(w) /\ wpc[w] # "finishing" /\ wpc'[w] = "finishing"
      BY <1>0, <1>7 DEF RecordFailure, WorkerTypes, Holding
    <2> QED BY <1>1, <1>2, <1>7, <2>1, Settling DEF RecordFailure
  <1>8. CASE TaskDone(w)
    <2>1. /\ wpc[w] = "finishing" /\ wpc'[w] = "idle" /\ UNCHANGED <<tasks, result>>
      BY <1>0, <1>8 DEF TaskDone, WorkerTypes
    <2>2. \A q : \A v \in Worker : Has(v, q)' <=> Has(v, q) /\ v # w
      BY <1>1, <2>1 DEF Has, Holding
    <2>3. \A q : Waiting(q)' = Waiting(q)
      BY <2>1 DEF Waiting
    <2>4. \A q : Has(w, q) => q \in Settled
      BY <2>1 DEF Accounts, Settled, Has
    <2>5. \A v \in Worker : wpc'[v] = "finishing" => wpc[v] = "finishing" /\ job'[v] = job[v]
      BY <1>1, <2>1
    <2> QED BY <1>1, <1>2, <2>1, <2>2, <2>3, <2>4, <2>5 DEF Accounts, Settled
  <1> QED BY <1>3, <1>4, <1>5, <1>6, <1>7, <1>8 DEF WorkerThread

\* Every step keeps the accounts.
LEMMA NextAccounts == Typing /\ Scanning /\ Accounts /\ [Next]_vars => Accounts'
  <1> SUFFICES ASSUME Typing, Scanning, Accounts, [Next]_vars PROVE Accounts'
    OBVIOUS
  <1>1. ASSUME UNCHANGED <<wpc, job, tasks, queued, result>> PROVE Accounts'
    BY <1>1 DEF Accounts, Settled, Has, Holding, Waiting
  <1>2. CASE UNCHANGED vars \/ Producer \/ Stop \/ NestedUpload
    BY <1>1, <1>2 DEF vars, Producer, Stop, NestedUpload, Link, Expire, RemoveRequest, Elsewhere, Threads, scanVars,
                     workerVars
  <1>6. CASE SerialServer
    <2>1. UNCHANGED <<job, tasks, queued, result>>
      BY <1>6 DEF SerialServer, CatAtEOF, Drain, Launch, Elsewhere, scanVars
    <2>2. CASE UNCHANGED wpc
      BY <1>1, <2>1, <2>2
    <2>3. ASSUME NEW w \in Worker, wpc[w] = "reply", Fail(w) PROVE Accounts'
      <3>1. wpc'[w] = "failed" /\ \A v \in Worker \ {w} : wpc'[v] = wpc[v]
        BY <2>3 DEF Fail, Goto, Typing, TypeOK, WorkerTypes
      <3> QED BY <2>1, <2>3, <3>1, KeepingOn DEF Holding
    <2> QED BY <1>6, <2>2, <2>3 DEF SerialServer, CatAtEOF, Drain, Launch, Threads
  <1>3. CASE Quiet \/ InitialTimeout \/ ScanAgain \/ Admit
    BY <1>1, <1>3 DEF Quiet, InitialTimeout, ScanAgain, PassEnds, Admit, Main, workerVars
  <1>4. ASSUME NEW p \in Path, Scan(p) PROVE Accounts'
    <2>1. UNCHANGED <<wpc, job, tasks, queued>>
      BY <1>4 DEF Scan, Main, workerVars
    <2>2. result'.completed = result.completed /\ result'.failed = result.failed /\ result'.skipped = result.skipped
      BY <1>4 DEF Scan, Typing, TypeOK, OutcomeTypes
    <2> QED BY <2>1, <2>2 DEF Accounts, Settled, Has, Holding, Waiting
  <1>5. CASE Respond
    <2>1. tasks = <<>> /\ \A w \in Worker : ~Holding(w)
      BY <1>5, NothingUnfinished DEF Respond
    <2>2. UNCHANGED <<job, tasks, queued, result>> /\ wpc' = [w \in Worker |-> "ended"]
      BY <1>5 DEF Respond
    <2>3. \A q : \A w \in Worker : ~Has(w, q) /\ ~Has(w, q)'
      BY <2>1, <2>2 DEF Has, Holding
    <2> QED BY <2>2, <2>3 DEF Accounts, Settled, Waiting
  <1> QED BY <1>2, <1>3, <1>4, <1>5, <1>6, ScheduleAccounts, WorkerAccounts DEF Next, MainThread

-----------------------------------------------------------------------------
(* Quietness.                                                              *)

\* The request has not ended.
LEMMA InitQuietness == Init => Quietness
  BY DEF Init, StageInit, Quietness

\* The end by quiet is decided with nothing unfinished, and leaves nothing to do.
LEMMA NextQuietness == Typing /\ Quietness /\ [Next]_vars => Quietness'
  <1> SUFFICES ASSUME Typing, Quietness, [Next]_vars PROVE Quietness'
    OBVIOUS
  <1>1. CASE UNCHANGED vars \/ Producer \/ Stop \/ NestedUpload
    <2>1. UNCHANGED <<phase, failed, error, tasks, wpc, current, queued>> /\ (stopped => stopped')
      BY <1>1 DEF vars, Producer, Stop, NestedUpload, Link, Expire, RemoveRequest, Elsewhere, Threads, scanVars,
                  workerVars
    <2> QED BY <2>1 DEF Quietness, Holding, Seen
  <1>7. CASE SerialServer
    <2>1. UNCHANGED <<phase, failed, error, tasks, current, queued, stopped>>
      BY <1>7 DEF SerialServer, CatAtEOF, Drain, Launch, Elsewhere, scanVars
    <2>2. wpc' = wpc \/ \E w \in Worker : wpc[w] = "reply"
      BY <1>7 DEF SerialServer, CatAtEOF, Drain, Launch, Threads
    <2> QED BY <2>1, <2>2 DEF Quietness, Holding, Seen
  <1>2. ASSUME NEW p \in Path, Scan(p) \/ Schedule(p) PROVE Quietness'
    BY <1>2 DEF Scan, Schedule, Main, Quietness
  <1>3. CASE Admit \/ InitialTimeout \/ ScanAgain
    BY <1>3 DEF Admit, InitialTimeout, ScanAgain, PassEnds, Main, Quietness
  <1>4. CASE Quiet
    <2>1. tasks = <<>> /\ \A w \in Worker : ~Holding(w)
      BY <1>4, NothingUnfinished DEF Quiet, Idle
    <2>2. Seen \subseteq queued /\ phase' = "join" /\ UNCHANGED <<tasks, wpc, current, queued>>
      BY <1>4 DEF Quiet, PassEnds, Main, workerVars
    <2> QED BY <2>1, <2>2 DEF Quietness, Holding, Seen
  <1>5. CASE Respond
    <2>1. tasks = <<>>
      BY <1>5, NothingUnfinished DEF Respond
    <2>2. /\ phase = "join" /\ UNCHANGED <<stopped, failed, error, tasks, current, queued>>
          /\ wpc' = [w \in Worker |-> "ended"]
      BY <1>5 DEF Respond
    <2> QED BY <2>1, <2>2 DEF Quietness, Holding, Seen
  <1>6. ASSUME NEW w \in Worker, WorkerThread(w) PROVE Quietness'
    <2>1. UNCHANGED <<phase, stopped, error, current, queued>>
      BY <1>6 DEF WorkerThread, Working, Take, MakeRequest, WriteRequest, ReadReply, OpenSource, Send,
                  ReadConfirmation, Block, Consume, RecordFailure, TaskDone, scanVars
    <2>2. Holding(w) \/ tasks # <<>>
      BY <1>6 DEF WorkerThread, Working, Take, MakeRequest, WriteRequest, ReadReply, OpenSource, Send,
                  ReadConfirmation, Block, Consume, RecordFailure, TaskDone, Holding
    <2>3. failed => failed'
      BY <1>6 DEF WorkerThread, Keep, Take, MakeRequest, WriteRequest, ReadReply, OpenSource, Send,
                  ReadConfirmation, Block, Consume, RecordFailure, TaskDone
    <2>4. phase = "responded" => FALSE
      BY <2>2 DEF Quietness, Holding
    <2> QED BY <2>1, <2>2, <2>3, <2>4 DEF Quietness
  <1> QED BY <1>1, <1>2, <1>3, <1>4, <1>5, <1>6, <1>7 DEF Next, MainThread

\* A request that ends by the quiet period has settled every file it queued, and has
\* queued every file its last scan saw.
THEOREM QuietIsSettled == Spec => []QuietMeansSettled
  <1> DEFINE Inv == Typing /\ Scanning /\ Accounts /\ Quietness
  <1>1. Init => Inv
    BY InitTyping, InitScanning, InitAccounts, InitQuietness
  <1>2. Inv /\ [Next]_vars => Inv'
    BY NextTyping, NextScanning, NextAccounts, NextQuietness
  <1>3. Inv => QuietMeansSettled
    BY DEF QuietMeansSettled, Quietness, Accounts, Settled, Waiting, Has
  <1> QED BY <1>1, <1>2, <1>3, PTL DEF Spec

-----------------------------------------------------------------------------
(* Outcomes.                                                               *)

\* There is no outcome yet.
LEMMA InitOutcomes == Init => Outcomes
  BY DEF Init, StageInit, Outcomes, Nothing

\* A skipped path was never asked of the service.
LEMMA ScheduleOutcomes ==
    ASSUME Typing, Asking, Outcomes, NEW p \in Path, Schedule(p)
    PROVE  Outcomes'
  <1>1. UNCHANGED <<nested, destination, temporary, exec, reply, wpc, local, late>>
    BY DEF Schedule, Main, nestedVars, uploadVars, workerVars
  <1>2. \A w \in Worker, q \in Path : Asked(w, q)' <=> Asked(w, q)
    BY <1>1 DEF Asked, Line, Using
  <1>0. result.skipped \subseteq Path
    BY DEF Typing, TypeOK, OutcomeTypes
  <1>3. CASE UNCHANGED result
    BY <1>0, <1>1, <1>2, <1>3 DEF Outcomes
  <1>4. CASE p \notin queued /\ result' = [result EXCEPT !.skipped = @ \cup {p}]
    <2>1. result'.skipped = result.skipped \cup {p} /\ result'.completed = result.completed
      BY <1>4 DEF Typing, TypeOK, OutcomeTypes
    <2>2. nested[p] = "none" /\ \A w \in Worker : ~Asked(w, p)
      BY <1>4 DEF Asking
    <2> QED BY <1>0, <1>1, <1>2, <2>1, <2>2 DEF Outcomes
  <1> QED BY <1>3, <1>4 DEF Schedule

\* The other steps ask for no skipped path, since no worker has one.
LEMMA SkippedUnasked ==
    ASSUME Typing, Asking, Accounts, Outcomes, SerialServer \/ NestedUpload \/ \E w \in Worker : WorkerThread(w),
           NEW p \in result.skipped, NEW v \in Worker
    PROVE  ~Asked(v, p)'
  <1> USE DEF Elsewhere, Threads, Endpoint, uploadVars
  <1>0. WorkerTypes /\ ServiceTypes /\ p \in Path
    BY DEF Typing, TypeOK, OutcomeTypes
  <1>1. \A u \in Worker : ~Asked(u, p) /\ ~Has(u, p)
    BY DEF Outcomes, Accounts
  <1>2. CASE CatAtEOF \/ NestedUpload
    BY <1>1, <1>2 DEF CatAtEOF, NestedUpload, Link, Expire, RemoveRequest, Asked, Line, Using
  <1>3. ASSUME NEW w \in Worker, Drain(w) PROVE ~Asked(v, p)'
    <2>1. UNCHANGED <<exec, local>> /\ reply' = [reply EXCEPT ![w] = NoReply]
      BY <1>3 DEF Drain
    <2>2. wpc' = wpc \/ (wpc[w] = "reply" /\ wpc' = [wpc EXCEPT ![w] = "failed"])
      BY <1>3 DEF Drain, Fail, Goto
    <2> QED BY <1>0, <1>1, <2>1, <2>2 DEF Asked, Line, Using, WorkerTypes, ServiceTypes, NoReply
  <1>4. ASSUME NEW w \in Worker, NEW q \in Path, Launch(w, q) PROVE ~Asked(v, p)'
    <2>1. exec # <<>> /\ exec' = Tail(exec) /\ Head(exec) = <<w, q>> /\ UNCHANGED <<wpc, local>>
      BY <1>4 DEF Launch
    <2>2. Line(w, q) /\ (Line(v, p)' => Line(v, p))
      BY <2>1, Served1 DEF Line
    <2>3. q # p
      BY <1>1, <2>2 DEF Asked
    <2>4. reply' = [reply EXCEPT ![w] = <<q>>] \/ reply' = [reply EXCEPT ![w] = Refusal]
      BY <1>4 DEF Launch
    <2>5. reply'[v] = reply[v] \/ reply'[v] = <<q>> \/ reply'[v] = Refusal
      BY <1>0, <2>4 DEF ServiceTypes
    <2>6. <<q>> # <<p>> /\ Refusal # <<p>>
      BY <1>0, <2>3, UploadAssumption DEF Refusal
    <2> QED BY <1>1, <2>1, <2>2, <2>5, <2>6 DEF Asked, Using
  <1>5. ASSUME NEW w \in Worker, WorkerThread(w) PROVE ~Asked(v, p)'
    <2>0. \A u \in Worker : u # w => wpc'[u] = wpc[u] /\ job'[u] = job[u] /\ local'[u] = local[u]
      BY <1>0, <1>5, OthersRest
    <2>1. CASE Apart(w)
      BY <1>1, <2>0, <2>1, ApartStep DEF Asked, Line, Using
    <2> USE DEF Working, Goto, Fail, Keep
    <2>2. CASE WriteRequest(w)
      <3>1. wpc[w] = "request" /\ wpc'[w] \in {"failed", "reply"} /\ UNCHANGED <<reply, local>>
        BY <1>0, <2>2 DEF WriteRequest, WorkerTypes
      <3>2. Has(w, job[w]) /\ job[w] \in Path
        BY <3>1 DEF Has, Holding, Typing, TypeOK, Queueing, QueueTypes
      <3>3. exec' = exec \/ exec' = Append(exec, <<w, job[w]>>)
        BY <2>2 DEF WriteRequest, Written
      <3>4. Line(v, p)' => Line(v, p) \/ p = job[w]
        BY <3>2, <3>3, Written1 DEF Line
      <3> QED BY <1>1, <2>0, <3>1, <3>2, <3>4 DEF Asked, Using
    <2>3. CASE ReadReply(w)
      <3>1. /\ wpc[w] = "reply" /\ exec' = exec
            /\ \/ wpc'[w] = "failed"
               \/ /\ reply[w] \notin {NoReply, Refusal} /\ wpc'[w] = "open"
                  /\ local'[w].channel = reply[w][1]
        BY <1>0, <2>3 DEF ReadReply, WorkerTypes
      <3>2. reply' = reply \/ reply' = [reply EXCEPT ![w] = NoReply]
        BY <2>3 DEF ReadReply
      <3>3. \A u \in Worker : reply'[u] = reply[u] \/ reply'[u] = NoReply
        BY <1>0, <3>2 DEF ServiceTypes
      <3>4. reply[w] \notin {NoReply, Refusal} => reply[w] = <<reply[w][1]>>
        BY <1>0 DEF ServiceTypes, Reply
      <3> QED BY <1>1, <2>0, <3>1, <3>3, <3>4 DEF Asked, Line, Using, NoReply
    <2> QED BY <1>5, <2>1, <2>2, <2>3 DEF WorkerThread, Apart
  <1> QED BY <1>2, <1>3, <1>4, <1>5 DEF SerialServer

\* An upload begins only of a path that was asked for, and only what is linked is stored.
LEMMA ServiceOutcomes ==
    ASSUME Typing, Asking, Accounts, Outcomes, SerialServer \/ NestedUpload
    PROVE  Outcomes'
  <1> USE DEF Elsewhere, Endpoint, Threads
  <1>0. ServiceTypes /\ OutcomeTypes
    BY DEF Typing, TypeOK
  <1>1. UNCHANGED <<result, late>> /\ result.skipped \subseteq Path /\ result.completed \subseteq Path
    BY <1>0 DEF SerialServer, NestedUpload, CatAtEOF, Drain, Launch, Link, Expire, RemoveRequest, OutcomeTypes
  <1>2. \A p \in result'.skipped, v \in Worker : ~Asked(v, p)'
    BY <1>1, SkippedUnasked
  <1>3. CASE UNCHANGED <<nested, destination, temporary>>
    BY <1>1, <1>2, <1>3 DEF Outcomes
  <1>4. ASSUME NEW w \in Worker, NEW p \in Path, Launch(w, p) PROVE Outcomes'
    <2>1. UNCHANGED <<destination, temporary>> /\ (nested' = nested \/ nested' = [nested EXCEPT ![p] = "drain"])
      BY <1>4 DEF Launch
    <2>2. p \notin result.skipped
      <3>1. exec # <<>> /\ Head(exec) = <<w, p>> /\ exec \in Seq(Worker \X Path)
        BY <1>0, <1>4 DEF Launch, ServiceTypes
      <3>2. Line(w, p)
        BY <3>1 DEF Line
      <3> QED BY <3>2 DEF Outcomes, Asked
    <2>3. \A q \in Path : nested'[q] = nested[q] \/ (q = p /\ nested'[q] = "drain")
      BY <1>0, <2>1 DEF ServiceTypes
    <2> QED BY <1>1, <1>2, <2>1, <2>2, <2>3 DEF Outcomes
  <1>5. ASSUME NEW p \in Path, Link(p) \/ Expire(p) \/ RemoveRequest(p) PROVE Outcomes'
    <2>1. /\ nested[p] # "none" /\ nested'[p] \notin {"none", "link"}
          /\ destination'[p] = destination[p] \/ (nested[p] = "link" /\ destination'[p] = temporary[p])
      BY <1>0, <1>5 DEF Link, Expire, RemoveRequest, ServiceTypes
    <2>2. \A q \in Path : q # p => nested'[q] = nested[q] /\ destination'[q] = destination[q]
                                   /\ temporary'[q] = temporary[q]
      BY <1>0, <1>5 DEF Link, Expire, RemoveRequest, ServiceTypes
    <2> QED BY <1>1, <1>2, <2>1, <2>2 DEF Outcomes
  <1> QED BY <1>3, <1>4, <1>5 DEF SerialServer, CatAtEOF, Drain, uploadVars, NestedUpload

\* A worker changes only the upload it uses, which is of no skipped path, and counts
\* its path as completed only when it is stored.
LEMMA WorkerOutcomes ==
    ASSUME Typing, Asking, Contents, Accounts, Outcomes, NEW w \in Worker, WorkerThread(w)
    PROVE  Outcomes'
  <1> USE DEF Working, Goto, Fail, Keep, Endpoint
  <1>0. WorkerTypes /\ ServiceTypes /\ OutcomeTypes /\ result.skipped \subseteq Path /\ result.completed \subseteq Path
    BY DEF Typing, TypeOK, OutcomeTypes
  <1>1. late \subseteq late' /\ result'.skipped = result.skipped
    BY <1>0 DEF WorkerThread, Take, MakeRequest, WriteRequest, ReadReply, OpenSource, Send, ReadConfirmation, Block,
                Consume, RecordFailure, TaskDone, OutcomeTypes
  <1>2. \A p \in result'.skipped, v \in Worker : ~Asked(v, p)'
    BY <1>1, SkippedUnasked
  <1>3. CASE \/ Take(w) \/ MakeRequest(w) \/ WriteRequest(w) \/ ReadReply(w) \/ OpenSource(w) \/ Block(w)
             \/ TaskDone(w) \/ RecordFailure(w)
    <2>1. UNCHANGED <<nested, destination, temporary>> /\ result'.completed = result.completed
      BY <1>0, <1>3 DEF Take, MakeRequest, WriteRequest, ReadReply, OpenSource, Block, TaskDone, RecordFailure,
                        nestedVars, uploadVars, OutcomeTypes
    <2> QED BY <1>1, <1>2, <2>1 DEF Outcomes
  <1>4. CASE Send(w) \/ ReadConfirmation(w)
    <2> DEFINE c == local[w].channel
    <2>1. UNCHANGED <<result, destination>> /\ wpc[w] \in {"send", "confirm"}
      BY <1>4 DEF Send, ReadConfirmation, EndOfInput, UploadBecomes, nestedVars, uploadVars
    <2>2. Asked(w, c) /\ c \in Path /\ local[w].inode \in Inode
      BY <2>1 DEF Asked, Using, Asking, Typing, Queueing
    <2>3. \A q \in Path : q # c => nested'[q] = nested[q] /\ temporary'[q] = temporary[q]
      BY <1>0, <1>4 DEF Send, ReadConfirmation, EndOfInput, UploadBecomes, nestedVars, uploadVars, ServiceTypes
    <2> DEFINE Sound == /\ nested'[c] = "none" => nested[c] = "none"
                        /\ nested'[c] = "link" => temporary'[c] # <<>>
    <2>4. Sound
      <3>1. CASE UNCHANGED <<nested, temporary>>
        BY <2>2, <3>1 DEF Outcomes
      <3>2. ASSUME NEW n \in 0 .. length[local[w].inode], EndOfInput(w, n) PROVE Sound
        <4>1. \/ nested' = [nested EXCEPT ![c] = "link"] /\ temporary' = [temporary EXCEPT ![c] = <<local[w].inode, n>>]
              \/ nested' = [nested EXCEPT ![c] = "refused"]
          BY <3>2 DEF EndOfInput
        <4>2. <<local[w].inode, n>> # <<>>
          OBVIOUS
        <4> QED BY <1>0, <2>2, <4>1, <4>2 DEF ServiceTypes
      <3>3. ASSUME UploadBecomes(w, "expired") PROVE Sound
        BY <1>0, <2>2, <3>3 DEF UploadBecomes, ServiceTypes
      <3>4. length[local[w].inode] \in 0 .. length[local[w].inode]
        BY <2>2 DEF Typing, TypeOK, TreeTypes
      <3> HIDE DEF Sound
      <3> QED BY <1>4, <3>1, <3>2, <3>3, <3>4 DEF Send, ReadConfirmation, nestedVars, uploadVars
    <2>5. c \notin result.skipped
      BY <2>2 DEF Outcomes
    <2> HIDE DEF c
    <2> QED BY <1>0, <1>1, <1>2, <2>1, <2>3, <2>4, <2>5 DEF Outcomes
  <1>5. CASE Consume(w)
    <2>1. UNCHANGED <<nested, destination, temporary, late>> /\ wpc[w] = "unlink"
      BY <1>5 DEF Consume, nestedVars, uploadVars
    <2>2. late = {} => destination[job[w]] # <<>>
      BY <2>1 DEF Contents, ContentsOf
    <2>3. result'.completed \subseteq result.completed \cup {job[w]}
      BY <1>0, <1>5 DEF Consume, OutcomeTypes
    <2> QED BY <1>0, <1>1, <1>2, <2>1, <2>2, <2>3 DEF Outcomes
  <1> QED BY <1>3, <1>4, <1>5 DEF WorkerThread

\* Every step keeps the outcomes.
LEMMA NextOutcomes == Typing /\ Asking /\ Contents /\ Accounts /\ Outcomes /\ [Next]_vars => Outcomes'
  <1> SUFFICES ASSUME Typing, Asking, Contents, Accounts, Outcomes, [Next]_vars PROVE Outcomes'
    OBVIOUS
  <1>0. result.skipped \subseteq Path
    BY DEF Typing, TypeOK, OutcomeTypes
  <1>1. ASSUME UNCHANGED <<nested, destination, temporary, exec, reply, local, late>>,
               \A w \in Worker : Using(w)' => Using(w),
               result'.skipped = result.skipped, result'.completed = result.completed
        PROVE  Outcomes'
    BY <1>0, <1>1 DEF Outcomes, Asked, Line
  <1>2. CASE UNCHANGED vars \/ Producer \/ Stop
    BY <1>1, <1>2 DEF vars, Producer, Stop, nestedVars, uploadVars, workerVars, Using
  <1>3. CASE Quiet \/ InitialTimeout \/ ScanAgain \/ Admit
    BY <1>1, <1>3 DEF Quiet, InitialTimeout, ScanAgain, PassEnds, Admit, Main, nestedVars, uploadVars, workerVars, Using
  <1>4. CASE Respond
    <2>1. \A w \in Worker : ~Using(w)'
      BY <1>4 DEF Respond, Using
    <2> QED BY <1>1, <1>4, <2>1 DEF Respond, nestedVars, uploadVars
  <1>5. ASSUME NEW p \in Path, Scan(p) PROVE Outcomes'
    <2>1. result'.completed = result.completed /\ result'.skipped = result.skipped
      BY <1>5 DEF Scan, Typing, TypeOK, OutcomeTypes
    <2> QED BY <1>1, <1>5, <2>1 DEF Scan, Main, nestedVars, uploadVars, workerVars, Using
  <1> QED BY <1>2, <1>3, <1>4, <1>5, ScheduleOutcomes, ServiceOutcomes, WorkerOutcomes DEF Next, MainThread

\* Every file that was ever queued is, in the response, exactly one of completed,
\* failed and skipped; what is skipped is not stored, and what is completed is, unless
\* a worker has given up a wait.
THEOREM ResponseIsTrue == Spec => []ResponseAccounts
  <1> DEFINE Inv == /\ Typing /\ Asking /\ Prompt /\ Contents
                    /\ Scanning /\ Accounts /\ Quietness /\ Outcomes
  <1>1. Init => Inv
    BY InitTyping, InitAsking, InitPrompt, InitContents, InitScanning, InitAccounts, InitQuietness, InitOutcomes
  <1>2. Inv /\ [Next]_vars => Inv'
    BY NextTyping, NextAsking, NextPrompt, NextContents, NextScanning, NextAccounts, NextQuietness, NextOutcomes
  <1>3. Inv => ResponseAccounts
    <2> SUFFICES ASSUME Inv, phase = "responded" PROVE ResponseAccounts
      BY DEF ResponseAccounts
    <2>1. tasks = <<>> /\ \A w \in Worker : ~Holding(w)
      BY DEF Quietness, Holding
    <2>2. queued = Settled /\ \A w \in Worker : job[w] = Nobody
      BY <2>1 DEF Accounts, Settled, Waiting, Has, Typing, Queueing
    <2>3. \A p \in result.skipped : destination[p] = <<>>
      BY DEF Outcomes, Typing, TypeOK, OutcomeTypes
    <2> QED BY <2>2, <2>3 DEF ResponseAccounts, Settled, Accounts, Outcomes
  <1> QED BY <1>1, <1>2, <1>3, PTL DEF Spec
=============================================================================
