----------------------- MODULE ParallelSession_proofs -----------------------
(***************************************************************************)
(* Proofs about ParallelSession for every set of sessions, any number of   *)
(* requests, chunks and pruning periods.  The ordering theorems are about  *)
(* a server none of whose handlers is killed from outside (MaxKills = 0):  *)
(* with kills they are false.                                              *)
(***************************************************************************)
EXTENDS ParallelSession, SequenceTheorems, TLAPS

-----------------------------------------------------------------------------
(* The inductive invariant.                                                *)

\* Handlers that exist: the dispatcher forks before it counts.
Spawned == IF dpc = "pid" THEN dispatched + 1 ELSE dispatched

Counters == \A n \in Request : pc[n] # "none" <=> n <= Spawned

\* Only commands in exec are dispatched or waited for, and those have a session.
Owners ==
    /\ dispatched <= sent
    /\ dpc # "read" => dispatched < sent
    /\ \A n \in Request : n <= sent <=> sess[n] \in Session
    /\ \A n \in Request : client[n] # "none" => sess[n] \in Session

\* A process that outlives its handler's step: none does while none is killed.
Procs ==
    /\ \A n \in Request : exec[n] = "running" => pc[n] = "exec"
    /\ \A s \in Session, n \in Request :
          ResultWriter(n) \in pipe[s].wr => sess[n] = s /\ pc[n] \in {"record", "await"}

Markers ==
    \A n \in Request :
        /\ n \in done => pc[n] = "exited"
        /\ pc[n] \notin {"none", "exited"} => n \in dir

\* The predecessor links of a session skip only requests that are over.
Chain ==
    /\ \A n \in Request : pc[n] # "none" /\ prev[n] # 0 =>
          prev[n] < n /\ sess[prev[n]] = sess[n]
    /\ \A m, n \in Request : Earlier(m, n) /\ pc[n] # "none" =>
          m <= prev[n] \/ pc[m] = "exited"
    /\ \A s \in Session : latest[s] # 0 =>
          sess[latest[s]] = s /\ pc[latest[s]] # "none"
    /\ \A s \in Session, m \in Request : sess[m] = s /\ pc[m] # "none" =>
          m <= latest[s] \/ pc[m] = "exited"

Order == \A m, n \in Request : Earlier(m, n) /\ pc[n] \in Past => pc[m] = "exited"

IInv == TypeOK /\ Owners /\ Counters /\ Procs /\ Markers /\ Chain /\ Order

-----------------------------------------------------------------------------
(* What the pipe operations preserve.                                      *)

\* Every operation of a named pipe keeps its type.
LEMMA PipeOps ==
    ASSUME NEW Data, NEW W, NEW R, NEW p \in PipeType(Data, W, R)
    PROVE  /\ \A r \in R : OpenForRead(p, r) \in PipeType(Data, W, R)
           /\ \A w \in W : OpenForWrite(p, w) \in PipeType(Data, W, R)
           /\ \A x \in Data : Write(p, x) \in PipeType(Data, W, R)
           /\ p.buf # <<>> => Head(p.buf) \in Data /\ Consume(p) \in PipeType(Data, W, R)
           /\ \A q : Close(p, q) \in PipeType(Data, W, R)
  <1>1. ASSUME NEW r \in R PROVE OpenForRead(p, r) \in PipeType(Data, W, R)
    BY DEF OpenForRead, PipeType
  <1>2. ASSUME NEW w \in W PROVE OpenForWrite(p, w) \in PipeType(Data, W, R)
    BY DEF OpenForWrite, PipeType
  <1>3. ASSUME NEW x \in Data PROVE Write(p, x) \in PipeType(Data, W, R)
    <2>1. Append(p.buf, x) \in Seq(Data)
      BY AppendProperties DEF PipeType
    <2>2. QED BY <2>1 DEF Write, PipeType
  <1>4. ASSUME p.buf # <<>>
        PROVE  Head(p.buf) \in Data /\ Consume(p) \in PipeType(Data, W, R)
    <2>1. p.buf \in Seq(Data)
      BY DEF PipeType
    <2>2. Head(p.buf) \in Data /\ Tail(p.buf) \in Seq(Data)
      BY <1>4, <2>1, HeadTailProperties
    <2>3. QED BY <2>2 DEF Consume, PipeType
  <1>5. ASSUME NEW q PROVE Close(p, q) \in PipeType(Data, W, R)
    <2>1. <<>> \in Seq(Data)
      BY EmptySeq
    <2>2. QED BY <2>1 DEF Close, PipeType
  <1>6. QED BY <1>1, <1>2, <1>3, <1>4, <1>5

\* A pipe nobody has opened is well typed and has no writer.
LEMMA EmptyPipeType ==
    ASSUME NEW Data, NEW W, NEW R
    PROVE  EmptyPipe \in PipeType(Data, W, R) /\ EmptyPipe.wr = {}
  BY EmptySeq DEF EmptyPipe, PipeType

-----------------------------------------------------------------------------
(* Type correctness.                                                       *)

\* Storing a well-typed pipe for a request keeps the table of pipes typed.
LEMMA SetPipeType ==
    ASSUME TypeOK, NEW n \in Request, NEW p, SetPipe(n, p),
           sess[n] \in Session => p \in PipeType(Request, ResultWriters, Readers)
    PROVE  pipe' \in [Session -> PipeType(Request, ResultWriters, Readers)]
  BY DEF TypeOK, SetPipe

\* The pipe of a request that has a session is well typed.
LEMMA PipeOfRequest ==
    ASSUME TypeOK, NEW n \in Request, sess[n] \in Session
    PROVE  Pipe(n) \in PipeType(Request, ResultWriters, Readers)
  BY DEF TypeOK, Pipe

\* The processes of a request are writers and readers of pipes.
LEMMA ProcessTypes ==
    ASSUME NEW n \in Request
    PROVE  ResultWriter(n) \in ResultWriters /\ Drainer(n) \in Readers /\ Client(n) \in Readers
  BY DEF ResultWriters, Readers

\* The types hold initially.
LEMMA InitType == Init => TypeOK /\ Owners
  <1> SUFFICES ASSUME Init PROVE TypeOK /\ Owners
    OBVIOUS
  <1>1. EmptyPipe \in PipeType(Request, ResultWriters, Readers)
    BY EmptyPipeType
  <1>2. <<>> \in Seq(Request)
    BY EmptySeq
  <1>3. TypeOK
    BY <1>1, <1>2, ParallelAssumption DEF Init, TypeOK, HandlerState
  <1>4. Owners
    BY ParallelAssumption DEF Init, Owners, Request
  <1> QED BY <1>3, <1>4

\* The dispatcher's next request is one whose command is in exec.
LEMMA NextRequest ==
    ASSUME TypeOK, Owners, dispatched < sent
    PROVE  dispatched + 1 \in Request /\ sess[dispatched + 1] \in Session
  BY ParallelAssumption DEF TypeOK, Owners, Request

\* Every step keeps the types; one case per action.
LEMMA NextType == TypeOK /\ Owners /\ [Next]_vars => TypeOK' /\ Owners'
  <1> SUFFICES ASSUME TypeOK, Owners, [Next]_vars PROVE TypeOK' /\ Owners'
    OBVIOUS
  <1>1. ASSUME NEW s \in Session, NEW k \in KeepAlive, Send(s, k)
        PROVE  TypeOK' /\ Owners'
    <2>1. sent + 1 \in Request /\ sent' \in 0 .. MaxRequests /\ k \in BOOLEAN
      BY <1>1, ParallelAssumption DEF TypeOK, Send, Request
    <2>2. TypeOK'
      BY <1>1, <2>1 DEF TypeOK, Send, serverVars, fileVars
    <2>3. Owners'
      BY <1>1, <2>1, ParallelAssumption DEF TypeOK, Owners, Send, serverVars, Request
    <2> QED BY <2>2, <2>3
  <1>2. CASE Receive
    <2>1. latest' \in [Session -> 0 .. MaxRequests]
      <3>1. CASE PruneDue
        <4>1. latest' = [s \in Session |-> IF s \in Prunable THEN 0 ELSE latest[s]]
          BY <1>2, <3>1 DEF Receive, Prune
        <4>2. \A s \in Session : latest[s] \in 0 .. MaxRequests
          BY DEF TypeOK
        <4>3. 0 \in 0 .. MaxRequests
          BY ParallelAssumption
        <4> QED BY <4>1, <4>2, <4>3
      <3>2. CASE ~PruneDue
        BY <1>2, <3>2 DEF Receive, TypeOK
      <3> QED BY <3>1, <3>2
    <2>2. dir' \subseteq Request /\ done' \subseteq Request
          /\ handlerPid' \subseteq Request /\ ready' \subseteq Request
      BY <1>2 DEF Receive, Prune, RemoveStates, TypeOK, fileVars
    <2>3. made' \subseteq Session
      BY <1>2, NextRequest DEF Receive, TypeOK
    <2>4. TypeOK'
      BY <1>2, <2>1, <2>2, <2>3 DEF Receive, TypeOK, clientVars
    <2>5. Owners'
      BY <1>2 DEF Receive, Owners, clientVars
    <2> QED BY <2>4, <2>5
  <1>3. CASE Spawn
    <2>1. dispatched + 1 \in Request /\ sess[dispatched + 1] \in Session
      BY <1>3, NextRequest DEF Spawn, Owners
    <2>2. latest[sess[dispatched + 1]] \in 0 .. MaxRequests
          /\ dispatched + 1 \in 0 .. MaxRequests
      BY <2>1, ParallelAssumption DEF TypeOK, Request
    <2>4. TypeOK'
      BY <1>3, <2>1, <2>2 DEF Spawn, TypeOK, Goto, clientVars, HandlerState
    <2>3. Owners'
      BY <1>3 DEF Spawn, Owners, clientVars
    <2> QED BY <2>3, <2>4
  <1>4. CASE RecordHandler
    <2>0. dispatched' \in 0 .. MaxRequests /\ handlerPid' \subseteq Request
      BY <1>4, ParallelAssumption DEF RecordHandler, TypeOK, Owners
    <2>1. TypeOK'
      BY <1>4, <2>0 DEF RecordHandler, TypeOK, clientVars
    <2>2. Owners'
      BY <1>4, ParallelAssumption DEF RecordHandler, TypeOK, Owners, clientVars
    <2> QED BY <2>1, <2>2
  <1>5. ASSUME NEW n \in Request, Handler(n) PROVE TypeOK' /\ Owners'
    <2> USE DEF Goto, HandlerState
    <2>0. clientVars' = clientVars /\ serverVars' = serverVars => Owners'
      BY DEF Owners, clientVars, serverVars
    <2>1. CASE Enter(n)
      BY <1>5, <2>0, <2>1 DEF Enter, TypeOK, serverVars, fileVars, clientVars
    <2>2. CASE LeaveWait(n)
      BY <1>5, <2>0, <2>2 DEF LeaveWait, RemoveStates, TypeOK, serverVars, clientVars
    <2>3. CASE MarkDead(n)
      <3>1. done' \subseteq Request
        BY <2>3 DEF MarkDead, TypeOK
      <3> QED BY <2>0, <2>3, <3>1 DEF MarkDead, TypeOK, serverVars, clientVars
    <2>4. CASE StartDrain(n)
      <3>1. pipe' \in [Session -> PipeType(Request, ResultWriters, Readers)]
        BY <2>4, SetPipeType, PipeOfRequest, PipeOps, ProcessTypes DEF StartDrain
      <3> QED BY <2>0, <2>4, <3>1 DEF StartDrain, TypeOK, serverVars, fileVars, clientVars
    <2>5. CASE WriterGone(n)
      BY <2>0, <2>5 DEF WriterGone, TypeOK, serverVars, fileVars, clientVars
    <2>6. CASE KillWriter(n)
      <3>1. pipe' \in [Session -> PipeType(Request, ResultWriters, Readers)]
        BY <2>6, SetPipeType, PipeOfRequest, PipeOps DEF KillWriter
      <3> QED BY <2>0, <2>6, <3>1 DEF KillWriter, TypeOK, serverVars, fileVars, clientVars
    <2>7. CASE ReapDrain(n)
      BY <2>0, <2>7 DEF ReapDrain, TypeOK, serverVars, fileVars, clientVars
    <2>8. CASE Run(n)
      BY <2>0, <2>8 DEF Run, TypeOK, serverVars, fileVars, clientVars
    <2>9. CASE Publish(n)
      <3>1. pipe' \in [Session -> PipeType(Request, ResultWriters, Readers)]
        BY <2>9, SetPipeType, PipeOfRequest, PipeOps, ProcessTypes DEF Publish
      <3>2. left' \in [Request -> 0 .. Chunks]
        BY <2>9, ParallelAssumption DEF Publish, TypeOK
      <3> QED BY <2>0, <2>9, <3>1, <3>2 DEF Publish, TypeOK, serverVars, fileVars, clientVars
    <2>10. CASE RecordWriter(n)
      <3>1. ready' \subseteq Request
        BY <2>10 DEF RecordWriter, TypeOK
      <3> QED BY <2>0, <2>10, <3>1 DEF RecordWriter, TypeOK, serverVars, clientVars
    <2>11. CASE Exit(n)
      <3>1. done' \subseteq Request
        BY <2>11 DEF Exit, TypeOK
      <3> QED BY <2>0, <2>11, <3>1 DEF Exit, TypeOK, serverVars, clientVars
    <2> QED
      BY <1>5, <2>1, <2>2, <2>3, <2>4, <2>5, <2>6, <2>7, <2>8, <2>9, <2>10, <2>11
      DEF Handler
  <1>6. ASSUME NEW n \in Request, ExecutorEnd(n) \/ Drain(n) \/ Writer(n) \/ Kill(n)
        PROVE  TypeOK' /\ Owners'
    <2>0. clientVars' = clientVars /\ serverVars' = serverVars => Owners'
      BY DEF Owners, clientVars, serverVars
    <2>1. CASE ExecutorEnd(n)
      <3>1. pc' \in [Request -> HandlerState]
        BY <2>1 DEF ExecutorEnd, Goto, TypeOK, HandlerState
      <3> QED BY <2>0, <2>1, <3>1 DEF ExecutorEnd, TypeOK, serverVars, fileVars, clientVars
    <2>2. CASE DrainRead(n)
      <3>1. pipe' \in [Session -> PipeType(Request, ResultWriters, Readers)]
        BY <2>2, SetPipeType, PipeOfRequest, PipeOps DEF DrainRead, CanRead
      <3> QED BY <2>0, <2>2, <3>1 DEF DrainRead, TypeOK, serverVars, fileVars, clientVars
    <2>3. CASE DrainEnd(n)
      <3>1. pipe' \in [Session -> PipeType(Request, ResultWriters, Readers)]
        BY <2>3, SetPipeType, PipeOfRequest, PipeOps DEF DrainEnd
      <3> QED BY <2>0, <2>3, <3>1 DEF DrainEnd, TypeOK, serverVars, fileVars, clientVars
    <2>4. CASE WriteChunk(n)
      <3>1. pipe' \in [Session -> PipeType(Request, ResultWriters, Readers)]
        BY <2>4, SetPipeType, PipeOfRequest, PipeOps DEF WriteChunk
      <3>2. left' \in [Request -> 0 .. Chunks]
        BY <2>4, ParallelAssumption DEF WriteChunk, TypeOK
      <3> QED BY <2>0, <2>4, <3>1, <3>2 DEF WriteChunk, TypeOK, serverVars, fileVars, clientVars
    <2>5. CASE WriterExit(n)
      <3>1. pipe' \in [Session -> PipeType(Request, ResultWriters, Readers)]
        BY <2>5, SetPipeType, PipeOfRequest, PipeOps DEF WriterExit
      <3> QED BY <2>0, <2>5, <3>1 DEF WriterExit, TypeOK, serverVars, fileVars, clientVars
    <2>6. CASE Kill(n)
      <3>1. done' \subseteq Request
        BY <2>6 DEF Kill, TypeOK
      <3>2. pc' \in [Request -> HandlerState]
        BY <2>6 DEF Kill, Goto, TypeOK, HandlerState
      <3>3. kills' \in 0 .. MaxKills
        BY <2>6, ParallelAssumption DEF Kill, TypeOK
      <3> QED BY <2>0, <2>6, <3>1, <3>2, <3>3 DEF Kill, TypeOK, serverVars, clientVars
    <2> QED BY <1>6, <2>1, <2>2, <2>3, <2>4, <2>5, <2>6 DEF Drain, Writer
  <1>7. ASSUME NEW n \in Request, ClientStep(n) PROVE TypeOK' /\ Owners'
    <2>0. Owners'
      BY <1>7 DEF TypeOK, Owners, ClientStep, ClientOpen, ClientRead, ClientClose,
                  ClientLeave, serverVars
    <2>1. pipe' \in [Session -> PipeType(Request, ResultWriters, Readers)]
      <3>1. CASE ClientOpen(n)
        BY <3>1, SetPipeType, PipeOfRequest, PipeOps, ProcessTypes DEF ClientOpen
      <3>2. CASE ClientRead(n)
        BY <3>2, SetPipeType, PipeOfRequest, PipeOps DEF ClientRead, CanRead
      <3>3. CASE ClientClose(n) \/ ClientLeave(n)
        BY <3>3, SetPipeType, PipeOfRequest, PipeOps DEF ClientClose, ClientLeave
      <3> QED BY <1>7, <3>1, <3>2, <3>3 DEF ClientStep
    <2>2. got' \in [Request -> Seq(Request)]
      <3>1. CASE ClientRead(n)
        <4>1. Pipe(n) \in PipeType(Request, ResultWriters, Readers)
          BY <3>1, PipeOfRequest DEF ClientRead, Owners
        <4>2. Head(Pipe(n).buf) \in Request
          BY <3>1, <4>1, PipeOps DEF ClientRead, CanRead
        <4>3. Append(got[n], Head(Pipe(n).buf)) \in Seq(Request)
          BY <4>2, AppendProperties DEF TypeOK
        <4> QED BY <3>1, <4>3 DEF ClientRead, TypeOK
      <3>2. CASE ~ClientRead(n)
        BY <1>7, <3>2 DEF ClientStep, ClientOpen, ClientClose, ClientLeave, TypeOK
      <3> QED BY <3>1, <3>2
    <2>3. TypeOK'
      BY <1>7, <2>1, <2>2
      DEF TypeOK, ClientStep, ClientOpen, ClientRead, ClientClose, ClientLeave,
          serverVars, fileVars
    <2> QED BY <2>0, <2>3
  <1>8. CASE UNCHANGED vars
    BY <1>8 DEF vars, TypeOK, Owners, serverVars, fileVars, clientVars
  <1> QED BY <1>1, <1>2, <1>3, <1>4, <1>5, <1>6, <1>7, <1>8 DEF Next, Dispatcher

(***************************************************************************)
(* Every variable keeps its type, whatever the handlers, clients and       *)
(* killers do: in particular the dispatcher only ever numbers commands     *)
(* that are in exec and whose session has a FIFO.                          *)
(***************************************************************************)
THEOREM TypeCorrect == Spec => [](TypeOK /\ Owners)
  <1>1. Init => TypeOK /\ Owners
    BY InitType
  <1>2. (TypeOK /\ Owners) /\ [Next]_vars => (TypeOK /\ Owners)'
    BY NextType
  <1> QED BY <1>1, <1>2, PTL DEF Spec

-----------------------------------------------------------------------------
(* The order of a session.                                                 *)

\* A predecessor whose marker says done, or whose directory is gone, is over.
LEMMA ResolvedIsOver ==
    ASSUME IInv, NEW m \in Request, pc[m] # "none", Resolved(m)
    PROVE  pc[m] = "exited"
  BY DEF IInv, Markers, Resolved

\* A predecessor is a request the dispatcher has forked a handler for.
LEMMA Predecessor ==
    ASSUME IInv, NEW n \in Request, pc[n] # "none", prev[n] # 0
    PROVE  /\ prev[n] \in Request /\ prev[n] < n
           /\ sess[prev[n]] = sess[n] /\ pc[prev[n]] # "none"
  <1>1. prev[n] \in Request /\ prev[n] < n /\ sess[prev[n]] = sess[n]
    BY DEF IInv, Chain, TypeOK, Request
  <1>2. pc[prev[n]] # "none"
    BY <1>1, ParallelAssumption DEF IInv, Counters, TypeOK, Request, Spawned
  <1> QED BY <1>1, <1>2

\* A request with a handler was sent.
LEMMA HandlerIsSent ==
    ASSUME IInv, NEW n \in Request, pc[n] # "none"
    PROVE  n <= sent
  BY ParallelAssumption DEF IInv, Counters, Owners, Spawned, TypeOK, Request

\* When a waiting handler may go on, its whole session before it is over.
LEMMA TurnComes ==
    ASSUME IInv, NEW n \in Request, pc[n] \in Waiting,
           prev[n] = 0 \/ Resolved(prev[n])
    PROVE  \A m \in Request : Earlier(m, n) => pc[m] = "exited"
  <1> SUFFICES ASSUME NEW m \in Request, Earlier(m, n) PROVE pc[m] = "exited"
    OBVIOUS
  <1>0. pc[n] # "none" /\ (m <= prev[n] \/ pc[m] = "exited")
    BY DEF IInv, Chain, Waiting
  <1>1. CASE prev[n] = 0
    BY <1>0, <1>1 DEF Request
  <1>2. CASE prev[n] # 0
    <2>1. prev[n] \in Request /\ prev[n] < n /\ sess[prev[n]] = sess[n]
      BY <1>0, <1>2, Predecessor
    <2>2. pc[prev[n]] # "none"
      BY <1>0, <1>2, Predecessor
    <2>3. pc[prev[n]] = "exited"
      BY <1>2, <2>1, <2>2, ResolvedIsOver
    <2>4. CASE m < prev[n]
      BY <2>1, <2>3, <2>4 DEF IInv, Order, Earlier, SameSession, Past, HandlerState, Waiting
    <2>5. CASE m = prev[n]
      BY <2>3, <2>5
    <2> QED BY <1>0, <2>1, <2>4, <2>5 DEF Request
  <1> QED BY <1>1, <1>2

\* A handler that moves on keeps the counters and the chain of its session, and
\* the order too unless it passes the wait before its turn.
LEMMA MoveKeepsOrder ==
    ASSUME IInv, NEW n \in Request, NEW l \in HandlerState \ {"none"},
           pc[n] \notin {"none", "exited"},
           pc' = [pc EXCEPT ![n] = l],
           UNCHANGED <<sent, sess, dispatched, dpc, latest, prev>>,
           l \in Past => \/ pc[n] \in Past
                         \/ \A m \in Request : Earlier(m, n) => pc[m] = "exited"
    PROVE  Counters' /\ Chain' /\ Order'
  <1>0. /\ \A m \in Request : pc'[m] = IF m = n THEN l ELSE pc[m]
        /\ pc[n] # "none" /\ l # "none"
    BY DEF IInv, TypeOK
  <1>1. \A m \in Request : /\ pc[m] = "exited" => pc'[m] = "exited"
                           /\ pc[m] = "none" <=> pc'[m] = "none"
    BY <1>0
  <1>2. Counters'
    BY <1>1 DEF IInv, Counters, Spawned
  <1>3. Chain'
    <2>1. \A m \in Request : pc'[m] # "none" /\ prev'[m] # 0 =>
             prev'[m] < m /\ sess'[prev'[m]] = sess'[m]
      BY <1>1 DEF IInv, Chain
    <2>2. \A k, m \in Request : Earlier(k, m)' /\ pc'[m] # "none" =>
             k <= prev'[m] \/ pc'[k] = "exited"
      BY <1>1 DEF IInv, Chain, Earlier, SameSession
    <2>3. \A s \in Session : latest'[s] # 0 =>
             sess'[latest'[s]] = s /\ pc'[latest'[s]] # "none"
      <3> SUFFICES ASSUME NEW s \in Session, latest[s] # 0
                   PROVE  sess[latest[s]] = s /\ pc'[latest[s]] # "none"
        OBVIOUS
      <3>1. latest[s] \in Request
        BY ParallelAssumption DEF IInv, TypeOK, Request
      <3> QED BY <1>1, <3>1 DEF IInv, Chain
    <2>4. \A s \in Session, m \in Request : sess'[m] = s /\ pc'[m] # "none" =>
             m <= latest'[s] \/ pc'[m] = "exited"
      BY <1>1 DEF IInv, Chain
    <2> QED BY <2>1, <2>2, <2>3, <2>4 DEF Chain
  <1>4. Order'
    <2> SUFFICES ASSUME NEW k \in Request, NEW m \in Request, Earlier(k, m)', pc'[m] \in Past
                 PROVE  pc'[k] = "exited"
      BY DEF Order, Past, HandlerState, Waiting
    <2>1. Earlier(k, m)
      BY DEF Earlier, SameSession
    <2>2. pc[m] \in Past \/ \A j \in Request : Earlier(j, m) => pc[j] = "exited"
      BY <1>0
    <2> QED BY <1>1, <2>1, <2>2 DEF IInv, Order
  <1> QED BY <1>2, <1>3, <1>4

\* A step that moves no handler keeps what is said of handlers.
LEMMA QuietKeepsOrder ==
    ASSUME IInv, UNCHANGED <<sess, dispatched, dpc, latest, prev, pc, dir, done>>
    PROVE  Counters' /\ Markers' /\ Chain' /\ Order'
  BY DEF IInv, Counters, Spawned, Markers, Chain, Order, Earlier, SameSession

\* Storing a pipe with no new write end adds a write end to no pipe.
LEMMA WritersOnlyLeave ==
    ASSUME IInv, NEW n \in Request, NEW p, SetPipe(n, p),
           sess[n] \in Session => p.wr \subseteq Pipe(n).wr
    PROVE  \A s \in Session : pipe'[s].wr \subseteq pipe[s].wr
  <1> SUFFICES ASSUME NEW s \in Session PROVE pipe'[s].wr \subseteq pipe[s].wr
    OBVIOUS
  <1>1. CASE s = sess[n]
    BY <1>1 DEF SetPipe, IInv, TypeOK, Pipe
  <1>2. CASE s # sess[n]
    BY <1>2 DEF SetPipe, IInv, TypeOK
  <1> QED BY <1>1, <1>2

\* A step that moves no handler, starts no executor and opens no write end leaves
\* no process behind.
LEMMA ProcsKept ==
    ASSUME IInv, UNCHANGED <<sess, pc>>,
           \A n \in Request : exec'[n] = "running" => exec[n] = "running",
           \A s \in Session : pipe'[s].wr \subseteq pipe[s].wr
    PROVE  Procs'
  BY DEF IInv, Procs

\* The steps of processes that are not handlers, and of the clients.
LEMMA QuietSteps ==
    ASSUME IInv, NEW n \in Request, Drain(n) \/ Writer(n) \/ ClientStep(n)
    PROVE  Counters' /\ Procs' /\ Markers' /\ Chain' /\ Order'
  <1>1. UNCHANGED <<sess, dispatched, dpc, latest, prev, pc, dir, done, exec>>
    BY DEF Drain, Writer, ClientStep, DrainRead, DrainEnd, WriteChunk, WriterExit,
           ClientOpen, ClientRead, ClientClose, ClientLeave, serverVars, fileVars, clientVars
  <1>2. \A s \in Session : pipe'[s].wr \subseteq pipe[s].wr
    <2>1. PICK p : /\ SetPipe(n, p)
                   /\ p \in {Consume(Pipe(n)), Close(Pipe(n), Drainer(n)), Write(Pipe(n), n),
                             Close(Pipe(n), ResultWriter(n)), Close(Pipe(n), Client(n)),
                             OpenForRead(Pipe(n), Client(n))}
      BY DEF Drain, Writer, ClientStep, DrainRead, DrainEnd, WriteChunk, WriterExit,
             ClientOpen, ClientRead, ClientClose, ClientLeave
    <2>2. ASSUME sess[n] \in Session PROVE p.wr \subseteq Pipe(n).wr
      <3>1. Pipe(n) \in PipeType(Request, ResultWriters, Readers)
        BY <2>2, PipeOfRequest DEF IInv
      <3>2. /\ Consume(Pipe(n)).wr = Pipe(n).wr
            /\ Write(Pipe(n), n).wr = Pipe(n).wr
            /\ OpenForRead(Pipe(n), Client(n)).wr = Pipe(n).wr
            /\ \A q : Close(Pipe(n), q).wr = Pipe(n).wr \ {q}
        BY <3>1 DEF PipeType, OpenForRead, Write, Consume, Close
      <3> QED BY <2>1, <3>2
    <2> QED BY <2>1, <2>2, WritersOnlyLeave
  <1> QED BY <1>1, <1>2, QuietKeepsOrder, ProcsKept

\* The steps of a handler that is waiting for its predecessor.
LEMMA WaitSteps ==
    ASSUME IInv, NEW n \in Request,
           \/ Enter(n) \/ LeaveWait(n) \/ MarkDead(n) \/ StartDrain(n)
           \/ WriterGone(n) \/ KillWriter(n) \/ ReapDrain(n)
    PROVE  Counters' /\ Procs' /\ Markers' /\ Chain' /\ Order'
  <1>0. UNCHANGED <<sent, sess, dispatched, dpc, latest, prev, exec>>
    BY DEF Enter, LeaveWait, MarkDead, StartDrain, WriterGone, KillWriter, ReapDrain,
           serverVars, clientVars
  <1>1. CASE Enter(n)
    <2>1. PICK l \in {"run", "wait"} :
             /\ pc' = [pc EXCEPT ![n] = l]
             /\ l = "run" => prev[n] = 0 \/ Resolved(prev[n])
      BY <1>1 DEF Enter, Goto, Resolved
    <2>2. pc[n] = "entry" /\ UNCHANGED <<dir, done, exec, pipe>>
      BY <1>1 DEF Enter, fileVars
    <2>3. Counters' /\ Chain' /\ Order'
      BY <1>0, <2>1, <2>2, TurnComes, MoveKeepsOrder DEF HandlerState, Waiting, Past
    <2>4. Procs' /\ Markers'
      BY <1>0, <2>1, <2>2 DEF IInv, TypeOK, Procs, Markers
    <2> QED BY <2>3, <2>4
  <1>2. CASE LeaveWait(n)
    <2>1. /\ pc[n] = "wait" /\ Resolved(prev[n])
          /\ pc' = [pc EXCEPT ![n] = "run"]
          /\ UNCHANGED <<exec, pipe>>
          /\ dir' = dir \ {prev[n]} /\ done' = done \ {prev[n]}
      BY <1>2 DEF LeaveWait, Goto, RemoveStates
    <2>2. Counters' /\ Chain' /\ Order'
      <3>1. \A m \in Request : Earlier(m, n) => pc[m] = "exited"
        BY <2>1, TurnComes DEF Waiting
      <3> QED BY <1>0, <2>1, <3>1, MoveKeepsOrder DEF HandlerState, Waiting, Past
    <2>3. prev[n] \in Request => pc[prev[n]] = "exited"
      <3>1. prev[n] \in Request => pc[prev[n]] # "none"
        BY <2>1, Predecessor DEF Request
      <3> QED BY <2>1, <3>1, ResolvedIsOver
    <2>4. Procs'
      BY <1>0, <2>1 DEF IInv, TypeOK, Procs
    <2>5. Markers'
      <3> SUFFICES ASSUME NEW m \in Request
                   PROVE  /\ m \in done' => pc'[m] = "exited"
                          /\ pc'[m] \notin {"none", "exited"} => m \in dir'
        BY DEF Markers
      <3>1. /\ m \in done => pc[m] = "exited"
            /\ pc[m] \notin {"none", "exited"} => m \in dir
        BY DEF IInv, Markers
      <3>2. CASE m = n
        BY <2>1, <2>3, <3>1, <3>2 DEF IInv, TypeOK
      <3>3. CASE m # n
        BY <2>1, <2>3, <3>1, <3>3 DEF IInv, TypeOK
      <3> QED BY <3>2, <3>3
    <2> QED BY <2>2, <2>4, <2>5
  <1>3. CASE MarkDead(n)
    <2>1. /\ pc[n] = "wait" /\ pc[prev[n]] = "exited"
          /\ done' = done \cup {prev[n]}
          /\ UNCHANGED <<dir, exec, pipe, pc>>
      BY <1>3 DEF MarkDead, HandlerDead
    <2>2. Counters' /\ Chain' /\ Order'
      BY <1>0, <2>1 DEF IInv, Counters, Spawned, Chain, Order, Earlier, SameSession
    <2>3. Procs' /\ Markers'
      BY <1>0, <2>1 DEF IInv, Procs, Markers
    <2> QED BY <2>2, <2>3
  <1>4. CASE StartDrain(n) \/ WriterGone(n) \/ KillWriter(n) \/ ReapDrain(n)
    <2>1. PICK l \in {"drain", "reap", "wait"} : pc' = [pc EXCEPT ![n] = l]
      BY <1>4 DEF StartDrain, WriterGone, KillWriter, ReapDrain, Goto
    <2>2. pc[n] \in {"wait", "drain", "reap"} /\ UNCHANGED <<dir, done>>
      BY <1>4 DEF StartDrain, WriterGone, KillWriter, ReapDrain, fileVars
    <2>3. Counters' /\ Chain' /\ Order'
      BY <1>0, <2>1, <2>2, MoveKeepsOrder DEF HandlerState, Waiting, Past
    <2>4. \A s \in Session : pipe'[s].wr \subseteq pipe[s].wr
      <3>1. CASE UNCHANGED pipe
        BY <3>1
      <3>2. CASE StartDrain(n) \/ KillWriter(n)
        <4>1. PICK p : /\ SetPipe(n, p)
                       /\ p \in {OpenForRead(Pipe(n), Drainer(n)),
                                 Close(Pipe(n), ResultWriter(prev[n]))}
          BY <3>2 DEF StartDrain, KillWriter
        <4>2. ASSUME sess[n] \in Session PROVE p.wr \subseteq Pipe(n).wr
          <5>1. Pipe(n) \in PipeType(Request, ResultWriters, Readers)
            BY <4>2, PipeOfRequest DEF IInv
          <5>2. /\ OpenForRead(Pipe(n), Drainer(n)).wr = Pipe(n).wr
                /\ \A q : Close(Pipe(n), q).wr = Pipe(n).wr \ {q}
            BY <5>1 DEF PipeType, OpenForRead, Close
          <5> QED BY <4>1, <5>2
        <4> QED BY <4>1, <4>2, WritersOnlyLeave
      <3> QED BY <1>4, <3>1, <3>2 DEF WriterGone, ReapDrain
    <2>5. Procs'
      <3>1. \A m \in Request : m # n => pc'[m] = pc[m]
        BY <2>1 DEF IInv, TypeOK
      <3>2. \A m \in Request : exec'[m] = "running" => pc'[m] = "exec"
        BY <1>0, <2>2, <3>1 DEF IInv, Procs
      <3>3. ASSUME NEW s \in Session, NEW m \in Request, ResultWriter(m) \in pipe'[s].wr
            PROVE  sess'[m] = s /\ pc'[m] \in {"record", "await"}
        <4>1. sess[m] = s /\ pc[m] \in {"record", "await"}
          BY <2>4, <3>3 DEF IInv, Procs
        <4> QED BY <1>0, <2>2, <3>1, <4>1
      <3> QED BY <3>2, <3>3 DEF Procs
    <2>6. Markers'
      BY <2>1, <2>2 DEF IInv, TypeOK, Markers
    <2> QED BY <2>3, <2>5, <2>6
  <1> QED BY <1>1, <1>2, <1>3, <1>4

\* The steps of a handler past the wait, and the end of its executor.
LEMMA ActiveSteps ==
    ASSUME IInv, NEW n \in Request,
           Run(n) \/ ExecutorEnd(n) \/ Publish(n) \/ RecordWriter(n) \/ Exit(n)
    PROVE  Counters' /\ Procs' /\ Markers' /\ Chain' /\ Order'
  <1>0. UNCHANGED <<sent, sess, dispatched, dpc, latest, prev, dir>>
    BY DEF Run, ExecutorEnd, Publish, RecordWriter, Exit, serverVars, fileVars, clientVars
  <1>1. \A m \in Request : exec[m] = "running" => pc[m] = "exec"
    BY DEF IInv, Procs
  <1>2. PICK l \in Past : pc' = [pc EXCEPT ![n] = l]
    BY <1>1 DEF Run, ExecutorEnd, Publish, RecordWriter, Exit, Goto, Past, HandlerState, Waiting
  <1>3. pc[n] \in {"run", "exec", "publish", "record", "await"}
    BY <1>1 DEF Run, ExecutorEnd, Publish, RecordWriter, Exit
  <1>4. pc'[n] = l /\ \A m \in Request : m # n => pc'[m] = pc[m]
    BY <1>2 DEF IInv, TypeOK
  <1>5. Counters' /\ Chain' /\ Order'
    BY <1>0, <1>2, <1>3, MoveKeepsOrder DEF HandlerState, Waiting, Past
  <1>6. Markers'
    <2>1. l = "exited" => Exit(n)
      BY <1>1, <1>4 DEF Run, ExecutorEnd, Publish, RecordWriter, Exit, Goto, IInv, TypeOK
    <2>2. done' \subseteq done \cup {n} /\ (done' # done => Exit(n))
      BY DEF Run, ExecutorEnd, Publish, RecordWriter, Exit, fileVars
    <2>3. Exit(n) => l = "exited"
      BY <1>4 DEF Exit, Goto, IInv, TypeOK
    <2> QED BY <1>0, <1>3, <1>4, <2>1, <2>2, <2>3 DEF IInv, Markers
  <1>7. Procs'
    <2>1. ASSUME NEW m \in Request, exec'[m] = "running" PROVE pc'[m] = "exec"
      <3>1. CASE m = n
        BY <1>1, <1>4, <2>1, <3>1
        DEF Run, ExecutorEnd, Publish, RecordWriter, Exit, Goto, IInv, TypeOK
      <3>2. CASE m # n
        <4>1. exec'[m] = exec[m]
          BY <3>2 DEF Run, ExecutorEnd, Publish, RecordWriter, Exit, IInv, TypeOK
        <4> QED BY <1>1, <1>4, <2>1, <3>2, <4>1
      <3> QED BY <3>1, <3>2
    <2>2. ASSUME NEW s \in Session, NEW m \in Request, ResultWriter(m) \in pipe'[s].wr
          PROVE  sess[m] = s /\ pc'[m] \in {"record", "await"}
      <3>1. CASE Publish(n) /\ s = sess[n]
        <4>1. pipe[s] \in PipeType(Request, ResultWriters, Readers)
          BY DEF IInv, TypeOK
        <4>2. pipe'[s] = OpenForWrite(pipe[s], ResultWriter(n))
          BY <3>1 DEF Publish, SetPipe, Pipe, IInv, TypeOK
        <4>3. pipe'[s].wr = pipe[s].wr \cup {ResultWriter(n)}
          BY <4>1, <4>2 DEF PipeType, OpenForWrite
        <4>4. CASE ResultWriter(m) \in pipe[s].wr
          <5>1. sess[m] = s /\ pc[m] \in {"record", "await"}
            BY <4>4 DEF IInv, Procs
          <5> QED BY <1>4, <3>1, <5>1 DEF Publish
        <4>5. CASE ResultWriter(m) = ResultWriter(n)
          <5>1. m = n
            BY <4>5 DEF ResultWriter
          <5>2. pc'[n] = "record"
            BY <3>1 DEF Publish, Goto, IInv, TypeOK
          <5> QED BY <3>1, <5>1, <5>2
        <4> QED BY <2>2, <4>3, <4>4, <4>5
      <3>2. CASE ~(Publish(n) /\ s = sess[n])
        <4>1. pipe'[s] = pipe[s]
          BY <3>2 DEF Run, ExecutorEnd, Publish, RecordWriter, Exit, SetPipe, IInv, TypeOK
        <4>2. sess[m] = s /\ pc[m] \in {"record", "await"}
          BY <2>2, <4>1 DEF IInv, Procs
        <4>3. CASE m = n
          <5>1. WriterAlive(n)
            BY <2>2, <4>1, <4>2, <4>3 DEF WriterAlive, Pipe
          <5> QED BY <1>1, <4>2, <4>3, <5>1
                  DEF Run, ExecutorEnd, Publish, RecordWriter, Exit, Goto, IInv, TypeOK
        <4>4. CASE m # n
          BY <1>4, <4>2, <4>4
        <4> QED BY <4>3, <4>4
      <3> QED BY <3>1, <3>2
    <2> QED BY <1>0, <2>1, <2>2 DEF Procs
  <1> QED BY <1>5, <1>6, <1>7

\* A new command belongs to no handler yet.
LEMMA SendStep ==
    ASSUME IInv, NEW t \in Session, NEW k \in KeepAlive, Send(t, k)
    PROVE  Counters' /\ Procs' /\ Markers' /\ Chain' /\ Order'
  <1>1. UNCHANGED <<dispatched, dpc, latest, prev, pc, dir, done, exec, pipe>>
    BY DEF Send, serverVars, fileVars
  <1>2. sent \in Nat /\ \A m \in Request : m # sent + 1 => sess'[m] = sess[m]
    BY DEF Send, IInv, TypeOK
  <1>3. \A m \in Request : pc[m] # "none" => m <= sent
    BY ParallelAssumption DEF IInv, Counters, Owners, Spawned, TypeOK, Request
  <1>4. \A m \in Request : m <= sent => sess'[m] = sess[m]
    BY <1>2 DEF Request
  <1>5. \A m, n \in Request : Earlier(m, n)' /\ pc[n] # "none" => Earlier(m, n)
    BY <1>2, <1>3, <1>4 DEF Earlier, SameSession, Request
  <1>6. Counters' /\ Markers'
    BY <1>1 DEF IInv, Counters, Spawned, Markers
  <1>7. Procs'
    BY <1>1, <1>3, <1>4 DEF IInv, Procs
  <1>8. Order'
    BY <1>1, <1>5 DEF IInv, Order, Past
  <1>9. Chain'
    <2>1. \A n \in Request : pc[n] # "none" /\ prev[n] # 0 =>
             prev[n] < n /\ sess'[prev[n]] = sess'[n]
      BY <1>3, <1>4, Predecessor
    <2>2. \A m, n \in Request : Earlier(m, n)' /\ pc[n] # "none" =>
             m <= prev[n] \/ pc[m] = "exited"
      BY <1>5 DEF IInv, Chain
    <2>3. \A s \in Session : latest[s] # 0 =>
             sess'[latest[s]] = s /\ pc[latest[s]] # "none"
      <3> SUFFICES ASSUME NEW s \in Session, latest[s] # 0
                   PROVE  sess'[latest[s]] = s /\ pc[latest[s]] # "none"
        OBVIOUS
      <3>1. latest[s] \in Request
        BY ParallelAssumption DEF IInv, TypeOK, Request
      <3> QED BY <1>3, <1>4, <3>1 DEF IInv, Chain
    <2>4. \A s \in Session, m \in Request : sess'[m] = s /\ pc[m] # "none" =>
             m <= latest[s] \/ pc[m] = "exited"
      BY <1>3, <1>4 DEF IInv, Chain
    <2> QED BY <1>1, <2>1, <2>2, <2>3, <2>4 DEF Chain
  <1> QED BY <1>6, <1>7, <1>8, <1>9

\* Pruning forgets a session only when all of its requests are over.
LEMMA ReceiveStep ==
    ASSUME IInv, Receive
    PROVE  Counters' /\ Procs' /\ Markers' /\ Chain' /\ Order'
  <1>1. /\ UNCHANGED <<sess, dispatched, prev, pc, exec, pipe>>
        /\ dpc = "read" /\ dpc' = "spawn"
    BY DEF Receive, clientVars
  <1>2. Counters' /\ Procs' /\ Order'
    BY <1>1 DEF IInv, Counters, Spawned, Procs, Order, Earlier, SameSession
  <1>3. ASSUME NEW s \in Session, latest[s] # 0
        PROVE  latest[s] \in Request /\ sess[latest[s]] = s /\ pc[latest[s]] # "none"
    <2>1. latest[s] \in Request
      BY <1>3, ParallelAssumption DEF IInv, TypeOK, Request
    <2> QED BY <1>3, <2>1 DEF IInv, Chain
  <1>4. ASSUME NEW s \in Prunable PROVE pc[latest[s]] = "exited"
    BY <1>3, ResolvedIsOver DEF Prunable
  <1>5. CASE ~PruneDue
    <2>1. UNCHANGED <<dir, done, latest>>
      BY <1>5 DEF Receive, fileVars
    <2> QED BY <1>1, <1>2, <2>1 DEF IInv, Markers, Chain, Earlier, SameSession
  <1>6. CASE PruneDue
    <2>1. /\ dir' = dir \ {latest[s] : s \in Prunable}
          /\ done' = done \ {latest[s] : s \in Prunable}
          /\ latest' = [s \in Session |-> IF s \in Prunable THEN 0 ELSE latest[s]]
      BY <1>6 DEF Receive, Prune, RemoveStates
    <2>2. Markers'
      BY <1>1, <1>4, <2>1 DEF IInv, Markers
    <2>3. ASSUME NEW s \in Session, NEW m \in Request, sess[m] = s, pc[m] # "none"
          PROVE  m <= latest'[s] \/ pc[m] = "exited"
      <3>1. m <= latest[s] \/ pc[m] = "exited"
        BY <2>3 DEF IInv, Chain
      <3>2. CASE s \in Prunable /\ m < latest[s]
        <4>1. latest[s] \in Request /\ sess[latest[s]] = s /\ pc[latest[s]] = "exited"
          BY <1>3, <1>4, <3>2 DEF Prunable
        <4> QED BY <2>3, <3>2, <4>1
                DEF IInv, Order, Earlier, SameSession, Past, HandlerState, Waiting
      <3>3. CASE s \in Prunable /\ m = latest[s]
        BY <1>4, <3>3
      <3>4. CASE s \notin Prunable
        BY <2>1, <3>1, <3>4
      <3> QED BY <3>1, <3>2, <3>3, <3>4 DEF IInv, TypeOK, Request
    <2>4. Chain'
      <3>1. \A s \in Session : latest'[s] # 0 => latest'[s] = latest[s]
        BY <2>1
      <3> QED BY <1>1, <2>3, <3>1 DEF IInv, Chain, Earlier, SameSession
    <2> QED BY <1>2, <2>2, <2>4
  <1> QED BY <1>5, <1>6

\* A new handler is the last of its session and waits for the latest before it.
LEMMA SpawnStep ==
    ASSUME IInv, Spawn
    PROVE  Counters' /\ Procs' /\ Markers' /\ Chain' /\ Order'
  <1> DEFINE n == dispatched + 1
  <1>1. n \in Request /\ sess[n] \in Session
    BY NextRequest DEF Spawn, IInv, Owners
  <1>2. /\ UNCHANGED <<sess, dispatched, done, exec, pipe>>
        /\ dpc = "spawn" /\ dpc' = "pid" /\ dir' = dir \cup {n}
    BY DEF Spawn, clientVars
  <1>3. pc'[n] = "entry" /\ \A m \in Request : m # n => pc'[m] = pc[m]
    BY <1>1 DEF Spawn, Goto, IInv, TypeOK
  <1>4. prev'[n] = latest[sess[n]] /\ \A m \in Request : m # n => prev'[m] = prev[m]
    BY <1>1 DEF Spawn, IInv, TypeOK
  <1>5. latest'[sess[n]] = n /\ \A s \in Session : s # sess[n] => latest'[s] = latest[s]
    BY <1>1 DEF Spawn, IInv, TypeOK
  <1>6. \A m \in Request : pc[m] # "none" <=> m < n
    BY <1>2 DEF IInv, TypeOK, Counters, Spawned, Request
  <1>7. Counters'
    BY <1>1, <1>2, <1>3, <1>6 DEF Counters, Spawned, IInv, TypeOK, Request
  <1>8. Procs'
    BY <1>1, <1>2, <1>3, <1>6 DEF IInv, Procs, Request
  <1>9. Markers'
    BY <1>1, <1>2, <1>3, <1>6 DEF IInv, Markers, Request
  <1>10. Order'
    BY <1>1, <1>2, <1>3, <1>6
    DEF IInv, Order, Earlier, SameSession, Past, Waiting, HandlerState, Request
  <1>11. Chain'
    <2>1. ASSUME NEW k \in Request, pc'[k] # "none", prev'[k] # 0
          PROVE  prev'[k] < k /\ sess'[prev'[k]] = sess'[k]
      <3>1. CASE k = n
        <4>1. latest[sess[n]] \in Request
          BY <1>1, <1>4, <2>1, <3>1, ParallelAssumption DEF IInv, TypeOK, Request
        <4> QED BY <1>1, <1>2, <1>4, <1>6, <2>1, <3>1, <4>1 DEF IInv, Chain
      <3>2. CASE k # n
        BY <1>2, <1>3, <1>4, <2>1, <3>2, Predecessor
      <3> QED BY <3>1, <3>2
    <2>2. ASSUME NEW m \in Request, NEW k \in Request, Earlier(m, k), pc'[k] # "none"
          PROVE  m <= prev'[k] \/ pc'[m] = "exited"
      <3>1. m < n /\ pc[m] # "none" /\ pc'[m] = pc[m]
        BY <1>1, <1>3, <1>6, <2>2 DEF Earlier, Request
      <3>2. CASE k = n
        BY <1>1, <1>4, <2>2, <3>1, <3>2 DEF IInv, Chain, Earlier, SameSession
      <3>3. CASE k # n
        BY <1>3, <1>4, <2>2, <3>1, <3>3 DEF IInv, Chain
      <3> QED BY <3>2, <3>3
    <2>3. ASSUME NEW s \in Session, latest'[s] # 0
          PROVE  sess'[latest'[s]] = s /\ pc'[latest'[s]] # "none"
      <3>1. CASE s = sess[n]
        BY <1>2, <1>3, <1>5, <3>1
      <3>2. CASE s # sess[n]
        <4>1. latest[s] \in Request
          BY <1>5, <2>3, <3>2, ParallelAssumption DEF IInv, TypeOK, Request
        <4> QED BY <1>2, <1>3, <1>5, <2>3, <3>2, <4>1 DEF IInv, Chain
      <3> QED BY <3>1, <3>2
    <2>4. ASSUME NEW s \in Session, NEW m \in Request, sess'[m] = s, pc'[m] # "none"
          PROVE  m <= latest'[s] \/ pc'[m] = "exited"
      <3>1. CASE s = sess[n]
        BY <1>1, <1>3, <1>5, <1>6, <2>4, <3>1 DEF Request
      <3>2. CASE s # sess[n]
        BY <1>2, <1>3, <1>5, <2>4, <3>2 DEF IInv, Chain
      <3> QED BY <3>1, <3>2
    <2> QED BY <1>2, <2>1, <2>2, <2>3, <2>4 DEF Chain, Earlier, SameSession
  <1> QED BY <1>7, <1>8, <1>9, <1>10, <1>11

\* The count catches up with the handler already forked.
LEMMA RecordStep ==
    ASSUME IInv, RecordHandler
    PROVE  Counters' /\ Procs' /\ Markers' /\ Chain' /\ Order'
  <1>1. UNCHANGED <<sess, latest, prev, pc, dir, done, exec, pipe>>
    BY DEF RecordHandler, clientVars
  <1>2. Spawned' = Spawned
    BY DEF RecordHandler, Spawned
  <1> QED BY <1>1, <1>2 DEF IInv, Counters, Procs, Markers, Chain, Order, Earlier, SameSession

\* The invariant holds initially.
LEMMA InitIInv == Init => IInv
  <1> SUFFICES ASSUME Init PROVE IInv
    OBVIOUS
  <1>1. TypeOK /\ Owners
    BY InitType
  <1>2. Counters
    BY DEF Init, Counters, Spawned, Request
  <1>3. Procs
    <2>1. \A s \in Session : pipe[s].wr = {}
      BY DEF Init, EmptyPipe
    <2> QED BY <2>1 DEF Init, Procs
  <1>4. Markers /\ Chain /\ Order
    BY DEF Init, Markers, Chain, Order, Past
  <1> QED BY <1>1, <1>2, <1>3, <1>4 DEF IInv

\* While no handler is killed every step keeps the invariant.
LEMMA NextIInv ==
    ASSUME MaxKills = 0, IInv, [Next]_vars
    PROVE  IInv'
  <1>1. TypeOK' /\ Owners'
    BY NextType DEF IInv
  <1>2. ~\E n \in Request : Kill(n)
    BY DEF Kill, IInv, TypeOK
  <1>3. CASE UNCHANGED vars
    <2>1. UNCHANGED <<sess, dispatched, dpc, latest, prev, pc, dir, done, exec, pipe>>
      BY <1>3 DEF vars, serverVars, fileVars, clientVars
    <2>2. Procs'
      BY <2>1 DEF IInv, Procs
    <2> QED BY <1>1, <2>1, <2>2, QuietKeepsOrder DEF IInv
  <1>4. ASSUME NEW t \in Session, NEW k \in KeepAlive, Send(t, k) PROVE IInv'
    BY <1>1, <1>4, SendStep DEF IInv
  <1>5. CASE Dispatcher
    BY <1>1, <1>5, ReceiveStep, SpawnStep, RecordStep DEF Dispatcher, IInv
  <1>6. ASSUME NEW n \in Request,
               Handler(n) \/ ExecutorEnd(n) \/ Drain(n) \/ Writer(n) \/ ClientStep(n)
        PROVE  IInv'
    BY <1>1, <1>6, WaitSteps, ActiveSteps, QuietSteps DEF Handler, IInv
  <1> QED BY <1>1, <1>2, <1>3, <1>4, <1>5, <1>6 DEF Next, IInv

(***************************************************************************)
(* While no handler is killed, every request before n in n's session has   *)
(* exited once n is past its wait, however many were pruned in between,    *)
(* and has left neither an executor nor a result writer behind.            *)
(***************************************************************************)
THEOREM SuccessorsWait ==
    ASSUME MaxKills = 0
    PROVE  Spec => []SuccessorWaits
  <1>1. Init => IInv
    BY InitIInv
  <1>2. IInv /\ [Next]_vars => IInv'
    BY NextIInv
  <1>3. IInv => SuccessorWaits
    <2> SUFFICES ASSUME IInv, NEW m \in Request, NEW n \in Request,
                        Earlier(m, n), pc[n] \in Past
                 PROVE  Settled(m)
      BY DEF SuccessorWaits
    <2>1. pc[m] = "exited"
      BY DEF IInv, Order
    <2>2. exec[m] # "running" /\ ~WriterAlive(m)
      BY <2>1 DEF IInv, Procs, WriterAlive, Pipe
    <2> QED BY <2>1, <2>2 DEF Settled
  <1> QED BY <1>1, <1>2, <1>3, PTL DEF Spec

(***************************************************************************)
(* While no handler is killed, two executors of one session never run at   *)
(* the same time. (With a kill they do.)                                   *)
(***************************************************************************)
THEOREM NoOverlapWithoutKills ==
    ASSUME MaxKills = 0
    PROVE  Spec => []ExecutorsNeverOverlap
  <1>1. Init => IInv
    BY InitIInv
  <1>2. IInv /\ [Next]_vars => IInv'
    BY NextIInv
  <1>3. IInv => ExecutorsNeverOverlap
    <2> SUFFICES ASSUME IInv, NEW m \in Request, NEW n \in Request,
                        Earlier(m, n), exec[m] = "running", exec[n] = "running"
                 PROVE  FALSE
      BY DEF ExecutorsNeverOverlap
    <2>1. pc[m] = "exec" /\ pc[n] = "exec"
      BY DEF IInv, Procs
    <2> QED BY <2>1 DEF IInv, Order, Past, HandlerState, Waiting
  <1> QED BY <1>1, <1>2, <1>3, PTL DEF Spec

-----------------------------------------------------------------------------
(* What a drain may discard.                                               *)

\* The cat of a handler lives only while the handler waits for it.
Drains ==
    \A s \in Session, n \in Request :
        Drainer(n) \in pipe[s].rd => sess[n] = s /\ pc[n] \in {"drain", "reap"}

\* A FIFO holds only what handlers of its own session have published.
Published(m) == pc[m] \in {"record", "await", "exited"}
Contents ==
    \A s \in Session : \A i \in DOMAIN pipe[s].buf :
        /\ pipe[s].buf[i] \in Request
        /\ sess[pipe[s].buf[i]] = s /\ Published(pipe[s].buf[i])

\* No operation but Write puts a chunk into a pipe.
LEMMA PipeBuffers ==
    ASSUME NEW Data, NEW W, NEW R, NEW p \in PipeType(Data, W, R), NEW q
    PROVE  /\ OpenForRead(p, q).buf = p.buf /\ OpenForWrite(p, q).buf = p.buf
           /\ p.buf # <<>> =>
                 \A i \in DOMAIN Consume(p).buf :
                    i + 1 \in DOMAIN p.buf /\ Consume(p).buf[i] = p.buf[i + 1]
           /\ \A i \in DOMAIN Close(p, q).buf :
                    i \in DOMAIN p.buf /\ Close(p, q).buf[i] = p.buf[i]
           /\ \A i \in DOMAIN Write(p, q).buf :
                    (i \in DOMAIN p.buf /\ Write(p, q).buf[i] = p.buf[i]) \/ Write(p, q).buf[i] = q
  <1>1. p.buf \in Seq(Data)
    BY DEF PipeType
  <1>2. OpenForRead(p, q).buf = p.buf /\ OpenForWrite(p, q).buf = p.buf
    BY DEF PipeType, OpenForRead, OpenForWrite
  <1>3. ASSUME p.buf # <<>>, NEW i \in DOMAIN Consume(p).buf
        PROVE  i + 1 \in DOMAIN p.buf /\ Consume(p).buf[i] = p.buf[i + 1]
    <2>1. Consume(p).buf = Tail(p.buf)
      BY DEF PipeType, Consume
    <2> QED BY <1>1, <1>3, <2>1
  <1>4. ASSUME NEW i \in DOMAIN Close(p, q).buf
        PROVE  i \in DOMAIN p.buf /\ Close(p, q).buf[i] = p.buf[i]
    <2>1. Close(p, q).buf = <<>> \/ Close(p, q).buf = p.buf
      BY DEF Close
    <2> QED BY <1>4, <2>1
  <1>5. ASSUME NEW i \in DOMAIN Write(p, q).buf
        PROVE  (i \in DOMAIN p.buf /\ Write(p, q).buf[i] = p.buf[i]) \/ Write(p, q).buf[i] = q
    <2>1. Write(p, q).buf = Append(p.buf, q)
      BY DEF PipeType, Write
    <2> QED BY <1>1, <1>5, <2>1
  <1> QED BY <1>2, <1>3, <1>4, <1>5

\* What a step may do to the FIFO of a session.
LEMMA PipeSteps ==
    ASSUME IInv, [Next]_vars, NEW s \in Session
    PROVE  \/ pipe'[s] = pipe[s]
           \/ \E q : pipe'[s] = Close(pipe[s], q)
           \/ pipe[s].buf # <<>> /\ pipe'[s] = Consume(pipe[s])
           \/ \E n \in Request :
                 /\ sess[n] = s
                 /\ \/ ResultWriter(n) \in pipe[s].wr /\ pipe'[s] = Write(pipe[s], n)
                    \/ pipe'[s] = OpenForWrite(pipe[s], ResultWriter(n))
                    \/ pipe'[s] = OpenForRead(pipe[s], Client(n))
                    \/ pipe'[s] = OpenForRead(pipe[s], Drainer(n)) /\ pc'[n] = "drain" /\ pc[n] = "wait"
  <1> DEFINE Goal == \/ pipe'[s] = pipe[s]
                     \/ \E q : pipe'[s] = Close(pipe[s], q)
                     \/ pipe[s].buf # <<>> /\ pipe'[s] = Consume(pipe[s])
                     \/ \E n \in Request :
                           /\ sess[n] = s
                           /\ \/ ResultWriter(n) \in pipe[s].wr /\ pipe'[s] = Write(pipe[s], n)
                              \/ pipe'[s] = OpenForWrite(pipe[s], ResultWriter(n))
                              \/ pipe'[s] = OpenForRead(pipe[s], Client(n))
                              \/ pipe'[s] = OpenForRead(pipe[s], Drainer(n)) /\ pc'[n] = "drain" /\ pc[n] = "wait"
  <1>1. ASSUME UNCHANGED pipe PROVE Goal
    BY <1>1
  <1>2. ASSUME NEW n \in Request, NEW p, SetPipe(n, p)
        PROVE  (s # sess[n] => pipe'[s] = pipe[s]) /\ (s = sess[n] => pipe'[s] = p /\ Pipe(n) = pipe[s])
    BY <1>2 DEF SetPipe, Pipe, IInv, TypeOK
  <1>3. ASSUME NEW n \in Request, Handler(n) PROVE Goal
    <2>1. CASE StartDrain(n)
      <3>1. SetPipe(n, OpenForRead(Pipe(n), Drainer(n))) /\ pc'[n] = "drain" /\ pc[n] = "wait"
        BY <2>1 DEF StartDrain, Goto, IInv, TypeOK
      <3> QED BY <1>2, <3>1
    <2>2. CASE KillWriter(n)
      BY <1>2, <2>2 DEF KillWriter
    <2>3. CASE Publish(n)
      BY <1>2, <2>3 DEF Publish
    <2>4. CASE ~(StartDrain(n) \/ KillWriter(n) \/ Publish(n))
      <3>1. UNCHANGED pipe
        BY <1>3, <2>4 DEF Handler, Enter, LeaveWait, MarkDead, WriterGone, ReapDrain, Run,
                          RecordWriter, Exit
      <3> QED BY <1>1, <3>1
    <2> QED BY <2>1, <2>2, <2>3, <2>4
  <1>4. ASSUME NEW n \in Request, Drain(n) \/ Writer(n) PROVE Goal
    <2>1. CASE DrainRead(n)
      BY <1>2, <2>1 DEF DrainRead, CanRead
    <2>2. CASE DrainEnd(n)
      BY <1>2, <2>2 DEF DrainEnd
    <2>3. CASE WriteChunk(n)
      BY <1>2, <2>3 DEF WriteChunk, CanWrite
    <2>4. CASE WriterExit(n)
      BY <1>2, <2>4 DEF WriterExit
    <2> QED BY <1>4, <2>1, <2>2, <2>3, <2>4 DEF Drain, Writer
  <1>5. ASSUME NEW n \in Request, ClientStep(n) PROVE Goal
    <2>1. CASE ClientOpen(n)
      BY <1>2, <2>1 DEF ClientOpen
    <2>2. CASE ClientRead(n)
      BY <1>2, <2>2 DEF ClientRead, CanRead
    <2>3. CASE ClientClose(n) \/ ClientLeave(n)
      BY <1>2, <2>3 DEF ClientClose, ClientLeave
    <2> QED BY <1>5, <2>1, <2>2, <2>3 DEF ClientStep
  <1>6. ASSUME NEW n \in Request, ExecutorEnd(n) \/ Kill(n) PROVE Goal
    BY <1>1, <1>6 DEF ExecutorEnd, Kill
  <1>7. ASSUME NEW t \in Session, NEW k \in KeepAlive, Send(t, k) PROVE Goal
    BY <1>1, <1>7 DEF Send
  <1>8. CASE Dispatcher
    BY <1>1, <1>8 DEF Dispatcher, Receive, Spawn, RecordHandler
  <1>9. CASE UNCHANGED vars
    BY <1>1, <1>9 DEF vars
  <1> QED BY <1>3, <1>4, <1>5, <1>6, <1>7, <1>8, <1>9 DEF Next

\* A handler that has published stays so, one with a cat stays until the cat is
\* gone, and neither changes its session.
LEMMA HandlersProgress ==
    ASSUME MaxKills = 0, IInv, [Next]_vars, NEW n \in Request, pc[n] # "none"
    PROVE  /\ sess'[n] = sess[n]
           /\ Published(n) => Published(n)'
           /\ pc[n] \in {"drain", "reap"} => pc'[n] \in {"drain", "reap"} \/ ~Draining(n)
  <1>1. pc \in [Request -> HandlerState]
    BY DEF IInv, TypeOK
  <1>2. ASSUME NEW t \in Session, NEW k \in KeepAlive, Send(t, k)
        PROVE  sess'[n] = sess[n] /\ pc'[n] = pc[n]
    <2>1. n # sent + 1
      BY HandlerIsSent DEF IInv, TypeOK, Request
    <2> QED BY <1>2, <2>1 DEF Send, IInv, TypeOK
  <1>3. ASSUME Dispatcher
        PROVE  sess'[n] = sess[n] /\ pc'[n] = pc[n]
    <2>1. CASE Spawn
      <3>1. n # dispatched + 1
        BY <2>1 DEF Spawn, IInv, TypeOK, Counters, Spawned, Request
      <3> QED BY <1>1, <2>1, <3>1 DEF Spawn, Goto, clientVars
    <2> QED BY <1>3, <2>1 DEF Dispatcher, Receive, RecordHandler, clientVars
  <1>4. ASSUME NEW m \in Request, Handler(m)
        PROVE  /\ sess'[n] = sess[n]
               /\ Published(n) => Published(n)'
               /\ pc[n] \in {"drain", "reap"} => pc'[n] \in {"drain", "reap"} \/ ~Draining(n)
    BY <1>1, <1>4 DEF Handler, Enter, LeaveWait, MarkDead, StartDrain, WriterGone, KillWriter,
         ReapDrain, Run, Publish, RecordWriter, Exit, clientVars, Goto, Published
  <1>5. ASSUME NEW m \in Request, ExecutorEnd(m)
        PROVE  sess'[n] = sess[n] /\ (pc[n] # "exec" => pc'[n] = pc[n])
    BY <1>1, <1>5 DEF ExecutorEnd, Goto, clientVars
  <1>6. ASSUME NEW m \in Request, Drain(m) \/ Writer(m) \/ ClientStep(m)
        PROVE  sess'[n] = sess[n] /\ pc'[n] = pc[n]
    BY <1>6 DEF Drain, Writer, ClientStep, DrainRead, DrainEnd, WriteChunk, WriterExit,
                ClientOpen, ClientRead, ClientClose, ClientLeave, clientVars
  <1>7. ~\E m \in Request : Kill(m)
    BY DEF Kill, IInv, TypeOK
  <1>8. UNCHANGED vars => sess'[n] = sess[n] /\ pc'[n] = pc[n]
    BY DEF vars, clientVars
  <1> QED BY <1>2, <1>3, <1>4, <1>5, <1>6, <1>7, <1>8 DEF Next, Published

LEMMA DrainStep ==
    ASSUME MaxKills = 0, IInv, Drains, Contents, [Next]_vars
    PROVE  Drains' /\ Contents'
  <1> USE DEF Published
  <1>1. ASSUME NEW s \in Session PROVE pipe[s] \in PipeType(Request, ResultWriters, Readers)
    BY DEF IInv, TypeOK
  <1>2. Drains'
    <2> SUFFICES ASSUME NEW s \in Session, NEW n \in Request, Drainer(n) \in pipe'[s].rd
                 PROVE  sess'[n] = s /\ pc'[n] \in {"drain", "reap"}
      BY DEF Drains
    <2>1. CASE Drainer(n) \in pipe[s].rd
      <3>1. sess[n] = s /\ pc[n] \in {"drain", "reap"} /\ Draining(n) /\ pc[n] # "none"
        BY <2>1 DEF Drains, Draining, Pipe
      <3>2. sess'[n] = sess[n] /\ (pc'[n] \in {"drain", "reap"} \/ ~Draining(n))
        BY <3>1, HandlersProgress
      <3> QED BY <3>1, <3>2
    <2>2. CASE Drainer(n) \notin pipe[s].rd
      <3>1. \A m \in Request : Drainer(n) # Client(m) /\ (Drainer(n) = Drainer(m) => n = m)
        BY DEF Drainer, Client
      <3>2. \A q : /\ Close(pipe[s], q).rd \subseteq pipe[s].rd
                  /\ Consume(pipe[s]).rd = pipe[s].rd
                  /\ Write(pipe[s], q).rd = pipe[s].rd
                  /\ OpenForWrite(pipe[s], q).rd = pipe[s].rd
                  /\ OpenForRead(pipe[s], q).rd = pipe[s].rd \cup {q}
        BY <1>1 DEF PipeType, Close, Consume, Write, OpenForWrite, OpenForRead
      <3>3. PICK m \in Request : /\ sess[m] = s
                                 /\ \/ pipe'[s] = OpenForRead(pipe[s], Client(m))
                                    \/ /\ pipe'[s] = OpenForRead(pipe[s], Drainer(m))
                                       /\ pc'[m] = "drain" /\ pc[m] = "wait"
        BY <2>2, <3>2, PipeSteps
      <3>4. m = n /\ pc'[n] = "drain" /\ pc[n] = "wait"
        BY <2>2, <3>1, <3>2, <3>3
      <3>5. sess'[n] = sess[n]
        BY <3>4, HandlersProgress
      <3> QED BY <3>3, <3>4, <3>5
    <2> QED BY <2>1, <2>2
  <1>3. Contents'
    <2> SUFFICES ASSUME NEW s \in Session, NEW i \in DOMAIN pipe'[s].buf
                 PROVE  /\ pipe'[s].buf[i] \in Request
                        /\ sess'[pipe'[s].buf[i]] = s
                        /\ pc'[pipe'[s].buf[i]] \in {"record", "await", "exited"}
      BY DEF Contents
    <2>0. PICK m : m = pipe'[s].buf[i]
      OBVIOUS
    <2>1. \/ \E j \in DOMAIN pipe[s].buf : m = pipe[s].buf[j]
          \/ m \in Request /\ sess[m] = s /\ ResultWriter(m) \in pipe[s].wr
      <3>1. /\ \A q : /\ OpenForRead(pipe[s], q).buf = pipe[s].buf
                      /\ OpenForWrite(pipe[s], q).buf = pipe[s].buf
            /\ pipe[s].buf # <<>> =>
                 \A k \in DOMAIN Consume(pipe[s]).buf :
                    k + 1 \in DOMAIN pipe[s].buf /\ Consume(pipe[s]).buf[k] = pipe[s].buf[k + 1]
            /\ \A q : \A k \in DOMAIN Close(pipe[s], q).buf :
                    k \in DOMAIN pipe[s].buf /\ Close(pipe[s], q).buf[k] = pipe[s].buf[k]
            /\ \A q : \A k \in DOMAIN Write(pipe[s], q).buf :
                    \/ k \in DOMAIN pipe[s].buf /\ Write(pipe[s], q).buf[k] = pipe[s].buf[k]
                    \/ Write(pipe[s], q).buf[k] = q
        BY <1>1, PipeBuffers
      <3> QED BY <2>0, <3>1, PipeSteps
    <2>2. m \in Request /\ sess[m] = s /\ Published(m) /\ pc[m] # "none"
      BY <2>1 DEF Contents, IInv, Procs
    <2>3. sess'[m] = s /\ pc'[m] \in {"record", "await", "exited"}
      BY <2>2, HandlersProgress
    <2> QED BY <2>0, <2>2, <2>3
  <1> QED BY <1>2, <1>3

(***************************************************************************)
(* While no handler is killed, the cat a handler starts can never discard  *)
(* a chunk of its own request's result or of a later one.                  *)
(***************************************************************************)
THEOREM DrainsAreSafe ==
    ASSUME MaxKills = 0
    PROVE  Spec => []DrainTakesOnlyStaleResults
  <1> DEFINE J == IInv /\ Drains /\ Contents
  <1>1. Init => J
    <2>1. ASSUME Init, NEW s \in Session PROVE pipe[s].rd = {} /\ pipe[s].buf = <<>>
      BY <2>1 DEF Init, EmptyPipe
    <2> QED BY <2>1, InitIInv DEF Drains, Contents
  <1>2. J /\ [Next]_vars => J'
    BY NextIInv, DrainStep
  <1>3. J => DrainTakesOnlyStaleResults
    <2> SUFFICES ASSUME J, NEW n \in Request, Draining(n)
                 PROVE  /\ \A i \in DOMAIN Pipe(n).buf : Pipe(n).buf[i] < n
                        /\ \A m \in Request : ResultWriter(m) \in Pipe(n).wr => m < n
      BY DEF DrainTakesOnlyStaleResults
    <2>1. sess[n] \in Session /\ pc[n] \in {"drain", "reap"}
      BY DEF Draining, Drains, Pipe
    <2>2. ASSUME NEW m \in Request, sess[m] = sess[n], Published(m) PROVE m < n
      <3>1. ~(n < m)
        BY <2>1, <2>2 DEF IInv, Order, Earlier, SameSession, Published, Past, Waiting,
                          HandlerState
      <3>2. m # n
        BY <2>1, <2>2 DEF Published
      <3> QED BY <3>1, <3>2 DEF Request
    <2>3. \A i \in DOMAIN Pipe(n).buf : Pipe(n).buf[i] < n
      BY <2>1, <2>2 DEF Contents, Pipe
    <2>4. \A m \in Request : ResultWriter(m) \in Pipe(n).wr => m < n
      BY <2>1, <2>2 DEF IInv, Procs, Published, Pipe
    <2> QED BY <2>3, <2>4
  <1> QED BY <1>1, <1>2, <1>3, PTL DEF Spec

-----------------------------------------------------------------------------
(* The order of what a reader gets.                                        *)

\* A FIFO holds results in request order, and a reader of it has nothing newer.
Flow ==
    /\ \A s \in Session : \A i, j \in DOMAIN pipe[s].buf : i <= j => pipe[s].buf[i] <= pipe[s].buf[j]
    /\ \A n \in Request : \A i \in DOMAIN got[n] :
          /\ sess[got[n][i]] = sess[n] /\ Published(got[n][i])
          /\ \A j \in DOMAIN Pipe(n).buf : got[n][i] <= Pipe(n).buf[j]
    /\ ResultsNeverInterleave

\* The only writer of a FIFO is the youngest that has published to its session.
LEMMA WriterIsLast ==
    ASSUME IInv, NEW s \in Session, NEW w \in Request, ResultWriter(w) \in pipe[s].wr,
           NEW m \in Request, sess[m] = s, Published(m)
    PROVE  sess[w] = s /\ Published(w) /\ m <= w
  <1>1. sess[w] = s /\ pc[w] \in {"record", "await"}
    BY DEF IInv, Procs
  <1>2. ~(w < m)
    BY <1>1 DEF IInv, Order, Earlier, SameSession, Published, Past, Waiting, HandlerState
  <1> QED BY <1>1, <1>2 DEF Published, Request

\* What a step may do to the content of a session's FIFO.
LEMMA BufferSteps ==
    ASSUME IInv, [Next]_vars, NEW s \in Session
    PROVE  \/ pipe'[s].buf = pipe[s].buf \/ pipe'[s].buf = <<>>
           \/ pipe[s].buf # <<>> /\ pipe'[s].buf = Tail(pipe[s].buf)
           \/ \E w \in Request : ResultWriter(w) \in pipe[s].wr /\ pipe'[s].buf = Append(pipe[s].buf, w)
  <1>1. pipe[s] \in PipeType(Request, ResultWriters, Readers)
    BY DEF IInv, TypeOK
  <1>2. \A q : /\ OpenForRead(pipe[s], q).buf = pipe[s].buf /\ OpenForWrite(pipe[s], q).buf = pipe[s].buf
               /\ Close(pipe[s], q).buf \in {<<>>, pipe[s].buf}
               /\ Write(pipe[s], q).buf = Append(pipe[s].buf, q)
    BY <1>1 DEF PipeType, OpenForRead, OpenForWrite, Close, Write
  <1>3. Consume(pipe[s]).buf = Tail(pipe[s].buf)
    BY <1>1 DEF PipeType, Consume
  <1> QED BY <1>2, <1>3, PipeSteps

\* A FIFO stays in request order.
LEMMA BufferOrder ==
    ASSUME IInv, Contents, Flow, [Next]_vars, NEW s \in Session
    PROVE  \A i, j \in DOMAIN pipe'[s].buf : i <= j => pipe'[s].buf[i] <= pipe'[s].buf[j]
  <1>1. pipe[s].buf \in Seq(Request) /\ \A i \in DOMAIN pipe[s].buf : pipe[s].buf[i] \in Request
    BY DEF IInv, TypeOK, PipeType
  <1>2. \A i, j \in DOMAIN pipe[s].buf : i <= j => pipe[s].buf[i] <= pipe[s].buf[j]
    BY DEF Flow
  <1>3. CASE pipe'[s].buf = pipe[s].buf \/ pipe'[s].buf = <<>>
    BY <1>2, <1>3
  <1>4. CASE pipe[s].buf # <<>> /\ pipe'[s].buf = Tail(pipe[s].buf)
    BY <1>1, <1>2, <1>4
  <1>5. ASSUME NEW w \in Request, ResultWriter(w) \in pipe[s].wr, pipe'[s].buf = Append(pipe[s].buf, w)
        PROVE  \A i, j \in DOMAIN pipe'[s].buf : i <= j => pipe'[s].buf[i] <= pipe'[s].buf[j]
    <2>1. \A i \in DOMAIN pipe[s].buf : pipe[s].buf[i] <= w
      BY <1>5, WriterIsLast DEF Contents
    <2> QED BY <1>1, <1>2, <1>5, <2>1 DEF Request
  <1> QED BY <1>3, <1>4, <1>5, BufferSteps

\* What a reader has is not newer than what comes into its FIFO.
LEMMA NothingOlderArrives ==
    ASSUME MaxKills = 0, IInv, Contents, Flow, [Next]_vars, NEW s \in Session, NEW g \in Request,
           sess[g] = s, Published(g), \A j \in DOMAIN pipe[s].buf : g <= pipe[s].buf[j]
    PROVE  /\ sess'[g] = s /\ Published(g)'
           /\ \A j \in DOMAIN pipe'[s].buf : g <= pipe'[s].buf[j]
  <1>1. pipe[s].buf \in Seq(Request)
    BY DEF IInv, TypeOK, PipeType
  <1>2. sess'[g] = s /\ Published(g)'
    BY HandlersProgress DEF Published
  <1>3. CASE pipe'[s].buf = pipe[s].buf \/ pipe'[s].buf = <<>>
    BY <1>2, <1>3
  <1>4. CASE pipe[s].buf # <<>> /\ pipe'[s].buf = Tail(pipe[s].buf)
    BY <1>1, <1>2, <1>4
  <1>5. ASSUME NEW w \in Request, ResultWriter(w) \in pipe[s].wr, pipe'[s].buf = Append(pipe[s].buf, w)
        PROVE  \A j \in DOMAIN pipe'[s].buf : g <= pipe'[s].buf[j]
    <2>1. g <= w
      BY <1>5, WriterIsLast
    <2> QED BY <1>1, <1>5, <2>1
  <1> QED BY <1>2, <1>3, <1>4, <1>5, BufferSteps

\* Only a client's read adds to what it has.
LEMMA OnlyReadsGet ==
    ASSUME IInv, [Next]_vars, NEW n \in Request
    PROVE  \/ got'[n] = got[n]
           \/ /\ sess[n] \in Session /\ sess' = sess /\ pc' = pc /\ Pipe(n).buf # <<>>
              /\ pipe'[sess[n]].buf = Tail(Pipe(n).buf) /\ got'[n] = Append(got[n], Head(Pipe(n).buf))
  <1>1. ASSUME UNCHANGED got PROVE got'[n] = got[n]
    BY <1>1
  <1>2. ASSUME NEW m \in Request, ClientRead(m)
        PROVE  \/ got'[n] = got[n]
               \/ /\ sess[n] \in Session /\ sess' = sess /\ pc' = pc /\ Pipe(n).buf # <<>>
                  /\ pipe'[sess[n]].buf = Tail(Pipe(n).buf) /\ got'[n] = Append(got[n], Head(Pipe(n).buf))
    <2>1. CASE m = n
      <3>1. sess[n] \in Session
        BY <1>2, <2>1 DEF ClientRead, IInv, Owners
      <3>2. Pipe(n).buf # <<>> /\ SetPipe(n, Consume(Pipe(n))) /\ sess' = sess /\ pc' = pc
        BY <1>2, <2>1 DEF ClientRead, CanRead
      <3>3. Consume(Pipe(n)).buf = Tail(Pipe(n).buf)
        BY <3>1 DEF Pipe, IInv, TypeOK, PipeType, Consume
      <3>4. got'[n] = Append(got[n], Head(Pipe(n).buf))
        BY <1>2, <2>1 DEF ClientRead, IInv, TypeOK
      <3>5. pipe'[sess[n]] = Consume(Pipe(n))
        BY <3>1, <3>2 DEF SetPipe, IInv, TypeOK
      <3> QED BY <3>1, <3>2, <3>3, <3>4, <3>5
    <2>2. CASE m # n
      BY <1>2, <2>2 DEF ClientRead, IInv, TypeOK
    <2> QED BY <2>1, <2>2
  <1>3. ASSUME NEW m \in Request, Handler(m) PROVE UNCHANGED got
    BY <1>3 DEF Handler, Enter, LeaveWait, MarkDead, StartDrain, WriterGone, KillWriter, ReapDrain, Run, Publish,
                RecordWriter, Exit, clientVars
  <1>4. ASSUME NEW m \in Request, Drain(m) \/ Writer(m) \/ ExecutorEnd(m) \/ Kill(m) PROVE UNCHANGED got
    BY <1>4 DEF Drain, DrainRead, DrainEnd, Writer, WriteChunk, WriterExit, ExecutorEnd, Kill, clientVars
  <1>5. ASSUME NEW m \in Request, ClientOpen(m) \/ ClientClose(m) \/ ClientLeave(m) PROVE UNCHANGED got
    BY <1>5 DEF ClientOpen, ClientClose, ClientLeave
  <1>6. ASSUME NEW t \in Session, NEW k \in KeepAlive, Send(t, k) PROVE UNCHANGED got
    BY <1>6 DEF Send
  <1>7. CASE Dispatcher \/ UNCHANGED vars
    BY <1>1, <1>7 DEF Dispatcher, Receive, Spawn, RecordHandler, vars, clientVars
  <1> QED BY <1>1, <1>2, <1>3, <1>4, <1>5, <1>6, <1>7 DEF Next, ClientStep

\* Every step keeps the order of the FIFOs and of what has been read from them.
LEMMA FlowStep ==
    ASSUME MaxKills = 0, IInv, Contents, Flow, [Next]_vars
    PROVE  Flow'
  <1>1. ASSUME NEW n \in Request
        PROVE  /\ \A i \in DOMAIN got'[n] :
                     /\ sess'[got'[n][i]] = sess'[n] /\ pc'[got'[n][i]] \in {"record", "await", "exited"}
                     /\ \A j \in DOMAIN pipe'[sess'[n]].buf : got'[n][i] <= pipe'[sess'[n]].buf[j]
               /\ \A i, j \in DOMAIN got'[n] : i <= j => got'[n][i] <= got'[n][j]
    <2>1. got[n] \in Seq(Request) /\ \A i \in DOMAIN got[n] : got[n][i] \in Request
      BY DEF IInv, TypeOK
    <2>2. ASSUME sess[n] \in Session PROVE sess'[n] = sess[n]
      <3>1. ASSUME NEW t \in Session, NEW k \in KeepAlive, Send(t, k) PROVE sess'[n] = sess[n]
        <4>1. n # sent + 1
          BY <2>2 DEF IInv, Owners, TypeOK, Request
        <4> QED BY <3>1, <4>1 DEF Send, IInv, TypeOK
      <3>2. ASSUME NEW m \in Request, Handler(m) PROVE sess' = sess
        BY <3>2 DEF Handler, Enter, LeaveWait, MarkDead, StartDrain, WriterGone, KillWriter, ReapDrain, Run,
                    Publish, RecordWriter, Exit, clientVars
      <3>3. ASSUME NEW m \in Request, Drain(m) \/ Writer(m) \/ ExecutorEnd(m) \/ Kill(m) \/ ClientStep(m)
            PROVE  sess' = sess
        BY <3>3 DEF Drain, DrainRead, DrainEnd, Writer, WriteChunk, WriterExit, ExecutorEnd, Kill, ClientStep,
                    ClientOpen, ClientRead, ClientClose, ClientLeave, clientVars
      <3>4. CASE Dispatcher \/ UNCHANGED vars
        BY <3>4 DEF Dispatcher, Receive, Spawn, RecordHandler, vars, clientVars
      <3> QED BY <3>1, <3>2, <3>3, <3>4 DEF Next
    <2>3. ASSUME got[n] # <<>> PROVE sess[n] \in Session
      <3>1. 1 \in DOMAIN got[n]
        BY <2>1, <2>3
      <3>2. got[n][1] \in Request /\ sess[got[n][1]] = sess[n] /\ pc[got[n][1]] # "none"
        BY <2>1, <3>1 DEF Flow, Published
      <3> QED BY <3>2, HandlerIsSent DEF IInv, Owners
    <2>4. \A i \in DOMAIN got[n] :
             /\ sess'[got[n][i]] = sess'[n] /\ pc'[got[n][i]] \in {"record", "await", "exited"}
             /\ \A j \in DOMAIN pipe'[sess'[n]].buf : got[n][i] <= pipe'[sess'[n]].buf[j]
      <3> SUFFICES ASSUME NEW i \in DOMAIN got[n]
                   PROVE  /\ sess'[got[n][i]] = sess'[n] /\ pc'[got[n][i]] \in {"record", "await", "exited"}
                          /\ \A j \in DOMAIN pipe'[sess'[n]].buf : got[n][i] <= pipe'[sess'[n]].buf[j]
        OBVIOUS
      <3>1. sess[n] \in Session /\ sess'[n] = sess[n]
        BY <2>1, <2>2, <2>3
      <3>2. PICK g \in Request : g = got[n][i]
        BY <2>1
      <3>3. sess[g] = sess[n] /\ Published(g) /\ \A j \in DOMAIN pipe[sess[n]].buf : g <= pipe[sess[n]].buf[j]
        BY <3>2 DEF Flow, Pipe
      <3>4. /\ sess'[g] = sess[n] /\ Published(g)'
            /\ \A j \in DOMAIN pipe'[sess[n]].buf : g <= pipe'[sess[n]].buf[j]
        BY <3>1, <3>3, NothingOlderArrives
      <3> QED BY <3>1, <3>2, <3>4 DEF Published
    <2>5. \A i, j \in DOMAIN got[n] : i <= j => got[n][i] <= got[n][j]
      BY DEF Flow, ResultsNeverInterleave
    <2>6. CASE got'[n] = got[n]
      BY <2>4, <2>5, <2>6
    <2>7. CASE /\ sess[n] \in Session /\ sess' = sess /\ pc' = pc /\ Pipe(n).buf # <<>>
               /\ pipe'[sess[n]].buf = Tail(Pipe(n).buf) /\ got'[n] = Append(got[n], Head(Pipe(n).buf))
      <3> DEFINE b == pipe[sess[n]].buf
      <3> PICK h : h = Head(b)
        OBVIOUS
      <3>1. b \in Seq(Request) /\ b # <<>> /\ h = b[1] /\ 1 \in DOMAIN b /\ h \in Request
        BY <2>7 DEF IInv, TypeOK, PipeType, Pipe
      <3>2. sess[h] = sess[n] /\ Published(h) /\ \A j \in DOMAIN b : h <= b[j]
        <4>1. \A j \in DOMAIN b : 1 <= j
          BY <3>1
        <4> QED BY <2>7, <3>1, <4>1 DEF Contents, Flow
      <3>3. sess'[h] = sess'[n] /\ pc'[h] \in {"record", "await", "exited"}
            /\ \A j \in DOMAIN pipe'[sess'[n]].buf : h <= pipe'[sess'[n]].buf[j]
        BY <2>7, <3>1, <3>2, NothingOlderArrives DEF Published
      <3>4. \A i \in DOMAIN got[n] : got[n][i] <= h
        BY <2>7, <3>1 DEF Flow, Pipe
      <3>5. got'[n] = Append(got[n], h)
        BY <2>7 DEF Pipe
      <3>6. \A i \in DOMAIN got'[n] : got'[n][i] = h \/ (i \in DOMAIN got[n] /\ got'[n][i] = got[n][i])
        BY <2>1, <3>5
      <3>7. \A i, j \in DOMAIN got'[n] : i <= j => got'[n][i] <= got'[n][j]
        <4>1. h <= h
          BY <3>1 DEF Request
        <4> QED BY <2>1, <2>5, <3>4, <3>5, <4>1
      <3> HIDE DEF b
      <3> QED BY <2>4, <3>3, <3>6, <3>7
    <2> QED BY <2>6, <2>7, OnlyReadsGet
  <1>2. \A s \in Session : \A i, j \in DOMAIN pipe'[s].buf : i <= j => pipe'[s].buf[i] <= pipe'[s].buf[j]
    BY BufferOrder
  <1>3. \A n \in Request : \A i \in DOMAIN got'[n] :
           /\ sess'[got'[n][i]] = sess'[n] /\ pc'[got'[n][i]] \in {"record", "await", "exited"}
           /\ \A j \in DOMAIN Pipe(n)'.buf : got'[n][i] <= Pipe(n)'.buf[j]
    BY <1>1 DEF Pipe
  <1>4. ResultsNeverInterleave'
    BY <1>1 DEF ResultsNeverInterleave
  <1> QED BY <1>2, <1>3, <1>4 DEF Flow, Published

(***************************************************************************)
(* While no handler is killed, no reader ever gets a chunk of an older     *)
(* result behind one of a newer: its chunks are in request order.          *)
(***************************************************************************)
THEOREM ResultsComeInOrder ==
    ASSUME MaxKills = 0
    PROVE  Spec => []ResultsNeverInterleave
  <1> DEFINE J == IInv /\ Drains /\ Contents /\ Flow
  <1>1. Init => J
    <2>1. ASSUME Init, NEW s \in Session PROVE pipe[s].rd = {} /\ pipe[s].buf = <<>>
      BY <2>1 DEF Init, EmptyPipe
    <2>2. ASSUME Init, NEW n \in Request PROVE got[n] = <<>>
      BY <2>2 DEF Init
    <2> QED BY <2>1, <2>2, InitIInv DEF Drains, Contents, Flow, ResultsNeverInterleave
  <1>2. J /\ [Next]_vars => J'
    BY NextIInv, DrainStep, FlowStep
  <1>3. J => ResultsNeverInterleave
    BY DEF Flow
  <1> QED BY <1>1, <1>2, <1>3, PTL DEF Spec

-----------------------------------------------------------------------------
(* The chain of handlers implements the session queue.                     *)

\* Status depends on what was sent and on the handler alone.
LEMMA StatusIs ==
    ASSUME IInv, NEW n \in Request
    PROVE  /\ n > sent => Status(n) = "unsent"
           /\ n <= sent /\ pc[n] \in Waiting \cup {"none"} => Status(n) = "queued"
           /\ n <= sent /\ pc[n] \in Past \ {"exited"} => Status(n) = "active"
           /\ n <= sent /\ pc[n] = "exited" => Status(n) = "served"
  BY DEF Status, IInv, TypeOK, Request, Past, Waiting, HandlerState

\* A step that keeps what was sent and moves at most one handler, to the same
\* status, is a stutter of the service.
LEMMA SameStatus ==
    ASSUME IInv, IInv', UNCHANGED <<sent, sess>>,
           \A m \in Request : \/ pc'[m] = pc[m]
                              \/ {pc[m], pc'[m]} \subseteq Waiting \cup {"none"}
                              \/ {pc[m], pc'[m]} \subseteq Past \ {"exited"}
    PROVE  UNCHANGED Service!vars
  <1>1. ASSUME NEW m \in Request PROVE Status(m)' = Status(m)
    <2>1. CASE pc'[m] = pc[m]
      BY <2>1 DEF Status
    <2>2. CASE {pc[m], pc'[m]} \subseteq Waiting \cup {"none"}
      BY <2>2 DEF Status, Waiting, Past, HandlerState
    <2>3. CASE {pc[m], pc'[m]} \subseteq Past \ {"exited"}
      BY <2>3 DEF Status, Waiting, Past, HandlerState
    <2> QED BY <2>1, <2>2, <2>3
  <1> QED BY <1>1 DEF Service!vars

\* A handler that changes status while the others stand still.
LEMMA OneStatusMoves ==
    ASSUME IInv, IInv', NEW n \in Request, NEW l \in HandlerState,
           UNCHANGED <<sent, sess>>, pc' = [pc EXCEPT ![n] = l], n <= sent
    PROVE  /\ l \in Past \ {"exited"} =>
                [k \in Request |-> Status(k)]' = [[k \in Request |-> Status(k)] EXCEPT ![n] = "active"]
           /\ l = "exited" =>
                [k \in Request |-> Status(k)]' = [[k \in Request |-> Status(k)] EXCEPT ![n] = "served"]
  <1>1. pc'[n] = l /\ \A m \in Request : m # n => pc'[m] = pc[m]
    BY DEF IInv, TypeOK
  <1>2. \A m \in Request : m # n => Status(m)' = Status(m)
    BY <1>1 DEF Status
  <1>3. (l \in Past \ {"exited"} => Status(n)' = "active") /\ (l = "exited" => Status(n)' = "served")
    BY <1>1 DEF Status, IInv, TypeOK, Request, Waiting, Past, HandlerState
  <1> QED BY <1>2, <1>3

\* A handler passes the wait: the service starts its request.
LEMMA TurnIsStart ==
    ASSUME IInv, IInv', NEW n \in Request, UNCHANGED <<sent, sess>>,
           pc[n] \in Waiting, pc' = [pc EXCEPT ![n] = "run"],
           prev[n] = 0 \/ Resolved(prev[n])
    PROVE  Service!Start(n)
  <1>1. n <= sent
    BY HandlerIsSent DEF Waiting
  <1>2. Status(n) = "queued"
    BY <1>1, StatusIs
  <1>3. \A m \in Request : m < n /\ sess[m] = sess[n] => Status(m) = "served"
    <2> SUFFICES ASSUME NEW m \in Request, m < n, sess[m] = sess[n] PROVE Status(m) = "served"
      OBVIOUS
    <2>1. pc[m] = "exited"
      BY TurnComes DEF Earlier, SameSession
    <2>2. m <= sent
      BY <2>1, HandlerIsSent
    <2> QED BY <2>1, <2>2, StatusIs
  <1>4. [k \in Request |-> Status(k)]' = [[k \in Request |-> Status(k)] EXCEPT ![n] = "active"]
    BY <1>1, OneStatusMoves DEF Past, Waiting, HandlerState
  <1> QED BY <1>2, <1>3, <1>4 DEF Service!Start, Service!Request, Request

\* Every step is a step of the service or a stutter.
LEMMA NextServes ==
    ASSUME MaxKills = 0, IInv, IInv', [Next]_vars
    PROVE  [Service!Next]_(Service!vars)
  <1>0. Service!Request = Request
    BY DEF Service!Request, Request
  <1>1. ~\E n \in Request : Kill(n)
    BY DEF Kill, IInv, TypeOK
  <1>2. CASE UNCHANGED vars
    <2>1. UNCHANGED <<sent, sess, pc>>
      BY <1>2 DEF vars, clientVars
    <2> QED BY <2>1, SameStatus
  <1>3. ASSUME NEW s \in Session, NEW k \in KeepAlive, Send(s, k) PROVE Service!Accept(s)
    <2>1. PICK n \in Request : n = sent + 1
      BY <1>3 DEF Send, IInv, TypeOK, Request
    <2>2. /\ sent' = n /\ sent < MaxRequests /\ sess' = [sess EXCEPT ![n] = s]
          /\ UNCHANGED pc
      BY <1>3, <2>1 DEF Send
    <2>3. n <= n /\ ~(n <= sent) /\ ~(n > n) /\ n \in Int
      BY <2>1 DEF IInv, TypeOK, Request
    <2>4. pc[n] = "none"
      BY <2>3, HandlerIsSent
    <2>5. Status(n)' = "queued"
      BY <2>2, <2>3, <2>4 DEF Status, Past, HandlerState, Waiting
    <2>6. ASSUME NEW m \in Request, m # n PROVE Status(m)' = Status(m)
      <3>1. (m > n <=> m > sent) /\ (m <= n <=> m <= sent)
        BY <2>1, <2>6 DEF IInv, TypeOK, Request
      <3>2. CASE m > sent
        <4>1. m > n /\ ~(m <= sent) /\ ~(m <= n)
          BY <2>3, <3>1, <3>2 DEF IInv, TypeOK, Request
        <4> QED BY <2>2, <3>2, <4>1 DEF Status
      <3>3. CASE m <= sent
        <4>1. m <= n /\ ~(m > sent) /\ ~(m > n)
          BY <2>3, <3>1, <3>3 DEF IInv, TypeOK, Request
        <4>2. \/ pc[m] \in Waiting \cup {"none"}
              \/ pc[m] \in Past \ {"exited"}
              \/ pc[m] = "exited"
          BY DEF IInv, TypeOK, Past
        <4>3. pc[m] # "exited" \/ pc[m] \notin Waiting \cup {"none"}
          BY DEF Waiting
        <4> QED BY <2>2, <3>3, <4>1, <4>2, <4>3 DEF Status, Past
      <3> QED BY <3>2, <3>3 DEF IInv, TypeOK, Request
    <2>7. [m \in Request |-> Status(m)]' = [[m \in Request |-> Status(m)] EXCEPT ![n] = "queued"]
      BY <2>5, <2>6
    <2> QED BY <2>1, <2>2, <2>7 DEF Service!Accept
  <1>4. CASE Dispatcher
    <2>1. UNCHANGED <<sent, sess>>
      BY <1>4 DEF Dispatcher, Receive, Spawn, RecordHandler, clientVars
    <2>2. CASE Spawn
      <3>1. pc[dispatched + 1] = "none" /\ pc' = [pc EXCEPT ![dispatched + 1] = "entry"]
        BY <2>2, NextRequest
        DEF Spawn, Goto, IInv, TypeOK, Owners, Counters, Spawned, Request
      <3>2. \A m \in Request : m # dispatched + 1 => pc'[m] = pc[m]
        BY <3>1 DEF IInv, TypeOK
      <3>3. ASSUME NEW m \in Request
            PROVE  pc'[m] = pc[m] \/ {pc[m], pc'[m]} \subseteq Waiting \cup {"none"}
        BY <3>1, <3>2 DEF IInv, TypeOK, Waiting
      <3> QED BY <2>1, <3>3, SameStatus
    <2>3. CASE Receive \/ RecordHandler
      <3>1. UNCHANGED pc
        BY <2>3 DEF Receive, RecordHandler
      <3> QED BY <2>1, <3>1, SameStatus
    <2> QED BY <1>4, <2>2, <2>3 DEF Dispatcher
  <1>5. ASSUME NEW n \in Request, Drain(n) \/ Writer(n) \/ ClientStep(n)
        PROVE  UNCHANGED Service!vars
    <2>1. UNCHANGED <<sent, sess, pc>>
      BY <1>5 DEF Drain, Writer, ClientStep, DrainRead, DrainEnd, WriteChunk, WriterExit,
                  ClientOpen, ClientRead, ClientClose, ClientLeave, clientVars
    <2> QED BY <2>1, SameStatus
  <1>6. ASSUME NEW n \in Request, Handler(n) \/ ExecutorEnd(n)
        PROVE  [Service!Next]_(Service!vars)
    <2>0. UNCHANGED <<sent, sess>>
      BY <1>6 DEF Handler, Enter, LeaveWait, MarkDead, StartDrain, WriterGone, KillWriter,
                  ReapDrain, Run, ExecutorEnd, Publish, RecordWriter, Exit, clientVars
    <2>1. CASE (Enter(n) \/ LeaveWait(n)) /\ pc'[n] = "run"
      <3>1. /\ pc[n] \in Waiting /\ pc' = [pc EXCEPT ![n] = "run"]
            /\ prev[n] = 0 \/ Resolved(prev[n])
        BY <2>1 DEF Enter, LeaveWait, Goto, Resolved, Waiting, IInv, TypeOK
      <3> QED BY <1>0, <2>0, <3>1, TurnIsStart DEF Service!Next
    <2>2. CASE (Enter(n) \/ LeaveWait(n)) /\ pc'[n] # "run"
      <3>1. \A m \in Request : pc'[m] = pc[m] \/ {pc[m], pc'[m]} \subseteq Waiting \cup {"none"}
        BY <2>2 DEF Enter, LeaveWait, Goto, Waiting, IInv, TypeOK
      <3> QED BY <2>0, <3>1, SameStatus
    <2>3. CASE \/ MarkDead(n) \/ StartDrain(n) \/ WriterGone(n) \/ KillWriter(n) \/ ReapDrain(n)
      <3>1. \A m \in Request : pc'[m] = pc[m] \/ {pc[m], pc'[m]} \subseteq Waiting \cup {"none"}
        BY <2>3, ZenonT(40) DEF MarkDead, StartDrain, WriterGone, KillWriter, ReapDrain, Goto, Waiting,
                    IInv, TypeOK
      <3> QED BY <2>0, <3>1, SameStatus
    <2>4. CASE Run(n) \/ ExecutorEnd(n) \/ Publish(n) \/ RecordWriter(n)
      <3>1. exec[n] = "running" => pc[n] = "exec"
        BY DEF IInv, Procs
      <3>2. \A m \in Request : m # n => pc'[m] = pc[m]
        BY <2>4 DEF Run, ExecutorEnd, Publish, RecordWriter, Goto, IInv, TypeOK
      <3>4. {pc[n], pc'[n]} \subseteq Past \ {"exited"}
        BY <2>4, <3>1 DEF Run, ExecutorEnd, Publish, RecordWriter, Goto, Waiting, Past,
                          HandlerState, IInv, TypeOK
      <3> QED BY <2>0, <3>2, <3>4, SameStatus
    <2>5. CASE Exit(n)
      <3>1. pc[n] = "await" /\ pc' = [pc EXCEPT ![n] = "exited"]
        BY <2>5 DEF Exit, Goto
      <3>2. n <= sent
        BY <3>1, HandlerIsSent
      <3>3. Status(n) = "active"
        BY <3>1, <3>2, StatusIs DEF Past, Waiting, HandlerState
      <3>4. [k \in Request |-> Status(k)]'
               = [[k \in Request |-> Status(k)] EXCEPT ![n] = "served"]
        BY <2>0, <3>1, <3>2, OneStatusMoves DEF HandlerState
      <3> QED BY <1>0, <2>0, <3>3, <3>4 DEF Service!Next, Service!Serve, Request
    <2> QED BY <1>6, <2>1, <2>2, <2>3, <2>4, <2>5 DEF Handler
  <1> QED BY <1>0, <1>1, <1>2, <1>3, <1>4, <1>5, <1>6 DEF Next, Service!Next

(***************************************************************************)
(* While no handler is killed, the forked handlers, their marker files and *)
(* their FIFOs implement SessionService: requests of one session are       *)
(* started in arrival order, one at a time.                                *)
(***************************************************************************)
THEOREM ServiceImplemented ==
    ASSUME MaxKills = 0
    PROVE  Spec => ServesSessionsInOrder
  <1>1. Init => IInv /\ Service!Init
    <2>1. ASSUME Init PROVE Service!Init
      BY <2>1 DEF Init, Service!Init, Status, Request, Service!Request
    <2> QED BY <2>1, InitIInv
  <1>2. IInv /\ [Next]_vars => IInv'
    BY NextIInv
  <1>3. IInv /\ IInv' /\ [Next]_vars => [Service!Next]_(Service!vars)
    BY NextServes
  <1> QED BY <1>1, <1>2, <1>3, PTL DEF Spec, ServesSessionsInOrder, Service!Spec

=============================================================================
