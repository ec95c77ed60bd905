-------------------------- MODULE ParallelSession --------------------------
(***************************************************************************)
(* The command-line server that common/build_api_services.py generates for *)
(* an endpoint whose schema says "ParallelBySession": a dispatcher that    *)
(* reads the exec FIFO for its whole life and forks one handler for each   *)
(* command, handlers chained per SESSION_ID through directories of marker  *)
(* files, the executor and the result writer every handler starts, the     *)
(* `timeout 2 cat` a successor drains a stale result with, and the clients *)
(* that write commands and read (or never read) results.                   *)
(*                                                                         *)
(* Request n is the n-th command written to exec: the FIFO keeps the order *)
(* of atomic writes and the dispatcher numbers commands as it reads them.  *)
(***************************************************************************)
EXTENDS Naturals, Sequences, NamedPipe

CONSTANTS
    Session,      \* the values of SESSION_ID
    MaxRequests,  \* bound: commands the clients write
    MaxKills,     \* bound: handlers killed from outside (0: none ever is)
    PruneEvery,   \* 64 in the code
    Chunks,       \* bound: writes a result takes
    PipeCapacity, \* bound: chunks the kernel buffers
    KeepAlive,    \* bound: which commands carry API_KEEP_ALIVE_CHECK, of BOOLEAN
    NoSession     \* marks a request not yet written

ASSUME ParallelAssumption ==
    /\ MaxRequests \in Nat \ {0}
    /\ MaxKills \in Nat
    /\ PruneEvery \in Nat \ {0}
    /\ Chunks \in Nat \ {0}
    /\ PipeCapacity \in Nat \ {0}
    /\ KeepAlive \subseteq BOOLEAN
    /\ NoSession \notin Session

Request == 1 .. MaxRequests

\* The processes that open a result FIFO on behalf of request n.
ResultWriter(n) == <<"writer", n>>
Drainer(n)      == <<"drainer", n>>
Client(n)       == <<"client", n>>
ResultWriters == {ResultWriter(n) : n \in Request}
Readers == {Drainer(n) : n \in Request} \cup {Client(n) : n \in Request}

VARIABLES
    sent,       \* commands written to exec
    sess, keep, \* per request: SESSION_ID, and whether API_KEEP_ALIVE_CHECK is given
    dispatched, \* REQUEST_NUM
    dpc,        \* what the dispatcher does next
    made,       \* sessions in pipe_result_array: their result FIFO exists
    latest,     \* PARALLEL_REQUEST_STATE, 0 where the entry is unset
    prev,       \* previous_state of each handler, 0 when empty
    dir, done, handlerPid, ready,  \* request directories and the markers in them
    pc,         \* where each handler is
    exec,       \* the executor process of each request
    left,       \* chunks its result writer has still to write
    pipe,       \* the result FIFO of each session
    client, got,\* where each client is and what it has read
    kills

serverVars == <<dispatched, dpc, made, latest, prev>>
fileVars   == <<dir, done, handlerPid, ready>>
clientVars == <<sent, sess, keep, client, got>>
vars == <<serverVars, fileVars, clientVars, pc, exec, left, pipe, kills>>

-----------------------------------------------------------------------------
HandlerState == {"none", "entry", "wait", "drain", "reap", "run", "exec",
                 "publish", "record", "await", "exited"}
Waiting == {"entry", "wait", "drain", "reap"}
Past    == HandlerState \ (Waiting \cup {"none"})

Pipe(n) == pipe[sess[n]]
WriterAlive(n) == sess[n] \in Session /\ ResultWriter(n) \in Pipe(n).wr
\* kill -0 on handler.pid: no such process any more.
HandlerDead(n) == pc[n] = "exited"
SetPipe(n, p) == pipe' = [pipe EXCEPT ![sess[n]] = p]
Goto(n, l) == pc' = [pc EXCEPT ![n] = l]

TypeOK ==
    /\ sent \in 0 .. MaxRequests
    /\ sess \in [Request -> Session \cup {NoSession}]
    /\ keep \in [Request -> BOOLEAN]
    /\ dispatched \in 0 .. MaxRequests
    /\ dpc \in {"read", "spawn", "pid"}
    /\ made \subseteq Session
    /\ latest \in [Session -> 0 .. MaxRequests]
    /\ prev \in [Request -> 0 .. MaxRequests]
    /\ dir \subseteq Request /\ done \subseteq Request
    /\ handlerPid \subseteq Request /\ ready \subseteq Request
    /\ pc \in [Request -> HandlerState]
    /\ exec \in [Request -> {"none", "running", "ended"}]
    /\ left \in [Request -> 0 .. Chunks]
    /\ pipe \in [Session -> PipeType(Request, ResultWriters, Readers)]
    /\ client \in [Request -> {"none", "sent", "reading", "gone"}]
    /\ got \in [Request -> Seq(Request)]
    /\ kills \in 0 .. MaxKills

Init ==
    /\ sent = 0
    /\ sess = [n \in Request |-> NoSession]
    /\ keep = [n \in Request |-> FALSE]
    /\ dispatched = 0 /\ dpc = "read"
    /\ made \in {{}} \cup {{s} : s \in Session}  \* the main result FIFO always exists
    /\ latest = [s \in Session |-> 0]
    /\ prev = [n \in Request |-> 0]
    /\ dir = {} /\ done = {} /\ handlerPid = {} /\ ready = {}
    /\ pc = [n \in Request |-> "none"]
    /\ exec = [n \in Request |-> "none"]
    /\ left = [n \in Request |-> 0]
    /\ pipe = [s \in Session |-> EmptyPipe]
    /\ client = [n \in Request |-> "none"]
    /\ got = [n \in Request |-> <<>>]
    /\ kills = 0

-----------------------------------------------------------------------------
(* Clients (api_fs_query.py: execute, then wait_result).                   *)

Send(s, k) ==
    LET n == sent + 1
    IN  /\ sent < MaxRequests
        /\ sent' = n
        /\ sess' = [sess EXCEPT ![n] = s]
        /\ keep' = [keep EXCEPT ![n] = k]
        /\ client' = [client EXCEPT ![n] = "sent"]
        /\ UNCHANGED <<serverVars, fileVars, got, pc, exec, left, pipe, kills>>

\* The client waits for its session's FIFO to exist, then opens it.
ClientOpen(n) ==
    /\ client[n] = "sent"
    /\ sess[n] \in made
    /\ client' = [client EXCEPT ![n] = "reading"]
    /\ SetPipe(n, OpenForRead(Pipe(n), Client(n)))
    /\ UNCHANGED <<serverVars, fileVars, sent, sess, keep, got, pc, exec, left, kills>>

ClientRead(n) ==
    /\ client[n] = "reading"
    /\ CanRead(Pipe(n), Client(n))
    /\ got' = [got EXCEPT ![n] = Append(@, Head(Pipe(n).buf))]
    /\ SetPipe(n, Consume(Pipe(n)))
    /\ UNCHANGED <<serverVars, fileVars, sent, sess, keep, client, pc, exec, left, kills>>

ClientClose(n) ==
    /\ client[n] = "reading"
    /\ AtEOF(Pipe(n), Client(n))
    /\ client' = [client EXCEPT ![n] = "gone"]
    /\ SetPipe(n, Close(Pipe(n), Client(n)))
    /\ UNCHANGED <<serverVars, fileVars, sent, sess, keep, got, pc, exec, left, kills>>

\* A reader times out or dies. One that gives up before it opens the FIFO is one
\* that never takes ClientOpen.
ClientLeave(n) ==
    /\ client[n] = "reading"
    /\ client' = [client EXCEPT ![n] = "gone"]
    /\ SetPipe(n, Close(Pipe(n), Client(n)))
    /\ UNCHANGED <<serverVars, fileVars, sent, sess, keep, got, pc, exec, left, kills>>

-----------------------------------------------------------------------------
(* The dispatcher.                                                         *)

Resolved(m) == m \notin dir \/ m \in done
\* parallel_remove_request_state, for every state of the set at once: a waiter
\* that sees the directory without its markers only polls again.
RemoveStates(S) ==
    /\ dir' = dir \ S
    /\ done' = done \ S
    /\ handlerPid' = handlerPid \ S
    /\ ready' = ready \ S

\* Mutant: prunes an entry whose request may still be running.
PrunableUnchecked == {s \in Session : latest[s] # 0}

Prunable == {s \in Session : latest[s] # 0 /\ Resolved(latest[s])}

\* parallel_prune_finished_requests, on every PruneEvery-th command.
PruneDue == (dispatched + 1) % PruneEvery = 0
Prune ==
    /\ RemoveStates({latest[s] : s \in Prunable})
    /\ latest' = [s \in Session |-> IF s \in Prunable THEN 0 ELSE latest[s]]

\* Reads a command and makes the session's FIFO if it is new.
Receive ==
    /\ dpc = "read"
    /\ dispatched < sent
    /\ made' = made \cup {sess[dispatched + 1]}
    /\ IF PruneDue THEN Prune ELSE UNCHANGED <<fileVars, latest>>
    /\ dpc' = "spawn"
    /\ UNCHANGED <<dispatched, prev, clientVars, pc, exec, left, pipe, kills>>

\* Mutant: the map is not advanced, so requests 2 and 3 both wait for 1 only.
SpawnMapNotAdvanced ==
    LET n == dispatched + 1
    IN  /\ dpc = "spawn"
        /\ dir' = dir \cup {n}
        /\ prev' = [prev EXCEPT ![n] = latest[sess[n]]]
        /\ latest' = [latest EXCEPT ![sess[n]] = IF @ = 0 THEN n ELSE @]
        /\ Goto(n, "entry")
        /\ dpc' = "pid"
        /\ UNCHANGED <<dispatched, made, done, handlerPid, ready, clientVars,
                       exec, left, pipe, kills>>

\* mktemp -d, the map entry, and the handler forked in the background.
Spawn ==
    LET n == dispatched + 1
    IN  /\ dpc = "spawn"
        /\ dir' = dir \cup {n}
        /\ prev' = [prev EXCEPT ![n] = latest[sess[n]]]
        /\ latest' = [latest EXCEPT ![sess[n]] = n]
        /\ Goto(n, "entry")
        /\ dpc' = "pid"
        /\ UNCHANGED <<dispatched, made, done, handlerPid, ready, clientVars,
                       exec, left, pipe, kills>>

\* handler.pid is written only after the handler is already running.
RecordHandler ==
    /\ dpc = "pid"
    /\ dispatched' = dispatched + 1
    /\ handlerPid' = handlerPid \cup ({dispatched + 1} \cap dir)
    /\ dpc' = "read"
    /\ UNCHANGED <<made, latest, prev, dir, done, ready, clientVars, pc, exec, left,
                   pipe, kills>>

Dispatcher == Receive \/ Spawn \/ RecordHandler

-----------------------------------------------------------------------------
(* A handler waiting for its predecessor:                                  *)
(* parallel_wait_for_previous_request.                                     *)

Enter(n) ==
    /\ pc[n] = "entry"
    /\ Goto(n, IF prev[n] = 0 \/ prev[n] \notin dir THEN "run" ELSE "wait")
    /\ UNCHANGED <<serverVars, fileVars, clientVars, exec, left, pipe, kills>>

\* The loop ends: the predecessor is done, or its directory was pruned.
LeaveWait(n) ==
    /\ pc[n] = "wait"
    /\ Resolved(prev[n])
    /\ RemoveStates({prev[n]})
    /\ Goto(n, "run")
    /\ UNCHANGED <<serverVars, clientVars, exec, left, pipe, kills>>

\* Mutant: kill -0 on the predecessor's handler is never tried.
MarkDeadDropped(n) == FALSE /\ UNCHANGED vars

\* The predecessor's handler died without its EXIT trap: touch done for it.
MarkDead(n) ==
    /\ pc[n] = "wait"
    /\ ~Resolved(prev[n])
    /\ prev[n] \in handlerPid /\ HandlerDead(prev[n])
    /\ done' = done \cup {prev[n]}
    /\ UNCHANGED <<serverVars, dir, handlerPid, ready, clientVars, pc, exec, left,
                   pipe, kills>>

\* The predecessor's result is unread: start `timeout 2 cat` on the FIFO.
StartDrain(n) ==
    /\ pc[n] = "wait"
    /\ ~Resolved(prev[n])
    /\ ~(prev[n] \in handlerPid /\ HandlerDead(prev[n]))
    /\ prev[n] \in ready /\ WriterAlive(prev[n])
    /\ SetPipe(n, OpenForRead(Pipe(n), Drainer(n)))
    /\ Goto(n, "drain")
    /\ UNCHANGED <<serverVars, fileVars, clientVars, exec, left, kills>>

\* The writer has gone, or the 40 polls are over and it is killed.
WriterGone(n) ==
    /\ pc[n] = "drain"
    /\ ~WriterAlive(prev[n])
    /\ Goto(n, "reap")
    /\ UNCHANGED <<serverVars, fileVars, clientVars, exec, left, pipe, kills>>

KillWriter(n) ==
    /\ pc[n] = "drain"
    /\ WriterAlive(prev[n])
    /\ SetPipe(n, Close(Pipe(n), ResultWriter(prev[n])))
    /\ Goto(n, "reap")
    /\ UNCHANGED <<serverVars, fileVars, clientVars, exec, left, kills>>

Draining(n) == sess[n] \in Session /\ Drainer(n) \in Pipe(n).rd

\* Mutant: the loop goes on without waiting for the cat.
ReapDrainNoWait(n) ==
    /\ pc[n] = "reap"
    /\ Goto(n, "wait")
    /\ UNCHANGED <<serverVars, fileVars, clientVars, exec, left, pipe, kills>>

\* wait "${drain_pid}", and round the loop again.
ReapDrain(n) ==
    /\ pc[n] = "reap"
    /\ ~Draining(n)
    /\ Goto(n, "wait")
    /\ UNCHANGED <<serverVars, fileVars, clientVars, exec, left, pipe, kills>>

\* The cat process: reads and discards, ends at end of file or after 2 seconds.
DrainRead(n) ==
    /\ Draining(n) /\ CanRead(Pipe(n), Drainer(n))
    /\ SetPipe(n, Consume(Pipe(n)))
    /\ UNCHANGED <<serverVars, fileVars, clientVars, pc, exec, left, kills>>

DrainEnd(n) ==
    /\ Draining(n)
    /\ SetPipe(n, Close(Pipe(n), Drainer(n)))
    /\ UNCHANGED <<serverVars, fileVars, clientVars, pc, exec, left, kills>>

-----------------------------------------------------------------------------
(* A handler past the wait: parallel_session_request.                      *)

\* The keep-alive value is answered without the executor.
Run(n) ==
    /\ pc[n] = "run"
    /\ Goto(n, IF keep[n] THEN "publish" ELSE "exec")
    /\ exec' = [exec EXCEPT ![n] = IF keep[n] THEN @ ELSE "running"]
    /\ UNCHANGED <<serverVars, fileVars, clientVars, left, pipe, kills>>

\* The executor exits; its handler, if it still lives, has the output.
ExecutorEnd(n) ==
    /\ exec[n] = "running"
    /\ exec' = [exec EXCEPT ![n] = "ended"]
    /\ Goto(n, IF pc[n] = "exec" THEN "publish" ELSE pc[n])
    /\ UNCHANGED <<serverVars, fileVars, clientVars, left, pipe, kills>>

\* base64 -d > result FIFO, in the background.
Publish(n) ==
    /\ pc[n] = "publish"
    /\ left' = [left EXCEPT ![n] = Chunks]
    /\ SetPipe(n, OpenForWrite(Pipe(n), ResultWriter(n)))
    /\ Goto(n, "record")
    /\ UNCHANGED <<serverVars, fileVars, clientVars, exec, kills>>

\* result_writer.pid, then result_ready.
RecordWriter(n) ==
    /\ pc[n] = "record"
    /\ ready' = ready \cup ({n} \cap dir)
    /\ Goto(n, "await")
    /\ UNCHANGED <<serverVars, dir, done, handlerPid, clientVars, exec, left, pipe, kills>>

\* Mutant: the handler does not wait for its result writer.
ExitNoWait(n) ==
    /\ pc[n] = "await"
    /\ done' = done \cup ({n} \cap dir)
    /\ Goto(n, "exited")
    /\ UNCHANGED <<serverVars, dir, handlerPid, ready, clientVars, exec, left, pipe, kills>>

\* wait "${result_writer_pid}" returns (CONSUMED or RESET); the EXIT trap runs.
Exit(n) ==
    /\ pc[n] = "await"
    /\ ~WriterAlive(n)
    /\ done' = done \cup ({n} \cap dir)
    /\ Goto(n, "exited")
    /\ UNCHANGED <<serverVars, dir, handlerPid, ready, clientVars, exec, left, pipe, kills>>

\* Mutant: one write too many.
WriteChunkTooMany(n) ==
    /\ WriterAlive(n)
    /\ CanWrite(Pipe(n), ResultWriter(n), PipeCapacity)
    /\ SetPipe(n, Write(Pipe(n), n))
    /\ left' = [left EXCEPT ![n] = @ - 1]
    /\ UNCHANGED <<serverVars, fileVars, clientVars, pc, exec, kills>>

WriteChunk(n) ==
    /\ left[n] > 0
    /\ CanWrite(Pipe(n), ResultWriter(n), PipeCapacity)
    /\ SetPipe(n, Write(Pipe(n), n))
    /\ left' = [left EXCEPT ![n] = @ - 1]
    /\ UNCHANGED <<serverVars, fileVars, clientVars, pc, exec, kills>>

\* The writer closes after its last chunk, or dies of SIGPIPE.
WriterExit(n) ==
    /\ WriterAlive(n)
    /\ \/ left[n] = 0
       \/ IsBroken(Pipe(n), ResultWriter(n))
    /\ SetPipe(n, Close(Pipe(n), ResultWriter(n)))
    /\ UNCHANGED <<serverVars, fileVars, clientVars, pc, exec, left, kills>>

\* A handler is killed from outside. SIGTERM runs the EXIT trap, SIGKILL does
\* not; its executor, its writer and its cat are separate processes and live on.
Kill(n) ==
    /\ kills < MaxKills
    /\ pc[n] \notin {"none", "exited"}
    /\ kills' = kills + 1
    /\ Goto(n, "exited")
    /\ \E trapped \in BOOLEAN :
          done' = done \cup (IF trapped THEN {n} \cap dir ELSE {})
    /\ UNCHANGED <<serverVars, dir, handlerPid, ready, clientVars, exec, left, pipe>>

Handler(n) ==
    \/ Enter(n) \/ LeaveWait(n) \/ MarkDead(n) \/ StartDrain(n) \/ WriterGone(n)
    \/ KillWriter(n) \/ ReapDrain(n)
    \/ Run(n) \/ Publish(n) \/ RecordWriter(n) \/ Exit(n)
Drain(n)  == DrainRead(n) \/ DrainEnd(n)
Writer(n) == WriteChunk(n) \/ WriterExit(n)
ClientStep(n) == ClientOpen(n) \/ ClientRead(n) \/ ClientClose(n) \/ ClientLeave(n)

Next ==
    \/ \E s \in Session, k \in KeepAlive : Send(s, k)
    \/ Dispatcher
    \/ \E n \in Request :
          \/ Handler(n) \/ ExecutorEnd(n) \/ Drain(n) \/ Writer(n)
          \/ ClientStep(n) \/ Kill(n)

Spec == Init /\ [][Next]_vars

(***************************************************************************)
(* The dispatcher, handlers, cat and writer processes run on their own;    *)
(* an executor is assumed to end. Nothing is assumed of the clients, which *)
(* may never read and never leave.                                         *)
(***************************************************************************)
Fairness ==
    /\ WF_vars(Dispatcher)
    /\ \A n \in Request :
          WF_vars(Handler(n)) /\ WF_vars(ExecutorEnd(n))
          /\ WF_vars(DrainEnd(n)) /\ WF_vars(Writer(n))

FairSpec == Spec /\ Fairness

-----------------------------------------------------------------------------
SameSession(m, n) == sess[m] = sess[n]
\* n's predecessors in arrival order.
Earlier(m, n) == m < n /\ SameSession(m, n)

\* The executor has ended (or was never needed) and the result writer is gone.
Settled(m) == pc[m] = "exited" /\ exec[m] # "running" /\ ~WriterAlive(m)

(***************************************************************************)
(* "A successor for a session must not start until its predecessor has     *)
(* finished execution and its result-publication lifecycle has been        *)
(* resolved": once a handler is past the wait, every earlier request of    *)
(* its session, not only its immediate predecessor, has settled, whatever  *)
(* was pruned in between.                                                  *)
(***************************************************************************)
SuccessorWaits ==
    \A m, n \in Request : Earlier(m, n) /\ pc[n] \in Past => Settled(m)

(***************************************************************************)
(* The cat that discards a stale result can never take a chunk of the      *)
(* request that started it or of a later one: while it holds the FIFO open *)
(* the FIFO has no other content and no other writer.                      *)
(***************************************************************************)
DrainTakesOnlyStaleResults ==
    \A n \in Request : Draining(n) =>
        /\ \A i \in DOMAIN Pipe(n).buf : Pipe(n).buf[i] < n
        /\ \A m \in Request : ResultWriter(m) \in Pipe(n).wr => m < n

(***************************************************************************)
(* What one reader gets is never two results interleaved, and never an     *)
(* older result after a newer one: its chunks come in request order.       *)
(***************************************************************************)
ResultsNeverInterleave ==
    \A n \in Request : \A i, j \in DOMAIN got[n] : i <= j => got[n][i] <= got[n][j]

(***************************************************************************)
(* A command in exec is always executed in the end, though no client ever  *)
(* reads any result: an abandoned result cannot block its session.         *)
(***************************************************************************)
EveryCommandRuns ==
    \A n \in Request : (n <= sent) ~> (pc[n] \in Past)

(***************************************************************************)
(* What a client can see of the above: each request is accepted, waits for *)
(* its turn in its session, is active (executed and published) alone in    *)
(* its session, and is then over. Holds of the server while no handler is  *)
(* killed.                                                                 *)
(***************************************************************************)
Status(n) ==
    CASE n > sent                               -> "unsent"
      [] n <= sent /\ pc[n] \in Waiting \cup {"none"} -> "queued"
      [] n <= sent /\ pc[n] \in Past \ {"exited"}     -> "active"
      [] n <= sent /\ pc[n] = "exited"                -> "served"

Service == INSTANCE SessionService
           WITH accepted <- sent, owner <- sess,
                status <- [n \in Request |-> Status(n)]

\* The chain of handlers implements a first-come first-served session queue.
ServesSessionsInOrder == Service!Spec

(***************************************************************************)
(* "Same-session result routing ... remain deterministic": each client     *)
(* gets the result of its own request, and nothing else.                   *)
(***************************************************************************)
ClientGetsOwnResult ==
    \A n \in Request : \A i \in DOMAIN got[n] : got[n][i] = n

(***************************************************************************)
(* "Requests with the same SESSION_ID execute strictly in arrival order":  *)
(* no two executors of one session run at the same time.                   *)
(***************************************************************************)
ExecutorsNeverOverlap ==
    \A m, n \in Request :
        Earlier(m, n) => ~(exec[m] = "running" /\ exec[n] = "running")
=============================================================================
