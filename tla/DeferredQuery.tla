---------------------------- MODULE DeferredQuery ----------------------------
(***************************************************************************)
(* Deferred queries (uploads and bulk ingestion): the short-lived launcher *)
(* that an endpoint's server runs for each command                         *)
(* (common/deferred_query_launcher.py), the detached executor that owns    *)
(* the request from then on (common/deferred_query_executor.py), the       *)
(* processor it supervises, the client that reads the deferred result, and *)
(* the shutdown of the service (common/api_management.py).                 *)
(*                                                                         *)
(* An attempt is one run of the launcher.  The servers of the deferred     *)
(* endpoints are serial: they run one launcher at a time and know nothing  *)
(* of the executors launchers leave behind.  What keeps the executors of a *)
(* session apart is the directory .deferred-session-<id>, its lock.        *)
(***************************************************************************)
EXTENDS Naturals

CONSTANTS
    Session,      \* the values of SESSION_ID
    MaxAttempts,  \* bound: launchers the clients cause to run
    MaxResult,    \* MAX_RESULT_BYTES, in units of output
    ChunkSize,    \* CHUNK_SIZE, in the same units
    NoSession     \* marks an attempt not yet made

ASSUME DeferredAssumption ==
    /\ MaxAttempts \in Nat /\ MaxResult \in Nat \ {0} /\ ChunkSize \in Nat \ {0}
    /\ NoSession \notin Session

Attempt == 1 .. MaxAttempts

VARIABLES
    asked, owner, \* launchers started so far, and the SESSION_ID of each
    lpc, answer,  \* where each launcher is, and what it answered the client
    locks,        \* sessions whose lock directory exists
    dirs,         \* attempts whose request directory exists
    registered,   \* request directories with executor.json in them
    fifos,        \* request directories with the input and result FIFOs in them
    epc,          \* where each executor is
    reported,     \* executors whose readiness report is in the launcher's pipe
    stopping,     \* executors that have caught SIGTERM
    processor,    \* the processor of each executor, as its handle sees it
    captured,     \* output run_processor has stored
    reader,       \* the client's reader of async_result
    shut, owners  \* shutdown progress, and the executors it has signalled

launcherVars == <<asked, owner, lpc, answer>>
fileVars == <<locks, dirs, registered, fifos>>
executorVars == <<epc, reported, stopping, processor, captured>>
shutVars == <<shut, owners>>
vars == <<launcherVars, fileVars, executorVars, reader, shutVars>>

-----------------------------------------------------------------------------
Idle == {"none", "done"}
Alive(a) == epc[a] \notin {"none", "gone"}
SameSession(a, b) == owner[a] = owner[b]

\* The shutdown has come to the endpoint's directory; at last it is gone, or some of it
\* is left.
Sweeping == {"reaped", "removed", "left"}

TypeOK ==
    /\ asked \in 0 .. MaxAttempts
    /\ owner \in [Attempt -> Session \cup {NoSession}]
    /\ lpc \in [Attempt -> {"none", "lock", "mkdtemp", "popen", "readiness", "rmtree",
                            "unlock", "done"}]
    /\ answer \in [Attempt -> {"none", "rejected", "error", "failed", "handshake"}]
    /\ locks \subseteq Session
    /\ dirs \subseteq Attempt /\ registered \subseteq dirs /\ fifos \subseteq dirs
    /\ epc \in [Attempt -> {"none", "start", "prepare", "report", "popen", "read", "publish",
                            "stream", "rmtree", "unlock", "gone"}]
    /\ reported \subseteq Attempt /\ stopping \subseteq Attempt
    /\ processor \in [Attempt -> {"none", "running", "ended", "timeout"}]
    /\ captured \in [Attempt -> 0 .. MaxResult]
    /\ reader \in [Attempt -> {"none", "opening", "reading", "ended"}]
    /\ shut \in {"up", "signalled", "closed", "killed"} \cup Sweeping
    /\ owners \subseteq Attempt

Init ==
    /\ asked = 0 /\ owner = [a \in Attempt |-> NoSession]
    /\ lpc = [a \in Attempt |-> "none"] /\ answer = [a \in Attempt |-> "none"]
    /\ locks = {} /\ dirs = {} /\ registered = {} /\ fifos = {}
    /\ epc = [a \in Attempt |-> "none"]
    /\ reported = {} /\ stopping = {}
    /\ processor = [a \in Attempt |-> "none"]
    /\ captured = [a \in Attempt |-> 0]
    /\ reader = [a \in Attempt |-> "none"]
    /\ shut = "up" /\ owners = {}

LGoto(a, l) == lpc' = [lpc EXCEPT ![a] = l]
EGoto(a, l) == epc' = [epc EXCEPT ![a] = l]
Answer(a, r) == LGoto(a, "done") /\ answer' = [answer EXCEPT ![a] = r]

\* shutil.rmtree of the request directories of a set of attempts.
RemoveDirs(S) ==
    /\ dirs' = dirs \ S
    /\ registered' = registered \ S
    /\ fifos' = fifos \ S

-----------------------------------------------------------------------------
(* The launcher.                                                           *)

\* The serial server takes the next command; the arguments are valid.
Launch(s) ==
    LET a == asked + 1
    IN  /\ shut \in {"up", "signalled"}
        /\ asked < MaxAttempts
        /\ \A b \in Attempt : lpc[b] \in Idle
        /\ asked' = a
        /\ owner' = [owner EXCEPT ![a] = s]
        /\ LGoto(a, "lock")
        /\ UNCHANGED <<answer, fileVars, executorVars, reader, shutVars>>

\* Mutant: mkdir(exist_ok=True).
TakeLockExistOk(a) ==
    /\ lpc[a] = "lock"
    /\ locks' = locks \cup {owner[a]}
    /\ LGoto(a, "mkdtemp")
    /\ UNCHANGED <<asked, owner, answer, dirs, registered, fifos, executorVars, reader,
                   shutVars>>

\* session_lock.mkdir() is atomic and refuses an existing lock; it fails when the
\* endpoint's directory is gone.
TakeLock(a) ==
    /\ lpc[a] = "lock"
    /\ \/ owner[a] \in locks /\ Answer(a, "rejected") /\ UNCHANGED locks
       \/ shut = "removed" /\ Answer(a, "error") /\ UNCHANGED locks
       \/ /\ owner[a] \notin locks /\ shut # "removed"
          /\ LGoto(a, "mkdtemp") /\ locks' = locks \cup {owner[a]} /\ UNCHANGED answer
    /\ UNCHANGED <<asked, owner, dirs, registered, fifos, executorVars, reader, shutVars>>

\* tempfile.mkdtemp; its failure is outside the try block and leaks the lock.
Allocate(a) ==
    /\ lpc[a] = "mkdtemp"
    /\ \/ shut # "removed" /\ LGoto(a, "popen") /\ dirs' = dirs \cup {a} /\ UNCHANGED answer
       \/ Answer(a, "error") /\ UNCHANGED dirs
    /\ UNCHANGED <<asked, owner, locks, registered, fifos, executorVars, reader, shutVars>>

\* subprocess.Popen of the executor, in a session of its own.
StartExecutor(a) ==
    /\ lpc[a] = "popen"
    /\ \/ LGoto(a, "readiness") /\ EGoto(a, "start")
       \/ LGoto(a, "rmtree") /\ UNCHANGED epc
    /\ UNCHANGED <<asked, owner, answer, fileVars, reported, stopping, processor,
                   captured, reader, shutVars>>

\* The report arrived. It is answered if the executor still runs and the FIFOs
\* are there; otherwise the executor is sent SIGTERM, which it may outlive.
Handshake(a) ==
    /\ lpc[a] = "readiness" /\ a \in reported
    /\ reported' = reported \ {a}
    /\ IF Alive(a) /\ a \in fifos
         THEN Answer(a, "handshake") /\ UNCHANGED stopping
         ELSE LGoto(a, "rmtree") /\ stopping' = stopping \cup {a} /\ UNCHANGED answer
    /\ UNCHANGED <<asked, owner, fileVars, epc, processor, captured, reader, shutVars>>

\* read_readiness gives up after 5 seconds, or at end of file: the executor is
\* neither signalled nor waited for.
ReadinessFails(a) ==
    /\ lpc[a] = "readiness" /\ a \notin reported
    /\ LGoto(a, "rmtree")
    /\ UNCHANGED <<asked, owner, answer, fileVars, executorVars, reader, shutVars>>

\* rmtree(ignore_errors=True): an executor that is still creating files in the
\* directory can make its removal fail.
FailRmtree(a) ==
    /\ lpc[a] = "rmtree"
    /\ \/ RemoveDirs({a})
       \/ /\ epc[a] \in {"start", "prepare", "popen"}
          /\ registered' = registered \ {a} /\ fifos' = fifos \ {a} /\ UNCHANGED dirs
    /\ LGoto(a, "unlock")
    /\ UNCHANGED <<asked, owner, answer, locks, executorVars, reader, shutVars>>

FailUnlock(a) ==
    /\ lpc[a] = "unlock"
    /\ locks' = locks \ {owner[a]}
    /\ Answer(a, "failed")
    /\ reported' = reported \ {a}
    /\ UNCHANGED <<asked, owner, dirs, registered, fifos, epc, stopping, processor, captured,
                   reader, shutVars>>

Launcher(a) ==
    \/ TakeLock(a) \/ Allocate(a) \/ StartExecutor(a) \/ Handshake(a) \/ ReadinessFails(a)
    \/ FailRmtree(a) \/ FailUnlock(a)

-----------------------------------------------------------------------------
(* The executor.  "rmtree" begins its finally block.                       *)

\* executor.json is written; the write fails when the directory is gone.
Register(a) ==
    /\ epc[a] = "start"
    /\ registered' = registered \cup ({a} \cap dirs)
    /\ EGoto(a, IF a \in dirs THEN "prepare" ELSE "rmtree")
    /\ UNCHANGED <<launcherVars, locks, dirs, fifos, reported, stopping, processor,
                   captured, reader, shutVars>>

\* The processor creates its channel and mkfifo adds async_result.
PrepareChannel(a) ==
    /\ epc[a] = "prepare"
    /\ \/ a \in dirs /\ fifos' = fifos \cup {a} /\ EGoto(a, "report")
       \/ UNCHANGED fifos /\ EGoto(a, "rmtree")
    /\ UNCHANGED <<launcherVars, locks, dirs, registered, reported, stopping, processor,
                   captured, reader, shutVars>>

\* os.write on the readiness pipe: EPIPE once the launcher has exited.
Report(a) ==
    /\ epc[a] = "report"
    /\ IF lpc[a] # "done"
         THEN reported' = reported \cup {a} /\ EGoto(a, "popen")
         ELSE UNCHANGED reported /\ EGoto(a, "rmtree")
    /\ UNCHANGED <<launcherVars, fileVars, stopping, processor, captured, reader,
                   shutVars>>

\* run_processor returns: its processor is reaped and its handle dropped.
AfterRun(a, complete) ==
    /\ processor' = [processor EXCEPT ![a] = "none"]
    /\ captured' = [captured EXCEPT ![a] = 0]
    /\ EGoto(a, IF complete /\ a \notin stopping THEN "publish" ELSE "rmtree")

\* run_processor: the processor is started, then its result file is opened, which
\* fails when the directory is gone.
StartProcessor(a) ==
    /\ epc[a] = "popen"
    /\ LET opened == a \in dirs
       IN  /\ processor' = [processor EXCEPT ![a] = IF opened /\ a \in stopping
                                                    THEN "none" ELSE "running"]
           /\ EGoto(a, IF opened /\ a \notin stopping THEN "read" ELSE "rmtree")
    /\ UNCHANGED <<launcherVars, fileVars, reported, stopping, captured, reader, shutVars>>

\* The processor exits by itself, perhaps with the timeout exit code 124. It
\* bounds its own waits by the request's timeouts.
ProcessorEnds(a) ==
    /\ processor[a] = "running"
    /\ \E how \in {"ended", "timeout"} : processor' = [processor EXCEPT ![a] = how]
    /\ UNCHANGED <<launcherVars, fileVars, epc, reported, stopping, captured, reader, shutVars>>

\* Mutant: the chunk is stored whole.
ReadChunkUnbounded(a, n) ==
    LET available == MaxResult - captured[a]
    IN  /\ epc[a] = "read" /\ processor[a] = "running"
        /\ IF a \in stopping
             THEN AfterRun(a, TRUE)
             ELSE /\ captured' = [captured EXCEPT ![a] = @ + n]
                  /\ UNCHANGED <<processor, epc>>
        /\ UNCHANGED <<launcherVars, fileVars, reported, stopping, reader, shutVars>>

\* One read(CHUNK_SIZE) returns n units. It blocks until then, so SIGTERM is only
\* noticed afterwards; the processor is then terminated and reaped, as it is when
\* its output does not fit, which is noted in the request directory.
ReadChunk(a, n) ==
    LET available == MaxResult - captured[a]
    IN  /\ epc[a] = "read" /\ processor[a] = "running"
        /\ IF n > available \/ a \in stopping
             THEN AfterRun(a, a \in dirs)
             ELSE /\ captured' = [captured EXCEPT ![a] = @ + n]
                  /\ UNCHANGED <<processor, epc>>
        /\ UNCHANGED <<launcherVars, fileVars, reported, stopping, reader, shutVars>>

\* End of the processor's output.
ReadEnd(a) ==
    /\ epc[a] = "read" /\ processor[a] \in {"ended", "timeout"}
    /\ AfterRun(a, processor[a] = "ended")
    /\ UNCHANGED <<launcherVars, fileVars, reported, stopping, reader, shutVars>>

\* publish: a non-blocking open of async_result succeeds only while a reader has
\* it open.
PublishOpen(a) ==
    /\ epc[a] = "publish" /\ reader[a] = "opening" /\ a \in fifos
    /\ reader' = [reader EXCEPT ![a] = "reading"]
    /\ EGoto(a, "stream")
    /\ UNCHANGED <<launcherVars, fileVars, reported, stopping, processor, captured,
                   shutVars>>

\* WaitResultConsumptionTimeoutSec expires, or SIGTERM has been caught.
PublishExpires(a) ==
    /\ epc[a] = "publish"
    /\ EGoto(a, "rmtree")
    /\ UNCHANGED <<launcherVars, fileVars, reported, stopping, processor, captured,
                   reader, shutVars>>

\* The result is written, or the deadline passes, or the reader leaves: the
\* descriptor is closed and the reader sees end of file.
StreamEnds(a) ==
    /\ epc[a] = "stream"
    /\ reader' = [reader EXCEPT ![a] = "ended"]
    /\ EGoto(a, "rmtree")
    /\ UNCHANGED <<launcherVars, fileVars, reported, stopping, processor, captured,
                   shutVars>>

\* Mutant: the request directory is left behind.
FinishKeepsDirectory(a) ==
    /\ epc[a] = "rmtree"
    /\ EGoto(a, "unlock")
    /\ UNCHANGED <<launcherVars, fileVars, reported, stopping, processor, captured,
                   reader, shutVars>>

\* The finally block: a processor still running is terminated, then rmtree.
Finish(a) ==
    /\ epc[a] = "rmtree"
    /\ processor' = [processor EXCEPT ![a] = "none"]
    /\ RemoveDirs({a})
    /\ EGoto(a, "unlock")
    /\ UNCHANGED <<launcherVars, locks, reported, stopping, captured, reader, shutVars>>

\* rmdir of the lock path, whoever's lock it now is.
Unlock(a) ==
    /\ epc[a] = "unlock"
    /\ locks' = locks \ {owner[a]}
    /\ EGoto(a, "gone")
    /\ stopping' = stopping \ {a}
    /\ UNCHANGED <<launcherVars, dirs, registered, fifos, reported, processor, captured,
                   reader, shutVars>>

Executor(a) ==
    \/ Register(a) \/ PrepareChannel(a) \/ Report(a) \/ StartProcessor(a)
    \/ (\E n \in 1 .. ChunkSize : ReadChunk(a, n)) \/ ReadEnd(a)
    \/ PublishOpen(a) \/ PublishExpires(a) \/ StreamEnds(a) \/ Finish(a) \/ Unlock(a)

-----------------------------------------------------------------------------
(* The client that was given the handshake opens async_result, and blocks. *)

OpenResult(a) ==
    /\ answer[a] = "handshake" /\ reader[a] = "none" /\ a \in fifos
    /\ reader' = [reader EXCEPT ![a] = "opening"]
    /\ UNCHANGED <<launcherVars, fileVars, executorVars, shutVars>>

-----------------------------------------------------------------------------
(* Shutdown of the service: unblock_pipes_signal_handler.                  *)

\* signal_deferred_executors: executors registered below the mount point.
SignalExecutors ==
    /\ shut = "up"
    /\ shut' = "signalled"
    /\ owners' = {a \in registered : Alive(a)}
    /\ stopping' = stopping \cup owners'
    /\ UNCHANGED <<launcherVars, fileVars, epc, reported, processor, captured, reader>>

\* The exec FIFOs are removed: no new command is taken.
ClosePipes ==
    /\ shut = "signalled"
    /\ shut' = "closed"
    /\ UNCHANGED <<launcherVars, fileVars, executorVars, reader, owners>>

\* Mutant: the artifacts are removed at once, without escalating to SIGKILL.
KillOwnersSkipped ==
    /\ shut = "closed"
    /\ shut' = "killed"
    /\ UNCHANGED <<launcherVars, fileVars, executorVars, reader, owners>>

\* reap_deferred_executors: owners alive after 5 seconds are sent SIGKILL; a
\* reader of a killed executor's result sees end of file.
KillOwners ==
    /\ shut = "closed"
    /\ shut' = "killed"
    /\ epc' = [a \in Attempt |-> IF a \in owners /\ Alive(a) THEN "gone" ELSE epc[a]]
    /\ reader' = [a \in Attempt |-> IF a \in owners /\ reader[a] = "reading"
                                    THEN "ended" ELSE reader[a]]
    /\ UNCHANGED <<launcherVars, fileVars, reported, stopping, processor, captured,
                   owners>>

\* Then the directories and the locks of all of them are removed.
RemoveArtifacts ==
    /\ shut = "killed"
    /\ shut' = "reaped"
    /\ RemoveDirs(owners)
    /\ locks' = locks \ {owner[a] : a \in owners}
    /\ UNCHANGED <<launcherVars, executorVars, reader, owners>>

\* rmtree of the endpoint's directory, entry by entry: what is in it belongs to
\* launchers and executors that were not registered when the owners were signalled.
SweepRequest ==
    /\ shut = "reaped"
    /\ \E a \in dirs : RemoveDirs({a})
    /\ UNCHANGED <<launcherVars, locks, executorVars, reader, shutVars>>

SweepLock ==
    /\ shut = "reaped"
    /\ \E s \in locks : locks' = locks \ {s}
    /\ UNCHANGED <<launcherVars, dirs, registered, fifos, executorVars, reader, shutVars>>

\* An entry that one of them makes or removes meanwhile ends it, perhaps in the middle
\* of a request directory.
SweepFails ==
    /\ shut = "reaped"
    /\ \E a \in Attempt : lpc[a] \notin Idle \/ Alive(a)
    /\ shut' = "left"
    /\ \E S \in {{}} \cup {{a} : a \in dirs} :
          registered' = registered \ S /\ fifos' = fifos \ S
    /\ UNCHANGED <<launcherVars, locks, dirs, executorVars, reader, owners>>

SweepEnds ==
    /\ shut = "reaped" /\ dirs = {} /\ locks = {}
    /\ shut' = "removed"
    /\ UNCHANGED <<launcherVars, fileVars, executorVars, reader, owners>>

Sweep == SweepRequest \/ SweepLock \/ SweepFails \/ SweepEnds

Shutdown == SignalExecutors \/ ClosePipes \/ KillOwners \/ RemoveArtifacts \/ Sweep

Next ==
    \/ \E s \in Session : Launch(s)
    \/ \E a \in Attempt : Launcher(a) \/ Executor(a) \/ ProcessorEnds(a) \/ OpenResult(a)
    \/ Shutdown

Spec == Init /\ [][Next]_vars

(***************************************************************************)
(* Launchers and executors run on their own and bound every wait with a    *)
(* deadline; a processor is assumed to end (its upload timeouts bound it); *)
(* a shutdown that has begun goes on.  Nothing is assumed of clients.      *)
(***************************************************************************)
Fairness ==
    /\ \A a \in Attempt : WF_vars(Launcher(a)) /\ WF_vars(Executor(a)) /\ WF_vars(ProcessorEnds(a))
    /\ WF_vars(ClosePipes \/ KillOwners \/ RemoveArtifacts \/ Sweep)

FairSpec == Spec /\ Fairness

-----------------------------------------------------------------------------
\* The client was given the channels of an executor that still owns them.
Serving(a) == answer[a] = "handshake" /\ Alive(a) /\ epc[a] # "unlock"

\* An allocation of the session that was reported as failed.
FailedBefore(s) == \E a \in Attempt : owner[a] = s /\ answer[a] = "failed"

(***************************************************************************)
(* "Duplicate active sessions are rejected": two executors never serve one *)
(* session, whatever finishes, is rejected or is shut down in between - as *)
(* long as no allocation of the session has failed and the shutdown has    *)
(* not yet removed locks by name.                                          *)
(***************************************************************************)
OneServingPerSession ==
    \A a, b \in Attempt :
        Serving(a) /\ Serving(b) /\ SameSession(a, b) /\ a # b
            => FailedBefore(owner[a]) \/ shut \in Sweeping

(***************************************************************************)
(* Nothing removes a request directory, with the FIFOs the client was told *)
(* of, under the executor that serves it: not a launcher that gives up,    *)
(* not the reaper, and not the sweep after it, but for an executor that    *)
(* the shutdown did not find registered when it signalled the owners.      *)
(***************************************************************************)
ServingKeepsItsChannels ==
    \A a \in Attempt :
        Serving(a) => a \in dirs \cap fifos \/ (shut \in Sweeping /\ a \notin owners)

(***************************************************************************)
(* "Completion and timeout remove the whole request": every request        *)
(* directory is removed in the end, though its launcher may have given up  *)
(* on it and its client may never read the result.                         *)
(***************************************************************************)
EveryRequestRemoved == \A a \in Attempt : (a \in dirs) ~> (a \notin dirs)

(***************************************************************************)
(* "Duplicate active sessions are rejected", without exception.            *)
(***************************************************************************)
SessionsAreExclusive ==
    \A a, b \in Attempt :
        Serving(a) /\ Serving(b) /\ SameSession(a, b) => a = b

(***************************************************************************)
(* "Shutdown reaps deferred owners before removing their parent API        *)
(* directories" (implementation_v1.md), without exception.                 *)
(***************************************************************************)
SweepFindsNobodyServing == \A a \in Attempt : Serving(a) => a \in dirs \cap fifos

(***************************************************************************)
(* "On retention expiry, the executor uses bounded FIFO unblocking to      *)
(* release any result reader": a client that has begun to open             *)
(* async_result does not wait in it for ever.                              *)
(***************************************************************************)
ReaderIsReleased ==
    \A a \in Attempt : (reader[a] = "opening") ~> (reader[a] # "opening")
=============================================================================
