------------------------ MODULE DeferredQuery_proofs ------------------------
(***************************************************************************)
(* Proofs about DeferredQuery for every set of sessions, any number of     *)
(* launchers and any limits on the result.                                 *)
(***************************************************************************)
EXTENDS DeferredQuery, TLAPS

-----------------------------------------------------------------------------
(* The inductive invariant.                                                *)

\* What is known of one attempt: an executor exists only once its launcher has
\* started it, and a launcher that has answered has exited.
Attempts ==
    /\ \A a \in Attempt : a > asked => lpc[a] = "none"
    /\ \A a \in Attempt : lpc[a] # "none" => owner[a] \in Session
    /\ \A a \in Attempt :
          lpc[a] \in {"none", "lock", "mkdtemp", "popen"} => epc[a] = "none"
    /\ \A a \in Attempt : answer[a] # "none" => lpc[a] = "done"

\* The server of the endpoint runs one launcher at a time.
Serial == \A a, b \in Attempt : lpc[a] \notin Idle /\ lpc[b] \notin Idle => a = b

\* An attempt past its lock that has not let go of its session.
Holder(a) ==
    lpc[a] \in {"mkdtemp", "popen", "readiness", "rmtree", "unlock"} \/ Alive(a)

\* Sessions whose lock still means something.
Clean(s) == ~FailedBefore(s) /\ shut \notin Sweeping

Locking ==
    /\ \A a, b \in Attempt :
          Holder(a) /\ Holder(b) /\ SameSession(a, b) /\ Clean(owner[a]) => a = b
    /\ \A a \in Attempt :
          Holder(a) /\ Clean(owner[a]) => owner[a] \in locks \/ epc[a] = "gone"

\* The reaper removes only what dead executors owned.
Reaping ==
    /\ \A a \in owners : epc[a] # "none"
    /\ shut \in {"killed"} \cup Sweeping => \A a \in owners : ~Alive(a)

Typing == TypeOK /\ Attempts
IInv == Typing /\ Serial /\ Locking /\ Reaping /\ ServingKeepsItsChannels

-----------------------------------------------------------------------------
(* Type correctness.                                                       *)

\* The types hold initially.
LEMMA InitTyping == Init => Typing
  BY DeferredAssumption DEF Init, Typing, TypeOK, Attempts, Attempt

\* A launcher keeps the types.
LEMMA LauncherTyping ==
    ASSUME NEW a \in Attempt, Typing, Launcher(a)
    PROVE  Typing'
  <1> USE DEF Typing, TypeOK, Attempts, launcherVars, fileVars, executorVars, shutVars, Sweeping
  <1>1. CASE TakeLock(a)
    BY <1>1 DEF TakeLock, LGoto, Answer
  <1>2. CASE Allocate(a)
    BY <1>2 DEF Allocate, LGoto, Answer
  <1>3. CASE StartExecutor(a)
    BY <1>3 DEF StartExecutor, LGoto, EGoto
  <1>4. CASE Handshake(a)
    BY <1>4 DEF Handshake, LGoto, Answer, Alive
  <1>5. CASE ReadinessFails(a)
    BY <1>5 DEF ReadinessFails, LGoto
  <1>6. CASE FailRmtree(a)
    BY <1>6 DEF FailRmtree, LGoto, RemoveDirs
  <1>7. CASE FailUnlock(a)
    BY <1>7 DEF FailUnlock, Answer, LGoto
  <1> QED BY <1>1, <1>2, <1>3, <1>4, <1>5, <1>6, <1>7 DEF Launcher

\* An executor keeps the types; what it has captured stays within the limit.
LEMMA ExecutorTyping ==
    ASSUME NEW a \in Attempt, Typing, Executor(a)
    PROVE  Typing'
  <1> USE DEF Typing, TypeOK, Attempts, launcherVars, fileVars, executorVars, shutVars, Sweeping
  <1>1. CASE Register(a)
    BY <1>1 DEF Register, EGoto
  <1>2. CASE PrepareChannel(a)
    BY <1>2 DEF PrepareChannel, EGoto
  <1>3. CASE Report(a)
    BY <1>3 DEF Report, EGoto
  <1>4. CASE StartProcessor(a)
    BY <1>4 DEF StartProcessor, EGoto
  <1>5. CASE ReadEnd(a)
    BY <1>5, DeferredAssumption DEF ReadEnd, AfterRun, EGoto
  <1>6. CASE PublishOpen(a)
    BY <1>6 DEF PublishOpen, EGoto
  <1>7. CASE PublishExpires(a)
    BY <1>7 DEF PublishExpires, EGoto
  <1>8. CASE StreamEnds(a)
    BY <1>8 DEF StreamEnds, EGoto
  <1>9. CASE Finish(a)
    BY <1>9 DEF Finish, EGoto, RemoveDirs
  <1>10. CASE Unlock(a)
    BY <1>10 DEF Unlock, EGoto
  <1>11. ASSUME NEW n \in 1 .. ChunkSize, ReadChunk(a, n) PROVE Typing'
    BY <1>11, DeferredAssumption DEF ReadChunk, AfterRun, EGoto
  <1> QED BY <1>1, <1>2, <1>3, <1>4, <1>5, <1>6, <1>7, <1>8, <1>9, <1>10, <1>11 DEF Executor

\* Every step keeps the types.
LEMMA NextTyping == Typing /\ [Next]_vars => Typing'
  <1> SUFFICES ASSUME Typing, [Next]_vars PROVE Typing'
    OBVIOUS
  <1> USE DEF Typing, TypeOK, Attempts, launcherVars, fileVars, executorVars, shutVars, Sweeping
  <1>1. ASSUME NEW s \in Session, Launch(s) PROVE Typing'
    BY <1>1, DeferredAssumption, SMTT(20) DEF Launch, LGoto, Attempt, Idle
  <1>2. ASSUME NEW a \in Attempt, ProcessorEnds(a) \/ OpenResult(a) PROVE Typing'
    BY <1>2 DEF ProcessorEnds, OpenResult
  <1>3. CASE SignalExecutors
    BY <1>3 DEF SignalExecutors
  <1>4. CASE ClosePipes
    BY <1>4 DEF ClosePipes
  <1>5. CASE KillOwners
    BY <1>5 DEF KillOwners, Alive
  <1>6. CASE RemoveArtifacts
    BY <1>6 DEF RemoveArtifacts, RemoveDirs
  <1>7. CASE UNCHANGED vars
    BY <1>7 DEF vars
  <1>8. CASE SweepRequest
    BY <1>8 DEF SweepRequest, RemoveDirs
  <1>9. CASE SweepLock
    BY <1>9 DEF SweepLock
  <1>10. CASE SweepFails
    BY <1>10 DEF SweepFails
  <1>11. CASE SweepEnds
    BY <1>11 DEF SweepEnds
  <1> QED
    BY <1>1, <1>2, <1>3, <1>4, <1>5, <1>6, <1>7, <1>8, <1>9, <1>10, <1>11, LauncherTyping, ExecutorTyping
       DEF Next, Shutdown, Sweep

(***************************************************************************)
(* Every variable keeps its type; in particular run_processor never stores *)
(* more than the limit, whatever chunks it reads, and a registration or a  *)
(* FIFO never outlives its request directory.                              *)
(***************************************************************************)
THEOREM TypeCorrect == Spec => []TypeOK
  <1>1. Init => Typing
    BY InitTyping
  <1>2. Typing /\ [Next]_vars => Typing'
    BY NextTyping
  <1>3. Typing => TypeOK
    BY DEF Typing
  <1> QED BY <1>1, <1>2, <1>3, PTL DEF Spec

-----------------------------------------------------------------------------
(* One executor per session.                                               *)

Safety == Serial /\ Locking /\ Reaping /\ ServingKeepsItsChannels

\* The invariant holds initially.
LEMMA InitIInv == Init => IInv
  <1> SUFFICES ASSUME Init PROVE IInv
    OBVIOUS
  <1>1. Typing
    BY InitTyping
  <1>2. Safety
    BY DEF Init, Safety, Serial, Locking, Reaping, ServingKeepsItsChannels, Holder, Clean, FailedBefore, Serving, Alive, SameSession, Idle, Sweeping
  <1> QED BY <1>1, <1>2 DEF IInv, Safety

\* A launcher keeps its session's lock until it answers, and its lock is its own.
LEMMA LauncherSafety ==
    ASSUME NEW a \in Attempt, IInv, Launcher(a)
    PROVE  Safety'
  <1> USE DEF IInv, Safety, Typing, TypeOK, Attempts, launcherVars, fileVars, executorVars,
              shutVars, Serial, Locking, Reaping, ServingKeepsItsChannels, Holder, Clean, FailedBefore, Serving, Alive, SameSession, Idle, Sweeping
  <1>1. CASE TakeLock(a)
    BY <1>1 DEF TakeLock, LGoto, Answer
  <1>2. CASE Allocate(a)
    BY <1>2 DEF Allocate, LGoto, Answer
  <1>3. CASE StartExecutor(a)
    BY <1>3 DEF StartExecutor, LGoto, EGoto
  <1>4. CASE Handshake(a)
    BY <1>4 DEF Handshake, LGoto, Answer
  <1>5. CASE ReadinessFails(a)
    BY <1>5 DEF ReadinessFails, LGoto
  <1>6. CASE FailRmtree(a)
    BY <1>6 DEF FailRmtree, LGoto, RemoveDirs
  <1>7. CASE FailUnlock(a)
    BY <1>7 DEF FailUnlock, Answer, LGoto
  <1> QED BY <1>1, <1>2, <1>3, <1>4, <1>5, <1>6, <1>7 DEF Launcher

\* An executor removes its directory before its lock, and then is gone.
LEMMA ExecutorSafety ==
    ASSUME NEW a \in Attempt, IInv, Executor(a)
    PROVE  Safety'
  <1> USE DEF IInv, Safety, Typing, TypeOK, Attempts, launcherVars, fileVars, executorVars,
              shutVars, Serial, Locking, Reaping, ServingKeepsItsChannels, Holder, Clean, FailedBefore, Serving, Alive, SameSession, Idle, Sweeping
  <1>1. CASE Register(a)
    BY <1>1 DEF Register, EGoto
  <1>2. CASE PrepareChannel(a)
    BY <1>2 DEF PrepareChannel, EGoto
  <1>3. CASE Report(a)
    BY <1>3 DEF Report, EGoto
  <1>4. CASE StartProcessor(a)
    BY <1>4 DEF StartProcessor, EGoto
  <1>5. CASE ReadEnd(a)
    BY <1>5 DEF ReadEnd, AfterRun, EGoto
  <1>6. CASE PublishOpen(a)
    BY <1>6 DEF PublishOpen, EGoto
  <1>7. CASE PublishExpires(a)
    BY <1>7 DEF PublishExpires, EGoto
  <1>8. CASE StreamEnds(a)
    BY <1>8 DEF StreamEnds, EGoto
  <1>9. CASE Finish(a)
    BY <1>9 DEF Finish, EGoto, RemoveDirs
  <1>10. CASE Unlock(a)
    BY <1>10 DEF Unlock, EGoto
  <1>11. ASSUME NEW n \in 1 .. ChunkSize, ReadChunk(a, n) PROVE Safety'
    BY <1>11 DEF ReadChunk, AfterRun, EGoto
  <1> QED BY <1>1, <1>2, <1>3, <1>4, <1>5, <1>6, <1>7, <1>8, <1>9, <1>10, <1>11 DEF Executor

\* Every step keeps the invariant.
LEMMA NextIInv == IInv /\ [Next]_vars => IInv'
  <1> SUFFICES ASSUME IInv, [Next]_vars PROVE IInv'
    OBVIOUS
  <1>1. Typing'
    BY NextTyping DEF IInv
  <1>2. Safety'
    <2> USE DEF IInv, Safety, Typing, TypeOK, Attempts, launcherVars, fileVars, executorVars,
                shutVars, Serial, Locking, Reaping, ServingKeepsItsChannels, Holder, Clean, FailedBefore, Serving, Alive, SameSession, Idle, Sweeping
    <2>1. ASSUME NEW s \in Session, Launch(s) PROVE Safety'
      BY <2>1, DeferredAssumption DEF Launch, LGoto, Attempt
    <2>2. ASSUME NEW a \in Attempt, ProcessorEnds(a) \/ OpenResult(a) PROVE Safety'
      BY <2>2 DEF ProcessorEnds, OpenResult
    <2>3. CASE SignalExecutors
      BY <2>3 DEF SignalExecutors
    <2>4. CASE ClosePipes
      BY <2>4 DEF ClosePipes
    <2>5. CASE KillOwners
      BY <2>5 DEF KillOwners
    <2>6. CASE RemoveArtifacts
      BY <2>6 DEF RemoveArtifacts, RemoveDirs
    <2>7. CASE UNCHANGED vars
      BY <2>7 DEF vars
    <2>8. CASE SweepRequest
      BY <2>8 DEF SweepRequest, RemoveDirs
    <2>9. CASE SweepLock
      BY <2>9 DEF SweepLock
    <2>10. CASE SweepFails
      BY <2>10 DEF SweepFails
    <2>11. CASE SweepEnds
      BY <2>11 DEF SweepEnds
    <2> QED
      BY <2>1, <2>2, <2>3, <2>4, <2>5, <2>6, <2>7, <2>8, <2>9, <2>10, <2>11, LauncherSafety, ExecutorSafety
         DEF Next, Shutdown, Sweep
  <1> QED BY <1>1, <1>2 DEF IInv, Safety

(***************************************************************************)
(* However many launchers run, two executors never serve one session as    *)
(* long as no allocation of that session failed and no shutdown has        *)
(* removed locks by name.                                                  *)
(***************************************************************************)
THEOREM OneServing == Spec => []OneServingPerSession
  <1>1. Init => IInv
    BY InitIInv
  <1>2. IInv /\ [Next]_vars => IInv'
    BY NextIInv
  <1>3. IInv => OneServingPerSession
    BY DEF IInv, Locking, OneServingPerSession, Serving, Holder, Clean
  <1> QED BY <1>1, <1>2, <1>3, PTL DEF Spec

(***************************************************************************)
(* The directory and the FIFOs a client was told of are there as long as   *)
(* their executor serves them, up to the end of a shutdown if it was       *)
(* registered when the owners were signalled, and up to the sweep of the   *)
(* endpoint's directory in any case.                                       *)
(***************************************************************************)
THEOREM ChannelsKept == Spec => []ServingKeepsItsChannels
  <1>1. Init => IInv
    BY InitIInv
  <1>2. IInv /\ [Next]_vars => IInv'
    BY NextIInv
  <1>3. IInv => ServingKeepsItsChannels
    BY DEF IInv
  <1> QED BY <1>1, <1>2, <1>3, PTL DEF Spec
=============================================================================
