--------------------------- MODULE HttpAmbassador ---------------------------
(***************************************************************************)
(* The worker threads of ai_agent_http_ambassador/server.py (execute), and *)
(* the client they use: APIQueryInterruptible of api_fs_query.py, which    *)
(* opens both FIFOs without blocking and gives up at a deadline.  A        *)
(* deadline can pass at any time.                                          *)
(***************************************************************************)
EXTENDS SerialServer

CONSTANTS
    MaxCuts,    \* bound: deadlines that cut a command off or leak a write end
    NoSession

ASSUME AmbassadorAssumption ==
    MaxCuts \in Nat /\ NoSession \notin Session

VARIABLES
    tpc,        \* a thread's place in execute
    asked,      \* the number of its requests so far
    completed,  \* sessions.completed, the thread's session that may be reused
    session,    \* the session of its request
    reuse,      \* whether the request may keep its session (not bulk_start)
    got,        \* what it has read of the result
    reply,      \* the request whose result it took for its answer
    from,       \* history: the session it took that answer from
    cuts,
    torn,       \* history: sessions a thread left before the end of a result
    glued       \* history: sessions of commands behind one that was cut off

threadVars == <<tpc, asked, completed, session, reuse, got, reply, from, cuts, torn, glued>>

ThreadTypeOK ==
    /\ tpc \in [Thread -> {"idle", "opening", "writing", "waiting", "reading"}]
    /\ asked \in [Thread -> 0..MaxRequests]
    /\ completed \in [Thread -> Session \cup {NoSession}]
    /\ session \in [Thread -> Session \cup {NoSession}]
    /\ reuse \in [Thread -> BOOLEAN]
    /\ got \in [Thread -> Seq(Chunk)]
    /\ reply \in [Thread -> Request \cup {Nobody}]
    /\ from \in [Thread -> Session \cup {NoSession}]
    /\ cuts \in 0..MaxCuts
    /\ torn \subseteq Session /\ glued \subseteq Session

ThreadInit ==
    /\ tpc = [t \in Thread |-> "idle"]
    /\ asked = [t \in Thread |-> 0]
    /\ completed = [t \in Thread |-> NoSession]
    /\ session = [t \in Thread |-> NoSession]
    /\ reuse = [t \in Thread |-> FALSE]
    /\ got = [t \in Thread |-> <<>>]
    /\ reply = [t \in Thread |-> Nobody]
    /\ from = [t \in Thread |-> NoSession]
    /\ cuts = 0
    /\ torn = {} /\ glued = {}

Ask(t) == <<t, asked[t]>>

\* execute takes the thread's completed session or a fresh one, forgets the
\* completed one, and writes under the query's lock.
Send(t, keep) ==
    /\ tpc[t] = "idle" /\ asked[t] < MaxRequests
    /\ \A u \in Thread : tpc[u] \notin {"opening", "writing"}
    /\ asked' = [asked EXCEPT ![t] = @ + 1]
    /\ session' = [session EXCEPT ![t] =
           IF keep /\ completed[t] # NoSession THEN completed[t] ELSE <<t, asked[t] + 1>>]
    /\ completed' = [completed EXCEPT ![t] = NoSession]
    /\ reuse' = [reuse EXCEPT ![t] = keep]
    /\ tpc' = [tpc EXCEPT ![t] = "opening"]
    /\ reply' = [reply EXCEPT ![t] = Nobody]
    /\ from' = [from EXCEPT ![t] = NoSession]
    /\ UNCHANGED <<got, cuts, torn, glued, serverVars>>

\* Mutant: a session is kept whether or not its request was answered.
UnansweredKeepsSession(t) ==
    /\ tpc' = [tpc EXCEPT ![t] = "idle"]
    /\ completed' = [completed EXCEPT ![t] = session[t]]
    /\ session' = [session EXCEPT ![t] = NoSession]
    /\ reuse' = [reuse EXCEPT ![t] = FALSE]
    /\ UNCHANGED <<asked, reply, from>>

\* What a thread that ends its request without an answer leaves behind.
Unanswered(t) ==
    /\ tpc' = [tpc EXCEPT ![t] = "idle"]
    /\ session' = [session EXCEPT ![t] = NoSession]
    /\ reuse' = [reuse EXCEPT ![t] = FALSE]
    /\ UNCHANGED <<asked, completed, reply, from>>

\* A non-blocking open for writing needs a reader.
OpenCommand(t) ==
    /\ tpc[t] = "opening" /\ HasReader
    /\ OpenExec(t)
    /\ tpc' = [tpc EXCEPT ![t] = "writing"]
    /\ UNCHANGED <<asked, completed, session, reuse, got, reply, from, cuts, torn, glued,
                   batch, resultVars>>

\* Each round takes the time first and opens then: an open that succeeds in
\* the round in which the time ran out is not closed.
OpenExpires(t) ==
    /\ tpc[t] = "opening"
    /\ Unanswered(t)
    /\ \/ UNCHANGED <<cuts, execVars>>
       \/ cuts < MaxCuts /\ cuts' = cuts + 1 /\ LeakExec
    /\ UNCHANGED <<got, torn, glued, batch, resultVars>>

\* The history of the answers awaited to a command behind a cut-off one.
Glues(t) == glued' = IF spc = "cat" /\ Gluing THEN glued \cup {session[t]} ELSE glued

\* The whole command is written; the deadline may have passed meanwhile.
\* Without a reader the write raises, which counts as incomplete.
WriteCommand(t) ==
    /\ tpc[t] = "writing" /\ t \in met
    /\ WriteExec(t, Ask(t), session[t], TRUE)
    /\ \/ /\ HasReader /\ Glues(t)
          /\ tpc' = [tpc EXCEPT ![t] = "waiting"]
          /\ UNCHANGED <<asked, completed, session, reuse, reply, from>>
       \/ Unanswered(t) /\ UNCHANGED glued
    /\ UNCHANGED <<got, cuts, torn, batch, resultVars>>

\* The deadline passes while the FIFO is full in the middle of the command.
CutCommand(t) ==
    /\ tpc[t] = "writing" /\ t \in met
    /\ spc = "cat" /\ cuts < MaxCuts
    /\ WriteExec(t, Ask(t), session[t], FALSE)
    /\ cuts' = cuts + 1
    /\ Unanswered(t)
    /\ UNCHANGED <<got, torn, glued, batch, resultVars>>

\* wait_result: the session's FIFO has to appear and is opened at once.
OpenResult(t) ==
    /\ tpc[t] = "waiting" /\ linked[session[t]]
    /\ pipe' = [pipe EXCEPT ![Current(session[t])] = OpenForRead(@, t)]
    /\ tpc' = [tpc EXCEPT ![t] = "reading"]
    /\ UNCHANGED <<asked, completed, session, reuse, got, reply, from, cuts, torn, glued,
                   execVars, batch, linked, made, writer>>

\* A read end that this leaks, as OpenExpires does, is of a FIFO that nobody
\* opens again.
WaitExpires(t) ==
    /\ tpc[t] = "waiting"
    /\ Unanswered(t)
    /\ UNCHANGED <<got, cuts, torn, glued, serverVars>>

ReadResult(t) ==
    LET i == Current(session[t]) IN
    /\ tpc[t] = "reading" /\ CanRead(pipe[i], t)
    /\ pipe' = [pipe EXCEPT ![i] = Consume(@)]
    /\ got' = [got EXCEPT ![t] = Append(@, Head(pipe[i].buf))]
    /\ UNCHANGED <<tpc, asked, completed, session, reuse, reply, from, cuts, torn, glued,
                   execVars, batch, linked, made, writer>>

\* A result is a JSON document only if it is one result from end to end.
IsDocument(chunks) ==
    /\ Len(chunks) = Chunks
    /\ \A i \in 1..Chunks : chunks[i] = [of |-> chunks[1].of, i |-> i]

\* The read ends: at end of file, at the deadline, or on bytes that decode()
\* refuses because a character lies across two reads.  Data of any length is
\* a result, and its session is completed before it is parsed.
TakeResult(t) ==
    LET s == session[t]
        i == Current(s) IN
    /\ tpc[t] = "reading" /\ got[t] # <<>>
    /\ reply' = [reply EXCEPT ![t] = IF IsDocument(got[t]) THEN got[t][1].of ELSE Nobody]
    /\ from' = [from EXCEPT ![t] = s]
    /\ completed' = [completed EXCEPT ![t] = IF reuse[t] THEN s ELSE NoSession]
    /\ torn' = IF IsDocument(got[t]) THEN torn ELSE torn \cup {s}
    /\ pipe' = [pipe EXCEPT ![i] = Close(@, t)]
    /\ got' = [got EXCEPT ![t] = <<>>]
    /\ tpc' = [tpc EXCEPT ![t] = "idle"]
    /\ reuse' = [reuse EXCEPT ![t] = FALSE]
    /\ session' = [session EXCEPT ![t] = NoSession]
    /\ UNCHANGED <<asked, cuts, glued, execVars, batch, linked, made, writer>>

\* No data by the deadline: APIQueryTimeout, and the session is not kept.
ReadExpires(t) ==
    /\ tpc[t] = "reading" /\ got[t] = <<>>
    /\ pipe' = [pipe EXCEPT ![Current(session[t])] = Close(@, t)]
    /\ Unanswered(t)
    /\ UNCHANGED <<got, cuts, torn, glued, execVars, batch, linked, made, writer>>

ThreadStep(t) ==
    \/ OpenCommand(t) \/ OpenExpires(t)
    \/ WriteCommand(t) \/ CutCommand(t)
    \/ OpenResult(t) \/ WaitExpires(t)
    \/ ReadResult(t) \/ TakeResult(t) \/ ReadExpires(t)
=============================================================================
