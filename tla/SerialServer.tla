---------------------------- MODULE SerialServer ----------------------------
(***************************************************************************)
(* The server that build_api_services.py generates for an endpoint that    *)
(* has no ParallelBySession: one Bash loop that reads exec with a new cat  *)
(* for every batch of commands and serves the commands of a batch one by   *)
(* one.  A result is published by a background process per session, and    *)
(* the next command of that session first gets rid of it (exec_watchdog).  *)
(*                                                                         *)
(* The clients are modules of their own (HttpAmbassador, KeepAliveWaiter); *)
(* the operators at the end are what a client can do to exec.              *)
(***************************************************************************)
EXTENDS NamedPipe, FiniteSets

CONSTANTS
    Thread,        \* the worker threads of the HTTP ambassador
    MaxRequests,   \* bound: requests of a thread
    MaxStarts,     \* bound: starts of the service that waits for its dependencies
    Chunks,        \* size of the result of a thread's command, in pipe capacities
    Watchdog,      \* the session of the waiting service
    Default,       \* the session "#####" of a command that names none
    Nobody         \* in place of a request: what no client has asked for

ASSUME SerialAssumption ==
    /\ MaxRequests \in Nat \ {0}
    /\ MaxStarts \in Nat \ {0}
    /\ Chunks \in Nat \ {0}
    /\ Watchdog # Default
    /\ {Watchdog, Default} \cap (Thread \X (1..MaxRequests)) = {}
    /\ Nobody \notin (Thread \X (1..MaxRequests)) \cup {Watchdog}
    /\ Watchdog \notin Thread
    /\ {"writer", "drain"} \cap (Thread \cup {Watchdog}) = {}

\* A fresh session of a thread is named after the request it was made for.
Session == (Thread \X (1..MaxRequests)) \cup {Watchdog, Default}
Request == (Thread \X (1..MaxRequests)) \cup {Watchdog}
Client  == Thread \cup {Watchdog}

\* An inode: the n-th FIFO made under the name of the session's result.
Inode == ((Session \ {Watchdog}) \X {1}) \cup ({Watchdog} \X (1..MaxStarts))

\* A line as cat delivers it: the request whose parameters its executor takes
\* (Nobody: none, or those of several), the session found on it, and whether
\* it has its end.  Default also stands for a session that nobody uses.
Line  == [of : Request \cup {Nobody}, session : Session, whole : BOOLEAN]
Chunk == [of : Request \cup {Nobody}, i : 1..Chunks]

VARIABLES
    spc,      \* the server's place in its loop
    opened,   \* clients that hold, or block in opening, a write end of exec
    met,      \* those of them whose open has returned
    leaked,   \* whether a client has forgotten a write end of exec
    input,    \* the lines cat has read
    batch,    \* the lines of the here-string still to be served
    linked,   \* whether the FIFO of a session is there under its name
    made,     \* how many FIFOs were made for a session
    pipe,     \* the result FIFOs
    writer    \* the background process of a session and what it has to write

serverVars == <<spc, opened, met, leaked, input, batch, linked, made, pipe, writer>>
execVars   == <<spc, opened, met, leaked, input>>
resultVars == <<linked, made, pipe, writer>>

NoWriter == [pc |-> "none", inode |-> 0, out |-> <<>>]
Current(s) == <<s, made[s]>>

ServerTypeOK ==
    /\ spc \in {"open", "cat", "closing", "next", "watch", "drain", "wait", "run"}
    /\ opened \subseteq Client
    /\ met \subseteq opened
    /\ leaked \in BOOLEAN
    /\ input \in Seq(Line)
    /\ batch \in Seq(Line)
    /\ linked \in [Session -> BOOLEAN]
    /\ made \in [Session -> 0..MaxStarts]
    /\ pipe \in [Inode -> PipeType(Chunk, {"writer"}, Client \cup {"drain"})]
    /\ writer \in [Session -> [pc : {"none", "start", "write"}, inode : 0..MaxStarts,
                               out : Seq(Chunk)]]

ServerInit ==
    /\ spc = "open"
    /\ opened = {} /\ met = {} /\ leaked = FALSE
    /\ input = <<>> /\ batch = <<>>
    /\ linked = [s \in Session |-> s = Default]
    /\ made = [s \in Session |-> IF s = Default THEN 1 ELSE 0]
    /\ pipe = [i \in Inode |-> EmptyPipe]
    /\ writer = [s \in Session |-> NoWriter]
-----------------------------------------------------------------------------
(* The loop. *)

\* cat reads end of file once no client holds exec; it still holds its read
\* end, and whatever a client writes now is lost.
CatAtEOF ==
    /\ spc = "cat" /\ opened = {} /\ ~leaked
    /\ spc' = "closing"
    /\ UNCHANGED <<opened, met, leaked, input, batch, resultVars>>

\* The here-string of nothing is one empty line.
CatEnds ==
    /\ spc = "closing"
    /\ spc' = "next"
    /\ batch' = IF input = <<>>
                THEN <<[of |-> Nobody, session |-> Default, whole |-> TRUE]>>
                ELSE input
    /\ input' = <<>>
    /\ UNCHANGED <<opened, met, leaked, resultVars>>

\* Every new cat opens exec, which ends the opens that wait for it.
NextCat ==
    /\ spc = "next" /\ batch = <<>>
    /\ spc' = IF opened = {} /\ ~leaked THEN "open" ELSE "cat"
    /\ met' = opened
    /\ UNCHANGED <<opened, leaked, input, batch, resultVars>>

\* The FIFO of the session is made unless it is there; exec_watchdog looks
\* whether the session's last writer is alive.
NextCommand ==
    /\ spc = "next" /\ batch # <<>>
    /\ LET s == Head(batch).session IN
        /\ linked' = [linked EXCEPT ![s] = TRUE]
        /\ made' = [made EXCEPT ![s] = IF linked[s] THEN @ ELSE @ + 1]
        /\ spc' = IF writer[s].pc = "none" THEN "run" ELSE "watch"
    /\ UNCHANGED <<opened, met, leaked, input, batch, pipe, writer>>

Served == Head(batch).session

\* Mutant: the watchdog only waits.
WaitsUndrained ==
    /\ spc = "watch"
    /\ spc' = "wait"
    /\ UNCHANGED <<opened, met, leaked, input, batch, resultVars>>

\* timeout 2 cat on the name of the FIFO; a name that is gone ends it at once.
DrainOpens ==
    /\ spc = "watch"
    /\ IF linked[Served]
         THEN /\ pipe' = [pipe EXCEPT ![Current(Served)] = OpenForRead(@, "drain")]
              /\ spc' = "drain"
         ELSE spc' = "wait" /\ UNCHANGED pipe
    /\ UNCHANGED <<opened, met, leaked, input, batch, linked, made, writer>>

Draining(i) == spc = "drain" /\ "drain" \in pipe[i].rd

DrainReads(i) ==
    /\ Draining(i) /\ CanRead(pipe[i], "drain")
    /\ pipe' = [pipe EXCEPT ![i] = Consume(@)]
    /\ UNCHANGED <<execVars, batch, linked, made, writer>>

DrainEnds(i) ==
    /\ pipe' = [pipe EXCEPT ![i] = Close(@, "drain")]
    /\ spc' = "wait"
    /\ UNCHANGED <<opened, met, leaked, input, batch, linked, made, writer>>

DrainAtEOF(i) == Draining(i) /\ AtEOF(pipe[i], "drain") /\ DrainEnds(i)

\* A writer that was forked before this cat has opened its FIFO within the
\* two seconds (the one assumption about time here).
DrainExpires(i) == Draining(i) /\ writer[Served].pc # "start" /\ DrainEnds(i)

WatchdogWaits ==
    /\ spc = "wait" /\ writer[Served].pc = "none"
    /\ spc' = "run"
    /\ UNCHANGED <<opened, met, leaked, input, batch, resultVars>>

\* What the executor says to a line: for the waiting service, the services
\* that are missing.  It says nothing if none is, and nothing either if it
\* fails or cannot parse the line.
Output(r) ==
    IF r = Watchdog THEN <<[of |-> Watchdog, i |-> 1]>>
    ELSE [i \in 1..Chunks |-> [of |-> r, i |-> i]]
Results(line) == {<<>>, Output(line.of)}

\* The executor ends and a writer is forked; the server goes on.
Run(out) ==
    /\ spc = "run"
    /\ writer' = [writer EXCEPT ![Served] = [pc |-> "start", inode |-> 0, out |-> out]]
    /\ batch' = Tail(batch)
    /\ spc' = "next"
    /\ UNCHANGED <<opened, met, leaked, input, linked, made, pipe>>
-----------------------------------------------------------------------------
(* The background writer of a session.  It counts as ended once it has     *)
(* closed the FIFO.                                                        *)

\* The redirection finds the FIFO by its name: after a removal it makes a
\* plain file, which is no FIFO to anyone and is replaced when one is needed.
WriterOpens(s) ==
    /\ writer[s].pc = "start"
    /\ IF linked[s]
         THEN /\ writer' = [writer EXCEPT ![s].pc = "write", ![s].inode = made[s]]
              /\ pipe' = [pipe EXCEPT ![Current(s)] = OpenForWrite(@, "writer")]
         ELSE writer' = [writer EXCEPT ![s] = NoWriter] /\ UNCHANGED pipe
    /\ UNCHANGED <<execVars, batch, linked, made>>

\* The last write and the end of the process are one step: nothing is between
\* them, and who waits for the end of file waits for seconds.
WriterWrites(s) ==
    LET i == <<s, writer[s].inode>>
        p == Write(pipe[i], Head(writer[s].out)) IN
    /\ writer[s].pc = "write" /\ writer[s].out # <<>>
    /\ CanWrite(pipe[i], "writer", 1)
    /\ \/ /\ Len(writer[s].out) > 1
          /\ pipe' = [pipe EXCEPT ![i] = p]
          /\ writer' = [writer EXCEPT ![s].out = Tail(@)]
       \/ /\ Len(writer[s].out) = 1
          /\ pipe' = [pipe EXCEPT ![i] = Close(p, "writer")]
          /\ writer' = [writer EXCEPT ![s] = NoWriter]
    /\ UNCHANGED <<execVars, batch, linked, made>>

\* It had nothing to write, or its reader has left (SIGPIPE).
WriterEnds(s) ==
    LET i == <<s, writer[s].inode>> IN
    /\ writer[s].pc = "write"
    /\ \/ writer[s].out = <<>> /\ "writer" \in pipe[i].met
       \/ writer[s].out # <<>> /\ IsBroken(pipe[i], "writer")
    /\ pipe' = [pipe EXCEPT ![i] = Close(@, "writer")]
    /\ writer' = [writer EXCEPT ![s] = NoWriter]
    /\ UNCHANGED <<execVars, batch, linked, made>>

WriterStep(s) == WriterOpens(s) \/ WriterWrites(s) \/ WriterEnds(s)
-----------------------------------------------------------------------------
(* What a client does to exec. *)

HasReader == spc \in {"open", "cat", "closing"}

\* An open for writing; a cat that waits in its own open goes on.
OpenExec(c) ==
    /\ opened' = opened \cup {c}
    /\ met' = IF HasReader THEN met \cup {c} ELSE met
    /\ spc' = IF spc = "open" THEN "cat" ELSE spc
    /\ UNCHANGED <<leaked, input>>

\* A command behind one that was cut off is on the same line.
Gluing == input # <<>> /\ ~input[Len(input)].whole

\* What the server and the executor make of a line.  Each takes the first
\* occurrence of what it looks for: glued or cut off, the parameters may be
\* those of either command or a blend, the session that of either or none.
Parsed(of, session, whole) ==
    LET last == input[Len(input)] IN
    IF Gluing THEN [of : {of, last.of, Nobody}, session : {session, last.session, Default}, whole : {whole}]
    ELSE IF whole THEN [of : {of}, session : {session}, whole : {TRUE}]
    ELSE [of : {of, Nobody}, session : {session, Default}, whole : {FALSE}]

\* The lines after a command was written, whole or cut off.
Fed(of, session, whole) ==
    LET others == IF Gluing THEN SubSeq(input, 1, Len(input) - 1) ELSE input
    IN  {Append(others, line) : line \in Parsed(of, session, whole)}

\* Mutant: the descriptor is left open.
WriteExecLeavesOpen(c, of, session, whole) ==
    /\ IF spc = "cat" THEN input' \in Fed(of, session, whole) ELSE UNCHANGED input
    /\ opened' = opened \ {c}
    /\ UNCHANGED <<spc, met, leaked>>

\* Only a cat that still reads sees what is written.
WriteExec(c, of, session, whole) ==
    /\ IF spc = "cat" THEN input' \in Fed(of, session, whole) ELSE UNCHANGED input
    /\ opened' = opened \ {c}
    /\ met' = met \ {c}
    /\ UNCHANGED <<spc, leaked>>

LeaveExec(c) ==
    /\ opened' = opened \ {c}
    /\ met' = met \ {c}
    /\ UNCHANGED <<spc, leaked, input>>

\* The open succeeds, and the client never closes it.
LeakExec ==
    /\ HasReader
    /\ leaked' = TRUE
    /\ spc' = IF spc = "open" THEN "cat" ELSE spc
    /\ UNCHANGED <<opened, met, input>>
=============================================================================
