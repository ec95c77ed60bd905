--------------------------- MODULE SerialEndpoint ---------------------------
(***************************************************************************)
(* One serial endpoint with its clients: threads of the HTTP ambassador    *)
(* and a service that waits for its dependencies.  Deployed, the two kinds *)
(* of client use endpoints of their own, both served by the same generated *)
(* loop; an endpoint with one kind only is an instance in which the other  *)
(* never starts.                                                           *)
(***************************************************************************)
EXTENDS HttpAmbassador, KeepAliveWaiter

CONSTANT MaxCommands   \* bound: requests of the threads and queries written

ASSUME EndpointAssumption == MaxCommands \in Nat

vars == <<serverVars, threadVars, waiterVars>>

TypeOK == ServerTypeOK /\ ThreadTypeOK /\ WaiterTypeOK

Init == ServerInit /\ ThreadInit /\ WaiterInit

\* The history of the answers: what executors found, who said nothing without
\* having found that, and which answer the waiter's cat had to share with the
\* drain.
Drained(i) ==
    /\ DrainReads(i)
    /\ contested' = (contested \/ Watchdog \in pipe[i].rd)
    /\ UNCHANGED <<nothingMissing, silent>>

Executed ==
    LET line == Head(batch) IN
    \E out \in Results(line), found \in BOOLEAN :
        /\ Run(out)
        /\ found => line.of = Watchdog /\ out = <<>>
        /\ nothingMissing' = (nothingMissing \/ found)
        /\ silent' = (silent \/ (line.session = Watchdog /\ out = <<>> /\ ~found))
        /\ UNCHANGED contested

ServerStep ==
    \/ CatAtEOF \/ CatEnds \/ NextCat \/ NextCommand \/ DrainOpens \/ WatchdogWaits
    \/ \E i \in Inode : DrainAtEOF(i) \/ DrainExpires(i)

Server ==
    \/ ServerStep /\ UNCHANGED <<threadVars, waiterVars>>
    \/ /\ (spc = "run" /\ Executed) \/ \E i \in Inode : Drained(i)
       /\ UNCHANGED <<threadVars, wpc, counter, heard, starts, sends>>

Requested == {r \in Thread \X (1..MaxRequests) : r[2] <= asked[r[1]]}
MayCommand == Cardinality(Requested) + sends < MaxCommands

Writes(s) == WriterStep(s) /\ UNCHANGED <<threadVars, waiterVars>>
Asks(t)   == /\ MayCommand
             /\ \E keep \in BOOLEAN : Send(t, keep) /\ UNCHANGED waiterVars
Acts(t)   == ThreadStep(t) /\ UNCHANGED waiterVars
Starts    == Start /\ UNCHANGED threadVars
Waits     == /\ wpc = "send" => MayCommand
             /\ WaiterStep /\ UNCHANGED threadVars

Next ==
    \/ Server
    \/ \E s \in Session : Writes(s)
    \/ \E t \in Thread : Asks(t) \/ Acts(t)
    \/ Starts \/ Waits

\* Processes run; nobody has to make a request or to start a service.
Fairness ==
    /\ WF_vars(Server)
    /\ \A s \in Session : WF_vars(Writes(s))
    /\ \A t \in Thread : WF_vars(Acts(t))
    /\ WF_vars(Waits)

Spec == Init /\ [][Next]_vars
FairSpec == Spec /\ Fairness
-----------------------------------------------------------------------------
\* A thread takes no other request's result for its answer: the FIFO carries
\* no request number, so this rests on the session being given up after
\* every deadline and emptied before it is used again (server.py, execute).
\* It says nothing of a session that was left in the middle of a result:
\* that one is kept although its writer may still have the rest to write;
\* and nothing of one whose command came behind a command that was cut off:
\* the executor may have taken the parameters of the other.
RepliesAreOwn ==
    \A t \in Thread :
        reply[t] # Nobody /\ from[t] \notin torn \cup glued => reply[t] = Ask(t)

\* A service goes on only after an executor has answered it with nothing: an
\* answer that was not received, or was lost with a timeout, never counts as
\* an empty one (init_utils.sh).  An executor that fails (silent) says
\* nothing as well; the other exception is an answer that the server's drain
\* took while the waiter's cat had the same FIFO open.
ReadyIsTold == wpc = "ready" => nothingMissing \/ silent \/ contested

\* The same with one exception less: none of these holds (see the README).
EveryReplyIsOwn == \A t \in Thread : reply[t] # Nobody /\ from[t] \notin glued => reply[t] = Ask(t)
NoCommandIsMixed == \A t \in Thread : reply[t] # Nobody /\ from[t] \notin torn => reply[t] = Ask(t)
ReadyMeansTold  == wpc = "ready" => nothingMissing \/ silent
ReadyMeansFound == wpc = "ready" => nothingMissing \/ contested

\* A writer that nobody can ever open again: its FIFO lost its name.
Orphaned == \E s \in Session :
    writer[s].pc = "write" /\ ~(linked[s] /\ writer[s].inode = made[s])

\* No client, whether it reads its result or not, keeps the server from
\* coming back to exec (exec_watchdog), unless a FIFO was removed under the
\* writer of a result nobody has read, or a client leaked a write end of
\* exec, whose cat then never ends.
ServerReturns == []<>(spc = "open" \/ Orphaned \/ leaked)

\* Without the leak as an exception it does not hold (see the README).
ServerAlwaysReturns == []<>(spc = "open" \/ Orphaned)
=============================================================================
