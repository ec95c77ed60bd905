-------------------------- MODULE KeepAliveWaiter ---------------------------
(***************************************************************************)
(* wait_for_unavailable_services of init_utils.sh: a service that starts   *)
(* asks, over one session named after its host, which of its dependencies  *)
(* are missing, until the answer is empty or its attempts are used up.     *)
(* A service that fails takes its own server with it, and both begin anew. *)
(* Started again against a running server is the container of the tests,   *)
(* which waits with the same function for the dependencies of the service. *)
(***************************************************************************)
EXTENDS SerialServer

CONSTANTS
    Limit,      \* wait_dependencies_counter_limit
    MaxSends    \* bound: queries written

ASSUME WaiterAssumption == Limit \in Nat \ {0} /\ MaxSends \in Nat

VARIABLES
    wpc,        \* the waiter's place
    counter,    \* wait_dependencies_counter; above Limit all values are alike
    heard,      \* whether its cat has delivered a missing service
    starts, sends,
    nothingMissing,  \* history: an executor found no service missing
    silent,          \* history: one ended with nothing said and nothing found
    contested        \* history: the server's drain took an answer from the waiter's cat

historyVars == <<nothingMissing, silent, contested>>
waiterVars == <<wpc, counter, heard, starts, sends, historyVars>>

WaiterTypeOK ==
    /\ wpc \in {"down", "send", "write", "appear", "receive", "read", "ready"}
    /\ counter \in 0..(Limit + 1)
    /\ heard \in BOOLEAN
    /\ starts \in 0..MaxStarts
    /\ sends \in 0..MaxSends
    /\ nothingMissing \in BOOLEAN /\ silent \in BOOLEAN
    /\ contested \in BOOLEAN

WaiterInit ==
    /\ wpc = "down"
    /\ counter = 0
    /\ heard = FALSE
    /\ starts = 0 /\ sends = 0
    /\ nothingMissing = FALSE /\ silent = FALSE /\ contested = FALSE

\* A start removes the session's result FIFO, whoever has it open.
Start ==
    /\ wpc = "down" /\ starts < MaxStarts
    /\ linked' = [linked EXCEPT ![Watchdog] = FALSE]
    /\ counter' = 0
    /\ starts' = starts + 1
    /\ wpc' = "send"
    /\ UNCHANGED <<heard, sends, historyVars, execVars, batch, made, pipe,
                   writer>>

\* One attempt more.  The limit is compared with ==, where the code does so.
CountUp == counter' = IF counter > Limit THEN counter ELSE counter + 1
AttemptFails ==
    /\ CountUp
    /\ wpc' = IF counter + 1 = Limit THEN "down" ELSE "send"

\* echo > exec blocks until a cat has opened it.
OpenQuery ==
    /\ wpc = "send" /\ sends < MaxSends
    /\ OpenExec(Watchdog)
    /\ sends' = sends + 1
    /\ wpc' = "write"
    /\ UNCHANGED <<counter, heard, starts, historyVars, batch, resultVars>>

\* A write that fails ends with another code than 124 and counts as sent.
WriteQuery ==
    /\ wpc = "write" /\ Watchdog \in met
    /\ WriteExec(Watchdog, Watchdog, Watchdog, TRUE)
    /\ wpc' = "appear"
    /\ UNCHANGED <<counter, heard, starts, sends, historyVars, batch,
                   resultVars>>

\* timeout ends an open that still blocks.
SendExpires ==
    /\ wpc = "write" /\ Watchdog \notin met
    /\ LeaveExec(Watchdog)
    /\ AttemptFails
    /\ UNCHANGED <<heard, starts, sends, historyVars, batch, resultVars>>

\* Without a bound: while [ ! -p ${pipe_out} ].
ResultAppears ==
    /\ wpc = "appear" /\ linked[Watchdog]
    /\ wpc' = "receive"
    /\ UNCHANGED <<counter, heard, starts, sends, historyVars, serverVars>>

OpenAnswer ==
    /\ wpc = "receive"
    /\ pipe' = [pipe EXCEPT ![Current(Watchdog)] = OpenForRead(@, Watchdog)]
    /\ wpc' = "read"
    /\ UNCHANGED <<counter, heard, starts, sends, historyVars, execVars,
                   batch, linked, made, writer>>

Answer == pipe[Current(Watchdog)]

ReadAnswer ==
    /\ wpc = "read" /\ CanRead(Answer, Watchdog)
    /\ pipe' = [pipe EXCEPT ![Current(Watchdog)] = Consume(@)]
    /\ heard' = TRUE
    /\ UNCHANGED <<wpc, counter, starts, sends, historyVars, execVars,
                   batch, linked, made, writer>>

\* At end of file: no service is missing if nothing was read.
AnswerEnds ==
    /\ wpc = "read" /\ AtEOF(Answer, Watchdog)
    /\ pipe' = [pipe EXCEPT ![Current(Watchdog)] = Close(@, Watchdog)]
    /\ heard' = FALSE
    /\ \/ /\ ~heard
          /\ wpc' = "ready"
          /\ UNCHANGED counter
       \/ /\ heard /\ counter = Limit
          /\ wpc' = "down"
          /\ UNCHANGED counter
       \/ /\ heard /\ counter # Limit
          /\ CountUp
          /\ wpc' = "send"
    /\ UNCHANGED <<starts, sends, historyVars, execVars, batch, linked,
                   made, writer>>

\* Mutant: the exit code 124 of timeout is not looked at.
AnswerExpiresUnseen ==
    /\ wpc = "read"
    /\ pipe' = [pipe EXCEPT ![Current(Watchdog)] = Close(@, Watchdog)]
    /\ heard' = FALSE
    /\ CountUp
    /\ wpc' = IF heard THEN "send" ELSE "ready"
    /\ UNCHANGED <<starts, sends, historyVars, execVars, batch, linked,
                   made, writer>>

\* timeout ends the cat: the attempt is over, whatever it has read.
AnswerExpires ==
    /\ wpc = "read"
    /\ pipe' = [pipe EXCEPT ![Current(Watchdog)] = Close(@, Watchdog)]
    /\ heard' = FALSE
    /\ AttemptFails
    /\ UNCHANGED <<starts, sends, historyVars, execVars, batch, linked,
                   made, writer>>

WaiterStep ==
    \/ OpenQuery \/ WriteQuery \/ SendExpires
    \/ ResultAppears \/ OpenAnswer \/ ReadAnswer \/ AnswerEnds \/ AnswerExpires
=============================================================================
