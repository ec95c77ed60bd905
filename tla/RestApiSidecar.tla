-------------------------- MODULE RestApiSidecar --------------------------
(***************************************************************************)
(* rest_api: init.sh watches the README files of the shared API directory  *)
(* and has the HTTP server restarted when they change; watchdog_server.sh  *)
(* generates the server from what the directory holds and runs it; the     *)
(* server ignores SIGINT while it answers queries.                         *)
(***************************************************************************)
EXTENDS Naturals, FiniteSets

CONSTANTS
    Operation,     \* operations that services export below the directory
    AttemptLimit,  \* WAIT_FOR_..._ATTEMPTS, the same for each of the three waits
    MaxQueries     \* bound: queries that the threads of the server answer at a time

ASSUME SidecarAssumption ==
    /\ IsFiniteSet(Operation)
    /\ AttemptLimit \in Nat /\ MaxQueries \in Nat

VARIABLES
    exported,    \* operations whose pipes exist
    documented,  \* operations whose service has published its README
    retired,     \* operations that were withdrawn
    monitor,     \* init.sh
    watchdog,    \* watchdog_server.sh
    server,      \* the Flask process
    pidfile,     \* the file with the server's PID exists; while init.sh waits for
                 \* it to go, it names the server that was running then
    missed       \* a README was withdrawn unreported after the last count

sidecarVars ==
    <<exported, documented, retired, monitor, watchdog, server, pidfile, missed>>

MonitorState ==
    [at : {"watching", "deciding", "stopping", "exited"}, got : BOOLEAN,
     count : 0 .. Cardinality(Operation)]
WatchdogState ==
    [at : {"clean", "gather", "probe", "waiting", "exited"},
     attempts : [{"api", "owners", "server"} -> 0 .. AttemptLimit]]
ServerState ==
    [at : {"down", "booting", "serving"}, routes : SUBSET Operation,
     running : 0 .. MaxQueries, leaked : BOOLEAN]

SidecarTypeOK ==
    /\ exported \subseteq Operation /\ documented \subseteq exported /\ retired \subseteq Operation
    /\ monitor \in MonitorState /\ watchdog \in WatchdogState /\ server \in ServerState
    /\ pidfile \in BOOLEAN /\ missed \in BOOLEAN

NoAttempts == [w \in {"api", "owners", "server"} |-> 0]
ServerOf(at, routes) == [at |-> at, routes |-> routes, running |-> 0, leaked |-> FALSE]
NoServer == ServerOf("down", {})

\* queries_in_progress = 0
Idle == server.running = 0 /\ ~ server.leaked

SidecarInit ==
    /\ exported = {} /\ documented = {} /\ retired = {}
    /\ monitor = [at |-> "watching", got |-> FALSE, count |-> 0]
    /\ watchdog = [at |-> "clean", attempts |-> NoAttempts]
    /\ server = NoServer /\ pidfile = FALSE /\ missed = FALSE

-----------------------------------------------------------------------------
(* The services behind the directory.  inotifywait runs only in the        *)
(* watching phase and is started anew after each event and each second:    *)
(* what happens between two starts is never reported.                      *)

Noticed(seen) ==
    /\ seen => monitor.at = "watching"
    /\ monitor' = [monitor EXCEPT !.got = @ \/ seen]

Export(o) ==
    /\ o \notin exported \cup retired
    /\ exported' = exported \cup {o}
    /\ UNCHANGED <<documented, retired, monitor, watchdog, server, pidfile, missed>>

Document(o) ==
    /\ o \in exported \ documented
    /\ documented' = documented \cup {o} /\ \E seen \in BOOLEAN : Noticed(seen)
    /\ UNCHANGED <<exported, retired, watchdog, server, pidfile, missed>>

Withdraw(o) ==
    /\ o \in documented
    /\ exported' = exported \ {o} /\ documented' = documented \ {o}
    /\ retired' = retired \cup {o}
    /\ \E seen \in BOOLEAN : Noticed(seen) /\ missed' = (missed \/ ~ seen)
    /\ UNCHANGED <<watchdog, server, pidfile>>

Services == \E o \in Operation : Export(o) \/ Document(o) \/ Withdraw(o)

-----------------------------------------------------------------------------
(* init.sh                                                                 *)

MonitorGoes(to) == monitor' = [monitor EXCEPT !.at = to]
ReadmeCount == Cardinality(documented)

\* Mutant: only what inotifywait reported counts.
WatchEndsUncounted ==
    /\ monitor.at = "watching" /\ MonitorGoes("deciding")
    /\ UNCHANGED <<exported, documented, retired, watchdog, server, pidfile, missed>>

\* The watch ends when nothing more has come for a while; the number of the
\* READMEs is the safeguard for what it missed.
WatchEnds ==
    /\ monitor.at = "watching"
    /\ monitor' = [monitor EXCEPT !.at = "deciding", !.got = @ \/ ReadmeCount # monitor.count]
    /\ UNCHANGED <<exported, documented, retired, watchdog, server, pidfile, missed>>

StillStarting ==
    /\ monitor.at = "deciding" /\ ~ pidfile /\ watchdog.at # "exited"
    /\ MonitorGoes("watching")
    /\ UNCHANGED <<exported, documented, retired, watchdog, server, pidfile, missed>>

\* The container ends with init.sh.
GiveUp ==
    /\ monitor.at = "deciding" /\ ~ pidfile /\ watchdog.at = "exited"
    /\ MonitorGoes("exited") /\ server' = NoServer
    /\ UNCHANGED <<exported, documented, retired, watchdog, pidfile, missed>>

Settled ==
    /\ monitor.at = "deciding" /\ pidfile /\ ~ monitor.got
    /\ MonitorGoes("watching")
    /\ UNCHANGED <<exported, documented, retired, watchdog, server, pidfile, missed>>

Restart ==
    /\ monitor.at = "deciding" /\ pidfile /\ monitor.got
    /\ monitor' = [monitor EXCEPT !.at = "stopping", !.count = ReadmeCount]
    /\ missed' = FALSE
    /\ UNCHANGED <<exported, documented, retired, watchdog, server, pidfile>>

\* process_signal: a SIGINT counts only between queries.
Signal ==
    /\ monitor.at = "stopping" /\ pidfile
    /\ server.at = "serving" /\ Idle
    /\ server' = NoServer
    /\ UNCHANGED <<exported, documented, retired, monitor, watchdog, pidfile, missed>>

Stopped ==
    /\ monitor.at = "stopping" /\ ~ pidfile
    /\ monitor' = [monitor EXCEPT !.at = "watching", !.got = FALSE]
    /\ UNCHANGED <<exported, documented, retired, watchdog, server, pidfile, missed>>

Monitor ==
    \/ WatchEnds \/ StillStarting \/ GiveUp \/ Settled \/ Restart \/ Stopped

-----------------------------------------------------------------------------
(* watchdog_server.sh                                                      *)

Alive == monitor.at # "exited"

Clean ==
    /\ Alive /\ watchdog.at = "clean" /\ pidfile' = FALSE
    /\ watchdog' = [watchdog EXCEPT !.at = "gather"]
    /\ UNCHANGED <<exported, documented, retired, monitor, server, missed>>

\* Mutant: one attempt more than the limit.
RetryOnceMore(wait, there) ==
    watchdog' = IF watchdog.attempts[wait] > AttemptLimit
                THEN [watchdog EXCEPT !.at = "exited"]
                ELSE [watchdog EXCEPT !.at = there, !.attempts[wait] = @ + 1]

\* Another attempt of one of the waits, or the end of the watchdog.
Retry(wait, there) ==
    watchdog' = IF watchdog.attempts[wait] = AttemptLimit
                THEN [watchdog EXCEPT !.at = "exited"]
                ELSE [watchdog EXCEPT !.at = there, !.attempts[wait] = @ + 1]

GatherFails ==
    /\ Alive /\ watchdog.at = "gather"
    /\ \/ exported = {} /\ Retry("api", "clean")
       \/ exported # {} /\ documented = {} /\ Retry("owners", "clean")
    /\ UNCHANGED <<exported, documented, retired, monitor, server, pidfile, missed>>

\* The API is restored and the server generated from it and started.
Gather ==
    /\ Alive /\ watchdog.at = "gather" /\ documented # {}
    /\ server' = ServerOf("booting", exported)
    /\ watchdog' = [at |-> "probe", attempts |-> NoAttempts]
    /\ UNCHANGED <<exported, documented, retired, monitor, pidfile, missed>>

ProbeFails ==
    /\ Alive /\ watchdog.at = "probe" /\ server.at # "serving" /\ Retry("server", "probe")
    /\ UNCHANGED <<exported, documented, retired, monitor, server, pidfile, missed>>

\* init.sh looks for the file every 0.1 s, a restart takes longer than that:
\* the file never comes back before init.sh has seen it gone.
PublishPid ==
    /\ Alive /\ watchdog.at = "probe" /\ server.at = "serving" /\ monitor.at # "stopping"
    /\ pidfile' = TRUE /\ watchdog' = [at |-> "waiting", attempts |-> NoAttempts]
    /\ UNCHANGED <<exported, documented, retired, monitor, server, missed>>

ServerGone ==
    /\ Alive /\ watchdog.at = "waiting" /\ server.at = "down"
    /\ watchdog' = [watchdog EXCEPT !.at = "clean"]
    /\ UNCHANGED <<exported, documented, retired, monitor, server, pidfile, missed>>

Watchdog == Clean \/ GatherFails \/ Gather \/ ProbeFails \/ PublishPid \/ ServerGone

-----------------------------------------------------------------------------
(* The server                                                              *)

Listen ==
    /\ server.at = "booting" /\ server' = [server EXCEPT !.at = "serving"]
    /\ UNCHANGED <<exported, documented, retired, monitor, watchdog, pidfile, missed>>

\* Every request has a thread of its own.
BeginQuery ==
    /\ server.at = "serving" /\ server.running < MaxQueries
    /\ server' = [server EXCEPT !.running = @ + 1]
    /\ UNCHANGED <<exported, documented, retired, monitor, watchdog, pidfile, missed>>

\* Nothing makes a query end: it opens the exec pipe and reads the result
\* pipe of a service that may be gone, with no deadline.
EndQuery ==
    /\ server.running > 0 /\ server' = [server EXCEPT !.running = @ - 1]
    /\ UNCHANGED <<exported, documented, retired, monitor, watchdog, pidfile, missed>>

\* query.execute raises, a broken pipe for one, outside of the try block:
\* queries_in_progress is never decremented again.
QueryRaises ==
    /\ server.running > 0 /\ server' = [server EXCEPT !.running = @ - 1, !.leaked = TRUE]
    /\ UNCHANGED <<exported, documented, retired, monitor, watchdog, pidfile, missed>>

\* A crash, or GET /restart.
ServerCrash ==
    /\ server.at # "down" /\ server' = NoServer
    /\ UNCHANGED <<exported, documented, retired, monitor, watchdog, pidfile, missed>>
=============================================================================
