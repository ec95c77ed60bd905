--------------------------- MODULE LogAggregator ---------------------------
(***************************************************************************)
(* The log event aggregator: it rebuilds the logs of the capture from the  *)
(* topic, has them analysed, and commits the offset of the terminal event. *)
(* Until then a restart reads the topic from its beginning.  The buffering *)
(* of chunks before they reach the spool file is abstracted: next counts   *)
(* the chunks of a log that is not complete.                               *)
(***************************************************************************)
EXTENDS CaptureTopic

CONSTANT MaxRestarts    \* bound on restarts of the aggregator

ASSUME RestartAssumption == MaxRestarts \in Nat

VARIABLES
    apc,          \* main: "consume", "analyse", "commit", "exited"
    offset,       \* events consumed
    next,         \* chunks: for an unfinished log, the index expected next
    files,        \* the logs published to the output directory
    received,     \* how many complete events were accepted
    verdict,      \* how main ends, once that is known
    result,       \* the result artifacts: "none", or what they say
    committed,    \* the terminal offset is committed
    restarts

aggregatorVars ==
    <<apc, offset, next, files, received, verdict, result, committed, restarts>>

Verdict ==
    {"none", "result", "start_timeout", "failed", "no_logs", "disorder",
     "timeout"}

AggregatorInit ==
    /\ apc = "consume" /\ offset = 0 /\ next = NoLogs /\ files = NoLogs
    /\ received = 0 /\ verdict = "none" /\ result = "none"
    /\ committed = FALSE /\ restarts = 0

AggregatorTypeOK ==
    /\ apc \in {"consume", "analyse", "commit", "exited"}
    /\ offset \in 0 .. Len(topic)
    /\ IsLogMap(next) /\ IsLogMap(files)
    /\ received \in Nat
    /\ verdict \in Verdict
    /\ result \in {"none", "result", "start_timeout"}
    /\ committed \in BOOLEAN
    /\ restarts \in 0 .. MaxRestarts

Consuming == apc = "consume" /\ offset < Len(topic)
Received == topic[offset + 1]
NextIndex(t) == IF t \in DOMAIN next THEN next[t] ELSE 0
Without(logs, t) == [u \in DOMAIN logs \ {t} |-> logs[u]]

(* main raises: exit status 255, nothing committed. *)
Raise(v) ==
    /\ apc' = "exited" /\ verdict' = v
    /\ UNCHANGED <<next, files, received, result, committed, restarts>>

ConsumeChunk ==
    /\ Consuming /\ Received.type = "connection_log_chunk"
    /\ offset' = offset + 1
    /\ IF Received.n = NextIndex(Received.trace)
       THEN /\ next' = WithLog(next, Received.trace, Received.n + 1)
            /\ UNCHANGED <<apc, files, received, verdict, result, committed, restarts>>
       ELSE Raise("disorder")
    /\ UNCHANGED topic

ConsumeLogComplete ==
    /\ Consuming /\ Received.type = "connection_log_complete"
    /\ offset' = offset + 1
    /\ IF Received.n = NextIndex(Received.trace)
       THEN /\ next' = Without(next, Received.trace)
            /\ files' = WithLog(files, Received.trace, Received.n)
            /\ received' = received + 1
            /\ UNCHANGED <<apc, verdict, result, committed, restarts>>
       ELSE Raise("disorder")
    /\ UNCHANGED topic

ConsumeCaptureComplete ==
    /\ Consuming /\ Received.type = "capture_complete"
    /\ offset' = offset + 1
    /\ \/ /\ DOMAIN next # {} /\ Raise("disorder")
       \/ /\ DOMAIN next = {} /\ received = 0 /\ Raise("no_logs")
       \/ /\ DOMAIN next = {} /\ received > 0
          /\ apc' = "analyse"
          /\ UNCHANGED <<next, files, received, verdict, result, committed, restarts>>
    /\ UNCHANGED topic

(* A result is on the disk, its directory included, before its commit. *)
StoreResult(what) == result' = what /\ apc' = "commit"

ConsumeStartTimeout ==
    /\ Consuming /\ Received.type = "capture_start_timeout"
    /\ offset' = offset + 1
    /\ StoreResult("start_timeout")
    /\ UNCHANGED <<next, files, received, verdict, committed, restarts, topic>>

ConsumeFailure ==
    /\ Consuming /\ Received.type = "capture_failed"
    /\ offset' = offset + 1
    /\ Raise("failed")
    /\ UNCHANGED topic

(* The activity deadline expires with nothing to consume. *)
ActivityExpires ==
    /\ apc = "consume"
    /\ Raise("timeout")
    /\ UNCHANGED <<offset, topic>>

(* The analysis of the files and the synchronisation of its artifacts. *)
Analyse ==
    /\ apc = "analyse"
    /\ StoreResult("result")
    /\ UNCHANGED <<offset, next, files, received, verdict, committed,
                   restarts, topic>>

CommitTerminal ==
    /\ apc = "commit"
    /\ committed' = TRUE /\ verdict' = result /\ apc' = "exited"
    /\ UNCHANGED <<offset, next, files, received, result, restarts, topic>>

CommitExpires ==
    /\ apc = "commit"
    /\ Raise("timeout")
    /\ UNCHANGED <<offset, topic>>

(* The container stops before the commit and is started again; bootstrap.sh *)
(* removes the files and the results of the first run.                      *)
Restart ==
    /\ apc # "exited" /\ restarts < MaxRestarts
    /\ restarts' = restarts + 1
    /\ apc' = "consume" /\ offset' = 0 /\ next' = NoLogs /\ files' = NoLogs
    /\ received' = 0 /\ verdict' = "none" /\ result' = "none"
    /\ UNCHANGED <<committed, topic>>

AggregatorStep ==
    \/ ConsumeChunk \/ ConsumeLogComplete \/ ConsumeCaptureComplete
    \/ ConsumeStartTimeout \/ ConsumeFailure \/ Analyse \/ CommitTerminal

AggregatorNext ==
    AggregatorStep \/ ActivityExpires \/ CommitExpires \/ Restart
=============================================================================
