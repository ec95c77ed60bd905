---------------------------- MODULE CaptureTopic ----------------------------
(***************************************************************************)
(* The Kafka topic between the TAP subscriber and the log event            *)
(* aggregator, and the events that cross it (EVENT_SCHEMA.md).  All events *)
(* of a capture have its id as their key, so they share one partition: the *)
(* topic is a sequence that only grows.  A payload is abstracted to its    *)
(* index in the log of its connection; captures with another id, which the *)
(* aggregator skips, are left out.                                         *)
(***************************************************************************)
EXTENDS Integers, Sequences, FiniteSets

CONSTANTS
    Trace,      \* the trace ids Envoy gives to tapped connections
    NoTrace     \* the trace of an event about the whole capture

ASSUME TraceAssumption == Trace \subseteq Nat /\ NoTrace \notin Trace

VARIABLE topic

ConnectionEventType == {"connection_log_chunk", "connection_log_complete"}
TerminalType == {"capture_complete", "capture_start_timeout", "capture_failed"}

(* n is the chunk_index of a chunk and the chunk_count of a complete event. *)
Event ==
    [type : ConnectionEventType, trace : Trace, n : Nat]
        \cup [type : TerminalType, trace : {NoTrace}, n : {0}]

Chunk(t, i) == [type |-> "connection_log_chunk", trace |-> t, n |-> i]
Complete(t, k) == [type |-> "connection_log_complete", trace |-> t, n |-> k]
Terminal(type) == [type |-> type, trace |-> NoTrace, n |-> 0]

IsConnectionEvent(e) == e.type \in ConnectionEventType

(* Logs by connection: a function from some traces to a number of chunks. *)
NoLogs == [t \in {} |-> 0]
IsLogMap(f) == DOMAIN f \subseteq Trace /\ f \in [DOMAIN f -> Nat]
WithLog(logs, t, k) ==
    [u \in DOMAIN logs \cup {t} |-> IF u = t THEN k ELSE logs[u]]
=============================================================================
