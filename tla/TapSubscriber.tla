---------------------------- MODULE TapSubscriber ----------------------------
(***************************************************************************)
(* The TAP subscriber: a reader thread (TapStreamPump) that moves traces   *)
(* from Envoy's streaming response to a bounded queue, the main thread     *)
(* that groups them by connection and publishes each finished log, signals *)
(* that end the capture, and bootstrap.sh, which reports a failed          *)
(* subscriber to Kafka in its place.                                       *)
(*                                                                         *)
(* A trace segment carries nothing, a piece of a recognizable log ("log", *)
(* one chunk of the published log), bytes that frame to no record          *)
(* ("noise"), or bytes framing refuses ("alien": unframed tester data or a *)
(* second producer).                                                       *)
(***************************************************************************)
EXTENDS EventPublisher

CONSTANTS
    Piece,          \* the kinds of segment Envoy sends
    MaxSegments,    \* bound on the segments of a capture
    PumpCapacity    \* TAP_QUEUE_CAPACITY

ASSUME SubscriberAssumption ==
    /\ Piece \subseteq {"none", "log", "noise", "alien"}
    /\ MaxSegments \in Nat /\ PumpCapacity \in Nat \ {0}

VARIABLES
    gone,           \* traces whose connection Envoy has reported closed
    segments,       \* segments read from Envoy so far
    holding,        \* what the reader thread has read and not yet queued
    items,          \* the pump's queue
    pump,           \* the reader thread: "off", "running", "done"
    stopping,       \* the event that tells it to stop
    shutdown,       \* shutdown_requested, set by the signal handlers
    pc, phase,      \* main thread, and which of the two wait loops it is in
    startTimedOut, captureFailed,
    active,         \* active_trace_ids
    withData,       \* traces_with_data
    spool,          \* log pieces in the spool file of each trace
    aliens,         \* traces whose spooled bytes framing refuses
    decoded,        \* finalized logs: the number of chunks of each
    code            \* the exit code, once known

pumpVars == <<gone, segments, holding, items, pump>>
captureVars == <<active, withData, spool, aliens, decoded>>
mainVars == <<stopping, pc, phase, startTimedOut, captureFailed, code>>
subscriberVars ==
    <<pumpVars, captureVars, mainVars, shutdown, publisherVars, topic>>

NoCode == -1
Segment == [trace : Trace, piece : Piece, closed : BOOLEAN]
Last(kind) == [trace |-> NoTrace, piece |-> kind, closed |-> FALSE]
PumpItem == Segment \cup {Last("end"), Last("error")}
IsSegment(x) == x \in Segment

SubscriberInit ==
    /\ PublisherInit
    /\ gone = {} /\ segments = 0 /\ holding = <<>> /\ items = <<>>
    /\ pump = "off" /\ stopping = FALSE /\ shutdown = FALSE
    /\ pc = "subscribe" /\ phase = "first"
    /\ startTimedOut = FALSE /\ captureFailed = FALSE
    /\ active = {} /\ withData = {} /\ spool = [t \in Trace |-> 0]
    /\ aliens = {} /\ decoded = NoLogs /\ code = NoCode

SubscriberTypeOK ==
    /\ PublisherTypeOK
    /\ gone \subseteq Trace /\ segments \in 0 .. MaxSegments
    /\ holding \in {<<>>} \cup {<<x>> : x \in PumpItem}
    /\ items \in Seq(PumpItem) /\ Len(items) <= PumpCapacity
    /\ pump \in {"off", "running", "done"}
    /\ stopping \in BOOLEAN /\ shutdown \in BOOLEAN
    /\ pc \in {"subscribe", "loop", "get", "stop", "join", "sweep",
               "finalise", "drain", "exited", "done"}
    /\ phase \in {"first", "next"}
    /\ startTimedOut \in BOOLEAN /\ captureFailed \in BOOLEAN
    /\ active \subseteq Trace /\ withData \subseteq active
    /\ spool \in [Trace -> Nat]
    /\ aliens \subseteq withData
    /\ IsLogMap(decoded)
    /\ code \in {NoCode, 0, 1, 10, 137}

-----------------------------------------------------------------------------
(* The reader thread and Envoy behind it. *)

PumpReads ==
    /\ pump = "running" /\ holding = <<>> /\ segments < MaxSegments
    /\ \E x \in Segment :
          /\ x.trace \notin gone
          /\ holding' = <<x>>
          /\ gone' = IF x.closed THEN gone \cup {x.trace} ELSE gone
    /\ segments' = segments + 1
    /\ UNCHANGED <<items, pump, captureVars, mainVars, shutdown, publisherVars, topic>>

(* Envoy ends the response, or it cannot be read or parsed. *)
PumpReadsLast ==
    /\ pump = "running" /\ holding = <<>>
    /\ holding' \in {<<Last("end")>>, <<Last("error")>>}
    /\ UNCHANGED <<gone, segments, items, pump, captureVars, mainVars,
                   shutdown, publisherVars, topic>>

PumpPuts ==
    /\ pump = "running" /\ holding # <<>>
    /\ ~stopping /\ Len(items) < PumpCapacity
    /\ items' = items \o holding
    /\ holding' = <<>>
    /\ pump' = IF IsSegment(holding[1]) THEN "running" ELSE "done"
    /\ UNCHANGED <<gone, segments, captureVars, mainVars, shutdown,
                   publisherVars, topic>>

(* The socket is shut down and nothing is queued once stopping is set. *)
PumpQuits ==
    /\ pump = "running" /\ stopping
    /\ holding' = <<>>
    /\ pump' = "done"
    /\ UNCHANGED <<gone, segments, items, captureVars, mainVars, shutdown,
                   publisherVars, topic>>

PumpStep == PumpReads \/ PumpReadsLast \/ PumpPuts \/ PumpQuits

-----------------------------------------------------------------------------
(* The main thread. *)

(* capture_trace: what it adds, and what it does when the trace is closed. *)
WithPiece(x) == IF x.piece = "none" THEN withData ELSE withData \cup {x.trace}
AliensWith(x) == IF x.piece = "alien" THEN aliens \cup {x.trace} ELSE aliens
SpoolWith(x) ==
    IF x.piece = "log" THEN [spool EXCEPT ![x.trace] = @ + 1] ELSE spool

(* finalize_stream raises: the closed trace cannot be framed. *)
Refused(x) == x.closed /\ x.trace \in WithPiece(x) \cap AliensWith(x)

(* Mutant of CaptureTrace: a closed trace stays in traces_with_data. *)
CaptureTraceKeepData(x) ==
    /\ ~Refused(x)
    /\ spool' = SpoolWith(x) /\ aliens' = AliensWith(x)
    /\ active' = IF x.closed THEN active \ {x.trace} ELSE active \cup {x.trace}
    /\ withData' = WithPiece(x)
    /\ UNCHANGED <<decoded, todo>>

CaptureTrace(x) ==
    /\ ~Refused(x)
    /\ spool' = IF x.closed THEN [spool EXCEPT ![x.trace] = 0] ELSE SpoolWith(x)
    /\ active' = IF x.closed THEN active \ {x.trace} ELSE active \cup {x.trace}
    /\ withData' = IF x.closed THEN WithPiece(x) \ {x.trace} ELSE WithPiece(x)
    /\ aliens' = AliensWith(x)
    /\ IF x.closed /\ x.trace \in WithPiece(x)
       THEN /\ decoded' = WithLog(decoded, x.trace, SpoolWith(x)[x.trace])
            /\ todo' = ConnectionEvents(x.trace, SpoolWith(x)[x.trace])
       ELSE UNCHANGED <<decoded, todo>>

UnchangedButTodo ==
    UNCHANGED <<pending, failures, drain, outbox, written, acks, refused,
                rejections, topic>>

(* sys.exit, or an exception that leaves main; a daemon thread dies too. *)
Exit(c) ==
    /\ pc' = "exited" /\ code' = c
    /\ PublisherDies
    /\ pump' = "done" /\ holding' = <<>> /\ items' = <<>>
    /\ UNCHANGED <<gone, segments, stopping, phase, startTimedOut,
                   captureFailed, captureVars, shutdown>>

Subscribe ==
    /\ pc = "subscribe" /\ ~shutdown
    /\ pc' = "loop" /\ pump' = "running"
    /\ UNCHANGED <<gone, segments, holding, items, stopping, phase,
                   startTimedOut, captureFailed, code, captureVars, shutdown,
                   publisherVars, topic>>

(* Mutant of SubscribeInterrupted: it exits without a terminal event. *)
SubscribeInterruptedSilently ==
    /\ pc = "subscribe" /\ shutdown
    /\ pc' = "drain" /\ code' = 0
    /\ UNCHANGED <<pumpVars, captureVars, stopping, phase, startTimedOut,
                   captureFailed, shutdown, publisherVars, topic>>

(* ShutdownRequested before Envoy answered: an empty capture completes. *)
SubscribeInterrupted ==
    /\ pc = "subscribe" /\ shutdown /\ Idle
    /\ todo' = <<Terminal("capture_complete")>>
    /\ pc' = "drain" /\ code' = 0
    /\ UnchangedButTodo
    /\ UNCHANGED <<pumpVars, captureVars, stopping, phase, startTimedOut,
                   captureFailed, shutdown>>

(* The head of a wait loop: a signal or the deadline ends it, otherwise    *)
(* next_trace first runs drain_available.                                  *)
ObserveShutdown ==
    /\ pc = "loop" /\ Idle /\ shutdown
    /\ pc' = "stop"
    /\ UNCHANGED <<pumpVars, captureVars, stopping, phase, startTimedOut,
                   captureFailed, code, shutdown, publisherVars, topic>>

WaitExpires ==
    /\ pc = "loop" /\ Idle
    /\ pc' = "stop"
    /\ startTimedOut' = (phase = "first")
    /\ UNCHANGED <<pumpVars, captureVars, stopping, phase, captureFailed,
                   code, shutdown, publisherVars, topic>>

BeginNextTrace ==
    /\ pc = "loop" /\ Idle /\ ~shutdown
    /\ pc' = "get" /\ drain' = "poll"
    /\ UNCHANGED <<pumpVars, captureVars, stopping, phase, startTimedOut,
                   captureFailed, code, shutdown, todo, pending, failures,
                   outbox, written, acks, refused, rejections, topic>>

GetTrace ==
    /\ pc = "get" /\ Idle /\ items # <<>>
    /\ IsSegment(Head(items)) /\ CaptureTrace(Head(items))
    /\ items' = Tail(items)
    /\ pc' = "loop" /\ phase' = "next"
    /\ UnchangedButTodo
    /\ UNCHANGED <<gone, segments, holding, pump, stopping, startTimedOut,
                   captureFailed, code, shutdown>>

GetTimesOut ==
    /\ pc = "get" /\ Idle /\ items = <<>>
    /\ pc' = "loop"
    /\ UNCHANGED <<pumpVars, captureVars, stopping, phase, startTimedOut,
                   captureFailed, code, shutdown, publisherVars, topic>>

(* Envoy closed the tap, the reader failed, or the log cannot be framed:   *)
(* what was accepted so far is drained before the exception goes on.       *)
GetFails ==
    /\ pc = "get" /\ Idle /\ items # <<>>
    /\ ~IsSegment(Head(items)) \/ Refused(Head(items))
    /\ items' = Tail(items)
    /\ captureFailed' = TRUE
    /\ pc' = "drain" /\ code' = 1
    /\ UNCHANGED <<gone, segments, holding, pump, captureVars, stopping,
                   phase, startTimedOut, shutdown, publisherVars, topic>>

StopPump ==
    /\ pc = "stop"
    /\ stopping' = TRUE /\ pc' = "join"
    /\ UNCHANGED <<pumpVars, captureVars, phase, startTimedOut, captureFailed,
                   code, shutdown, publisherVars, topic>>

JoinPump ==
    /\ pc = "join" /\ pump = "done" /\ ~captureFailed
    /\ pc' = IF shutdown THEN "sweep" ELSE "finalise"
    /\ UNCHANGED <<pumpVars, captureVars, stopping, phase, startTimedOut,
                   captureFailed, code, shutdown, publisherVars, topic>>

JoinPumpAndRaise ==
    /\ pc = "join" /\ pump = "done" /\ captureFailed
    /\ Exit(1)

(* After a signal: the traces the reader had already decoded. *)
SweepTrace ==
    /\ pc = "sweep" /\ Idle /\ items # <<>>
    /\ IsSegment(Head(items)) /\ CaptureTrace(Head(items))
    /\ items' = Tail(items)
    /\ UnchangedButTodo
    /\ UNCHANGED <<gone, segments, holding, pump, mainVars, shutdown>>

SweepEnds ==
    /\ pc = "sweep" /\ Idle
    /\ ~(items # <<>> /\ Head(items) # Last("end"))
    /\ pc' = "finalise"
    /\ UNCHANGED <<pumpVars, captureVars, stopping, phase, startTimedOut,
                   captureFailed, code, shutdown, publisherVars, topic>>

SweepRaises ==
    /\ pc = "sweep" /\ Idle /\ items # <<>>
    /\ \/ Head(items) = Last("error")
       \/ IsSegment(Head(items)) /\ Refused(Head(items))
    /\ Exit(1)

ReportStartTimeout ==
    /\ pc = "finalise" /\ Idle /\ startTimedOut
    /\ todo' = <<Terminal("capture_start_timeout")>>
    /\ pc' = "drain" /\ code' = 10
    /\ UnchangedButTodo
    /\ UNCHANGED <<pumpVars, captureVars, stopping, phase, startTimedOut,
                   captureFailed, shutdown>>

(* The logs of connections still open, in the order of their ids. *)
NextActive == CHOOSE t \in active : \A u \in active : t <= u

FinaliseActive ==
    /\ pc = "finalise" /\ Idle /\ ~startTimedOut
    /\ active # {} /\ NextActive \notin aliens
    /\ active' = active \ {NextActive}
    /\ withData' = withData \ {NextActive}
    /\ spool' = [spool EXCEPT ![NextActive] = 0]
    /\ decoded' = WithLog(decoded, NextActive, spool[NextActive])
    /\ todo' = ConnectionEvents(NextActive, spool[NextActive])
    /\ UnchangedButTodo
    /\ UNCHANGED <<pumpVars, aliens, mainVars, shutdown>>

FinaliseRaises ==
    /\ pc = "finalise" /\ Idle /\ ~startTimedOut
    /\ active # {} /\ NextActive \in aliens
    /\ Exit(1)

(* Mutant of CompleteCapture: it does not wait for the open connections. *)
CompleteBeforeActive ==
    /\ pc = "finalise" /\ Idle /\ ~startTimedOut
    /\ todo' = <<Terminal("capture_complete")>>
    /\ pc' = "drain" /\ code' = 0
    /\ UnchangedButTodo
    /\ UNCHANGED <<pumpVars, captureVars, stopping, phase, startTimedOut,
                   captureFailed, shutdown>>

(* The terminal event is published right behind the last log; drain_all      *)
(* then waits for both.                                                     *)
CompleteCapture ==
    /\ pc = "finalise" /\ Idle /\ ~startTimedOut /\ active = {}
    /\ todo' = <<Terminal("capture_complete")>>
    /\ pc' = "drain" /\ code' = 0
    /\ UnchangedButTodo
    /\ UNCHANGED <<pumpVars, captureVars, stopping, phase, startTimedOut,
                   captureFailed, shutdown>>

(* drain_all: another turn, success, or its deadline. *)
DrainTurn ==
    /\ pc = "drain" /\ DrainAgain
    /\ UNCHANGED <<pumpVars, captureVars, mainVars, shutdown>>

DrainSucceeds ==
    /\ pc = "drain" /\ AllDelivered /\ ~captureFailed
    /\ Exit(code)

DrainExpires ==
    /\ pc = "drain" /\ Idle /\ ~captureFailed
    /\ Exit(1)

(* After a capture failure the exception goes on whether or not the drain  *)
(* succeeded.                                                              *)
DrainAfterFailure ==
    /\ pc = "drain" /\ Idle /\ captureFailed
    /\ pc' = "stop"
    /\ UNCHANGED <<pumpVars, captureVars, stopping, phase, startTimedOut,
                   captureFailed, code, shutdown, publisherVars, topic>>

MainPublishes ==
    /\ PublisherStep
    /\ UNCHANGED <<pumpVars, captureVars, mainVars, shutdown>>

-----------------------------------------------------------------------------
(* Signals, the lifecycle watchdog, and bootstrap.sh. *)

RequestShutdown ==
    /\ pc \notin {"exited", "done"} /\ ~shutdown
    /\ shutdown' = TRUE
    /\ UNCHANGED <<pumpVars, captureVars, mainVars, publisherVars, topic>>

(* SIGKILL, once the grace period after SIGTERM is over. *)
WatchdogKills ==
    /\ pc \notin {"exited", "done"} /\ shutdown
    /\ Exit(137)

BootstrapEnds ==
    /\ pc = "exited" /\ code \in {0, 10}
    /\ pc' = "done"
    /\ UNCHANGED <<pumpVars, captureVars, stopping, phase, startTimedOut,
                   captureFailed, code, shutdown, publisherVars, topic>>

(* publish_capture_failure.py, whose own failure is ignored. *)
BootstrapReportsFailure ==
    /\ pc = "exited" /\ code \notin {0, 10}
    /\ pc' = "done"
    /\ topic' \in {topic, Append(topic, Terminal("capture_failed"))}
    /\ UNCHANGED <<pumpVars, captureVars, stopping, phase, startTimedOut,
                   captureFailed, code, shutdown, publisherVars>>

Broker == BrokerStep /\ UNCHANGED <<pumpVars, captureVars, mainVars, shutdown>>

(* The steps the program takes by itself, with nothing from outside. *)
MainStep ==
    \/ Subscribe \/ SubscribeInterrupted
    \/ ObserveShutdown \/ BeginNextTrace \/ GetTrace \/ GetTimesOut \/ GetFails
    \/ StopPump \/ JoinPump \/ JoinPumpAndRaise
    \/ SweepTrace \/ SweepEnds \/ SweepRaises
    \/ ReportStartTimeout \/ FinaliseActive \/ FinaliseRaises \/ CompleteCapture
    \/ DrainTurn \/ DrainSucceeds
    \/ MainPublishes
    \/ BootstrapEnds \/ BootstrapReportsFailure

SubscriberNext ==
    \/ MainStep \/ PumpStep \/ Broker
    \/ WaitExpires \/ DrainExpires \/ DrainAfterFailure
    \/ RequestShutdown \/ WatchdogKills
=============================================================================
