----------------------- MODULE CapturePipeline_proofs -----------------------
(***************************************************************************)
(* Theorems about CapturePipeline.                                         *)
(***************************************************************************)
EXTENDS CapturePipeline, WellFoundedInduction, SequenceTheorems, TLAPS

(* Appending to a sequence, concatenating two and taking one apart, in     *)
(* terms of the elements: what every buffer of the publisher rests on.     *)
LEMMA InAppend ==
    ASSUME NEW S, NEW s \in Seq(S), NEW x \in S, NEW e
    PROVE  In(e, Append(s, x)) <=> In(e, s) \/ e = x
<1>1. ASSUME In(e, s) PROVE In(e, Append(s, x))
  <2>1. PICK i \in 1 .. Len(s) : s[i] = e
    BY <1>1 DEF In
  <2>2. i \in 1 .. Len(Append(s, x)) /\ Append(s, x)[i] = e
    BY <2>1
  <2> QED BY <2>2 DEF In
<1>2. ASSUME e = x PROVE In(e, Append(s, x))
  <2>1. /\ Len(s) + 1 \in 1 .. Len(Append(s, x))
        /\ Append(s, x)[Len(s) + 1] = e
    BY <1>2
  <2> QED BY <2>1 DEF In
<1>3. ASSUME In(e, Append(s, x)) PROVE In(e, s) \/ e = x
  <2>1. PICK i \in 1 .. Len(Append(s, x)) : Append(s, x)[i] = e
    BY <1>3 DEF In
  <2>2. i \in 1 .. Len(s) => s[i] = e
    BY <2>1
  <2>3. i \notin 1 .. Len(s) => e = x
    BY <2>1
  <2> QED BY <2>2, <2>3 DEF In
<1> QED BY <1>1, <1>2, <1>3

LEMMA InConcat ==
    ASSUME NEW S, NEW s \in Seq(S), NEW u \in Seq(S), NEW e
    PROVE  In(e, s \o u) <=> In(e, s) \/ In(e, u)
<1>1. ASSUME In(e, s) PROVE In(e, s \o u)
  <2>1. PICK i \in 1 .. Len(s) : s[i] = e
    BY <1>1 DEF In
  <2>2. i \in 1 .. Len(s \o u) /\ (s \o u)[i] = e
    BY <2>1
  <2> QED BY <2>2 DEF In
<1>2. ASSUME In(e, u) PROVE In(e, s \o u)
  <2>1. PICK i \in 1 .. Len(u) : u[i] = e
    BY <1>2 DEF In
  <2>2. Len(s) + i \in 1 .. Len(s \o u) /\ (s \o u)[Len(s) + i] = e
    BY <2>1
  <2> QED BY <2>2 DEF In
<1>3. ASSUME In(e, s \o u) PROVE In(e, s) \/ In(e, u)
  <2>1. PICK i \in 1 .. Len(s \o u) : (s \o u)[i] = e
    BY <1>3 DEF In
  <2>2. i \in 1 .. Len(s) => s[i] = e
    BY <2>1
  <2>3. i \notin 1 .. Len(s) => i - Len(s) \in 1 .. Len(u) /\ u[i - Len(s)] = e
    BY <2>1
  <2> QED BY <2>2, <2>3 DEF In
<1> QED BY <1>1, <1>2, <1>3

LEMMA InHeadTail ==
    ASSUME NEW S, NEW s \in Seq(S), s # <<>>, NEW e, In(e, s)
    PROVE  e = Head(s) \/ In(e, Tail(s))
<1>1. PICK i \in 1 .. Len(s) : s[i] = e
  BY DEF In
<1>2. CASE i = 1
  BY <1>1, <1>2
<1>3. CASE i # 1
  <2>1. i - 1 \in 1 .. Len(Tail(s)) /\ Tail(s)[i - 1] = e
    BY <1>1, <1>3
  <2> QED BY <2>1 DEF In
<1> QED BY <1>2, <1>3

LEMMA InEmpty == \A e : ~In(e, <<>>)
  BY DEF In

-----------------------------------------------------------------------------
(* Types. *)

LEMMA EventTypes ==
    /\ \A t \in Trace, k \in Nat :
          /\ Chunk(t, k) \in Event /\ Complete(t, k) \in Event
          /\ ConnectionEvents(t, k) \in Seq(Event)
    /\ \A x \in TerminalType :
          Terminal(x) \in Event /\ <<Terminal(x)>> \in Seq(Event)
    /\ TerminalType
          = {"capture_complete", "capture_start_timeout", "capture_failed"}
<1>1. \A t \in Trace, k \in Nat : Chunk(t, k) \in Event /\ Complete(t, k) \in Event
  BY DEF Chunk, Complete, Event, ConnectionEventType
<1>2. ASSUME NEW t \in Trace, NEW k \in Nat
      PROVE  ConnectionEvents(t, k) \in Seq(Event)
  <2>1. k + 1 \in Nat
    OBVIOUS
  <2>2. ConnectionEvents(t, k) \in [1 .. k + 1 -> Event]
    BY <1>1 DEF ConnectionEvents
  <2> QED BY <2>1, <2>2
<1>3. ASSUME NEW x \in TerminalType
      PROVE  Terminal(x) \in Event /\ <<Terminal(x)>> \in Seq(Event)
  <2>1. Terminal(x) \in Event
    BY DEF Terminal, Event
  <2> QED BY <2>1
<1>4. TerminalType = {"capture_complete", "capture_start_timeout", "capture_failed"}
  BY DEF TerminalType
<1> QED BY <1>1, <1>2, <1>3, <1>4

LEMMA WithLogType ==
    ASSUME NEW f, IsLogMap(f), NEW t \in Trace, NEW k \in Nat
    PROVE  /\ IsLogMap(WithLog(f, t, k))
           /\ DOMAIN WithLog(f, t, k) = DOMAIN f \cup {t}
           /\ \A u \in DOMAIN f \cup {t} :
                 WithLog(f, t, k)[u] = IF u = t THEN k ELSE f[u]
<1>1. DOMAIN f \cup {t} \subseteq Trace
  BY DEF IsLogMap
<1>2. \A u \in DOMAIN f \cup {t} : (IF u = t THEN k ELSE f[u]) \in Nat
  BY DEF IsLogMap
<1>3. WithLog(f, t, k) \in [DOMAIN f \cup {t} -> Nat]
  BY <1>2 DEF WithLog
<1> QED BY <1>1, <1>3 DEF WithLog, IsLogMap

(* The steps of the publisher, of the library and of the broker, and the   *)
(* end of the process, keep the buffers well-typed.                        *)
LEMMA PublisherType ==
    ASSUME PublisherTypeOK, PublisherStep \/ BrokerStep \/ PublisherDies
    PROVE  PublisherTypeOK'
<1> USE DEF PublisherTypeOK
<1> USE PublisherAssumption
<1>1. CASE Publish
  BY <1>1 DEF Publish
<1>2. CASE Requeue
  BY <1>2 DEF Requeue
<1>3. CASE Produce
  <2>1. outbox' \in Seq(Event) /\ Len(outbox') = Len(outbox) + 1
    BY <1>3 DEF Produce
  <2> QED BY <1>3, <2>1 DEF Produce, Poll
<1>4. CASE QueueFull
  BY <1>4 DEF QueueFull, Poll
<1>5. CASE Drained
  BY <1>5 DEF Drained
<1>6. CASE BrokerAppends
  <2>1. outbox[written + 1] \in Event
    BY <1>6 DEF BrokerAppends
  <2> QED BY <1>6, <2>1 DEF BrokerAppends
<1>7. CASE BrokerAcknowledges
  BY <1>7 DEF BrokerAcknowledges
<1>8. CASE BrokerRejects
  <2>1. Head(outbox) \in Event /\ outbox' \in Seq(Event)
    BY <1>8 DEF BrokerRejects
  <2> QED BY <1>8, <2>1 DEF BrokerRejects
<1>9. CASE PublisherDies
  <2>1. PICK k \in written .. Len(outbox) :
          topic' = topic \o SubSeq(outbox, written + 1, k)
    BY <1>9 DEF PublisherDies
  <2>2. SubSeq(outbox, written + 1, k) \in Seq(Event)
    <3>1. \A i \in written + 1 .. k : outbox[i] \in Event
      BY <2>1
    <3> QED BY <3>1, <2>1
  <2>3. topic' \in Seq(Event)
    BY <2>1, <2>2
  <2>4. /\ todo' = <<>> /\ pending' = <<>> /\ failures' = <<>> /\ drain' = "idle"
        /\ outbox' = <<>> /\ written' = 0 /\ acks' = 0 /\ refused' = <<>>
        /\ rejections' = rejections
    BY <1>9 DEF PublisherDies
  <2> QED BY <2>3, <2>4
<1> QED BY <1>1, <1>2, <1>3, <1>4, <1>5, <1>6, <1>7, <1>8, <1>9
        DEF PublisherStep, BrokerStep

(* A set of naturals that is not empty has a least element. *)
LEMMA LeastOfSet ==
    ASSUME NEW S \in SUBSET Nat, S # {}
    PROVE  \E t \in S : \A u \in S : t <= u
<1> DEFINE less == OpToRel(<, Nat)
<1>1. \E t \in S : \A u \in S : ~(<<u, t>> \in less)
  <2> HIDE DEF less
  <2>1. IsWellFoundedOn(less, Nat)
    BY NatLessThanWellFounded DEF less
  <2> QED BY <2>1, WFMin
<1>2. \A t, u \in S : u < t => <<u, t>> \in less
  BY DEF OpToRel
<1> HIDE DEF less
<1>3. PICK t \in S : \A u \in S : ~(<<u, t>> \in less)
  BY <1>1
<1>4. \A u \in S : ~(u < t)
  BY <1>2, <1>3
<1>5. \A u \in S : t <= u
  BY <1>4
<1> QED BY <1>5

(* What capture_trace leaves behind is well-typed, in the buffers too. *)
LEMMA CaptureTraceType ==
    ASSUME SubscriberTypeOK, NEW x \in Segment, CaptureTrace(x)
    PROVE  /\ active' \subseteq Trace /\ withData' \subseteq active'
           /\ spool' \in [Trace -> Nat] /\ aliens' \subseteq withData'
           /\ IsLogMap(decoded') /\ todo' \in Seq(Event)
<1> USE DEF SubscriberTypeOK
<1>1. x.trace \in Trace /\ x.closed \in BOOLEAN
  BY DEF Segment
<1>2. SpoolWith(x) \in [Trace -> Nat] /\ SpoolWith(x)[x.trace] \in Nat
  BY <1>1 DEF SpoolWith
<1>3. spool' \in [Trace -> Nat]
  BY <1>1, <1>2 DEF CaptureTrace
<1>4. active' \subseteq Trace /\ withData' \subseteq active'
  BY <1>1 DEF CaptureTrace, WithPiece
<1>5. aliens' \subseteq withData'
  BY <1>1 DEF CaptureTrace, WithPiece, AliensWith, Refused
<1>6. IsLogMap(decoded') /\ todo' \in Seq(Event)
  <2>1. CASE x.closed /\ x.trace \in WithPiece(x)
    <3>1. decoded' = WithLog(decoded, x.trace, SpoolWith(x)[x.trace])
          /\ todo' = ConnectionEvents(x.trace, SpoolWith(x)[x.trace])
      BY <2>1 DEF CaptureTrace
    <3>2. IsLogMap(decoded')
      BY <3>1, <1>1, <1>2, WithLogType, ZenonT(40)
    <3>3. todo' \in Seq(Event)
      BY <3>1, <1>1, <1>2, EventTypes
    <3> QED BY <3>2, <3>3
  <2>2. CASE ~(x.closed /\ x.trace \in WithPiece(x))
    <3>1. decoded' = decoded /\ todo' = todo
      BY <2>2 DEF CaptureTrace
    <3> QED BY <3>1 DEF PublisherTypeOK
  <2> QED BY <2>1, <2>2
<1> QED BY <1>3, <1>4, <1>5, <1>6

(* The end of the process, from any of the steps that cause it. *)
LEMMA ExitType ==
    ASSUME SubscriberTypeOK, NEW c \in {NoCode, 0, 1, 10, 137}, Exit(c)
    PROVE  SubscriberTypeOK'
<1>1. PublisherTypeOK'
  BY PublisherType DEF Exit, SubscriberTypeOK
<1> QED BY <1>1, SubscriberAssumption DEF Exit, captureVars, SubscriberTypeOK, IsLogMap

(* Steps that leave the buffers alone. *)
LEMMA PublisherUnchanged ==
    ASSUME PublisherTypeOK, UNCHANGED <<publisherVars, topic>>
    PROVE  PublisherTypeOK'
BY DEF PublisherTypeOK, publisherVars

LEMMA SubscriberType ==
    ASSUME SubscriberTypeOK, SubscriberNext
    PROVE  SubscriberTypeOK'
<1> USE DEF SubscriberTypeOK, pumpVars, captureVars, mainVars
<1> USE SubscriberAssumption
<1>1. CASE PumpReads
  <2>1. PICK x \in Segment :
          /\ holding' = <<x>>
          /\ gone' = IF x.closed THEN gone \cup {x.trace} ELSE gone
    BY <1>1 DEF PumpReads
  <2>2. gone' \subseteq Trace /\ holding' \in {<<y>> : y \in PumpItem}
    BY <2>1 DEF Segment, PumpItem
  <2> QED BY <1>1, <2>2, PublisherUnchanged DEF PumpReads
<1>2. CASE PumpReadsLast
  <2>1. holding' \in {<<y>> : y \in PumpItem}
    BY <1>2 DEF PumpReadsLast, PumpItem
  <2> QED BY <1>2, <2>1, PublisherUnchanged DEF PumpReadsLast
<1>3. CASE PumpPuts
  <2>1. PICK y \in PumpItem : holding = <<y>>
    BY <1>3 DEF PumpPuts
  <2>2. items' \in Seq(PumpItem) /\ Len(items') = Len(items) + 1
    BY <1>3, <2>1 DEF PumpPuts
  <2> QED BY <1>3, <2>2, PublisherUnchanged DEF PumpPuts
<1>4. CASE PumpQuits
  BY <1>4, PublisherUnchanged DEF PumpQuits
<1>5. CASE \/ Subscribe \/ ObserveShutdown \/ GetTimesOut \/ StopPump
           \/ SweepEnds \/ DrainAfterFailure \/ BootstrapEnds
  <2>1. PublisherTypeOK'
    BY <1>5, PublisherUnchanged
       DEF Subscribe, ObserveShutdown, GetTimesOut, StopPump,
           SweepEnds, DrainAfterFailure, BootstrapEnds
  <2>2. /\ UNCHANGED <<gone, segments, holding, items, phase, startTimedOut,
                       captureFailed, captureVars, code, shutdown>>
        /\ pump' \in {pump, "running"} /\ stopping' \in BOOLEAN
        /\ pc' \in {"loop", "stop", "join", "finalise", "done"}
    BY <1>5 DEF Subscribe, ObserveShutdown, GetTimesOut, StopPump,
                SweepEnds, DrainAfterFailure, BootstrapEnds
  <2> QED BY <2>1, <2>2
<1>16. CASE WaitExpires
  <2>1. startTimedOut' \in BOOLEAN
    BY <1>16 DEF WaitExpires
  <2> QED BY <1>16, <2>1, PublisherUnchanged DEF WaitExpires
<1>17. CASE JoinPump
  BY <1>17, PublisherUnchanged DEF JoinPump
<1>18. CASE RequestShutdown
  BY <1>18, PublisherUnchanged DEF RequestShutdown
<1>6. CASE SubscribeInterrupted \/ ReportStartTimeout \/ CompleteCapture
  <2>1. todo' \in {<<Terminal("capture_complete")>>,
                   <<Terminal("capture_start_timeout")>>}
    BY <1>6 DEF SubscribeInterrupted, ReportStartTimeout, CompleteCapture
  <2>2. todo' \in Seq(Event)
    BY <2>1, EventTypes
  <2>3. PublisherTypeOK'
    BY <1>6, <2>2
       DEF SubscribeInterrupted, ReportStartTimeout, CompleteCapture,
           UnchangedButTodo, PublisherTypeOK
  <2> QED BY <1>6, <2>3
       DEF SubscribeInterrupted, ReportStartTimeout, CompleteCapture
<1>7. CASE BeginNextTrace
  BY <1>7 DEF BeginNextTrace, PublisherTypeOK
<1>8. CASE GetTrace \/ SweepTrace
  <2>1. Head(items) \in Segment /\ CaptureTrace(Head(items))
    BY <1>8 DEF GetTrace, SweepTrace, IsSegment
  <2>2. PublisherTypeOK'
    <3>1. todo' \in Seq(Event)
      BY <2>1, CaptureTraceType
    <3>2. UnchangedButTodo
      BY <1>8 DEF GetTrace, SweepTrace
    <3> QED BY <3>1, <3>2 DEF UnchangedButTodo, PublisherTypeOK
  <2>3. items' \in Seq(PumpItem) /\ Len(items') <= PumpCapacity
    <3>1. items # <<>> /\ items' = Tail(items)
      BY <1>8 DEF GetTrace, SweepTrace
    <3>2. Tail(items) \in Seq(PumpItem) /\ Len(Tail(items)) = Len(items) - 1
      BY <3>1
    <3> QED BY <3>1, <3>2
  <2>4. /\ active' \subseteq Trace /\ withData' \subseteq active'
        /\ spool' \in [Trace -> Nat] /\ aliens' \subseteq withData'
        /\ IsLogMap(decoded')
    BY <2>1, CaptureTraceType
  <2>5. /\ UNCHANGED <<gone, segments, holding, pump, stopping, startTimedOut,
                       captureFailed, code, shutdown>>
        /\ pc' \in {"loop", "sweep"} /\ phase' \in {phase, "next"}
    BY <1>8 DEF GetTrace, SweepTrace
  <2> QED BY <2>2, <2>3, <2>4, <2>5
<1>9. CASE GetFails
  <2>1. items' \in Seq(PumpItem) /\ Len(items') <= PumpCapacity
    BY <1>9 DEF GetFails
  <2> QED BY <1>9, <2>1, PublisherUnchanged DEF GetFails
<1>10. CASE \/ JoinPumpAndRaise \/ SweepRaises \/ FinaliseRaises
            \/ DrainExpires \/ WatchdogKills
  BY <1>10, ExitType DEF JoinPumpAndRaise, SweepRaises, FinaliseRaises,
                         DrainExpires, WatchdogKills
<1>11. CASE FinaliseActive
  <2>1. NextActive \in active
    <3>1. active \subseteq Nat /\ active # {}
      BY <1>11, TraceAssumption DEF FinaliseActive
    <3>2. \E t \in active : \A u \in active : t <= u
      BY <3>1, LeastOfSet
    <3> QED BY <3>2 DEF NextActive
  <2>2. spool[NextActive] \in Nat /\ NextActive \in Trace
    BY <2>1
  <2>3. /\ spool' \in [Trace -> Nat] /\ IsLogMap(decoded')
        /\ todo' \in Seq(Event)
    BY <1>11, <2>2, WithLogType, EventTypes, ZenonT(40) DEF FinaliseActive
  <2>4. PublisherTypeOK'
    BY <1>11, <2>3 DEF FinaliseActive, UnchangedButTodo, PublisherTypeOK
  <2>5. active' \subseteq Trace /\ withData' \subseteq active' /\ aliens' \subseteq withData'
    BY <1>11 DEF FinaliseActive
  <2> QED BY <1>11, <2>3, <2>4, <2>5 DEF FinaliseActive
<1>12. CASE DrainTurn
  BY <1>12 DEF DrainTurn, DrainAgain, PublisherTypeOK
<1>13. CASE DrainSucceeds
  <2>1. Exit(code) /\ code \in {NoCode, 0, 1, 10, 137}
    BY <1>13 DEF DrainSucceeds
  <2> QED BY <2>1, ExitType
<1>14. CASE MainPublishes \/ Broker
  <2>1. PublisherTypeOK'
    BY <1>14, PublisherType DEF MainPublishes, Broker
  <2> QED BY <1>14, <2>1 DEF MainPublishes, Broker
<1>15. CASE BootstrapReportsFailure
  <2>1. topic' \in Seq(Event)
    <3>1. Terminal("capture_failed") \in Event
      BY EventTypes
    <3>2. Append(topic, Terminal("capture_failed")) \in Seq(Event)
      BY <3>1 DEF PublisherTypeOK
    <3>3. topic' = topic \/ topic' = Append(topic, Terminal("capture_failed"))
      BY <1>15 DEF BootstrapReportsFailure
    <3>4. topic \in Seq(Event)
      BY DEF PublisherTypeOK
    <3> QED BY <3>2, <3>3, <3>4
  <2>2. PublisherTypeOK'
    BY <1>15, <2>1 DEF BootstrapReportsFailure, PublisherTypeOK, publisherVars
  <2> QED BY <1>15, <2>2 DEF BootstrapReportsFailure
<1> QED BY <1>1, <1>2, <1>3, <1>4, <1>5, <1>6, <1>7, <1>8, <1>9, <1>10,
           <1>11, <1>12, <1>13, <1>14, <1>15, <1>16, <1>17, <1>18
        DEF SubscriberNext, MainStep, PumpStep

(* A step of the aggregator reads the topic and keeps its own types. *)
LEMMA AggregatorType ==
    ASSUME topic \in Seq(Event), AggregatorTypeOK, AggregatorNext
    PROVE  AggregatorTypeOK' /\ topic' = topic
<1> USE DEF AggregatorTypeOK, Verdict
<1>1. IsLogMap(NoLogs)
  BY DEF IsLogMap, NoLogs
<1>2. ASSUME NEW t PROVE IsLogMap(Without(next, t))
  BY DEF IsLogMap, Without
<1>3. ASSUME Consuming
      PROVE  offset + 1 \in 0 .. Len(topic) /\ Received \in Event
  BY <1>3 DEF Consuming, Received
<1>4. ASSUME Consuming, IsConnectionEvent(Received)
      PROVE  /\ IsLogMap(WithLog(next, Received.trace, Received.n + 1))
             /\ IsLogMap(WithLog(files, Received.trace, Received.n))
  <2>1. Received.n \in Nat /\ Received.n + 1 \in Nat /\ Received.trace \in Trace
    BY <1>3, <1>4 DEF Event, IsConnectionEvent, TerminalType, ConnectionEventType
  <2> QED BY <2>1, WithLogType
<1>5. CASE ConsumeChunk
  <2>1. Consuming /\ IsConnectionEvent(Received) /\ offset' = offset + 1 /\ topic' = topic
    BY <1>5 DEF ConsumeChunk, IsConnectionEvent, ConnectionEventType
  <2>2. IsLogMap(next') /\ UNCHANGED <<files, received, result, committed, restarts>>
    BY <1>4, <1>5, <2>1 DEF ConsumeChunk, Raise
  <2>3. apc' \in {apc, "exited"} /\ verdict' \in {verdict, "disorder"}
    BY <1>5 DEF ConsumeChunk, Raise
  <2> QED BY <1>3, <2>1, <2>2, <2>3
<1>6. CASE ConsumeLogComplete
  <2>1. Consuming /\ IsConnectionEvent(Received) /\ offset' = offset + 1 /\ topic' = topic
    BY <1>6 DEF ConsumeLogComplete, IsConnectionEvent, ConnectionEventType
  <2>2. IsLogMap(next') /\ IsLogMap(files') /\ received' \in Nat
    BY <1>2, <1>4, <1>6, <2>1 DEF ConsumeLogComplete, Raise
  <2>3. /\ apc' \in {apc, "exited"} /\ verdict' \in {verdict, "disorder"}
        /\ UNCHANGED <<result, committed, restarts>>
    BY <1>6 DEF ConsumeLogComplete, Raise
  <2> QED BY <1>3, <2>1, <2>2, <2>3
<1>7. CASE ConsumeCaptureComplete
  <2>1. Consuming /\ offset' = offset + 1 /\ topic' = topic
    BY <1>7 DEF ConsumeCaptureComplete
  <2>2. /\ UNCHANGED <<next, files, received, result, committed, restarts>>
        /\ apc' \in {"analyse", "exited"}
        /\ verdict' \in {verdict, "disorder", "no_logs"}
    BY <1>7 DEF ConsumeCaptureComplete, Raise
  <2> QED BY <1>3, <2>1, <2>2
<1>8. CASE ConsumeStartTimeout
  <2>1. offset' \in 0 .. Len(topic)
    BY <1>3, <1>8 DEF ConsumeStartTimeout, StoreResult
  <2> QED BY <1>8, <2>1 DEF ConsumeStartTimeout, StoreResult
<1>9. CASE ConsumeFailure
  <2>1. offset' \in 0 .. Len(topic)
    BY <1>3, <1>9 DEF ConsumeFailure
  <2> QED BY <1>9, <2>1 DEF ConsumeFailure, Raise
<1>10. CASE ActivityExpires \/ CommitExpires
  BY <1>10 DEF ActivityExpires, CommitExpires, Raise
<1>11. CASE Analyse \/ CommitTerminal
  BY <1>11 DEF Analyse, StoreResult, CommitTerminal
<1>12. CASE Restart
  BY <1>1, <1>12, RestartAssumption DEF Restart
<1> QED BY <1>5, <1>6, <1>7, <1>8, <1>9, <1>10, <1>11, <1>12
        DEF AggregatorNext, AggregatorStep

(* The subscriber only adds to the topic, so what the aggregator has read  *)
(* stays read.                                                             *)
LEMMA TopicGrows ==
    ASSUME SubscriberTypeOK, SubscriberNext
    PROVE  \E u \in Seq(Event) : topic' = topic \o u
<1> USE DEF PublisherTypeOK
<1>1. topic \in Seq(Event)
  BY DEF SubscriberTypeOK
<1>2. ASSUME topic' = topic
      PROVE  \E u \in Seq(Event) : topic' = topic \o u
  <2>1. <<>> \in Seq(Event) /\ topic \o <<>> = topic
    BY <1>1
  <2> QED BY <1>2, <2>1
<1>3. ASSUME NEW x \in Event, topic' = Append(topic, x)
      PROVE  \E u \in Seq(Event) : topic' = topic \o u
  <2>1. <<x>> \in Seq(Event) /\ topic \o <<x>> = Append(topic, x)
    BY <1>1
  <2> QED BY <1>3, <2>1
<1>4. CASE Broker
  <2>1. CASE BrokerAppends
    <3>1. outbox[written + 1] \in Event
      BY <2>1 DEF BrokerAppends, SubscriberTypeOK
    <3> QED BY <2>1, <3>1, <1>3 DEF BrokerAppends
  <2>2. CASE BrokerAcknowledges \/ BrokerRejects
    BY <2>2, <1>2 DEF BrokerAcknowledges, BrokerRejects
  <2> QED BY <1>4, <2>1, <2>2 DEF Broker, BrokerStep
<1>5. ASSUME PublisherDies
      PROVE  \E u \in Seq(Event) : topic' = topic \o u
  <2>1. PICK k \in written .. Len(outbox) :
          topic' = topic \o SubSeq(outbox, written + 1, k)
    BY <1>5 DEF PublisherDies
  <2>2. \A i \in written + 1 .. k : outbox[i] \in Event
    BY <2>1 DEF SubscriberTypeOK
  <2>3. SubSeq(outbox, written + 1, k) \in Seq(Event)
    BY <2>1, <2>2 DEF SubscriberTypeOK
  <2> QED BY <2>1, <2>3
<1>6. CASE BootstrapReportsFailure
  <2>1. Terminal("capture_failed") \in Event
    BY EventTypes
  <2>2. topic' = topic \/ topic' = Append(topic, Terminal("capture_failed"))
    BY <1>6 DEF BootstrapReportsFailure
  <2> QED BY <2>1, <2>2, <1>2, <1>3
<1>7. CASE \/ JoinPumpAndRaise \/ SweepRaises \/ FinaliseRaises
           \/ DrainExpires \/ WatchdogKills \/ DrainSucceeds
  BY <1>5, <1>7 DEF JoinPumpAndRaise, SweepRaises, FinaliseRaises,
                    DrainExpires, WatchdogKills, DrainSucceeds, Exit
<1>8. CASE MainPublishes
  BY <1>2, <1>8 DEF MainPublishes, PublisherStep, Publish, Requeue, Produce,
                    QueueFull, Drained
<1>9. CASE \/ Subscribe \/ ObserveShutdown \/ WaitExpires \/ GetTimesOut
           \/ GetFails \/ StopPump \/ JoinPump \/ SweepEnds
           \/ DrainAfterFailure \/ BootstrapEnds \/ RequestShutdown \/ PumpStep
  BY <1>2, <1>9
     DEF Subscribe, ObserveShutdown, WaitExpires, GetTimesOut, GetFails,
         StopPump, JoinPump, SweepEnds, DrainAfterFailure, BootstrapEnds,
         RequestShutdown, PumpStep, PumpReads, PumpReadsLast, PumpPuts, PumpQuits
<1>10. CASE \/ SubscribeInterrupted \/ ReportStartTimeout \/ CompleteCapture
            \/ FinaliseActive \/ GetTrace \/ SweepTrace
            \/ BeginNextTrace \/ DrainTurn
  BY <1>2, <1>10
     DEF SubscribeInterrupted, ReportStartTimeout, CompleteCapture,
         FinaliseActive, GetTrace, SweepTrace, UnchangedButTodo,
         BeginNextTrace, DrainTurn, DrainAgain
<1> QED BY <1>4, <1>6, <1>7, <1>8, <1>9, <1>10 DEF SubscriberNext, MainStep

(* Every variable keeps its type: the buffers, the topic and the logs on   *)
(* both sides hold well-formed events, and the aggregator reads no further *)
(* than the topic goes.                                                    *)
THEOREM TypeCorrect == Spec => []TypeOK
<1>1. Init => TypeOK
  <2> SUFFICES ASSUME Init PROVE TypeOK
    OBVIOUS
  <2> USE DEF Init
  <2>1. PublisherTypeOK
    <3>1. <<>> \in Seq(Event) /\ Len(<<>>) = 0
      OBVIOUS
    <3>2. 0 \in 0 .. MaxRejections
      BY PublisherAssumption
    <3>3. PublisherInit
      BY DEF SubscriberInit
    <3> QED BY <3>1, <3>2, <3>3 DEF PublisherInit, PublisherTypeOK
  <2>2. IsLogMap(NoLogs)
    BY DEF IsLogMap, NoLogs
  <2>3. SubscriberTypeOK
    <3>1. [t \in Trace |-> 0] \in [Trace -> Nat]
      OBVIOUS
    <3>2. <<>> \in Seq(PumpItem) /\ Len(<<>>) = 0 /\ <<>> \in {<<>>}
      OBVIOUS
    <3>3. 0 \in 0 .. MaxSegments /\ 0 <= PumpCapacity
      BY SubscriberAssumption
    <3>4. /\ gone = {} /\ segments = 0 /\ holding = <<>> /\ items = <<>>
          /\ pump = "off" /\ stopping = FALSE /\ shutdown = FALSE
          /\ pc = "subscribe" /\ phase = "first"
          /\ startTimedOut = FALSE /\ captureFailed = FALSE
          /\ active = {} /\ withData = {} /\ spool = [t \in Trace |-> 0]
          /\ aliens = {} /\ decoded = NoLogs /\ code = NoCode
      BY DEF SubscriberInit
    <3>5. /\ segments \in 0 .. MaxSegments
          /\ holding \in {<<>>} \cup {<<x>> : x \in PumpItem}
      BY <3>2, <3>3, <3>4
    <3>6. items \in Seq(PumpItem) /\ Len(items) <= PumpCapacity
      BY <3>2, <3>3, <3>4
    <3>7. spool \in [Trace -> Nat] /\ IsLogMap(decoded)
      BY <3>1, <3>4, <2>2
    <3>8. /\ gone \subseteq Trace
          /\ active \subseteq Trace /\ withData \subseteq active
          /\ aliens \subseteq withData
      BY <3>4
    <3>9. /\ pump \in {"off", "running", "done"}
          /\ stopping \in BOOLEAN /\ shutdown \in BOOLEAN
          /\ pc \in {"subscribe", "loop", "get", "stop", "join", "sweep",
                     "finalise", "drain", "exited", "done"}
          /\ phase \in {"first", "next"}
          /\ startTimedOut \in BOOLEAN /\ captureFailed \in BOOLEAN
          /\ code \in {NoCode, 0, 1, 10, 137}
      BY <3>4
    <3> QED BY <2>1, <3>5, <3>6, <3>7, <3>8, <3>9 DEF SubscriberTypeOK
  <2>4. AggregatorTypeOK
    <3>1. /\ apc = "consume" /\ offset = 0 /\ next = NoLogs /\ files = NoLogs
          /\ received = 0 /\ verdict = "none" /\ result = "none"
          /\ committed = FALSE /\ restarts = 0
      BY DEF AggregatorInit
    <3>2. offset \in 0 .. Len(topic)
      BY <2>1, <3>1 DEF PublisherTypeOK
    <3>3. restarts \in 0 .. MaxRestarts
      BY <3>1, RestartAssumption
    <3> QED BY <2>2, <3>1, <3>2, <3>3 DEF AggregatorTypeOK, Verdict
  <2> QED BY <2>3, <2>4 DEF TypeOK
<1>2. TypeOK /\ [Next]_vars => TypeOK'
  <2> SUFFICES ASSUME TypeOK, [Next]_vars PROVE TypeOK'
    OBVIOUS
  <2> USE DEF TypeOK
  <2>1. CASE SubscriberNext /\ UNCHANGED aggregatorVars
    <3>1. SubscriberTypeOK'
      BY <2>1, SubscriberType
    <3>2. Len(topic') >= Len(topic) /\ Len(topic') \in Nat /\ Len(topic) \in Nat
      <4>1. PICK u \in Seq(Event) : topic' = topic \o u
        BY <2>1, TopicGrows
      <4>2. topic \in Seq(Event)
        BY DEF SubscriberTypeOK, PublisherTypeOK
      <4> QED BY <4>1, <4>2
    <3>3. offset' \in 0 .. Len(topic')
      BY <2>1, <3>2 DEF aggregatorVars, AggregatorTypeOK
    <3>4. AggregatorTypeOK'
      BY <2>1, <3>3 DEF aggregatorVars, AggregatorTypeOK
    <3> QED BY <3>1, <3>4
  <2>2. CASE AggregatorNext /\ UNCHANGED <<pumpVars, captureVars, mainVars,
                                          shutdown, publisherVars>>
    <3>1. topic \in Seq(Event)
      BY DEF SubscriberTypeOK, PublisherTypeOK
    <3>2. AggregatorTypeOK' /\ topic' = topic
      BY <2>2, <3>1, AggregatorType
    <3>3. PublisherTypeOK'
      BY <2>2, <3>2, PublisherUnchanged DEF SubscriberTypeOK
    <3>4. SubscriberTypeOK'
      BY <2>2, <3>3 DEF SubscriberTypeOK, pumpVars, captureVars, mainVars
    <3> QED BY <3>2, <3>4
  <2>3. CASE UNCHANGED vars
    <3>1. UNCHANGED <<publisherVars, topic>> /\ UNCHANGED aggregatorVars
      BY <2>3 DEF vars, subscriberVars
    <3>2. PublisherTypeOK'
      BY <3>1, PublisherUnchanged DEF SubscriberTypeOK
    <3>3. SubscriberTypeOK'
      BY <2>3, <3>2
         DEF vars, subscriberVars, SubscriberTypeOK, pumpVars, captureVars, mainVars
    <3>4. AggregatorTypeOK'
      BY <3>1 DEF aggregatorVars, AggregatorTypeOK
    <3> QED BY <3>3, <3>4
  <2> QED BY <2>1, <2>2, <2>3 DEF Next
<1> QED BY <1>1, <1>2, PTL DEF Spec
-----------------------------------------------------------------------------
(***************************************************************************)
(* A subscriber that exits with success has published everything: the     *)
(* proof of SuccessMeansDelivered.                                         *)
(*                                                                         *)
(* What the topic holds at the end follows from where each event can be on *)
(* its way there: still to be published, in one of the two buffers, in a   *)
(* report of failure, or in the topic.  No step of the publisher, of the   *)
(* library or of the broker loses one (PublisherKeeps), and drain_all      *)
(* succeeds only when the topic is all that is left.                       *)
(***************************************************************************)

(* In the library's queue and not yet stored by the broker. *)
Unsent(e) == \E i \in written + 1 .. Len(outbox) : outbox[i] = e

Accounted ==
    {e \in Event :
        \/ In(e, todo) \/ In(e, pending) \/ In(e, failures) \/ In(e, refused)
        \/ Unsent(e) \/ InTopic(e)}

LogEvents(t, k) == {Complete(t, k)} \cup {Chunk(t, i - 1) : i \in 1 .. k}

LogsAccounted ==
    \A t \in Trace, k \in Nat :
        t \in DOMAIN decoded /\ decoded[t] = k => LogEvents(t, k) \subseteq Accounted

(* What main owes Kafka while it runs, and what it knows of its exit code. *)
Owed == pc \notin {"exited", "done"} => LogsAccounted
Closing == pc = "drain" /\ code = 0 => Terminal("capture_complete") \in Accounted
Codes ==
    /\ code = 0 => pc \in {"drain", "exited", "done"} /\ ~captureFailed
    /\ captureFailed => pc \in {"drain", "stop", "join", "exited", "done"}

-----------------------------------------------------------------------------
(* Events on their way. *)

(* No step of the publisher loses an event it has been given. *)
LEMMA MainKeeps ==
    ASSUME PublisherTypeOK, PublisherStep
    PROVE  Accounted \subseteq Accounted'
<1> SUFFICES ASSUME NEW e \in Accounted
             PROVE  e \in Accounted'
  OBVIOUS
<1> USE DEF PublisherTypeOK
<1>1. CASE Publish
  <2>1. In(e, todo) => e = Head(todo) \/ In(e, todo')
    BY <1>1, InHeadTail DEF Publish
  <2>2. Head(todo) \in Event
    BY <1>1 DEF Publish
  <2>3. In(e, pending') <=> In(e, pending) \/ e = Head(todo)
    BY <1>1, <2>2, InAppend DEF Publish
  <2>4. Unsent(e) => Unsent(e)'
    BY <1>1 DEF Publish, Unsent
  <2> QED BY <1>1, <2>1, <2>3, <2>4 DEF Publish, Accounted, InTopic
<1>2. CASE Requeue
  <2>1. In(e, failures \o refused) <=> In(e, failures) \/ In(e, refused)
    BY InConcat
  <2>2. failures \o refused \in Seq(Event)
    OBVIOUS
  <2>3. In(e, pending') <=> In(e, failures) \/ In(e, refused) \/ In(e, pending)
    BY <1>2, <2>1, <2>2, InConcat DEF Requeue
  <2>4. Unsent(e) => Unsent(e)'
    BY <1>2 DEF Requeue, Unsent
  <2> QED BY <1>2, <2>3, <2>4 DEF Requeue, Accounted, InTopic
<1>3. ASSUME Poll PROVE In(e, failures) \/ In(e, refused) => In(e, failures')
  BY <1>3, InConcat DEF Poll
<1>4. CASE Produce
  <2>1. In(e, pending) => e = Head(pending) \/ In(e, pending')
    BY <1>4, InHeadTail DEF Produce
  <2>2. Head(pending) \in Event
    BY <1>4 DEF Produce
  <2>3. ASSUME e = Head(pending) PROVE Unsent(e)'
    <3>1. /\ Len(outbox') = Len(outbox) + 1
          /\ outbox'[Len(outbox) + 1] = e
          /\ written' = written
      BY <1>4, <2>2, <2>3 DEF Produce
    <3> QED BY <3>1 DEF Unsent
  <2>4. ASSUME Unsent(e) PROVE Unsent(e)'
    <3>1. PICK i \in written + 1 .. Len(outbox) : outbox[i] = e
      BY <2>4 DEF Unsent
    <3>2. /\ i \in written' + 1 .. Len(outbox')
          /\ outbox'[i] = e
      BY <1>4, <2>2, <3>1 DEF Produce
    <3> QED BY <3>2 DEF Unsent
  <2> QED BY <1>3, <1>4, <2>1, <2>3, <2>4 DEF Produce, Accounted, InTopic
<1>5. CASE QueueFull
  <2>1. Unsent(e) => Unsent(e)'
    BY <1>5 DEF QueueFull, Unsent
  <2> QED BY <1>3, <1>5, <2>1 DEF QueueFull, Accounted, InTopic
<1>6. CASE Drained
  BY <1>6 DEF Drained, Accounted, InTopic, Unsent
<1> QED BY <1>1, <1>2, <1>4, <1>5, <1>6 DEF PublisherStep

(* Nor does the library or the broker. *)
LEMMA BrokerKeeps ==
    ASSUME PublisherTypeOK, BrokerStep
    PROVE  Accounted \subseteq Accounted'
<1> SUFFICES ASSUME NEW e \in Accounted
             PROVE  e \in Accounted'
  OBVIOUS
<1> USE DEF PublisherTypeOK
<1>1. CASE BrokerAppends
  <2>1. outbox[written + 1] \in Event
    BY <1>1 DEF BrokerAppends
  <2>2. In(e, topic') <=> In(e, topic) \/ e = outbox[written + 1]
    BY <1>1, <2>1, InAppend DEF BrokerAppends
  <2>3. Unsent(e) => Unsent(e)' \/ e = outbox[written + 1]
    BY <1>1 DEF BrokerAppends, Unsent
  <2> QED BY <1>1, <2>2, <2>3 DEF BrokerAppends, Accounted, InTopic
<1>2. CASE BrokerAcknowledges
  <2>1. ASSUME Unsent(e) PROVE Unsent(e)'
    <3>1. PICK i \in written + 1 .. Len(outbox) : outbox[i] = e
      BY <2>1 DEF Unsent
    <3>2. /\ i - 1 \in written' + 1 .. Len(outbox')
          /\ outbox'[i - 1] = e
      BY <1>2, <3>1 DEF BrokerAcknowledges
    <3> QED BY <3>2 DEF Unsent
  <2> QED BY <1>2, <2>1 DEF BrokerAcknowledges, Accounted, InTopic
<1>3. CASE BrokerRejects
  <2>1. Head(outbox) \in Event
    BY <1>3 DEF BrokerRejects
  <2>2. In(e, refused') <=> In(e, refused) \/ e = Head(outbox)
    BY <1>3, <2>1, InAppend DEF BrokerRejects
  <2>3. ASSUME Unsent(e) PROVE Unsent(e)' \/ e = Head(outbox)
    <3>1. PICK i \in written + 1 .. Len(outbox) : outbox[i] = e
      BY <2>3 DEF Unsent
    <3>2. CASE i = 1
      BY <1>3, <3>1, <3>2 DEF BrokerRejects
    <3>3. CASE i # 1
      <4>1. /\ i - 1 \in written' + 1 .. Len(outbox')
            /\ outbox'[i - 1] = e
        BY <1>3, <3>1, <3>3 DEF BrokerRejects
      <4> QED BY <4>1 DEF Unsent
    <3> QED BY <3>2, <3>3
  <2> QED BY <1>3, <2>2, <2>3 DEF BrokerRejects, Accounted, InTopic
<1> QED BY <1>1, <1>2, <1>3 DEF BrokerStep

(* Starting the publication of some events, or another turn of the drain,  *)
(* loses none either, and adds what is to be published.                    *)
LEMMA TodoKeeps ==
    ASSUME Idle, UnchangedButTodo
    PROVE  /\ Accounted \subseteq Accounted'
           /\ \A e \in Event : In(e, todo') => e \in Accounted'
BY InEmpty DEF Idle, UnchangedButTodo, Accounted, Unsent, InTopic

LEMMA UnchangedKeeps ==
    ASSUME UNCHANGED <<todo, pending, failures, outbox, written, refused, topic>>
    PROVE  Accounted' = Accounted
BY DEF Accounted, Unsent, InTopic

(* publish_connection is given every chunk of the log, and its end. *)
LEMMA LogPublished ==
    ASSUME NEW t \in Trace, NEW k \in Nat, NEW e \in LogEvents(t, k)
    PROVE  e \in Event /\ In(e, ConnectionEvents(t, k))
<1>1. Len(ConnectionEvents(t, k)) = k + 1
  <2>1. ConnectionEvents(t, k) \in Seq(Event)
    BY EventTypes
  <2>2. DOMAIN ConnectionEvents(t, k) = 1 .. k + 1
    BY DEF ConnectionEvents
  <2> QED BY <2>1, <2>2
<1>2. CASE e = Complete(t, k)
  <2>1. ConnectionEvents(t, k)[k + 1] = e
    BY <1>2 DEF ConnectionEvents
  <2> QED BY <1>1, <1>2, <2>1, EventTypes DEF In
<1>3. ASSUME NEW i \in 1 .. k, e = Chunk(t, i - 1)
      PROVE  e \in Event /\ In(e, ConnectionEvents(t, k))
  <2>1. ConnectionEvents(t, k)[i] = e
    BY <1>3 DEF ConnectionEvents
  <2>2. i - 1 \in Nat
    OBVIOUS
  <2> QED BY <1>1, <1>3, <2>1, <2>2, EventTypes DEF In
<1> QED BY <1>2, <1>3 DEF LogEvents

(* A finished log joins those main has to publish. *)
LEMMA LogJoins ==
    ASSUME Idle, UnchangedButTodo, IsLogMap(decoded), LogsAccounted,
           NEW t \in Trace, NEW k \in Nat,
           decoded' = WithLog(decoded, t, k), todo' = ConnectionEvents(t, k)
    PROVE  LogsAccounted'
<1>1. /\ DOMAIN decoded' = DOMAIN decoded \cup {t}
      /\ \A u \in DOMAIN decoded' : decoded'[u] = IF u = t THEN k ELSE decoded[u]
  BY DEF WithLog
<1>2. LogEvents(t, k) \subseteq Accounted'
  BY LogPublished, TodoKeeps
<1> QED BY <1>1, <1>2, TodoKeeps DEF LogsAccounted

LEMMA LogsKeep ==
    ASSUME LogsAccounted, decoded' = decoded, Accounted \subseteq Accounted'
    PROVE  LogsAccounted'
BY DEF LogsAccounted

-----------------------------------------------------------------------------
(* The steps of the subscriber. *)

(* Main reaches an exit code of 0 only on the way to its last drain, and   *)
(* never after its capture has failed.                                     *)
LEMMA CodesStep ==
    ASSUME Codes, SubscriberNext
    PROVE  Codes'
<1> USE DEF Codes, NoCode
<1>1. CASE \/ JoinPumpAndRaise \/ SweepRaises \/ FinaliseRaises
           \/ DrainExpires \/ WatchdogKills \/ DrainSucceeds
  BY <1>1 DEF JoinPumpAndRaise, SweepRaises, FinaliseRaises, DrainExpires,
              WatchdogKills, DrainSucceeds, Exit
<1>2. CASE PumpStep \/ Broker \/ MainPublishes \/ RequestShutdown
           \/ DrainTurn \/ SweepTrace \/ FinaliseActive
  BY <1>2 DEF PumpStep, PumpReads, PumpReadsLast, PumpPuts, PumpQuits, Broker,
              MainPublishes, RequestShutdown, DrainTurn, SweepTrace,
              FinaliseActive, mainVars
<1>3. CASE \/ Subscribe \/ ObserveShutdown \/ WaitExpires \/ GetTimesOut
           \/ GetFails \/ StopPump \/ JoinPump \/ SweepEnds
           \/ DrainAfterFailure \/ BootstrapEnds \/ BootstrapReportsFailure
  BY <1>3 DEF Subscribe, ObserveShutdown, WaitExpires, GetTimesOut, GetFails,
              StopPump, JoinPump, SweepEnds, DrainAfterFailure, BootstrapEnds,
              BootstrapReportsFailure
<1>4. CASE \/ SubscribeInterrupted \/ ReportStartTimeout \/ CompleteCapture
           \/ GetTrace \/ BeginNextTrace
  BY <1>4 DEF SubscribeInterrupted, ReportStartTimeout, CompleteCapture,
              GetTrace, BeginNextTrace
<1> QED BY <1>1, <1>2, <1>3, <1>4 DEF SubscriberNext, MainStep

(* Steps that leave the logs alone owe no more than before. *)
LEMMA OwedKeeps ==
    ASSUME Owed, Closing, Accounted \subseteq Accounted', decoded' = decoded,
           pc \in {"exited", "done"} => pc' \in {"exited", "done"},
           pc' = "drain" /\ code' = 0 => pc = "drain" /\ code = 0
    PROVE  Owed' /\ Closing'
BY LogsKeep DEF Owed, Closing

(* What main takes from the reader's queue is finished or is kept open. *)
LEMMA CaptureKeeps ==
    ASSUME SubscriberTypeOK, Idle, UnchangedButTodo, LogsAccounted,
           NEW x \in Segment, CaptureTrace(x)
    PROVE  LogsAccounted'
<1>1. x.trace \in Trace /\ SpoolWith(x)[x.trace] \in Nat
  BY DEF Segment, SpoolWith, SubscriberTypeOK
<1>2. CASE x.closed /\ x.trace \in WithPiece(x)
  BY <1>1, <1>2, LogJoins DEF CaptureTrace, SubscriberTypeOK
<1>3. CASE ~(x.closed /\ x.trace \in WithPiece(x))
  BY <1>3, LogsKeep, TodoKeeps DEF CaptureTrace
<1> QED BY <1>2, <1>3

LEMMA OwedStep ==
    ASSUME SubscriberTypeOK, Owed, Closing, SubscriberNext
    PROVE  Owed' /\ Closing'
<1>1. PublisherTypeOK
  BY DEF SubscriberTypeOK
<1>2. CASE \/ JoinPumpAndRaise \/ SweepRaises \/ FinaliseRaises
           \/ DrainExpires \/ WatchdogKills \/ DrainSucceeds
           \/ BootstrapEnds \/ BootstrapReportsFailure
  BY <1>2 DEF JoinPumpAndRaise, SweepRaises, FinaliseRaises, DrainExpires,
              WatchdogKills, DrainSucceeds, Exit, BootstrapEnds,
              BootstrapReportsFailure, Owed, Closing
<1>3. CASE MainPublishes
  BY <1>1, <1>3, MainKeeps, OwedKeeps DEF MainPublishes, captureVars, mainVars
<1>4. CASE Broker
  BY <1>1, <1>4, BrokerKeeps, OwedKeeps DEF Broker, captureVars, mainVars
<1>5. CASE PumpStep \/ RequestShutdown \/ DrainTurn
  <2>1. UNCHANGED <<todo, pending, failures, outbox, written, refused, topic>>
    BY <1>5 DEF PumpStep, PumpReads, PumpReadsLast, PumpPuts, PumpQuits,
                RequestShutdown, DrainTurn, DrainAgain, publisherVars
  <2>2. UNCHANGED <<captureVars, mainVars>>
    BY <1>5 DEF PumpStep, PumpReads, PumpReadsLast, PumpPuts, PumpQuits,
                RequestShutdown, DrainTurn
  <2> QED BY <2>1, <2>2, UnchangedKeeps, OwedKeeps DEF captureVars, mainVars
<1>6. CASE \/ Subscribe \/ ObserveShutdown \/ WaitExpires \/ GetTimesOut
           \/ GetFails \/ StopPump \/ JoinPump \/ SweepEnds
           \/ DrainAfterFailure \/ BeginNextTrace
  <2> USE DEF Subscribe, ObserveShutdown, WaitExpires, GetTimesOut, GetFails,
              StopPump, JoinPump, SweepEnds, DrainAfterFailure, BeginNextTrace
  <2>1. UNCHANGED <<todo, pending, failures, outbox, written, refused, topic>>
    BY <1>6 DEF publisherVars
  <2>2. decoded' = decoded
    BY <1>6 DEF captureVars
  <2>3. /\ pc \notin {"exited", "done"}
        /\ ~(pc' = "drain" /\ code' = 0)
    BY <1>6
  <2> QED BY <2>1, <2>2, <2>3, UnchangedKeeps, OwedKeeps
<1>7. CASE SubscribeInterrupted \/ ReportStartTimeout \/ CompleteCapture
  <2> USE DEF SubscribeInterrupted, ReportStartTimeout, CompleteCapture
  <2>1. Idle /\ UnchangedButTodo
    BY <1>7
  <2>2. decoded' = decoded /\ pc \notin {"exited", "done"}
    BY <1>7 DEF captureVars
  <2>3. LogsAccounted'
    BY <2>1, <2>2, TodoKeeps, LogsKeep DEF Owed
  <2>4. ASSUME code' = 0 PROVE (Terminal("capture_complete") \in Accounted)'
    <3>1. todo' = <<Terminal("capture_complete")>>
      BY <1>7, <2>4
    <3>2. In(Terminal("capture_complete"), todo')
      BY <3>1 DEF In
    <3> QED BY <2>1, <3>2, TodoKeeps, EventTypes
  <2> QED BY <2>3, <2>4 DEF Owed, Closing
<1>8. CASE GetTrace \/ SweepTrace
  <2> USE DEF GetTrace, SweepTrace
  <2>1. /\ Idle /\ UnchangedButTodo
        /\ Head(items) \in Segment /\ CaptureTrace(Head(items))
    BY <1>8 DEF IsSegment
  <2>2. pc \notin {"exited", "done"} /\ pc' # "drain"
    BY <1>8 DEF mainVars
  <2>3. LogsAccounted'
    BY <2>1, <2>2, CaptureKeeps DEF Owed
  <2> QED BY <2>2, <2>3 DEF Owed, Closing
<1>9. CASE FinaliseActive
  <2>1. NextActive \in Trace
    <3>1. active \in SUBSET Nat /\ active # {}
      BY <1>9, TraceAssumption DEF FinaliseActive, SubscriberTypeOK
    <3>2. NextActive \in active
      BY <3>1, LeastOfSet DEF NextActive
    <3> QED BY <3>2 DEF SubscriberTypeOK
  <2>2. spool[NextActive] \in Nat
    BY <2>1 DEF SubscriberTypeOK
  <2>3. pc \notin {"exited", "done"} /\ pc' # "drain"
    BY <1>9 DEF FinaliseActive, mainVars
  <2>4. LogsAccounted'
    BY <1>9, <2>1, <2>2, <2>3, LogJoins DEF FinaliseActive, Owed, SubscriberTypeOK
  <2> QED BY <2>3, <2>4 DEF Owed, Closing
<1> QED BY <1>2, <1>3, <1>4, <1>5, <1>6, <1>7, <1>8, <1>9
        DEF SubscriberNext, MainStep

(* drain_all succeeds when what is accounted for is in the topic. *)
LEMMA DrainedMeansInTopic ==
    ASSUME PublisherTypeOK, AllDelivered, NEW e \in Accounted
    PROVE  InTopic(e)
<1>1. ~Unsent(e)
  BY DEF AllDelivered, Unsent, PublisherTypeOK
<1> QED BY <1>1, InEmpty DEF AllDelivered, Idle, Accounted

LEMMA DeliveredStep ==
    ASSUME SubscriberTypeOK, Owed, Closing, SuccessMeansDelivered, SubscriberNext
    PROVE  SuccessMeansDelivered'
<1>1. ASSUME NEW e, InTopic(e) PROVE InTopic(e)'
  <2>1. PICK u \in Seq(Event) : topic' = topic \o u
    BY TopicGrows
  <2> QED BY <1>1, <2>1, InConcat DEF InTopic, SubscriberTypeOK, PublisherTypeOK
<1>2. ASSUME decoded' = decoded, code' = code,
             pc' \in {"exited", "done"} => pc \in {"exited", "done"}
      PROVE  SuccessMeansDelivered'
  BY <1>1, <1>2 DEF SuccessMeansDelivered, InTopic
<1>3. CASE PumpStep \/ Broker \/ MainPublishes \/ RequestShutdown \/ DrainTurn
  BY <1>2, <1>3
     DEF PumpStep, PumpReads, PumpReadsLast, PumpPuts, PumpQuits, Broker,
         MainPublishes, RequestShutdown, DrainTurn, captureVars, mainVars
<1>4. CASE BootstrapEnds \/ BootstrapReportsFailure
  BY <1>2, <1>4 DEF BootstrapEnds, BootstrapReportsFailure, captureVars
<1>5. CASE \/ Subscribe \/ ObserveShutdown \/ WaitExpires \/ GetTimesOut
           \/ GetFails \/ StopPump \/ JoinPump \/ SweepEnds
           \/ DrainAfterFailure \/ SubscribeInterrupted
           \/ ReportStartTimeout \/ CompleteCapture \/ GetTrace
           \/ BeginNextTrace \/ SweepTrace \/ FinaliseActive
  <2>1. pc' \notin {"exited", "done"}
    BY <1>5
       DEF Subscribe, ObserveShutdown, WaitExpires, GetTimesOut, GetFails,
           StopPump, JoinPump, SweepEnds, DrainAfterFailure,
           SubscribeInterrupted, ReportStartTimeout, CompleteCapture,
           GetTrace, BeginNextTrace, SweepTrace, FinaliseActive, mainVars
  <2> QED BY <2>1 DEF SuccessMeansDelivered
<1>6. CASE \/ JoinPumpAndRaise \/ SweepRaises \/ FinaliseRaises
           \/ DrainExpires \/ WatchdogKills
  <2>1. code' # 0
    BY <1>6 DEF JoinPumpAndRaise, SweepRaises, FinaliseRaises, DrainExpires,
                WatchdogKills, Exit
  <2> QED BY <2>1 DEF SuccessMeansDelivered
<1>7. CASE DrainSucceeds
  <2>1. /\ pc = "drain" /\ AllDelivered
        /\ code' = code /\ decoded' = decoded
    BY <1>7 DEF DrainSucceeds, Exit, captureVars
  <2> SUFFICES ASSUME code = 0
               PROVE  SuccessMeansDelivered'
    BY <2>1 DEF SuccessMeansDelivered
  <2>2. ASSUME NEW e \in Accounted PROVE InTopic(e)'
    BY <2>1, <2>2, <1>1, DrainedMeansInTopic DEF SubscriberTypeOK
  <2>3. InTopic(Terminal("capture_complete"))'
    BY <2>1, <2>2 DEF Closing
  <2>4. ASSUME NEW t \in DOMAIN decoded, NEW k \in Nat, decoded[t] = k
        PROVE  /\ InTopic(Complete(t, k))'
               /\ \A i \in 1 .. k : InTopic(Chunk(t, i - 1))'
    <3>1. t \in Trace
      BY DEF SubscriberTypeOK, IsLogMap
    <3>2. LogEvents(t, k) \subseteq Accounted
      BY <2>1, <2>4, <3>1 DEF Owed, LogsAccounted
    <3> QED BY <2>2, <3>2 DEF LogEvents
  <2>5. \A t \in DOMAIN decoded : decoded[t] \in Nat
    BY DEF SubscriberTypeOK, IsLogMap
  <2> QED BY <2>1, <2>3, <2>4, <2>5 DEF SuccessMeansDelivered, InTopic
<1> QED BY <1>3, <1>4, <1>5, <1>6, <1>7 DEF SubscriberNext, MainStep

(* drain_all returns only when nothing is undelivered: a subscriber that   *)
(* exits with 0 has every event of every finished log, and                 *)
(* capture_complete, in the topic, whatever the broker refused before.     *)
THEOREM Delivered == Spec => []SuccessMeansDelivered
<1>1. Init => Owed /\ Closing /\ Codes /\ SuccessMeansDelivered
  BY DEF Init, SubscriberInit, NoLogs, NoCode, Owed, LogsAccounted, Closing,
         Codes, SuccessMeansDelivered
<1>2. /\ TypeOK /\ Owed /\ Closing /\ Codes /\ SuccessMeansDelivered
      /\ [Next]_vars
      => (Owed /\ Closing /\ Codes /\ SuccessMeansDelivered)'
  <2> SUFFICES ASSUME TypeOK, Owed, Closing, Codes, SuccessMeansDelivered,
                      [Next]_vars
               PROVE  (Owed /\ Closing /\ Codes /\ SuccessMeansDelivered)'
    OBVIOUS
  <2>1. CASE SubscriberNext
    BY <2>1, OwedStep, CodesStep, DeliveredStep DEF TypeOK
  <2>2. CASE UNCHANGED <<captureVars, mainVars, publisherVars, topic>>
    <3>1. UNCHANGED <<todo, pending, failures, outbox, written, refused, topic>>
      BY <2>2 DEF publisherVars
    <3>2. Owed' /\ Closing'
      BY <2>2, <3>1, UnchangedKeeps, OwedKeeps DEF captureVars, mainVars
    <3>3. Codes' /\ SuccessMeansDelivered'
      BY <2>2 DEF captureVars, mainVars, Codes, SuccessMeansDelivered, InTopic
    <3> QED BY <3>2, <3>3
  <2>3. CASE AggregatorNext /\ UNCHANGED <<pumpVars, captureVars, mainVars,
                                          shutdown, publisherVars>>
    <3>1. topic' = topic
      BY <2>3, AggregatorType DEF TypeOK, SubscriberTypeOK, PublisherTypeOK
    <3> QED BY <2>2, <2>3, <3>1
  <2>4. CASE UNCHANGED vars
    BY <2>2, <2>4 DEF vars, subscriberVars
  <2> QED BY <2>1, <2>3, <2>4 DEF Next
<1> QED BY <1>1, <1>2, TypeCorrect, PTL DEF Spec

-----------------------------------------------------------------------------
(* The inductive invariant.                                                *)

IsChunk(e) == e.type = "connection_log_chunk"

\* The events before s[i] leave no log open but the one that s[i] goes on with.
Fits(s, i) ==
    IF IsConnectionEvent(s[i]) /\ s[i].n > 0
    THEN i > 1 /\ s[i - 1] = Chunk(s[i].trace, s[i].n - 1)
    ELSE i > 1 /\ IsChunk(s[i - 1]) => s[i].type = "capture_failed"

Orderly(s) == \A i \in 1 .. Len(s) : Fits(s, i)
Closed(s) == s # <<>> => ~IsChunk(s[Len(s)])

\* What is in the topic and on its way there, in the order of its arrival.
InFlight == SubSeq(outbox, written + 1, Len(outbox))
Line == topic \o (InFlight \o (pending \o todo))

\* The line is in order, and main adds whole logs to it as long as it lives.
LineInOrder ==
    /\ failures = <<>> /\ refused = <<>>
    /\ Orderly(Line)
    /\ IF pc \in {"exited", "done"}
       THEN todo = <<>> /\ pending = <<>> /\ outbox = <<>> /\ drain = "idle"
       ELSE Closed(Line)

\* The log that is open behind the first o events of the topic.
OpenAfter(o) ==
    IF o > 0 /\ IsChunk(topic[o])
    THEN WithLog(NoLogs, topic[o].trace, topic[o].n + 1) ELSE NoLogs

Reading == apc = "consume" => next = OpenAfter(offset)

-----------------------------------------------------------------------------
(* Sequences of events that are in order.                                  *)

LEMMA EventShape ==
    ASSUME NEW e \in Event
    PROVE  /\ IsConnectionEvent(e) => e.trace \in Trace
           /\ e.n \in Nat
           /\ ~IsConnectionEvent(e) => e.type \in TerminalType /\ e.n = 0
           /\ e.type \in {"connection_log_chunk", "connection_log_complete"} \cup TerminalType
  BY DEF Event, IsConnectionEvent, ConnectionEventType, TerminalType

\* What is in order behind a closed line may follow it.
LEMMA OrderlyConcat ==
    ASSUME NEW s \in Seq(Event), NEW u \in Seq(Event),
           Orderly(s), Closed(s), Orderly(u)
    PROVE  /\ Orderly(s \o u)
           /\ Closed(u) => Closed(s \o u)
  <1> DEFINE w == s \o u
  <1>1. /\ w \in Seq(Event) /\ Len(w) = Len(s) + Len(u)
        /\ \A i \in 1 .. Len(s) + Len(u) : w[i] = IF i <= Len(s) THEN s[i] ELSE u[i - Len(s)]
    BY ConcatProperties
  <1>2. Len(s) \in Nat /\ Len(u) \in Nat
    OBVIOUS
  <1> HIDE DEF w
  <1>3. ASSUME NEW i \in 1 .. Len(w) PROVE Fits(w, i)
    <2>1. CASE i <= Len(s)
      <3>1. w[i] = s[i] /\ (i > 1 => w[i - 1] = s[i - 1]) /\ Fits(s, i)
        BY <1>1, <1>2, <2>1 DEF Orderly
      <3> QED BY <3>1 DEF Fits
    <2>2. CASE i > Len(s) + 1
      <3>1. /\ w[i] = u[i - Len(s)] /\ w[i - 1] = u[i - Len(s) - 1]
            /\ i - Len(s) > 1 /\ i > 1 /\ Fits(u, i - Len(s))
        BY <1>1, <1>2, <2>2 DEF Orderly
      <3> QED BY <3>1 DEF Fits
    <2>3. CASE i = Len(s) + 1
      <3>1. w[i] = u[1] /\ Fits(u, 1) /\ (i > 1 => w[i - 1] = s[Len(s)] /\ s # <<>>)
        BY <1>1, <1>2, <2>3 DEF Orderly
      <3> QED BY <3>1 DEF Fits, Closed
    <2> QED BY <1>1, <1>2, <2>1, <2>2, <2>3
  <1>4. ASSUME Closed(u), w # <<>> PROVE ~IsChunk(w[Len(w)])
    <2>1. CASE u = <<>>
      <3>1. w = s
        BY <2>1, ConcatEmptySeq DEF w
      <3> QED BY <1>4, <3>1 DEF Closed
    <2>2. CASE u # <<>>
      <3>1. Len(u) > 0 /\ w[Len(w)] = u[Len(u)]
        BY <1>1, <1>2, <2>2
      <3> QED BY <1>4, <2>2, <3>1 DEF Closed
    <2> QED BY <2>1, <2>2
  <1> QED BY <1>3, <1>4 DEF Orderly, Closed, w

\* A part that was cut off at the end leaves the rest in order.
LEMMA OrderlyPrefix ==
    ASSUME NEW s \in Seq(Event), NEW u \in Seq(Event), Orderly(s \o u)
    PROVE  Orderly(s)
  <1>1. /\ Len(s \o u) = Len(s) + Len(u)
        /\ \A i \in 1 .. Len(s) : (s \o u)[i] = s[i]
    BY ConcatProperties
  <1>2. ASSUME NEW i \in 1 .. Len(s) PROVE Fits(s, i)
    <2>1. Fits(s \o u, i) /\ (s \o u)[i] = s[i] /\ (i > 1 => (s \o u)[i - 1] = s[i - 1])
      BY <1>1 DEF Orderly
    <2> QED BY <2>1 DEF Fits
  <1> QED BY <1>2 DEF Orderly

\* A log is published as a whole, and its end closes it.
LEMMA LogOrderly ==
    ASSUME NEW t \in Trace, NEW k \in Nat
    PROVE  /\ ConnectionEvents(t, k) \in Seq(Event)
           /\ Orderly(ConnectionEvents(t, k)) /\ Closed(ConnectionEvents(t, k))
  <1> DEFINE s == ConnectionEvents(t, k)
  <1>1. s \in Seq(Event)
    BY EventTypes
  <1>2. DOMAIN s = 1 .. k + 1 /\ k + 1 \in Nat
    BY DEF ConnectionEvents
  <1>3. Len(s) = k + 1
    BY <1>1, <1>2
  <1>4. ASSUME NEW i \in 1 .. k + 1
        PROVE  /\ s[i] = IF i <= k THEN Chunk(t, i - 1) ELSE Complete(t, k)
               /\ s[i].n = i - 1 /\ s[i].trace = t /\ IsConnectionEvent(s[i])
               /\ IsChunk(s[i]) <=> i <= k
    BY DEF ConnectionEvents, Chunk, Complete, IsConnectionEvent, ConnectionEventType, IsChunk
  <1> HIDE DEF s
  <1>5. ASSUME NEW i \in 1 .. k + 1 PROVE Fits(s, i)
    <2>1. CASE i = 1
      BY <1>4, <2>1 DEF Fits
    <2>2. CASE i > 1
      <3>1. s[i - 1] = Chunk(t, i - 2) /\ i - 1 - 1 = i - 2
        BY <1>4, <2>2
      <3> QED BY <1>4, <2>2, <3>1 DEF Fits
    <2> QED BY <2>1, <2>2
  <1>6. Orderly(s)
    BY <1>3, <1>5 DEF Orderly
  <1>7. Closed(s)
    BY <1>3, <1>4 DEF Closed
  <1> QED BY <1>1, <1>6, <1>7 DEF s

\* A terminal event closes nothing and leaves nothing open.
LEMMA TerminalOrderly ==
    ASSUME NEW x \in TerminalType
    PROVE  /\ <<Terminal(x)>> \in Seq(Event)
           /\ Orderly(<<Terminal(x)>>) /\ Closed(<<Terminal(x)>>)
  <1>1. ~IsConnectionEvent(Terminal(x)) /\ ~IsChunk(Terminal(x))
    BY DEF Terminal, TerminalType, IsConnectionEvent, ConnectionEventType, IsChunk
  <1>2. Len(<<Terminal(x)>>) = 1 /\ <<Terminal(x)>>[1] = Terminal(x)
    OBVIOUS
  <1> QED BY <1>1, <1>2, EventTypes DEF Orderly, Closed, Fits

-----------------------------------------------------------------------------
(* The publisher and the broker hand the line on as it is.                 *)

\* Concatenation, of events.
LEMMA Concat ==
    ASSUME NEW s \in Seq(Event), NEW t \in Seq(Event), NEW u \in Seq(Event)
    PROVE  (s \o t) \o u = s \o (t \o u) /\ s \o t \in Seq(Event)
  <1>1. (s \o t) \o u = s \o (t \o u)
    BY ConcatAssociative
  <1> QED BY <1>1, ConcatProperties

\* Cutting a queue in two, taking its first element, and adding one.
LEMMA QueueParts ==
    ASSUME NEW s \in Seq(Event), NEW a \in 0 .. Len(s)
    PROVE  /\ SubSeq(s, a + 1, Len(s)) \in Seq(Event)
           /\ \A k \in a .. Len(s) :
                 /\ SubSeq(s, a + 1, k) \in Seq(Event)
                 /\ SubSeq(s, k + 1, Len(s)) \in Seq(Event)
                 /\ SubSeq(s, a + 1, Len(s)) = SubSeq(s, a + 1, k) \o SubSeq(s, k + 1, Len(s))
  <1>1. ASSUME NEW m \in 1 .. Len(s) + 1, NEW n \in 0 .. Len(s)
        PROVE  SubSeq(s, m, n) \in Seq(Event)
    <2>1. \A i \in m .. n : s[i] \in Event
      OBVIOUS
    <2>2. m \in Int /\ n \in Int
      OBVIOUS
    <2> QED BY <2>1, <2>2, SubSeqProperties
  <1>2. Len(s) \in 0 .. Len(s) /\ Len(s) \in Nat
    OBVIOUS
  <1>3. ASSUME NEW k \in a .. Len(s)
        PROVE  SubSeq(s, a + 1, Len(s)) = SubSeq(s, a + 1, k) \o SubSeq(s, k + 1, Len(s))
    <2>1. /\ a + 1 \in 1 .. Len(s) + 1 /\ k \in (a + 1) - 1 .. Len(s)
          /\ Len(s) \in k .. Len(s)
      OBVIOUS
    <2> QED BY <2>1, ConcatAdjacentSubSeq
  <1>4. ASSUME NEW k \in a .. Len(s)
        PROVE  k \in 0 .. Len(s) /\ k + 1 \in 1 .. Len(s) + 1
    OBVIOUS
  <1>5. a + 1 \in 1 .. Len(s) + 1
    OBVIOUS
  <1> QED BY <1>1, <1>2, <1>3, <1>4, <1>5

LEMMA QueueFirst ==
    ASSUME NEW s \in Seq(Event), NEW i \in 1 .. Len(s)
    PROVE  SubSeq(s, i, i) = <<s[i]>>
  <1>1. SubSeq(s, i, i) = SubSeq(s, i, i - 1) \o <<s[i]>>
    <2>1. i \in i .. Len(s)
      OBVIOUS
    <2> QED BY <2>1, SubSeqRecursiveSecond
  <1>2. SubSeq(s, i, i - 1) = <<>>
    BY SubSeqEmpty
  <1>3. <<s[i]>> \in Seq(Event)
    OBVIOUS
  <1>4. <<>> \o <<s[i]>> = <<s[i]>>
    BY <1>3, ConcatEmptySeq
  <1> QED BY <1>1, <1>2, <1>4

LEMMA QueueAppend ==
    ASSUME NEW s \in Seq(Event), NEW a \in 0 .. Len(s), NEW e \in Event
    PROVE  SubSeq(Append(s, e), a + 1, Len(Append(s, e))) = SubSeq(s, a + 1, Len(s)) \o <<e>>
  <1> DEFINE w == Append(s, e)
  <1>1. w \in Seq(Event) /\ Len(w) = Len(s) + 1 /\ w[Len(s) + 1] = e
    OBVIOUS
  <1>2. ASSUME NEW m \in 1 .. Len(s) PROVE w[m] = s[m]
    OBVIOUS
  <1>3. SubSeq(w, a + 1, Len(w)) = SubSeq(w, a + 1, Len(w) - 1) \o <<w[Len(w)]>>
    <2>1. a + 1 \in 1 .. Len(w) /\ Len(w) \in a + 1 .. Len(w)
      BY <1>1
    <2> HIDE DEF w
    <2> QED BY <1>1, <2>1, SubSeqRecursiveSecond
  <1>4. SubSeq(w, a + 1, Len(s)) = SubSeq(s, a + 1, Len(s))
    <2>1. SubSeq(s, a + 1, Len(s)) \in Seq(Event) /\ a \in 0 .. Len(w) /\ Len(s) \in a .. Len(w)
      BY <1>1, QueueParts
    <2>2. SubSeq(w, a + 1, Len(s)) \in Seq(Event)
      BY <1>1, <2>1, QueueParts
    <2> HIDE DEF w
    <2>3. Len(SubSeq(w, a + 1, Len(s))) = Len(SubSeq(s, a + 1, Len(s)))
      BY <1>1
    <2>4. \A i \in 1 .. Len(SubSeq(w, a + 1, Len(s))) :
             SubSeq(w, a + 1, Len(s))[i] = SubSeq(s, a + 1, Len(s))[i]
      BY <1>1, <1>2
    <2> QED BY <2>1, <2>2, <2>3, <2>4, SeqEqual
  <1>5. Len(w) - 1 = Len(s) /\ w[Len(w)] = e
    BY <1>1
  <1> HIDE DEF w
  <1>6. SubSeq(w, a + 1, Len(w)) = SubSeq(s, a + 1, Len(s)) \o <<e>>
    BY <1>3, <1>4, <1>5
  <1> QED BY <1>6 DEF w

LEMMA QueueTail ==
    ASSUME NEW s \in Seq(Event), NEW a \in 1 .. Len(s)
    PROVE  SubSeq(Tail(s), (a - 1) + 1, Len(Tail(s))) = SubSeq(s, a + 1, Len(s))
  <1> DEFINE w == Tail(s)
  <1>1. s # <<>>
    OBVIOUS
  <1>2. w \in Seq(Event) /\ Len(w) = Len(s) - 1 /\ \A i \in 1 .. Len(w) : w[i] = s[i + 1]
    BY <1>1, HeadTailProperties
  <1>3. a - 1 \in 0 .. Len(w) /\ a \in 0 .. Len(s) /\ Len(s) \in Nat
    BY <1>2
  <1> HIDE DEF w
  <1>4. SubSeq(w, (a - 1) + 1, Len(w)) \in Seq(Event) /\ SubSeq(s, a + 1, Len(s)) \in Seq(Event)
    BY <1>2, <1>3, QueueParts
  <1>5. Len(SubSeq(w, (a - 1) + 1, Len(w))) = Len(SubSeq(s, a + 1, Len(s)))
    BY <1>2, <1>3
  <1>6. \A i \in 1 .. Len(SubSeq(w, (a - 1) + 1, Len(w))) :
           SubSeq(w, (a - 1) + 1, Len(w))[i] = SubSeq(s, a + 1, Len(s))[i]
    BY <1>2, <1>3
  <1> QED BY <1>4, <1>5, <1>6, SeqEqual DEF w

LEMMA LineType ==
    ASSUME PublisherTypeOK
    PROVE  /\ InFlight \in Seq(Event) /\ pending \o todo \in Seq(Event)
           /\ InFlight \o (pending \o todo) \in Seq(Event) /\ Line \in Seq(Event)
  <1>1. InFlight \in Seq(Event)
    BY QueueParts DEF PublisherTypeOK, InFlight
  <1>2. pending \o todo \in Seq(Event)
    BY ConcatProperties DEF PublisherTypeOK
  <1>3. InFlight \o (pending \o todo) \in Seq(Event)
    BY <1>1, <1>2, ConcatProperties
  <1>4. Line \in Seq(Event)
    BY <1>3, ConcatProperties DEF Line, PublisherTypeOK
  <1> QED BY <1>1, <1>2, <1>3, <1>4

\* Whatever step main, library or broker take, nothing overtakes.
LEMMA LineKept ==
    ASSUME PublisherTypeOK, failures = <<>>, refused = <<>>, MaxRejections = 0,
           PublisherStep \/ BrokerStep
    PROVE  failures' = <<>> /\ refused' = <<>> /\ Line' = Line
  <1>0. /\ topic \in Seq(Event) /\ outbox \in Seq(Event) /\ pending \in Seq(Event)
        /\ todo \in Seq(Event) /\ written \in 0 .. Len(outbox)
        /\ rejections \in 0 .. MaxRejections
    BY DEF PublisherTypeOK
  <1>1. InFlight \in Seq(Event) /\ <<>> \o <<>> = <<>> /\ <<>> \o pending = pending
    BY <1>0, LineType
  <1>2. CASE Publish
    <2> DEFINE h == <<Head(todo)>>
               r == Tail(todo)
    <2>1. h \in Seq(Event) /\ r \in Seq(Event) /\ todo = h \o r /\ pending' = pending \o h
      BY <1>0, <1>2 DEF Publish
    <2>2. todo' = r
      BY <1>2 DEF Publish
    <2> HIDE DEF h, r
    <2>3. (pending \o h) \o r = pending \o (h \o r)
      <3>1. pending \in Seq(Event) /\ h \in Seq(Event) /\ r \in Seq(Event)
        BY <1>0, <2>1
      <3> QED BY ONLY <3>1, Concat, ZenonT(40)
    <2>4. pending' \o todo' = pending \o todo
      BY ONLY <2>1, <2>2, <2>3, Zenon
    <2> QED BY <1>2, <2>4 DEF Publish, Line, InFlight
  <1>3. CASE Requeue
    <2>1. pending' = pending
      BY <1>1, <1>3 DEF Requeue
    <2> QED BY <1>3, <2>1 DEF Requeue, Line, InFlight
  <1>4. CASE Produce
    <2> DEFINE h == <<Head(pending)>>
               r == Tail(pending)
    <2>1. /\ Head(pending) \in Event /\ h \in Seq(Event) /\ r \in Seq(Event)
          /\ pending = h \o r
      BY <1>0, <1>4 DEF Produce
    <2>2. InFlight' = InFlight \o h
      BY <1>0, <1>4, <2>1, QueueAppend DEF Produce, InFlight
    <2>3. pending' = r /\ todo' = todo
      BY <1>4 DEF Produce
    <2> HIDE DEF h, r
    <2>4. r \o todo \in Seq(Event) /\ (h \o r) \o todo = h \o (r \o todo)
      <3>1. h \in Seq(Event) /\ r \in Seq(Event) /\ todo \in Seq(Event)
        BY <1>0, <2>1
      <3> QED BY ONLY <3>1, Concat, ZenonT(40)
    <2>5. (InFlight \o h) \o (r \o todo) = InFlight \o (h \o (r \o todo))
      BY ONLY <1>1, <2>1, <2>4, Concat, ZenonT(40)
    <2>6. InFlight' \o (pending' \o todo') = InFlight \o (pending \o todo)
      BY ONLY <2>1, <2>2, <2>3, <2>4, <2>5, Zenon
    <2> QED BY <1>1, <1>4, <2>6 DEF Produce, Poll, Line
  <1>5. CASE QueueFull \/ Drained
    BY <1>1, <1>5 DEF QueueFull, Drained, Poll, Line, InFlight
  <1>6. CASE BrokerAppends
    <2> DEFINE h == <<outbox[written + 1]>>
               r == InFlight'
               q == pending \o todo
    <2>1. outbox[written + 1] \in Event /\ written + 1 \in written .. Len(outbox)
      BY <1>0, <1>6 DEF BrokerAppends
    <2>2. /\ r \in Seq(Event)
          /\ InFlight = SubSeq(outbox, written + 1, written + 1) \o r
      BY <1>0, <1>6, <2>1, QueueParts DEF BrokerAppends, InFlight
    <2>3. SubSeq(outbox, written + 1, written + 1) = h
      BY <1>0, <2>1, QueueFirst
    <2>4. h \in Seq(Event) /\ topic' = topic \o h
      BY <1>0, <1>6, <2>1, AppendIsConcat DEF BrokerAppends
    <2>5. q \in Seq(Event) /\ Line = topic \o (InFlight \o q)
      BY LineType DEF Line
    <2>6. Line' = topic' \o (r \o q)
      BY <1>6 DEF BrokerAppends, Line
    <2> HIDE DEF h, r, q
    <2>7. r \o q \in Seq(Event) /\ (h \o r) \o q = h \o (r \o q)
      BY ONLY <2>2, <2>4, <2>5, Concat, ZenonT(40)
    <2>8. (topic \o h) \o (r \o q) = topic \o (h \o (r \o q))
      <3>1. topic \in Seq(Event) /\ h \in Seq(Event) /\ r \o q \in Seq(Event)
        BY <1>0, <2>4, <2>7
      <3> QED BY ONLY <3>1, Concat, ZenonT(40)
    <2>9. Line' = Line
      BY ONLY <2>2, <2>3, <2>4, <2>5, <2>6, <2>7, <2>8, Zenon
    <2> QED BY <1>6, <2>9 DEF BrokerAppends
  <1>7. CASE BrokerAcknowledges
    <2>1. InFlight' = InFlight
      <3>1. written \in 1 .. Len(outbox) /\ outbox' = Tail(outbox) /\ written' = written - 1
        BY <1>0, <1>7 DEF BrokerAcknowledges
      <3>2. InFlight' = SubSeq(Tail(outbox), (written - 1) + 1, Len(Tail(outbox)))
        BY <3>1 DEF InFlight
      <3> QED BY <1>0, <3>1, <3>2, QueueTail DEF InFlight
    <2> QED BY <1>7, <2>1 DEF BrokerAcknowledges, Line
  <1>8. ~BrokerRejects
    BY <1>0 DEF BrokerRejects
  <1> QED BY <1>2, <1>3, <1>4, <1>5, <1>6, <1>7, <1>8 DEF PublisherStep, BrokerStep

\* Main adds what it is about to publish to the end of the line.
LEMMA LineGrows ==
    ASSUME PublisherTypeOK, Idle, UnchangedButTodo, todo' \in Seq(Event)
    PROVE  Line' = Line \o todo'
  <1> DEFINE u == todo'
  <1>1. /\ topic \in Seq(Event) /\ pending \in Seq(Event) /\ InFlight \in Seq(Event)
        /\ pending \o todo = pending /\ u \in Seq(Event)
    BY LineType DEF PublisherTypeOK, Idle
  <1>2. Line' = topic \o (InFlight \o (pending \o u))
    BY DEF UnchangedButTodo, Line, InFlight
  <1> HIDE DEF u
  <1>3. InFlight \o (pending \o u) = (InFlight \o pending) \o u /\ InFlight \o pending \in Seq(Event)
    BY ONLY <1>1, Concat, ZenonT(40)
  <1>4. topic \o ((InFlight \o pending) \o u) = (topic \o (InFlight \o pending)) \o u
    <2>1. topic \in Seq(Event) /\ InFlight \o pending \in Seq(Event) /\ u \in Seq(Event)
      BY <1>1, <1>3
    <2> QED BY ONLY <2>1, Concat, ZenonT(40)
  <1> QED BY <1>1, <1>2, <1>3, <1>4 DEF Line, u

\* The end of the process cuts the line off behind what was sent.
LEMMA LineCut ==
    ASSUME PublisherTypeOK, Orderly(Line), PublisherDies
    PROVE  Orderly(Line') /\ Line' \in Seq(Event) /\ \E u \in Seq(Event) : Line = Line' \o u
  <1>1. PICK k \in written .. Len(outbox) : topic' = topic \o SubSeq(outbox, written + 1, k)
    BY DEF PublisherDies
  <1> DEFINE a == SubSeq(outbox, written + 1, k)
             b == SubSeq(outbox, k + 1, Len(outbox))
             q == pending \o todo
  <1>2. a \in Seq(Event) /\ b \in Seq(Event) /\ InFlight = a \o b
    BY <1>1, QueueParts DEF PublisherTypeOK, InFlight
  <1>3. topic \in Seq(Event) /\ q \in Seq(Event) /\ Line = topic \o (InFlight \o q)
    BY ConcatProperties DEF PublisherTypeOK, Line
  <1>4. topic' \in Seq(Event) /\ topic' = topic \o a
    BY <1>1, <1>2, <1>3, ConcatProperties
  <1>5. Line' = topic'
    <2>1. /\ todo' = <<>> /\ pending' = <<>> /\ outbox' = <<>> /\ written' = 0
      BY DEF PublisherDies
    <2>2. InFlight' = <<>>
      BY <2>1 DEF InFlight
    <2>3. Line' = topic' \o (<<>> \o (<<>> \o <<>>))
      BY <2>1, <2>2 DEF Line
    <2> QED BY <1>4, <2>3
  <1> HIDE DEF a, b, q
  <1>6. b \o q \in Seq(Event)
    BY <1>2, <1>3, ConcatProperties
  <1>7. (a \o b) \o q = a \o (b \o q)
    BY <1>2, <1>3, Concat, ZenonT(40)
  <1>8. topic \o (a \o (b \o q)) = (topic \o a) \o (b \o q)
    <2>1. topic \in Seq(Event) /\ a \in Seq(Event) /\ b \o q \in Seq(Event)
      BY <1>2, <1>3, <1>6
    <2> QED BY ONLY <2>1, Concat, ZenonT(40)
  <1>9. Line = topic' \o (b \o q)
    BY <1>2, <1>3, <1>4, <1>7, <1>8
  <1> QED BY <1>4, <1>5, <1>6, <1>9, OrderlyPrefix

-----------------------------------------------------------------------------
(* The steps of the subscriber.                                            *)

LEMMA TopicOrderly ==
    ASSUME PublisherTypeOK, Orderly(Line)
    PROVE  Orderly(topic)
  <1>1. topic \in Seq(Event) /\ InFlight \o (pending \o todo) \in Seq(Event)
    BY LineType DEF PublisherTypeOK
  <1> QED BY <1>1, OrderlyPrefix DEF Line

\* What bootstrap.sh reports may follow anything.
LEMMA FailureFollows ==
    ASSUME NEW s \in Seq(Event), Orderly(s)
    PROVE  Orderly(Append(s, Terminal("capture_failed")))
  <1> DEFINE e == Terminal("capture_failed")
             w == Append(s, e)
  <1>1. e \in Event /\ e.type = "capture_failed" /\ ~IsConnectionEvent(e)
    BY EventTypes DEF Terminal, IsConnectionEvent, ConnectionEventType
  <1> HIDE DEF e
  <1>2. /\ Len(w) = Len(s) + 1 /\ w[Len(s) + 1] = e
        /\ \A i \in 1 .. Len(s) : w[i] = s[i]
    BY <1>1
  <1> HIDE DEF w
  <1>3. ASSUME NEW i \in 1 .. Len(w) PROVE Fits(w, i)
    <2>1. CASE i = Len(s) + 1
      BY <1>1, <1>2, <2>1 DEF Fits
    <2>2. CASE i <= Len(s)
      <3>1. w[i] = s[i] /\ (i > 1 => w[i - 1] = s[i - 1]) /\ Fits(s, i)
        BY <1>2, <2>2 DEF Orderly
      <3> QED BY <3>1 DEF Fits
    <2> QED BY <1>2, <2>1, <2>2
  <1> QED BY <1>3 DEF Orderly, w, e

\* A log or a terminal event joins a line that is closed.
LEMMA Joins ==
    ASSUME PublisherTypeOK, LineInOrder, pc \notin {"exited", "done"},
           Idle, UnchangedButTodo, pc' \notin {"exited", "done"},
           todo' \in Seq(Event), Orderly(todo'), Closed(todo')
    PROVE  LineInOrder'
  <1>1. Line \in Seq(Event) /\ Line' = Line \o todo'
    BY LineType, LineGrows
  <1>2. Orderly(Line) /\ Closed(Line)
    BY DEF LineInOrder
  <1>3. Orderly(Line') /\ Closed(Line')
    BY <1>1, <1>2, OrderlyConcat
  <1> QED BY <1>3 DEF LineInOrder, UnchangedButTodo, Orderly, Closed

\* The buffers stay as they are, but for the place in drain_available.
LEMMA LineStays ==
    ASSUME LineInOrder,
           UNCHANGED <<todo, pending, failures, outbox, written, refused, topic>>,
           pc \in {"exited", "done"} <=> pc' \in {"exited", "done"},
           pc \in {"exited", "done"} => drain' = drain
    PROVE  LineInOrder'
  <1>1. Line' = Line
    BY DEF Line, InFlight
  <1> QED BY <1>1 DEF LineInOrder, Orderly, Closed, Fits

LEMMA LineStep ==
    ASSUME SubscriberTypeOK, MaxRejections = 0, LineInOrder, SubscriberNext
    PROVE  LineInOrder'
  <1>1. PublisherTypeOK
    BY DEF SubscriberTypeOK
  <1>2. CASE \/ JoinPumpAndRaise \/ SweepRaises \/ FinaliseRaises
             \/ DrainExpires \/ WatchdogKills \/ DrainSucceeds
    <2>1. pc' = "exited" /\ PublisherDies
      BY <1>2 DEF JoinPumpAndRaise, SweepRaises, FinaliseRaises, DrainExpires,
                  WatchdogKills, DrainSucceeds, Exit
    <2>2. Orderly(Line')
      BY <1>1, <2>1, LineCut DEF LineInOrder
    <2> QED BY <2>1, <2>2 DEF LineInOrder, PublisherDies, Orderly
  <1>3. CASE MainPublishes \/ Broker
    <2>1. PublisherStep \/ BrokerStep
      BY <1>3 DEF MainPublishes, Broker
    <2>2. pc' = pc
      BY <1>3 DEF MainPublishes, Broker, mainVars
    <2>3. pc \notin {"exited", "done"}
      <3> SUFFICES ASSUME todo = <<>>, outbox = <<>>, drain = "idle" PROVE FALSE
        BY DEF LineInOrder
      <3>1. ~PublisherStep
        BY DEF PublisherStep, Publish, Requeue, Produce, QueueFull, Drained
      <3>2. written = 0 /\ Len(outbox) = 0
        BY <1>1 DEF PublisherTypeOK
      <3>3. ~BrokerStep
        BY <3>2 DEF BrokerStep, BrokerAppends, BrokerAcknowledges, BrokerRejects
      <3> QED BY <2>1, <3>1, <3>3
    <2>4. failures' = <<>> /\ refused' = <<>> /\ Line' = Line
      BY <1>1, <2>1, LineKept DEF LineInOrder
    <2> QED BY <2>2, <2>3, <2>4 DEF LineInOrder, Orderly, Closed, Fits
  <1>4. CASE PumpStep \/ RequestShutdown \/ DrainTurn
    <2>1. UNCHANGED <<todo, pending, failures, outbox, written, refused, topic>>
      BY <1>4 DEF PumpStep, PumpReads, PumpReadsLast, PumpPuts, PumpQuits,
                  RequestShutdown, DrainTurn, DrainAgain, publisherVars
    <2>2. pc' = pc /\ (pc \in {"exited", "done"} => drain' = drain)
      BY <1>4 DEF PumpStep, PumpReads, PumpReadsLast, PumpPuts, PumpQuits,
                  RequestShutdown, DrainTurn, publisherVars, mainVars
    <2> QED BY <2>1, <2>2, LineStays
  <1>5. CASE \/ Subscribe \/ ObserveShutdown \/ WaitExpires \/ GetTimesOut
             \/ GetFails \/ StopPump \/ JoinPump \/ SweepEnds
             \/ DrainAfterFailure \/ BeginNextTrace
    <2> USE DEF Subscribe, ObserveShutdown, WaitExpires, GetTimesOut, GetFails,
                StopPump, JoinPump, SweepEnds, DrainAfterFailure, BeginNextTrace
    <2>1. UNCHANGED <<todo, pending, failures, outbox, written, refused, topic>>
      BY <1>5 DEF publisherVars
    <2>2. pc \notin {"exited", "done"} /\ pc' \notin {"exited", "done"}
      BY <1>5
    <2> QED BY <2>1, <2>2, LineStays
  <1>6. CASE SubscribeInterrupted \/ ReportStartTimeout \/ CompleteCapture
    <2> USE DEF SubscribeInterrupted, ReportStartTimeout, CompleteCapture
    <2>1. /\ Idle /\ UnchangedButTodo
          /\ pc \notin {"exited", "done"} /\ pc' \notin {"exited", "done"}
      BY <1>6
    <2>2. PICK x \in TerminalType : todo' = <<Terminal(x)>>
      BY <1>6 DEF TerminalType
    <2>3. todo' \in Seq(Event) /\ Orderly(todo') /\ Closed(todo')
      BY <2>2, TerminalOrderly
    <2> QED BY <1>1, <2>1, <2>3, Joins
  <1>7. CASE GetTrace \/ SweepTrace
    <2> DEFINE x == Head(items)
    <2>1. /\ Idle /\ UnchangedButTodo /\ x \in Segment /\ CaptureTrace(x)
          /\ pc \notin {"exited", "done"} /\ pc' \notin {"exited", "done"}
      BY <1>7 DEF GetTrace, SweepTrace, IsSegment, mainVars
    <2> HIDE DEF x
    <2>2. CASE x.closed /\ x.trace \in WithPiece(x)
      <3>1. x.trace \in Trace /\ SpoolWith(x)[x.trace] \in Nat
        BY <2>1 DEF Segment, SpoolWith, SubscriberTypeOK
      <3>2. todo' = ConnectionEvents(x.trace, SpoolWith(x)[x.trace])
        BY <2>1, <2>2 DEF CaptureTrace
      <3>3. todo' \in Seq(Event) /\ Orderly(todo') /\ Closed(todo')
        BY <3>1, <3>2, LogOrderly
      <3> QED BY <1>1, <2>1, <3>3, Joins
    <2>3. CASE ~(x.closed /\ x.trace \in WithPiece(x))
      <3>1. todo' = todo
        BY <2>1, <2>3 DEF CaptureTrace
      <3> QED BY <2>1, <3>1, LineStays DEF UnchangedButTodo
    <2> QED BY <2>2, <2>3
  <1>8. CASE FinaliseActive
    <2>1. NextActive \in Trace
      <3>1. active \in SUBSET Nat /\ active # {}
        BY <1>8, TraceAssumption DEF FinaliseActive, SubscriberTypeOK
      <3>2. NextActive \in active
        BY <3>1, LeastOfSet DEF NextActive
      <3> QED BY <3>2 DEF SubscriberTypeOK
    <2>2. spool[NextActive] \in Nat
      BY <2>1 DEF SubscriberTypeOK
    <2>3. /\ Idle /\ UnchangedButTodo /\ todo' = ConnectionEvents(NextActive, spool[NextActive])
          /\ pc \notin {"exited", "done"} /\ pc' \notin {"exited", "done"}
      BY <1>8 DEF FinaliseActive, mainVars
    <2>4. todo' \in Seq(Event) /\ Orderly(todo') /\ Closed(todo')
      BY <2>1, <2>2, <2>3, LogOrderly
    <2> QED BY <1>1, <2>3, <2>4, Joins
  <1>9. CASE BootstrapEnds
    BY <1>9, LineStays DEF BootstrapEnds, publisherVars
  <1>10. CASE BootstrapReportsFailure
    <2>1. /\ todo = <<>> /\ pending = <<>> /\ outbox = <<>> /\ drain = "idle"
          /\ UNCHANGED publisherVars /\ pc' = "done"
          /\ topic' = topic \/ topic' = Append(topic, Terminal("capture_failed"))
      BY <1>10 DEF BootstrapReportsFailure, LineInOrder
    <2>2. topic \in Seq(Event) /\ topic' \in Seq(Event) /\ written = 0
      BY <1>1, <2>1, EventTypes DEF PublisherTypeOK
    <2>3. InFlight = <<>> /\ InFlight' = <<>>
      BY <2>1, <2>2 DEF InFlight, publisherVars
    <2>4. Line = topic /\ Line' = topic'
      BY <2>1, <2>2, <2>3 DEF Line, publisherVars
    <2>5. Orderly(Line')
      BY <2>1, <2>2, <2>4, FailureFollows DEF LineInOrder
    <2> QED BY <2>1, <2>5 DEF LineInOrder, publisherVars, Orderly
  <1> QED BY <1>2, <1>3, <1>4, <1>5, <1>6, <1>7, <1>8, <1>9, <1>10
          DEF SubscriberNext, MainStep

-----------------------------------------------------------------------------
(* The steps of the aggregator.                                            *)

\* What comes next goes on with the log that is open, or finds none open.
LEMMA ReceivedFits ==
    ASSUME topic \in Seq(Event), AggregatorTypeOK, Orderly(topic), Reading, Consuming
    PROVE  /\ Received \in Event
           /\ IsConnectionEvent(Received) =>
                 /\ Received.n = NextIndex(Received.trace)
                 /\ DOMAIN next \subseteq {Received.trace}
           /\ Received.type = "capture_complete" => DOMAIN next = {}
  <1> DEFINE e == topic[offset + 1]
  <1>1. offset \in Nat /\ offset + 1 \in 1 .. Len(topic) /\ next = OpenAfter(offset)
    BY DEF Consuming, AggregatorTypeOK, Reading
  <1>2. e \in Event /\ Fits(topic, offset + 1) /\ (offset + 1) - 1 = offset
    BY <1>1 DEF Orderly
  <1>3. e.n \in Nat
    BY <1>2, EventShape
  <1> HIDE DEF e
  <1>4. CASE IsConnectionEvent(e) /\ e.n > 0
    <2>1. offset > 0 /\ topic[offset] = Chunk(e.trace, e.n - 1)
      BY <1>1, <1>2, <1>4 DEF Fits, e
    <2>2. IsChunk(topic[offset]) /\ topic[offset].trace = e.trace /\ topic[offset].n + 1 = e.n
      BY <1>3, <2>1 DEF IsChunk, Chunk
    <2>3. next = WithLog(NoLogs, e.trace, e.n)
      BY <1>1, <2>1, <2>2 DEF OpenAfter
    <2>4. DOMAIN next = {e.trace} /\ next[e.trace] = e.n
      BY <2>3 DEF WithLog, NoLogs
    <2>5. e.type # "capture_complete"
      BY <1>4 DEF IsConnectionEvent, ConnectionEventType
    <2> QED BY <1>2, <2>4, <2>5 DEF Received, NextIndex, e
  <1>5. CASE ~(IsConnectionEvent(e) /\ e.n > 0) /\ e.type # "capture_failed"
    <2>1. ~(offset > 0 /\ IsChunk(topic[offset]))
      BY <1>1, <1>2, <1>5 DEF Fits, e
    <2>2. next = NoLogs
      BY <1>1, <2>1 DEF OpenAfter
    <2>3. DOMAIN next = {}
      BY <2>2 DEF NoLogs
    <2>4. IsConnectionEvent(e) => e.n = 0
      BY <1>3, <1>5
    <2> QED BY <1>2, <2>3, <2>4 DEF Received, NextIndex, e
  <1>6. CASE e.type = "capture_failed"
    <2>1. ~IsConnectionEvent(e) /\ e.type # "capture_complete"
      BY <1>6 DEF IsConnectionEvent, ConnectionEventType
    <2> QED BY <1>2, <2>1 DEF Received, e
  <1> QED BY <1>4, <1>5, <1>6

LEMMA ReadingStep ==
    ASSUME topic \in Seq(Event), AggregatorTypeOK, Orderly(topic), Reading,
           StreamStaysInOrder, AggregatorNext
    PROVE  Reading' /\ StreamStaysInOrder'
  <1>1. topic' = topic
    BY AggregatorType
  <1>2. offset \in Nat
    BY DEF AggregatorTypeOK
  <1>3. CASE ConsumeChunk
    <2>1. /\ Consuming /\ IsChunk(Received) /\ IsConnectionEvent(Received)
          /\ offset' = offset + 1
      BY <1>3 DEF ConsumeChunk, IsChunk, IsConnectionEvent, ConnectionEventType
    <2>2. Received.n = NextIndex(Received.trace) /\ DOMAIN next \subseteq {Received.trace}
      BY <2>1, ReceivedFits
    <2>3. next' = WithLog(next, Received.trace, Received.n + 1) /\ verdict' = verdict
      BY <1>3, <2>2 DEF ConsumeChunk
    <2>4. next' = WithLog(NoLogs, Received.trace, Received.n + 1)
      <3>1. DOMAIN next \cup {Received.trace} = DOMAIN NoLogs \cup {Received.trace}
        BY <2>2 DEF NoLogs
      <3>2. \A u \in DOMAIN next \cup {Received.trace} : u = Received.trace
        BY <2>2
      <3> QED BY <2>3, <3>1, <3>2 DEF WithLog
    <2>5. OpenAfter(offset)' = WithLog(NoLogs, Received.trace, Received.n + 1)
      BY <1>1, <1>2, <2>1 DEF OpenAfter, Received
    <2> QED BY <2>3, <2>4, <2>5 DEF Reading, StreamStaysInOrder, OpenAfter
  <1>4. CASE ConsumeLogComplete
    <2>1. /\ Consuming /\ ~IsChunk(Received) /\ IsConnectionEvent(Received)
          /\ offset' = offset + 1
      BY <1>4 DEF ConsumeLogComplete, IsChunk, IsConnectionEvent, ConnectionEventType
    <2>2. Received.n = NextIndex(Received.trace) /\ DOMAIN next \subseteq {Received.trace}
      BY <2>1, ReceivedFits
    <2>3. next' = Without(next, Received.trace) /\ verdict' = verdict
      BY <1>4, <2>2 DEF ConsumeLogComplete
    <2>4. next' = NoLogs
      <3>1. DOMAIN next \ {Received.trace} = {}
        BY <2>2
      <3> QED BY <2>3, <3>1 DEF Without, NoLogs
    <2>5. OpenAfter(offset)' = NoLogs
      BY <1>1, <1>2, <2>1 DEF OpenAfter, Received
    <2> QED BY <2>3, <2>4, <2>5 DEF Reading, StreamStaysInOrder, OpenAfter
  <1>5. CASE ConsumeCaptureComplete
    <2>1. Consuming /\ Received.type = "capture_complete"
      BY <1>5 DEF ConsumeCaptureComplete
    <2>2. DOMAIN next = {}
      BY <2>1, ReceivedFits
    <2>3. apc' # "consume" /\ verdict' \in {verdict, "no_logs"}
      BY <1>5, <2>2 DEF ConsumeCaptureComplete, Raise
    <2> QED BY <2>3 DEF Reading, StreamStaysInOrder
  <1>6. CASE Restart
    <2>1. offset' = 0 /\ next' = NoLogs /\ verdict' = "none"
      BY <1>6 DEF Restart
    <2>2. OpenAfter(offset)' = NoLogs
      BY <2>1 DEF OpenAfter
    <2> QED BY <2>1, <2>2 DEF Reading, StreamStaysInOrder, OpenAfter
  <1>7. CASE ConsumeStartTimeout \/ ConsumeFailure \/ ActivityExpires \/ CommitExpires
    BY <1>7 DEF ConsumeStartTimeout, StoreResult, ConsumeFailure, ActivityExpires, CommitExpires,
                Raise, Reading, StreamStaysInOrder
  <1>8. CASE Analyse \/ CommitTerminal
    BY <1>8 DEF Analyse, StoreResult, CommitTerminal, AggregatorTypeOK, Reading, StreamStaysInOrder
  <1> QED BY <1>3, <1>4, <1>5, <1>6, <1>7, <1>8 DEF AggregatorNext, AggregatorStep

\* The topic only grows: what was read stays what it was.
LEMMA ReadingStays ==
    ASSUME SubscriberTypeOK, AggregatorTypeOK, Reading, StreamStaysInOrder,
           SubscriberNext, UNCHANGED aggregatorVars
    PROVE  Reading' /\ StreamStaysInOrder'
  <1>1. UNCHANGED <<apc, offset, next, verdict>>
    BY DEF aggregatorVars
  <1>2. PICK u \in Seq(Event) : topic' = topic \o u
    BY TopicGrows
  <1>3. topic \in Seq(Event) /\ offset \in 0 .. Len(topic)
    BY DEF SubscriberTypeOK, PublisherTypeOK, AggregatorTypeOK
  <1>4. offset > 0 => topic'[offset] = topic[offset]
    BY <1>2, <1>3, ConcatProperties
  <1>5. OpenAfter(offset)' = OpenAfter(offset)
    BY <1>1, <1>4 DEF OpenAfter
  <1> QED BY <1>1, <1>5 DEF Reading, StreamStaysInOrder

LEMMA StreamLined ==
    ASSUME MaxRejections = 0
    PROVE  Spec => [](LineInOrder /\ Reading /\ StreamStaysInOrder)
  <1> DEFINE Inv == LineInOrder /\ Reading /\ StreamStaysInOrder
  <1>1. Init => Inv
    <2> SUFFICES ASSUME Init PROVE Inv
      OBVIOUS
    <2> USE DEF Init, SubscriberInit, PublisherInit, AggregatorInit
    <2>1. InFlight = <<>>
      BY DEF InFlight
    <2>2. Line = <<>>
      <3>1. <<>> \o (<<>> \o (<<>> \o <<>>)) = <<>>
        OBVIOUS
      <3> QED BY <2>1, <3>1 DEF Line
    <2>3. LineInOrder
      BY <2>2 DEF LineInOrder, Orderly, Closed
    <2>4. Reading /\ StreamStaysInOrder
      BY DEF Reading, OpenAfter, StreamStaysInOrder
    <2> QED BY <2>3, <2>4
  <1>2. TypeOK /\ Inv /\ [Next]_vars => Inv'
    <2> SUFFICES ASSUME TypeOK, Inv, [Next]_vars PROVE Inv'
      OBVIOUS
    <2>1. SubscriberTypeOK /\ AggregatorTypeOK /\ PublisherTypeOK /\ topic \in Seq(Event)
      BY DEF TypeOK, SubscriberTypeOK, PublisherTypeOK
    <2>2. CASE SubscriberNext /\ UNCHANGED aggregatorVars
      BY <2>1, <2>2, LineStep, ReadingStays
    <2>3. CASE AggregatorNext /\ UNCHANGED <<pumpVars, captureVars, mainVars, shutdown, publisherVars>>
      <3>1. topic' = topic
        BY <2>1, <2>3, AggregatorType
      <3>2. LineInOrder'
        BY <2>3, <3>1, LineStays DEF publisherVars, mainVars
      <3>3. Orderly(topic)
        BY <2>1, TopicOrderly DEF LineInOrder
      <3> QED BY <2>1, <2>3, <3>2, <3>3, ReadingStep
    <2>4. CASE UNCHANGED vars
      <3>1. LineInOrder'
        BY <2>4, LineStays DEF vars, subscriberVars, publisherVars, mainVars
      <3>2. Reading' /\ StreamStaysInOrder'
        BY <2>4 DEF vars, subscriberVars, aggregatorVars, Reading, OpenAfter, StreamStaysInOrder
      <3> QED BY <3>1, <3>2
    <2> QED BY <2>2, <2>3, <2>4 DEF Next
  <1> QED BY <1>1, <1>2, TypeCorrect, PTL DEF Spec

\* "preserving order within a partition so capture_complete follows its
\* connection logs": while Kafka only delays, whatever the capacities of the
\* two buffers, the kills of the subscriber and the restarts of the
\* aggregator, no chunk is out of order and no log incomplete when it ends.
THEOREM StreamInOrder ==
    ASSUME MaxRejections = 0
    PROVE  Spec => []StreamStaysInOrder
  BY StreamLined, PTL

-----------------------------------------------------------------------------
(* What becomes of the logs: why a result is one of all that was captured. *)

\* Main may still take a trace from the queue, or is about to finalize what is open.
Capturing == ~CaptureClosed /\ pc # "finalise"

\* A closed trace is through: nothing of it comes behind its last segment.
InQueue(t) ==
    \/ \E i \in 1 .. Len(items) : items[i].trace = t
    \/ holding # <<>> /\ holding[1].trace = t
NothingFollows(i) ==
    /\ items[i].trace \in gone
    /\ \A j \in i + 1 .. Len(items) : items[j].trace # items[i].trace
    /\ holding # <<>> => holding[1].trace # items[i].trace

LogsAreFinal ==
    /\ active \cap DOMAIN decoded = {}
    /\ \A t \in Trace : spool[t] > 0 => t \in withData
    /\ \A i \in 1 .. Len(items) : items[i].closed => NothingFollows(i)
    /\ holding # <<>> /\ holding[1].closed => holding[1].trace \in gone
    /\ Capturing => \A t \in DOMAIN decoded : t \in gone /\ ~InQueue(t)
    /\ pc = "subscribe" => active = {} /\ DOMAIN decoded = {}

IsComplete(e) == e.type = "connection_log_complete"
IsEnd(e) == e.type = "capture_complete"

\* What the line says of the logs is what main finalized, and the end of the
\* capture comes behind all of it.
LineTellsLogs ==
    /\ \A i \in 1 .. Len(Line) :
          IsComplete(Line[i])
              => Line[i].trace \in DOMAIN decoded /\ decoded[Line[i].trace] = Line[i].n
    /\ pc \notin {"exited", "done"}
           => \A t \in DOMAIN decoded : \E j \in 1 .. Len(Line) : Line[j] = Complete(t, decoded[t])
    /\ \A i \in 1 .. Len(Line) :
          IsEnd(Line[i]) =>
              /\ CaptureClosed /\ active = {}
              /\ \A t \in DOMAIN decoded : \E j \in 1 .. i - 1 : Line[j] = Complete(t, decoded[t])

\* The files of the aggregator are the logs it has read to the end.
FilesAreLogs ==
    /\ apc = "consume" =>
          /\ \A t \in DOMAIN files : t \in DOMAIN decoded /\ files[t] = decoded[t]
          /\ \A i \in 1 .. offset : IsComplete(topic[i]) => topic[i].trace \in DOMAIN files
    /\ apc = "analyse" \/ (apc = "commit" /\ result = "result")
          => CaptureClosed /\ active = {} /\ files = decoded
    /\ apc = "commit" => result \in {"result", "start_timeout"}
    /\ apc # "exited" => verdict = "none"

-----------------------------------------------------------------------------
(* What the reader thread and main leave in the queue. *)

\* Three steps change what is captured.
LEMMA OthersCapture ==
    ASSUME SubscriberNext, ~(GetTrace \/ SweepTrace \/ FinaliseActive)
    PROVE  UNCHANGED captureVars
  <1>1. CASE \/ JoinPumpAndRaise \/ SweepRaises \/ FinaliseRaises
             \/ DrainExpires \/ WatchdogKills \/ DrainSucceeds
    BY <1>1 DEF JoinPumpAndRaise, SweepRaises, FinaliseRaises, DrainExpires,
                WatchdogKills, DrainSucceeds, Exit
  <1>2. CASE PumpStep \/ Broker \/ MainPublishes \/ RequestShutdown \/ DrainTurn
    BY <1>2 DEF PumpStep, PumpReads, PumpReadsLast, PumpPuts, PumpQuits, Broker,
                MainPublishes, RequestShutdown, DrainTurn
  <1>3. CASE \/ Subscribe \/ ObserveShutdown \/ WaitExpires \/ GetTimesOut
             \/ GetFails \/ StopPump \/ JoinPump \/ SweepEnds
             \/ DrainAfterFailure \/ BootstrapEnds \/ BootstrapReportsFailure
    BY <1>3 DEF Subscribe, ObserveShutdown, WaitExpires, GetTimesOut,
                GetFails, StopPump, JoinPump, SweepEnds, DrainAfterFailure,
                BootstrapEnds, BootstrapReportsFailure
  <1>4. CASE SubscribeInterrupted \/ ReportStartTimeout \/ CompleteCapture \/ BeginNextTrace
    BY <1>4 DEF SubscribeInterrupted, ReportStartTimeout, CompleteCapture, BeginNextTrace
  <1> QED BY <1>1, <1>2, <1>3, <1>4 DEF SubscriberNext, MainStep

\* After the end of the capture nothing is captured.
LEMMA ClosedStays ==
    ASSUME Codes, SubscriberNext, CaptureClosed
    PROVE  CaptureClosed' /\ UNCHANGED captureVars
  <1>0. ~(GetTrace \/ SweepTrace \/ FinaliseActive)
    BY DEF GetTrace, SweepTrace, FinaliseActive, CaptureClosed, Codes
  <1>1. UNCHANGED captureVars
    BY <1>0, OthersCapture
  <1> USE DEF CaptureClosed
  <1>2. CASE \/ JoinPumpAndRaise \/ SweepRaises \/ FinaliseRaises
             \/ DrainExpires \/ WatchdogKills \/ DrainSucceeds
    BY <1>2 DEF JoinPumpAndRaise, SweepRaises, FinaliseRaises, DrainExpires,
                WatchdogKills, DrainSucceeds, Exit
  <1>3. CASE PumpStep \/ Broker \/ MainPublishes \/ RequestShutdown \/ DrainTurn
    BY <1>3 DEF PumpStep, PumpReads, PumpReadsLast, PumpPuts, PumpQuits, Broker,
                MainPublishes, RequestShutdown, DrainTurn, mainVars
  <1>4. CASE \/ Subscribe \/ ObserveShutdown \/ WaitExpires \/ GetTimesOut
             \/ GetFails \/ StopPump \/ JoinPump \/ SweepEnds
             \/ DrainAfterFailure \/ BootstrapEnds \/ BootstrapReportsFailure
    BY <1>4 DEF Subscribe, ObserveShutdown, WaitExpires, GetTimesOut,
                GetFails, StopPump, JoinPump, SweepEnds, DrainAfterFailure,
                BootstrapEnds, BootstrapReportsFailure
  <1>5. CASE SubscribeInterrupted \/ ReportStartTimeout \/ CompleteCapture \/ BeginNextTrace
    BY <1>5 DEF SubscribeInterrupted, ReportStartTimeout, CompleteCapture, BeginNextTrace
  <1> QED BY <1>0, <1>1, <1>2, <1>3, <1>4, <1>5 DEF SubscriberNext, MainStep

\* The queue and the logs stay as they are, and main goes on in its way.
LEMMA FinalStays ==
    ASSUME LogsAreFinal, UNCHANGED <<gone, holding, items, captureVars>>,
           Capturing' => Capturing, pc' = "subscribe" => pc = "subscribe"
    PROVE  LogsAreFinal'
  BY DEF LogsAreFinal, NothingFollows, InQueue, captureVars

\* The process ends, and its queue with it.
LEMMA FinalExit ==
    ASSUME LogsAreFinal, NEW c, Exit(c)
    PROVE  LogsAreFinal'
  <1>1. /\ items' = <<>> /\ holding' = <<>> /\ UNCHANGED captureVars
        /\ ~Capturing' /\ pc' # "subscribe"
    BY DEF Exit, Capturing, CaptureClosed
  <1> QED BY <1>1 DEF LogsAreFinal, captureVars

\* What the reader thread does.
LEMMA FinalPump ==
    ASSUME SubscriberTypeOK, LogsAreFinal, PumpStep
    PROVE  LogsAreFinal'
  <1>0. items \in Seq(PumpItem) /\ gone \subseteq Trace
    BY DEF SubscriberTypeOK
  <1>1. UNCHANGED <<captureVars, mainVars>> /\ UNCHANGED <<active, decoded, spool, withData>>
    BY DEF PumpStep, PumpReads, PumpReadsLast, PumpPuts, PumpQuits, captureVars
  <1>2. (Capturing' <=> Capturing) /\ pc' = pc
    BY <1>1 DEF mainVars, Capturing, CaptureClosed
  <1>3. CASE PumpReads \/ PumpReadsLast
    <2>1. PICK x : /\ holding = <<>> /\ holding' = <<x>> /\ items' = items
                   /\ x.trace \notin gone /\ gone \subseteq gone'
                   /\ x.closed => x.trace \in gone'
      <3>1. ASSUME PumpReads
            PROVE \E x : /\ holding = <<>> /\ holding' = <<x>> /\ items' = items
                         /\ x.trace \notin gone /\ gone \subseteq gone'
                         /\ x.closed => x.trace \in gone'
        BY <3>1 DEF PumpReads
      <3>2. ASSUME PumpReadsLast
            PROVE \E x : /\ holding = <<>> /\ holding' = <<x>> /\ items' = items
                         /\ x.trace \notin gone /\ gone \subseteq gone'
                         /\ x.closed => x.trace \in gone'
        <4>1. PICK k \in {"end", "error"} : holding' = <<Last(k)>>
          BY <3>2 DEF PumpReadsLast
        <4>2. Last(k).trace = NoTrace /\ Last(k).closed = FALSE
          BY DEF Last
        <4>3. NoTrace \notin gone /\ holding = <<>> /\ items' = items /\ gone' = gone
          BY <1>0, <3>2, TraceAssumption DEF PumpReadsLast
        <4> QED BY <4>1, <4>2, <4>3
      <3> QED BY <1>3, <3>1, <3>2
    <2>2. holding' # <<>> /\ holding'[1] = x
      BY <2>1
    <2>3. \A i \in 1 .. Len(items') : items'[i].closed => NothingFollows(i)'
      BY <2>1, <2>2 DEF LogsAreFinal, NothingFollows
    <2>4. Capturing' => \A t \in DOMAIN decoded' : t \in gone' /\ ~InQueue(t)'
      BY <1>1, <1>2, <2>1, <2>2 DEF LogsAreFinal, InQueue
    <2> QED BY <1>1, <1>2, <2>1, <2>2, <2>3, <2>4 DEF LogsAreFinal
  <1>4. CASE PumpPuts
    <2>1. PICK y \in PumpItem : holding = <<y>>
      BY <1>4 DEF PumpPuts, SubscriberTypeOK
    <2>2. /\ items' = Append(items, y) /\ holding' = <<>> /\ gone' = gone
          /\ holding # <<>> /\ holding[1] = y
      BY <1>0, <1>4, <2>1 DEF PumpPuts
    <2>3. /\ Len(items') = Len(items) + 1 /\ items'[Len(items) + 1] = y
          /\ \A i \in 1 .. Len(items) : items'[i] = items[i]
      BY <1>0, <2>2
    <2>4. Len(items) \in Nat
      BY <1>0
    <2>5. ASSUME NEW i \in 1 .. Len(items'), items'[i].closed PROVE NothingFollows(i)'
      <3>1. CASE i \in 1 .. Len(items)
        <4>1. NothingFollows(i)
          BY <2>3, <2>5, <3>1 DEF LogsAreFinal
        <4>2. items'[i].trace \in gone' /\ y.trace # items'[i].trace
          BY <2>2, <2>3, <3>1, <4>1 DEF NothingFollows
        <4>3. \A j \in i + 1 .. Len(items) : items'[j].trace # items'[i].trace
          BY <2>3, <2>4, <3>1, <4>1 DEF NothingFollows
        <4> QED BY <2>2, <2>3, <2>4, <3>1, <4>2, <4>3 DEF NothingFollows
      <3>2. CASE i = Len(items) + 1
        <4>1. y.trace \in gone
          BY <2>2, <2>3, <2>5, <3>2 DEF LogsAreFinal
        <4> QED BY <2>2, <2>3, <2>4, <3>2, <4>1 DEF NothingFollows
      <3> QED BY <2>3, <2>4, <3>1, <3>2
    <2>6. ASSUME NEW t, InQueue(t)' PROVE InQueue(t)
      <3>1. PICK i \in 1 .. Len(items') : items'[i].trace = t
        BY <2>2, <2>6 DEF InQueue
      <3> QED BY <2>2, <2>3, <2>4, <3>1 DEF InQueue
    <2> QED BY <1>1, <1>2, <2>2, <2>5, <2>6 DEF LogsAreFinal
  <1>5. CASE PumpQuits
    <2>1. holding' = <<>> /\ items' = items /\ gone' = gone
      BY <1>5 DEF PumpQuits
    <2> QED BY <1>1, <1>2, <2>1 DEF LogsAreFinal, NothingFollows, InQueue
  <1> QED BY <1>3, <1>4, <1>5 DEF PumpStep

\* What is left of the queue when its first item is taken.
LEMMA FinalTail ==
    ASSUME SubscriberTypeOK, LogsAreFinal, items # <<>>, items' = Tail(items),
           UNCHANGED <<gone, holding>>
    PROVE  /\ \A i \in 1 .. Len(items') : items'[i].closed => NothingFollows(i)'
           /\ \A t : InQueue(t)' => InQueue(t)
           /\ InQueue(Head(items).trace)
           /\ \A t : Head(items).closed /\ t = Head(items).trace
                     => t \in gone /\ ~InQueue(t)'
  <1>1. items \in Seq(PumpItem)
    BY DEF SubscriberTypeOK
  <1>2. /\ Len(items') = Len(items) - 1 /\ Len(items) \in Nat /\ Len(items) > 0
        /\ Head(items) = items[1]
        /\ \A i \in 1 .. Len(items') : items'[i] = items[i + 1]
    BY <1>1
  <1>3. ASSUME NEW i \in 1 .. Len(items'), items'[i].closed PROVE NothingFollows(i)'
    <2>1. i + 1 \in 1 .. Len(items) /\ NothingFollows(i + 1)
      BY <1>2, <1>3 DEF LogsAreFinal
    <2>2. \A j \in i + 1 .. Len(items') : items'[j].trace # items'[i].trace
      <3> SUFFICES ASSUME NEW j \in i + 1 .. Len(items') PROVE items'[j].trace # items'[i].trace
        OBVIOUS
      <3>1. j + 1 \in (i + 1) + 1 .. Len(items) /\ items'[j] = items[j + 1] /\ items'[i] = items[i + 1]
        BY <1>2
      <3> QED BY <2>1, <3>1 DEF NothingFollows
    <2> QED BY <1>2, <2>1, <2>2 DEF NothingFollows
  <1>4. ASSUME NEW t, InQueue(t)' PROVE InQueue(t)
    <2>1. CASE \E i \in 1 .. Len(items') : items'[i].trace = t
      <3>1. PICK i \in 1 .. Len(items') : items'[i].trace = t
        BY <2>1
      <3>2. i + 1 \in 1 .. Len(items) /\ items[i + 1].trace = t
        BY <1>2, <3>1
      <3> QED BY <3>2 DEF InQueue
    <2>2. CASE ~\E i \in 1 .. Len(items') : items'[i].trace = t
      BY <1>4, <2>2 DEF InQueue
    <2> QED BY <2>1, <2>2
  <1>5. 1 \in 1 .. Len(items)
    BY <1>2
  <1>6. ASSUME NEW t, Head(items).closed, t = Head(items).trace
        PROVE  t \in gone /\ ~InQueue(t)'
    <2>1. NothingFollows(1)
      BY <1>2, <1>5, <1>6 DEF LogsAreFinal
    <2>2. \A i \in 1 .. Len(items') : items'[i].trace # t
      BY <1>2, <1>6, <2>1 DEF NothingFollows
    <2>3. t \in gone /\ (holding' # <<>> => holding'[1].trace # t)
      BY <1>2, <1>6, <2>1 DEF NothingFollows
    <2> QED BY <2>2, <2>3 DEF InQueue
  <1> QED BY <1>2, <1>3, <1>4, <1>5, <1>6 DEF InQueue

\* What capture_trace does with the first trace of the queue.
LEMMA FinalTrace ==
    ASSUME SubscriberTypeOK, Codes, LogsAreFinal, GetTrace \/ SweepTrace
    PROVE  LogsAreFinal'
  <1>1. PICK x \in Segment :
          /\ x = Head(items) /\ items # <<>> /\ items' = Tail(items) /\ UNCHANGED <<gone, holding>>
          /\ CaptureTrace(x) /\ Capturing /\ pc' # "subscribe"
    BY DEF GetTrace, SweepTrace, IsSegment, mainVars, Capturing, CaptureClosed, Codes
  <1>2. /\ \A i \in 1 .. Len(items') : items'[i].closed => NothingFollows(i)'
        /\ \A t : InQueue(t)' => InQueue(t)
        /\ InQueue(x.trace)
        /\ \A t : x.closed /\ t = x.trace => t \in gone /\ ~InQueue(t)'
    BY <1>1, FinalTail
  <1>3. x.trace \in Trace /\ x.trace \notin DOMAIN decoded
    BY <1>1, <1>2 DEF LogsAreFinal, Segment
  <1>4. spool \in [Trace -> Nat] /\ IsLogMap(decoded)
    BY DEF SubscriberTypeOK
  <1>5. /\ active' = IF x.closed THEN active \ {x.trace} ELSE active \cup {x.trace}
        /\ withData' = IF x.closed THEN WithPiece(x) \ {x.trace} ELSE WithPiece(x)
        /\ spool' = IF x.closed THEN [spool EXCEPT ![x.trace] = 0] ELSE SpoolWith(x)
    BY <1>1 DEF CaptureTrace
  <1>6. decoded' = decoded \/ (x.closed /\ DOMAIN decoded' = DOMAIN decoded \cup {x.trace})
    <2>1. CASE x.closed /\ x.trace \in WithPiece(x)
      <3>1. decoded' = WithLog(decoded, x.trace, SpoolWith(x)[x.trace])
        BY <1>1, <2>1 DEF CaptureTrace
      <3> QED BY <2>1, <3>1 DEF WithLog
    <2>2. CASE ~(x.closed /\ x.trace \in WithPiece(x))
      BY <1>1, <2>2 DEF CaptureTrace
    <2> QED BY <2>1, <2>2
  <1>7. active' \cap DOMAIN decoded' = {}
    BY <1>3, <1>5, <1>6 DEF LogsAreFinal
  <1>8. \A t \in Trace : spool'[t] > 0 => t \in withData'
    BY <1>3, <1>4, <1>5 DEF LogsAreFinal, SpoolWith, WithPiece
  <1>9. \A t \in DOMAIN decoded' : t \in gone' /\ ~InQueue(t)'
    <2> SUFFICES ASSUME NEW t \in DOMAIN decoded' PROVE t \in gone' /\ ~InQueue(t)'
      OBVIOUS
    <2>1. CASE t \in DOMAIN decoded
      <3>1. t \in gone /\ ~InQueue(t)
        BY <1>1, <2>1 DEF LogsAreFinal
      <3> QED BY <1>1, <1>2, <3>1
    <2>2. CASE t \notin DOMAIN decoded
      <3>1. t = x.trace /\ x.closed
        BY <1>6, <2>2
      <3> QED BY <1>1, <1>2, <3>1
    <2> QED BY <2>1, <2>2
  <1>10. holding' # <<>> /\ holding'[1].closed => holding'[1].trace \in gone'
    BY <1>1 DEF LogsAreFinal
  <1> QED BY <1>1, <1>2, <1>7, <1>8, <1>9, <1>10 DEF LogsAreFinal

LEMMA LeastIsActive ==
    ASSUME SubscriberTypeOK, active # {}
    PROVE  NextActive \in active /\ NextActive \in Trace /\ spool[NextActive] \in Nat
  <1>1. active \in SUBSET Nat
    BY TraceAssumption DEF SubscriberTypeOK
  <1>2. NextActive \in active
    BY <1>1, LeastOfSet DEF NextActive
  <1> QED BY <1>2 DEF SubscriberTypeOK

LEMMA FinalStep ==
    ASSUME SubscriberTypeOK, Codes, LogsAreFinal, SubscriberNext
    PROVE  LogsAreFinal'
  <1>1. CASE \/ JoinPumpAndRaise \/ SweepRaises \/ FinaliseRaises
             \/ DrainExpires \/ WatchdogKills \/ DrainSucceeds
    BY <1>1, FinalExit DEF JoinPumpAndRaise, SweepRaises, FinaliseRaises,
                           DrainExpires, WatchdogKills, DrainSucceeds
  <1>2. CASE Broker \/ MainPublishes \/ RequestShutdown \/ DrainTurn
    BY <1>2, FinalStays DEF Broker, MainPublishes, RequestShutdown, DrainTurn,
                            mainVars, pumpVars, Capturing, CaptureClosed
  <1>3. CASE PumpStep
    BY <1>3, FinalPump
  <1>4. CASE \/ Subscribe \/ ObserveShutdown \/ WaitExpires \/ GetTimesOut
             \/ StopPump \/ JoinPump \/ SweepEnds
             \/ DrainAfterFailure \/ BootstrapEnds \/ BootstrapReportsFailure
    <2> USE DEF Subscribe, ObserveShutdown, WaitExpires, GetTimesOut, StopPump,
                JoinPump, SweepEnds, DrainAfterFailure, BootstrapEnds, BootstrapReportsFailure
    <2>1. UNCHANGED <<gone, holding, items, captureVars>> /\ pc' # "subscribe"
      BY <1>4 DEF pumpVars
    <2>2. Capturing' => Capturing
      BY <1>4 DEF Capturing, CaptureClosed
    <2> QED BY <2>1, <2>2, FinalStays
  <1>5. CASE SubscribeInterrupted \/ ReportStartTimeout \/ CompleteCapture \/ BeginNextTrace
    <2> USE DEF SubscribeInterrupted, ReportStartTimeout, CompleteCapture, BeginNextTrace
    <2>1. UNCHANGED <<gone, holding, items, captureVars>> /\ pc' # "subscribe"
      BY <1>5 DEF pumpVars
    <2>2. Capturing' => Capturing
      BY <1>5 DEF Capturing, CaptureClosed
    <2> QED BY <2>1, <2>2, FinalStays
  <1>6. CASE GetTrace \/ SweepTrace
    BY <1>6, FinalTrace
  <1>7. CASE GetFails
    <2>1. /\ items # <<>> /\ items' = Tail(items) /\ UNCHANGED <<gone, holding, captureVars>>
          /\ ~Capturing' /\ pc' # "subscribe"
      BY <1>7 DEF GetFails, Capturing, CaptureClosed
    <2>2. \A i \in 1 .. Len(items') : items'[i].closed => NothingFollows(i)'
      BY <2>1, FinalTail
    <2> QED BY <2>1, <2>2 DEF LogsAreFinal, captureVars
  <1>8. CASE FinaliseActive
    <2>1. NextActive \in active /\ NextActive \in Trace /\ spool \in [Trace -> Nat]
      BY <1>8, LeastIsActive DEF FinaliseActive, SubscriberTypeOK
    <2>2. /\ active' = active \ {NextActive} /\ withData' = withData \ {NextActive}
          /\ spool' = [spool EXCEPT ![NextActive] = 0]
          /\ DOMAIN decoded' = DOMAIN decoded \cup {NextActive}
          /\ UNCHANGED <<gone, holding, items>> /\ ~Capturing' /\ pc' # "subscribe"
      BY <1>8 DEF FinaliseActive, WithLog, pumpVars, mainVars, Capturing
    <2>3. active' \cap DOMAIN decoded' = {}
      BY <2>1, <2>2 DEF LogsAreFinal
    <2>4. \A t \in Trace : spool'[t] > 0 => t \in withData'
      BY <2>1, <2>2 DEF LogsAreFinal
    <2>5. \A i \in 1 .. Len(items') : items'[i].closed => NothingFollows(i)'
      BY <2>2 DEF LogsAreFinal, NothingFollows
    <2> QED BY <2>2, <2>3, <2>4, <2>5 DEF LogsAreFinal
  <1> QED BY <1>1, <1>2, <1>3, <1>4, <1>5, <1>6, <1>7, <1>8 DEF SubscriberNext, MainStep

-----------------------------------------------------------------------------
(* The line tells of the logs. *)

\* The line stays, or is cut off as the process ends; the logs stay.
LEMMA TellsStays ==
    ASSUME LineTellsLogs, Len(Line) \in Nat, Len(Line') \in Nat, Len(Line') <= Len(Line),
           \A i \in 1 .. Len(Line') : Line'[i] = Line[i],
           decoded' = decoded, CaptureClosed => CaptureClosed' /\ active' = active,
           pc' \notin {"exited", "done"} => pc \notin {"exited", "done"} /\ Len(Line') = Len(Line)
    PROVE  LineTellsLogs'
  <1>1. ASSUME NEW i \in 1 .. Len(Line') PROVE i \in 1 .. Len(Line) /\ Line'[i] = Line[i]
    OBVIOUS
  <1>2. \A i \in 1 .. Len(Line') :
           IsComplete(Line'[i])
              => Line'[i].trace \in DOMAIN decoded' /\ decoded'[Line'[i].trace] = Line'[i].n
    BY <1>1 DEF LineTellsLogs
  <1>3. pc' \notin {"exited", "done"}
           => \A t \in DOMAIN decoded' : \E j \in 1 .. Len(Line') : Line'[j] = Complete(t, decoded'[t])
    BY <1>1 DEF LineTellsLogs
  <1>4. ASSUME NEW i \in 1 .. Len(Line'), IsEnd(Line'[i])
        PROVE  /\ CaptureClosed' /\ active' = {}
               /\ \A t \in DOMAIN decoded' : \E j \in 1 .. i - 1 : Line'[j] = Complete(t, decoded'[t])
    <2>1. i \in 1 .. Len(Line) /\ IsEnd(Line[i])
      BY <1>1, <1>4
    <2>2. /\ CaptureClosed /\ active = {}
          /\ \A t \in DOMAIN decoded : \E j \in 1 .. i - 1 : Line[j] = Complete(t, decoded[t])
      BY <2>1 DEF LineTellsLogs
    <2>3. \A j \in 1 .. i - 1 : Line'[j] = Line[j]
      BY <1>1
    <2> QED BY <2>2, <2>3
  <1> QED BY <1>2, <1>3, <1>4 DEF LineTellsLogs

\* A terminal event joins the line.
LEMMA TellsTerminal ==
    ASSUME LineTellsLogs, Line \in Seq(Event), NEW y \in TerminalType,
           Line' = Line \o <<Terminal(y)>>,
           decoded' = decoded, CaptureClosed => CaptureClosed' /\ active' = active,
           pc' \notin {"exited", "done"} => pc \notin {"exited", "done"},
           y = "capture_complete" =>
               CaptureClosed' /\ active' = {} /\ pc \notin {"exited", "done"}
    PROVE  LineTellsLogs'
  <1> DEFINE e == Terminal(y)
  <1>0. e \in Event /\ ~IsComplete(e) /\ (IsEnd(e) => y = "capture_complete")
    BY EventTypes DEF Terminal, IsComplete, IsEnd, TerminalType
  <1> HIDE DEF e
  <1>1. <<e>> \in Seq(Event) /\ Len(<<e>>) = 1 /\ <<e>>[1] = e /\ Len(Line) \in Nat
    BY <1>0
  <1>2. /\ Len(Line') = Len(Line) + 1 /\ Line'[Len(Line) + 1] = e
        /\ \A i \in 1 .. Len(Line) : Line'[i] = Line[i]
    <2>1. Line' = Line \o <<e>>
      BY DEF e
    <2> QED BY <1>1, <2>1, ConcatProperties
  <1>3. ASSUME NEW i \in 1 .. Len(Line') PROVE i \in 1 .. Len(Line) \/ i = Len(Line) + 1
    BY <1>1, <1>2
  <1>4. ASSUME NEW i \in 1 .. Len(Line'), IsComplete(Line'[i])
        PROVE  Line'[i].trace \in DOMAIN decoded' /\ decoded'[Line'[i].trace] = Line'[i].n
    <2>1. i \in 1 .. Len(Line) /\ Line'[i] = Line[i]
      BY <1>0, <1>2, <1>3, <1>4
    <2> QED BY <1>4, <2>1 DEF LineTellsLogs
  <1>5. ASSUME pc \notin {"exited", "done"}
        PROVE  \A t \in DOMAIN decoded' : \E j \in 1 .. Len(Line) : Line'[j] = Complete(t, decoded'[t])
    BY <1>2, <1>5 DEF LineTellsLogs
  <1>6. pc' \notin {"exited", "done"} =>
          \A t \in DOMAIN decoded' : \E j \in 1 .. Len(Line') : Line'[j] = Complete(t, decoded'[t])
    BY <1>1, <1>2, <1>5
  <1>7. ASSUME NEW i \in 1 .. Len(Line'), IsEnd(Line'[i])
        PROVE  /\ CaptureClosed' /\ active' = {}
               /\ \A t \in DOMAIN decoded' : \E j \in 1 .. i - 1 : Line'[j] = Complete(t, decoded'[t])
    <2>1. CASE i \in 1 .. Len(Line)
      <3>1. /\ CaptureClosed /\ active = {}
            /\ \A t \in DOMAIN decoded : \E j \in 1 .. i - 1 : Line[j] = Complete(t, decoded[t])
        BY <1>2, <1>7, <2>1 DEF LineTellsLogs
      <3>2. \A j \in 1 .. i - 1 : Line'[j] = Line[j]
        BY <1>1, <1>2, <2>1
      <3> QED BY <3>1, <3>2
    <2>2. CASE i = Len(Line) + 1
      <3>1. CaptureClosed' /\ active' = {} /\ pc \notin {"exited", "done"}
        BY <1>0, <1>2, <1>7, <2>2
      <3>2. i - 1 = Len(Line)
        BY <1>1, <2>2
      <3> QED BY <1>5, <3>1, <3>2
    <2> QED BY <1>3, <2>1, <2>2
  <1> QED BY <1>4, <1>6, <1>7 DEF LineTellsLogs

\* A log joins the line when main is done with it.
LEMMA TellsLog ==
    ASSUME LineTellsLogs, Line \in Seq(Event), IsLogMap(decoded),
           ~CaptureClosed, pc \notin {"exited", "done"},
           NEW t \in Trace, NEW k \in Nat, t \notin DOMAIN decoded,
           decoded' = WithLog(decoded, t, k), Line' = Line \o ConnectionEvents(t, k)
    PROVE  LineTellsLogs'
  <1> DEFINE u == ConnectionEvents(t, k)
  <1>1. u \in Seq(Event) /\ Len(u) = k + 1 /\ Len(Line) \in Nat
    <2>1. u \in Seq(Event)
      BY EventTypes
    <2>2. DOMAIN u = 1 .. k + 1 /\ k + 1 \in Nat
      BY DEF ConnectionEvents
    <2> QED BY <2>1, <2>2
  <1>2. ASSUME NEW m \in 1 .. k + 1
        PROVE  /\ ~IsEnd(u[m]) /\ (IsComplete(u[m]) => m = k + 1)
               /\ u[k + 1] = Complete(t, k)
    BY DEF ConnectionEvents, Chunk, Complete, IsEnd, IsComplete
  <1> HIDE DEF u
  <1>3. /\ Len(Line') = Len(Line) + (k + 1)
        /\ \A i \in 1 .. Len(Line) : Line'[i] = Line[i]
        /\ \A i \in 1 .. Len(Line') : i > Len(Line) => Line'[i] = u[i - Len(Line)]
    <2>1. Line' = Line \o u
      BY DEF u
    <2>2. /\ Len(Line \o u) = Len(Line) + Len(u)
          /\ \A i \in 1 .. Len(Line) + Len(u) :
                (Line \o u)[i] = IF i <= Len(Line) THEN Line[i] ELSE u[i - Len(Line)]
      BY <1>1, ConcatProperties
    <2>3. Len(Line') = Len(Line) + (k + 1)
      BY <1>1, <2>1, <2>2
    <2>4. ASSUME NEW i \in 1 .. Len(Line')
          PROVE  Line'[i] = IF i <= Len(Line) THEN Line[i] ELSE u[i - Len(Line)]
      BY <1>1, <2>1, <2>2
    <2>5. \A i \in 1 .. Len(Line) : i \in 1 .. Len(Line') /\ i <= Len(Line)
      BY <1>1, <2>3
    <2>6. \A i \in 1 .. Len(Line') : i > Len(Line) => ~(i <= Len(Line))
      BY <1>1, <2>3
    <2> QED BY <2>3, <2>4, <2>5, <2>6
  <1>4. \A i \in 1 .. Len(Line) : ~IsEnd(Line[i])
    BY DEF LineTellsLogs
  <1>5. ASSUME NEW i \in 1 .. Len(Line')
        PROVE  \/ i \in 1 .. Len(Line) /\ Line'[i] = Line[i]
               \/ i - Len(Line) \in 1 .. k + 1 /\ Line'[i] = u[i - Len(Line)]
    <2>1. CASE i <= Len(Line)
      BY <1>1, <1>3, <2>1
    <2>2. CASE i > Len(Line)
      <3>1. i - Len(Line) \in 1 .. k + 1
        BY <1>1, <1>3, <2>2
      <3> QED BY <1>3, <2>2, <3>1
    <2> QED BY <1>1, <1>3, <2>1, <2>2
  <1>6. \A i \in 1 .. Len(Line') : ~IsEnd(Line'[i])
    BY <1>2, <1>4, <1>5
  <1>7. /\ DOMAIN decoded' = DOMAIN decoded \cup {t} /\ decoded'[t] = k
        /\ \A v \in DOMAIN decoded : decoded'[v] = decoded[v]
    <2>1. /\ DOMAIN WithLog(decoded, t, k) = DOMAIN decoded \cup {t}
          /\ \A v \in DOMAIN decoded \cup {t} :
                WithLog(decoded, t, k)[v] = IF v = t THEN k ELSE decoded[v]
      BY DEF WithLog
    <2> QED BY <2>1
  <1>8. ASSUME NEW i \in 1 .. Len(Line'), IsComplete(Line'[i])
        PROVE  Line'[i].trace \in DOMAIN decoded' /\ decoded'[Line'[i].trace] = Line'[i].n
    <2>1. CASE i \in 1 .. Len(Line) /\ Line'[i] = Line[i]
      <3>1. Line[i].trace \in DOMAIN decoded /\ decoded[Line[i].trace] = Line[i].n
        BY <1>8, <2>1 DEF LineTellsLogs
      <3> QED BY <1>7, <2>1, <3>1
    <2>2. CASE i - Len(Line) \in 1 .. k + 1 /\ Line'[i] = u[i - Len(Line)]
      <3>1. Line'[i] = Complete(t, k)
        BY <1>2, <1>8, <2>2
      <3> QED BY <1>7, <3>1 DEF Complete
    <2> QED BY <1>5, <2>1, <2>2
  <1>9. ASSUME NEW v \in DOMAIN decoded'
        PROVE  \E j \in 1 .. Len(Line') : Line'[j] = Complete(v, decoded'[v])
    <2>1. CASE v \in DOMAIN decoded
      <3>1. PICK j \in 1 .. Len(Line) : Line[j] = Complete(v, decoded[v])
        BY <2>1 DEF LineTellsLogs
      <3>2. j \in 1 .. Len(Line') /\ Line'[j] = Complete(v, decoded'[v])
        BY <1>1, <1>3, <1>7, <2>1, <3>1
      <3> QED BY <3>2
    <2>2. CASE v = t
      <3>1. k + 1 \in 1 .. k + 1 /\ Len(Line') \in 1 .. Len(Line')
        BY <1>1, <1>3
      <3>2. Len(Line') > Len(Line) /\ Len(Line') - Len(Line) = k + 1
        BY <1>1, <1>3
      <3>3. Line'[Len(Line')] = Complete(t, k)
        BY <1>2, <1>3, <3>1, <3>2
      <3> QED BY <1>7, <2>2, <3>1, <3>3
    <2> QED BY <1>7, <2>1, <2>2
  <1> QED BY <1>6, <1>8, <1>9 DEF LineTellsLogs

LEMMA TellsStep ==
    ASSUME SubscriberTypeOK, MaxRejections = 0, LineInOrder, Codes, LogsAreFinal,
           LineTellsLogs, SubscriberNext
    PROVE  LineTellsLogs'
  <1>0. PublisherTypeOK /\ Line \in Seq(Event) /\ Len(Line) \in Nat
    BY LineType DEF SubscriberTypeOK
  <1>1. /\ decoded' = decoded \/ ~CaptureClosed
        /\ CaptureClosed => CaptureClosed' /\ active' = active
    BY ClosedStays DEF captureVars
  <1>2. CASE \/ JoinPumpAndRaise \/ SweepRaises \/ FinaliseRaises
             \/ DrainExpires \/ WatchdogKills \/ DrainSucceeds
    <2>1. pc' = "exited" /\ PublisherDies /\ decoded' = decoded
      BY <1>2 DEF JoinPumpAndRaise, SweepRaises, FinaliseRaises, DrainExpires,
                  WatchdogKills, DrainSucceeds, Exit, captureVars
    <2>2. Line' \in Seq(Event) /\ \E u \in Seq(Event) : Line = Line' \o u
      BY <1>0, <2>1, LineCut DEF LineInOrder
    <2> DEFINE w == Line'
    <2>3. w \in Seq(Event) /\ \E u \in Seq(Event) : Line = w \o u
      BY <2>2
    <2> HIDE DEF w
    <2>4. PICK u \in Seq(Event) : Line = w \o u
      BY <2>3
    <2>5. Len(w) \in Nat /\ Len(w) <= Len(Line) /\ \A i \in 1 .. Len(w) : Line[i] = w[i]
      <3>1. Len(w) \in Nat /\ Len(u) \in Nat /\ Len(Line) = Len(w) + Len(u)
        BY <2>3, <2>4, ConcatProperties
      <3>2. \A i \in 1 .. Len(w) : i \in 1 .. Len(w) + Len(u) /\ i <= Len(w)
        BY <3>1
      <3>3. \A i \in 1 .. Len(w) + Len(u) : (w \o u)[i] = IF i <= Len(w) THEN w[i] ELSE u[i - Len(w)]
        BY <2>3, ConcatProperties
      <3> QED BY <2>4, <3>1, <3>2, <3>3
    <2>6. /\ Len(Line') \in Nat /\ Len(Line') <= Len(Line)
          /\ \A i \in 1 .. Len(Line') : Line'[i] = Line[i]
      BY <2>5 DEF w
    <2> QED BY <1>0, <1>1, <2>1, <2>6, TellsStays
  <1>3. ASSUME Line' = Line, decoded' = decoded,
               pc' \notin {"exited", "done"} => pc \notin {"exited", "done"}
        PROVE  LineTellsLogs'
    <2>1. /\ Len(Line') \in Nat /\ Len(Line') <= Len(Line) /\ Len(Line') = Len(Line)
          /\ \A i \in 1 .. Len(Line') : Line'[i] = Line[i]
      BY <1>0, <1>3
    <2> QED BY <1>0, <1>1, <1>3, <2>1, TellsStays
  <1>4. ASSUME UNCHANGED <<todo, pending, outbox, written, topic>> PROVE Line' = Line
    BY <1>4 DEF Line, InFlight
  <1>5. CASE MainPublishes \/ Broker
    <2>1. (PublisherStep \/ BrokerStep) /\ pc' = pc /\ decoded' = decoded
      BY <1>5 DEF MainPublishes, Broker, mainVars, captureVars
    <2>2. Line' = Line
      BY <1>0, <2>1, LineKept DEF LineInOrder
    <2> QED BY <1>3, <2>1, <2>2
  <1>6. CASE PumpStep \/ RequestShutdown \/ DrainTurn
    <2>1. UNCHANGED <<todo, pending, outbox, written, topic>>
      BY <1>6 DEF PumpStep, PumpReads, PumpReadsLast, PumpPuts, PumpQuits,
                  RequestShutdown, DrainTurn, DrainAgain, publisherVars
    <2>2. pc' = pc /\ decoded' = decoded
      BY <1>6 DEF PumpStep, PumpReads, PumpReadsLast, PumpPuts, PumpQuits,
                  RequestShutdown, DrainTurn, mainVars, captureVars
    <2> QED BY <1>3, <1>4, <2>1, <2>2
  <1>7. CASE \/ Subscribe \/ ObserveShutdown \/ WaitExpires \/ GetTimesOut
             \/ GetFails \/ StopPump \/ JoinPump \/ SweepEnds
             \/ DrainAfterFailure \/ BeginNextTrace \/ BootstrapEnds
    <2> USE DEF Subscribe, ObserveShutdown, WaitExpires, GetTimesOut, GetFails,
                StopPump, JoinPump, SweepEnds, DrainAfterFailure, BeginNextTrace, BootstrapEnds
    <2>1. UNCHANGED <<todo, pending, outbox, written, topic>>
      BY <1>7 DEF publisherVars
    <2>2. (pc' \notin {"exited", "done"} => pc \notin {"exited", "done"}) /\ decoded' = decoded
      BY <1>7 DEF captureVars
    <2> QED BY <1>3, <1>4, <2>1, <2>2
  <1>8. CASE SubscribeInterrupted \/ ReportStartTimeout \/ CompleteCapture
    <2> USE DEF SubscribeInterrupted, ReportStartTimeout, CompleteCapture
    <2>1. /\ Idle /\ UnchangedButTodo /\ decoded' = decoded /\ active' = active
          /\ pc \notin {"exited", "done"} /\ pc' = "drain"
      BY <1>8 DEF captureVars
    <2>2. PICK y \in TerminalType :
             /\ todo' = <<Terminal(y)>>
             /\ y = "capture_complete" => active = {}
      BY <1>8 DEF TerminalType, LogsAreFinal
    <2>3. Line' = Line \o <<Terminal(y)>>
      BY <1>0, <2>1, <2>2, LineGrows, EventTypes
    <2>4. CaptureClosed'
      BY <2>1 DEF CaptureClosed
    <2> QED BY <1>0, <1>1, <2>1, <2>2, <2>3, <2>4, TellsTerminal
  <1>9. CASE GetTrace \/ SweepTrace
    <2>1. PICK x \in Segment :
            /\ x = Head(items) /\ CaptureTrace(x) /\ items # <<>>
            /\ Idle /\ UnchangedButTodo /\ Capturing /\ items' = Tail(items)
            /\ pc \notin {"exited", "done"} /\ UNCHANGED <<gone, holding>>
      BY <1>9 DEF GetTrace, SweepTrace, IsSegment, mainVars, Capturing, CaptureClosed, Codes
    <2>2. x.trace \in Trace /\ SpoolWith(x)[x.trace] \in Nat /\ ~CaptureClosed
      BY <2>1 DEF Segment, SpoolWith, SubscriberTypeOK, Capturing
    <2>3. CASE x.closed /\ x.trace \in WithPiece(x)
      <3>1. PICK k \in Nat : k = SpoolWith(x)[x.trace]
        BY <2>2
      <3>2. decoded' = WithLog(decoded, x.trace, k) /\ todo' = ConnectionEvents(x.trace, k)
        BY <2>1, <2>3, <3>1 DEF CaptureTrace
      <3>3. x.trace \notin DOMAIN decoded
        BY <2>1, FinalTail DEF LogsAreFinal
      <3>4. Line' = Line \o ConnectionEvents(x.trace, k)
        BY <1>0, <2>1, <2>2, <3>2, LineGrows, EventTypes
      <3>5. PICK t \in Trace : t = x.trace
        BY <2>2
      <3> QED BY <1>0, <2>1, <2>2, <3>2, <3>3, <3>4, <3>5, TellsLog DEF SubscriberTypeOK
    <2>4. CASE ~(x.closed /\ x.trace \in WithPiece(x))
      <3>1. todo' = todo /\ decoded' = decoded
        BY <2>1, <2>4 DEF CaptureTrace
      <3> QED BY <1>3, <1>4, <2>1, <3>1 DEF UnchangedButTodo
    <2> QED BY <2>3, <2>4
  <1>10. CASE FinaliseActive
    <2>1. PICK t \in Trace : t = NextActive /\ t \in active /\ spool[t] \in Nat
      BY <1>10, LeastIsActive DEF FinaliseActive
    <2>2. PICK k \in Nat : k = spool[t]
      BY <2>1
    <2>3. /\ Idle /\ UnchangedButTodo /\ pc = "finalise" /\ ~CaptureClosed
          /\ decoded' = WithLog(decoded, t, k) /\ todo' = ConnectionEvents(t, k)
      BY <1>10, <2>1, <2>2 DEF FinaliseActive, CaptureClosed, Codes
    <2>4. t \notin DOMAIN decoded
      BY <2>1 DEF LogsAreFinal
    <2>5. Line' = Line \o ConnectionEvents(t, k)
      BY <1>0, <2>3, LineGrows, EventTypes
    <2> QED BY <1>0, <2>3, <2>4, <2>5, TellsLog DEF SubscriberTypeOK
  <1>11. CASE BootstrapReportsFailure
    <2>1. /\ todo = <<>> /\ pending = <<>> /\ outbox = <<>>
          /\ UNCHANGED publisherVars /\ pc = "exited" /\ pc' = "done" /\ decoded' = decoded
          /\ topic' = topic \/ topic' = Append(topic, Terminal("capture_failed"))
      BY <1>11 DEF BootstrapReportsFailure, LineInOrder, captureVars
    <2>2. topic \in Seq(Event) /\ topic' \in Seq(Event) /\ written = 0
      <3>1. topic \in Seq(Event) /\ written = 0
        BY <1>0, <2>1 DEF PublisherTypeOK
      <3>2. Terminal("capture_failed") \in Event
        BY EventTypes
      <3> QED BY <2>1, <3>1, <3>2
    <2>3. InFlight = <<>> /\ InFlight' = <<>>
      BY <2>1, <2>2 DEF InFlight, publisherVars
    <2>4. Line = topic /\ Line' = topic'
      BY <2>1, <2>2, <2>3 DEF Line, publisherVars
    <2>5. CASE topic' = topic
      BY <1>3, <2>1, <2>4, <2>5
    <2>6. CASE topic' = Append(topic, Terminal("capture_failed"))
      <3>1. PICK y \in TerminalType : y = "capture_failed"
        BY DEF TerminalType
      <3>2. Line' = Line \o <<Terminal(y)>>
        BY <2>2, <2>4, <2>6, <3>1, EventTypes, AppendIsConcat
      <3> QED BY <1>0, <1>1, <2>1, <3>1, <3>2, TellsTerminal
    <2> QED BY <2>1, <2>5, <2>6
  <1> QED BY <1>2, <1>5, <1>6, <1>7, <1>8, <1>9, <1>10, <1>11 DEF SubscriberNext, MainStep

-----------------------------------------------------------------------------
(* What the aggregator makes of the line. *)

\* What the topic has is what comes first in the line.
LEMMA TopicLeadsLine ==
    ASSUME PublisherTypeOK
    PROVE  \A i \in 1 .. Len(topic) : i \in 1 .. Len(Line) /\ Line[i] = topic[i]
  <1> DEFINE q == InFlight \o (pending \o todo)
  <1>1. topic \in Seq(Event) /\ q \in Seq(Event) /\ Line = topic \o q
    BY LineType DEF PublisherTypeOK, Line
  <1> HIDE DEF q
  <1>2. Len(Line) = Len(topic) + Len(q) /\ Len(topic) \in Nat /\ Len(q) \in Nat
    BY <1>1, ConcatProperties
  <1>3. \A i \in 1 .. Len(topic) + Len(q) :
           (topic \o q)[i] = IF i <= Len(topic) THEN topic[i] ELSE q[i - Len(topic)]
    BY <1>1, ConcatProperties
  <1> QED BY <1>1, <1>2, <1>3

\* A log that is final stays what it is.
LEMMA LogsStay ==
    ASSUME SubscriberTypeOK, Codes, LogsAreFinal, SubscriberNext
    PROVE  \A t \in DOMAIN decoded : t \in DOMAIN decoded' /\ decoded'[t] = decoded[t]
  <1>1. IsLogMap(decoded)
    BY DEF SubscriberTypeOK
  <1>2. ASSUME NEW u \in Trace, NEW k \in Nat, u \notin DOMAIN decoded, decoded' = WithLog(decoded, u, k)
        PROVE  \A t \in DOMAIN decoded : t \in DOMAIN decoded' /\ decoded'[t] = decoded[t]
    BY <1>2 DEF WithLog
  <1>3. CASE GetTrace \/ SweepTrace
    <2>1. PICK x \in Segment :
            /\ x = Head(items) /\ CaptureTrace(x) /\ items # <<>> /\ items' = Tail(items)
            /\ UNCHANGED <<gone, holding>> /\ Capturing
      BY <1>3 DEF GetTrace, SweepTrace, IsSegment, mainVars, Capturing, CaptureClosed, Codes
    <2>2. x.trace \in Trace /\ SpoolWith(x)[x.trace] \in Nat
      BY <2>1 DEF Segment, SpoolWith, SubscriberTypeOK
    <2>3. x.trace \notin DOMAIN decoded
      BY <2>1, FinalTail DEF LogsAreFinal
    <2>4. decoded' = decoded \/ decoded' = WithLog(decoded, x.trace, SpoolWith(x)[x.trace])
      BY <2>1 DEF CaptureTrace
    <2> QED BY <1>2, <2>2, <2>3, <2>4
  <1>4. CASE FinaliseActive
    <2>1. NextActive \in active /\ NextActive \in Trace /\ spool[NextActive] \in Nat
      BY <1>4, LeastIsActive DEF FinaliseActive
    <2>2. decoded' = WithLog(decoded, NextActive, spool[NextActive])
      BY <1>4 DEF FinaliseActive
    <2> QED BY <1>2, <2>1, <2>2 DEF LogsAreFinal
  <1>5. CASE ~(GetTrace \/ SweepTrace \/ FinaliseActive)
    <2>1. decoded' = decoded
      BY <1>5, OthersCapture DEF captureVars
    <2> QED BY <2>1
  <1> QED BY <1>3, <1>4, <1>5

LEMMA FilesStay ==
    ASSUME SubscriberTypeOK, AggregatorTypeOK, Codes, LogsAreFinal, FilesAreLogs,
           SubscriberNext, UNCHANGED aggregatorVars
    PROVE  FilesAreLogs'
  <1>1. UNCHANGED <<apc, offset, files, verdict, result>>
    BY DEF aggregatorVars
  <1>2. PICK u \in Seq(Event) : topic' = topic \o u
    BY TopicGrows
  <1>3. topic \in Seq(Event) /\ offset \in 0 .. Len(topic)
    BY DEF SubscriberTypeOK, PublisherTypeOK, AggregatorTypeOK
  <1>4. \A i \in 1 .. offset : topic'[i] = topic[i]
    BY <1>2, <1>3, ConcatProperties
  <1>5. CaptureClosed => CaptureClosed' /\ active' = active /\ decoded' = decoded
    BY ClosedStays DEF captureVars
  <1>6. apc = "consume" => \A t \in DOMAIN files : t \in DOMAIN decoded' /\ files[t] = decoded'[t]
    BY LogsStay DEF FilesAreLogs
  <1>7. apc = "consume" => \A i \in 1 .. offset : IsComplete(topic'[i]) => topic'[i].trace \in DOMAIN files
    BY <1>4 DEF FilesAreLogs
  <1>8. apc = "analyse" \/ (apc = "commit" /\ result = "result")
          => CaptureClosed' /\ active' = {} /\ files = decoded'
    BY <1>5 DEF FilesAreLogs
  <1> QED BY <1>1, <1>6, <1>7, <1>8 DEF FilesAreLogs

LEMMA FilesStep ==
    ASSUME SubscriberTypeOK, AggregatorTypeOK, LineInOrder, Reading, LineTellsLogs, FilesAreLogs,
           AggregatorNext, UNCHANGED <<pumpVars, captureVars, mainVars, shutdown, publisherVars>>
    PROVE  FilesAreLogs'
  <1>1. UNCHANGED <<topic, active, decoded>> /\ (CaptureClosed' <=> CaptureClosed)
    BY AggregatorType DEF SubscriberTypeOK, PublisherTypeOK, captureVars, mainVars, CaptureClosed
  <1>2. /\ PublisherTypeOK /\ topic \in Seq(Event) /\ Orderly(topic) /\ IsLogMap(decoded) /\ IsLogMap(files)
        /\ offset \in Nat
    BY TopicOrderly DEF SubscriberTypeOK, PublisherTypeOK, AggregatorTypeOK, LineInOrder
  <1>3. ASSUME Consuming
        PROVE  /\ offset + 1 \in 1 .. Len(topic) /\ Received = topic[offset + 1]
               /\ offset + 1 \in 1 .. Len(Line) /\ Received = Line[offset + 1]
    BY <1>2, <1>3, TopicLeadsLine DEF Consuming, Received
  <1>4. CASE ConsumeChunk
    <2>1. Consuming /\ ~IsComplete(Received) /\ IsConnectionEvent(Received) /\ apc = "consume"
      BY <1>4 DEF ConsumeChunk, Consuming, IsComplete, IsConnectionEvent, ConnectionEventType
    <2>2. Received.n = NextIndex(Received.trace)
      BY <1>2, <2>1, ReceivedFits
    <2>3. offset' = offset + 1 /\ UNCHANGED <<apc, files, verdict, result>>
      BY <1>4, <2>2 DEF ConsumeChunk
    <2>4. \A i \in 1 .. offset + 1 : IsComplete(topic[i]) => topic[i].trace \in DOMAIN files
      BY <1>2, <1>3, <2>1 DEF FilesAreLogs
    <2> QED BY <1>1, <2>1, <2>3, <2>4 DEF FilesAreLogs
  <1>5. CASE ConsumeLogComplete
    <2>1. Consuming /\ IsComplete(Received) /\ IsConnectionEvent(Received) /\ apc = "consume"
      BY <1>5 DEF ConsumeLogComplete, Consuming, IsComplete, IsConnectionEvent, ConnectionEventType
    <2>2. Received.n = NextIndex(Received.trace)
      BY <1>2, <2>1, ReceivedFits
    <2>3. /\ offset' = offset + 1 /\ UNCHANGED <<apc, verdict, result>>
          /\ files' = WithLog(files, Received.trace, Received.n)
      BY <1>5, <2>2 DEF ConsumeLogComplete
    <2>4. Received.trace \in DOMAIN decoded /\ decoded[Received.trace] = Received.n
      BY <1>3, <2>1 DEF LineTellsLogs
    <2>5. /\ DOMAIN files' = DOMAIN files \cup {Received.trace}
          /\ \A t \in DOMAIN files' : files'[t] = IF t = Received.trace THEN Received.n ELSE files[t]
      BY <2>3 DEF WithLog
    <2>6. \A t \in DOMAIN files' : t \in DOMAIN decoded /\ files'[t] = decoded[t]
      BY <2>1, <2>4, <2>5 DEF FilesAreLogs
    <2>7. ASSUME NEW i \in 1 .. offset + 1, IsComplete(topic[i]) PROVE topic[i].trace \in DOMAIN files'
      <3>1. CASE i = offset + 1
        BY <1>3, <2>1, <2>5, <3>1
      <3>2. CASE i # offset + 1
        <4>1. i \in 1 .. offset
          BY <1>2, <3>2
        <4> QED BY <2>1, <2>5, <2>7, <4>1 DEF FilesAreLogs
      <3> QED BY <3>1, <3>2
    <2> QED BY <1>1, <2>1, <2>3, <2>6, <2>7 DEF FilesAreLogs
  <1>6. CASE ConsumeCaptureComplete
    <2>1. Consuming /\ IsEnd(Received) /\ apc = "consume"
      BY <1>6 DEF ConsumeCaptureComplete, Consuming, IsEnd
    <2>2. /\ CaptureClosed /\ active = {}
          /\ \A t \in DOMAIN decoded : \E j \in 1 .. (offset + 1) - 1 : Line[j] = Complete(t, decoded[t])
      BY <1>3, <2>1 DEF LineTellsLogs
    <2>3. ASSUME NEW t \in DOMAIN decoded PROVE t \in DOMAIN files
      <3>1. PICK j \in 1 .. offset : Line[j] = Complete(t, decoded[t])
        BY <1>2, <2>2
      <3>2. j \in 1 .. Len(topic) /\ topic[j] = Complete(t, decoded[t])
        BY <1>2, <1>3, <2>1, <3>1, TopicLeadsLine
      <3>3. IsComplete(topic[j]) /\ topic[j].trace = t
        BY <3>2 DEF IsComplete, Complete
      <3> QED BY <2>1, <3>1, <3>3 DEF FilesAreLogs
    <2>4. DOMAIN files = DOMAIN decoded /\ \A t \in DOMAIN decoded : files[t] = decoded[t]
      BY <2>1, <2>3 DEF FilesAreLogs
    <2>5. files = decoded
      <3>1. files = [t \in DOMAIN decoded |-> decoded[t]] /\ decoded = [t \in DOMAIN decoded |-> decoded[t]]
        BY <1>2, <2>4 DEF IsLogMap
      <3> QED BY <3>1
    <2>6. files' = files /\ ((apc' = "analyse" /\ verdict' = verdict) \/ apc' = "exited")
      BY <1>6 DEF ConsumeCaptureComplete, Raise
    <2> QED BY <1>1, <2>1, <2>2, <2>5, <2>6 DEF FilesAreLogs
  <1>7. CASE ConsumeStartTimeout
    BY <1>1, <1>7 DEF ConsumeStartTimeout, StoreResult, Consuming, FilesAreLogs
  <1>8. CASE ConsumeFailure \/ ActivityExpires \/ CommitExpires
    BY <1>8 DEF ConsumeFailure, ActivityExpires, CommitExpires, Raise, FilesAreLogs
  <1>9. CASE Analyse \/ CommitTerminal
    BY <1>1, <1>9 DEF Analyse, StoreResult, CommitTerminal, FilesAreLogs
  <1>10. CASE Restart
    BY <1>1, <1>10 DEF Restart, FilesAreLogs, NoLogs
  <1> QED BY <1>4, <1>5, <1>6, <1>7, <1>8, <1>9, <1>10 DEF AggregatorNext, AggregatorStep

-----------------------------------------------------------------------------
(* The contract, step by step. *)

LEMMA CapturedLogs ==
    /\ DOMAIN Captured = DOMAIN decoded \cup active
    /\ \A t \in DOMAIN decoded \cup active :
          Captured[t] = IF t \in active THEN spool[t] ELSE decoded[t]
  BY DEF Captured

\* A trace that is taken from the queue adds to what is captured.
LEMMA TraceIsCaptured ==
    ASSUME SubscriberTypeOK, SubscriberTypeOK', Codes, LogsAreFinal, GetTrace \/ SweepTrace
    PROVE  /\ Contract!IsLogs(Captured')
           /\ \A t \in DOMAIN Captured :
                 Captured[t] > 0 => t \in DOMAIN Captured' /\ Captured'[t] >= Captured[t]
  <1>1. PICK x \in Segment :
          /\ x = Head(items) /\ CaptureTrace(x) /\ items # <<>> /\ items' = Tail(items)
          /\ UNCHANGED <<gone, holding>> /\ Capturing
    BY DEF GetTrace, SweepTrace, IsSegment, mainVars, Capturing, CaptureClosed, Codes
  <1>2. x.trace \in Trace /\ x.trace \notin DOMAIN decoded
    BY <1>1, FinalTail DEF Segment, LogsAreFinal
  <1>3. /\ spool \in [Trace -> Nat] /\ spool' \in [Trace -> Nat]
        /\ active \subseteq Trace /\ active' \subseteq Trace /\ IsLogMap(decoded) /\ IsLogMap(decoded')
    BY DEF SubscriberTypeOK
  <1>4. /\ DOMAIN Captured' = DOMAIN decoded' \cup active'
        /\ \A t \in DOMAIN decoded' \cup active' :
              Captured'[t] = IF t \in active' THEN spool'[t] ELSE decoded'[t]
    BY DEF Captured
  <1>5. Contract!IsLogs(Captured')
    <2>1. \A t \in DOMAIN decoded' \cup active' :
             (IF t \in active' THEN spool'[t] ELSE decoded'[t]) \in Nat
      BY <1>3 DEF IsLogMap
    <2>2. Captured' \in [DOMAIN decoded' \cup active' -> Nat]
      BY <2>1 DEF Captured
    <2> QED BY <1>3, <1>4, <2>2 DEF IsLogMap, Contract!IsLogs
  <1>6. SpoolWith(x) \in [Trace -> Nat] /\ \A t \in Trace : SpoolWith(x)[t] >= spool[t]
    BY <1>2, <1>3 DEF SpoolWith
  <1>7. /\ active' = IF x.closed THEN active \ {x.trace} ELSE active \cup {x.trace}
        /\ spool' = IF x.closed THEN [spool EXCEPT ![x.trace] = 0] ELSE SpoolWith(x)
    BY <1>1 DEF CaptureTrace
  <1>8. \A t \in Trace : t # x.trace => SpoolWith(x)[t] = spool[t]
    BY <1>2, <1>3 DEF SpoolWith
  <1>9. ASSUME x.closed, x.trace \in WithPiece(x)
        PROVE  x.trace \in DOMAIN decoded' /\ decoded'[x.trace] = SpoolWith(x)[x.trace]
    <2>1. decoded' = WithLog(decoded, x.trace, SpoolWith(x)[x.trace])
      BY <1>1, <1>9 DEF CaptureTrace
    <2> QED BY <2>1 DEF WithLog
  <1>10. \A t \in DOMAIN decoded : t \in DOMAIN decoded' /\ decoded'[t] = decoded[t]
    <2>1. decoded' = decoded \/ decoded' = WithLog(decoded, x.trace, SpoolWith(x)[x.trace])
      BY <1>1 DEF CaptureTrace
    <2> QED BY <1>2, <2>1 DEF WithLog
  <1>11. ASSUME NEW t \in DOMAIN Captured, Captured[t] > 0
         PROVE  t \in DOMAIN Captured' /\ Captured'[t] >= Captured[t]
    <2>1. CASE t \in active
      <3>1. Captured[t] = spool[t] /\ t \in Trace /\ t \in withData
        BY <1>3, <1>11, <2>1, CapturedLogs DEF LogsAreFinal
      <3>2. CASE t = x.trace /\ x.closed
        <4>1. t \in WithPiece(x) /\ t \notin active'
          BY <1>7, <3>1, <3>2 DEF WithPiece
        <4>2. t \in DOMAIN decoded' /\ decoded'[t] = SpoolWith(x)[t]
          BY <1>9, <3>2, <4>1
        <4> QED BY <1>4, <1>6, <3>1, <4>1, <4>2
      <3>3. CASE ~(t = x.trace /\ x.closed)
        <4>1. t \in active'
          BY <1>7, <2>1, <3>3
        <4>2. spool'[t] >= spool[t]
          BY <1>2, <1>3, <1>6, <1>7, <3>1, <3>3
        <4> QED BY <1>4, <3>1, <4>1, <4>2
      <3> QED BY <3>2, <3>3
    <2>2. CASE t \notin active
      <3>1. t \in DOMAIN decoded /\ Captured[t] = decoded[t] /\ t # x.trace /\ decoded[t] \in Nat
        BY <1>2, <1>3, <2>2, CapturedLogs DEF IsLogMap
      <3>2. t \notin active' /\ t \in DOMAIN decoded' /\ decoded'[t] = decoded[t]
        BY <1>7, <1>10, <2>2, <3>1
      <3> QED BY <1>4, <3>1, <3>2
    <2> QED BY <2>1, <2>2
  <1> QED BY <1>5, <1>11

\* The log of an open connection is captured before it is finalized.
LEMMA FinaliseKeepsCaptured ==
    ASSUME SubscriberTypeOK, LogsAreFinal, FinaliseActive
    PROVE  Captured' = Captured
  <1>1. PICK t \in Trace : t = NextActive /\ t \in active
    BY LeastIsActive DEF FinaliseActive
  <1>2. /\ active' = active \ {t} /\ spool' = [spool EXCEPT ![t] = 0]
        /\ decoded' = WithLog(decoded, t, spool[t]) /\ t \notin DOMAIN decoded
        /\ spool \in [Trace -> Nat] /\ active \subseteq Trace
    BY <1>1 DEF FinaliseActive, LogsAreFinal, SubscriberTypeOK
  <1>3. DOMAIN decoded' = DOMAIN decoded \cup {t}
    BY <1>2 DEF WithLog
  <1>4. DOMAIN decoded' \cup active' = DOMAIN decoded \cup active
    BY <1>1, <1>2, <1>3
  <1>5. \A u \in DOMAIN decoded \cup active :
           (IF u \in active' THEN spool'[u] ELSE decoded'[u])
              = (IF u \in active THEN spool[u] ELSE decoded[u])
    <2> SUFFICES ASSUME NEW u \in DOMAIN decoded \cup active
                 PROVE (IF u \in active' THEN spool'[u] ELSE decoded'[u])
                          = (IF u \in active THEN spool[u] ELSE decoded[u])
      OBVIOUS
    <2>1. CASE u = t
      BY <1>1, <1>2, <2>1 DEF WithLog
    <2>2. CASE u # t /\ u \in active
      BY <1>2, <2>2
    <2>3. CASE u # t /\ u \notin active
      BY <1>2, <2>3 DEF WithLog
    <2> QED BY <2>1, <2>2, <2>3
  <1> QED BY <1>4, <1>5 DEF Captured

\* Steps that leave main, the line and the logs alone.
LEMMA LogsUnchanged ==
    ASSUME Codes, LogsAreFinal, LineTellsLogs,
           UNCHANGED <<pumpVars, captureVars, mainVars, publisherVars, topic>>
    PROVE  Codes' /\ LogsAreFinal' /\ LineTellsLogs'
  <1>1. /\ UNCHANGED <<gone, holding, items, captureVars, pc, captureFailed, code>>
        /\ UNCHANGED <<active, decoded, Line>>
    BY DEF pumpVars, mainVars, captureVars, publisherVars, Line, InFlight
  <1>2. (CaptureClosed' <=> CaptureClosed) /\ (Capturing' <=> Capturing)
    BY <1>1 DEF CaptureClosed, Capturing
  <1>3. LogsAreFinal'
    BY <1>1, <1>2, FinalStays
  <1> QED BY <1>1, <1>2, <1>3 DEF Codes, LineTellsLogs

\* The subscriber captures, or closes the capture, or does neither.
LEMMA SubscriberKeepsContract ==
    ASSUME SubscriberTypeOK, SubscriberTypeOK', Codes, LogsAreFinal,
           SubscriberNext, UNCHANGED aggregatorVars
    PROVE  [Contract!Next]_(Contract!contractVars)
  <1> USE DEF Contract!Next, Contract!contractVars
  <1>1. verdict' = verdict /\ files' = files
    BY DEF aggregatorVars
  <1>2. CaptureClosed \in BOOLEAN /\ CaptureClosed' \in BOOLEAN
    BY DEF CaptureClosed
  <1>3. CASE GetTrace \/ SweepTrace
    <2>1. ~CaptureClosed /\ CaptureClosed' = CaptureClosed
      BY <1>3 DEF GetTrace, SweepTrace, mainVars, CaptureClosed, Codes
    <2>2. Contract!Capture
      BY <1>1, <1>3, <2>1, TraceIsCaptured DEF Contract!Capture
    <2> QED BY <2>2
  <1>4. ASSUME Captured' = Captured PROVE [Contract!Next]_(Contract!contractVars)
    <2>1. CaptureClosed => CaptureClosed'
      BY ClosedStays
    <2>2. CASE CaptureClosed' = CaptureClosed
      BY <1>1, <1>4, <2>2
    <2>3. CASE ~CaptureClosed /\ CaptureClosed' = TRUE
      <3>1. Contract!Close
        BY <1>1, <1>4, <2>3 DEF Contract!Close
      <3> QED BY <3>1
    <2> QED BY <1>2, <2>1, <2>2, <2>3
  <1>5. CASE FinaliseActive
    BY <1>4, <1>5, FinaliseKeepsCaptured
  <1>6. CASE ~(GetTrace \/ SweepTrace \/ FinaliseActive)
    <2>1. UNCHANGED <<active, spool, decoded>>
      BY <1>6, OthersCapture DEF captureVars
    <2> QED BY <1>4, <2>1 DEF Captured
  <1> QED BY <1>3, <1>5, <1>6

\* The aggregator judges what was captured, or gives up, or goes on.
LEMMA AggregatorKeepsContract ==
    ASSUME TypeOK, FilesAreLogs, AggregatorNext,
           UNCHANGED <<pumpVars, captureVars, mainVars, shutdown, publisherVars>>
    PROVE  [Contract!Next]_(Contract!contractVars)
  <1> USE DEF Contract!Next, Contract!contractVars
  <1>1. Captured' = Captured /\ CaptureClosed' = CaptureClosed
    BY DEF captureVars, mainVars, Captured, CaptureClosed
  <1>2. ASSUME apc # "exited", verdict' \in Verdict \ {"none", "result"}
        PROVE  Contract!GiveUp
    BY <1>1, <1>2 DEF FilesAreLogs, Contract!GiveUp
  <1>3. ASSUME apc # "exited", verdict' = verdict
        PROVE  UNCHANGED Contract!contractVars
    BY <1>1, <1>3 DEF FilesAreLogs
  <1>4. CASE ConsumeChunk \/ ConsumeLogComplete \/ ConsumeCaptureComplete \/ ConsumeFailure
             \/ ActivityExpires \/ CommitExpires
    <2>1. apc # "exited"
      BY <1>4 DEF ConsumeChunk, ConsumeLogComplete, ConsumeCaptureComplete, ConsumeFailure,
                  Consuming, ActivityExpires, CommitExpires
    <2>2. verdict' = verdict \/ verdict' \in {"disorder", "no_logs", "failed", "timeout"}
      BY <1>4 DEF ConsumeChunk, ConsumeLogComplete, ConsumeCaptureComplete, ConsumeFailure,
                  ActivityExpires, CommitExpires, Raise
    <2> QED BY <1>2, <1>3, <2>1, <2>2 DEF Verdict
  <1>5. CASE ConsumeStartTimeout \/ Analyse \/ Restart
    <2>1. apc # "exited" /\ verdict' = verdict
      BY <1>5 DEF ConsumeStartTimeout, StoreResult, Consuming, Analyse, Restart, FilesAreLogs
    <2> QED BY <1>3, <2>1
  <1>6. CASE CommitTerminal
    <2>1. /\ apc = "commit" /\ verdict = "none" /\ verdict' = result /\ files' = files
          /\ result \in {"result", "start_timeout"}
      BY <1>6 DEF CommitTerminal, FilesAreLogs
    <2>2. CASE result = "start_timeout"
      BY <1>2, <2>1, <2>2 DEF Verdict
    <2>3. CASE result = "result"
      <3>1. CaptureClosed /\ active = {} /\ files = decoded
        BY <2>1, <2>3 DEF FilesAreLogs
      <3>2. Captured = decoded
        <4>1. Captured = [t \in DOMAIN decoded |-> decoded[t]]
          BY <3>1 DEF Captured
        <4>2. decoded = [t \in DOMAIN decoded |-> decoded[t]]
          BY DEF TypeOK, SubscriberTypeOK, IsLogMap
        <4> QED BY <4>1, <4>2
      <3>3. Contract!Judge
        BY <1>1, <2>1, <2>3, <3>1, <3>2 DEF Contract!Judge
      <3> QED BY <3>3
    <2> QED BY <2>1, <2>2, <2>3
  <1> QED BY <1>4, <1>5, <1>6 DEF AggregatorNext, AggregatorStep

(***************************************************************************)
(* The subscriber, the topic and the aggregator implement CaptureContract  *)
(* while Kafka only delays: a test result is computed from exactly the     *)
(* logs that were captured, whatever the number of connections and         *)
(* segments, the sizes of the two buffers, and the signals, kills,         *)
(* deadlines and restarts in between.                                      *)
(***************************************************************************)
THEOREM ContractImplemented ==
    ASSUME MaxRejections = 0
    PROVE  Spec => ContractKept
  <1> DEFINE Lines == LineInOrder /\ Reading /\ StreamStaysInOrder
             Logs == Codes /\ LogsAreFinal /\ LineTellsLogs /\ FilesAreLogs
  <1>1. Init => Logs /\ Contract!Init
    <2> SUFFICES ASSUME Init PROVE Logs /\ Contract!Init
      OBVIOUS
    <2> USE DEF Init, SubscriberInit, PublisherInit, AggregatorInit
    <2>1. DOMAIN NoLogs = {}
      BY DEF NoLogs
    <2>2. Codes
      BY DEF Codes, NoCode
    <2>3. LogsAreFinal
      BY <2>1 DEF LogsAreFinal
    <2>4. Line = <<>>
      <3>1. <<>> \o (<<>> \o (<<>> \o <<>>)) = <<>> /\ InFlight = <<>>
        BY DEF InFlight
      <3> QED BY <3>1 DEF Line
    <2>5. LineTellsLogs
      BY <2>1, <2>4 DEF LineTellsLogs
    <2>6. FilesAreLogs
      BY <2>1 DEF FilesAreLogs
    <2>7. Contract!Init
      <3>1. Captured = NoLogs
        BY <2>1 DEF Captured, NoLogs
      <3>2. CaptureClosed = FALSE
        BY DEF CaptureClosed
      <3> QED BY <3>1, <3>2 DEF Contract!Init, Contract!None, NoLogs
    <2> QED BY <2>2, <2>3, <2>5, <2>6, <2>7
  <1>2. TypeOK /\ Lines /\ Logs /\ [Next]_vars => Logs'
    <2> SUFFICES ASSUME TypeOK, Lines, Logs, [Next]_vars PROVE Logs'
      OBVIOUS
    <2>1. SubscriberTypeOK /\ AggregatorTypeOK
      BY DEF TypeOK
    <2>2. CASE SubscriberNext /\ UNCHANGED aggregatorVars
      <3>1. Codes'
        BY <2>2, CodesStep
      <3>2. LogsAreFinal'
        BY <2>1, <2>2, FinalStep
      <3>3. LineTellsLogs'
        BY <2>1, <2>2, TellsStep
      <3>4. FilesAreLogs'
        BY <2>1, <2>2, FilesStay
      <3> QED BY <3>1, <3>2, <3>3, <3>4
    <2>3. CASE AggregatorNext /\ UNCHANGED <<pumpVars, captureVars, mainVars, shutdown, publisherVars>>
      <3>1. topic' = topic /\ FilesAreLogs'
        BY <2>1, <2>3, AggregatorType, FilesStep DEF SubscriberTypeOK, PublisherTypeOK
      <3> QED BY <2>3, <3>1, LogsUnchanged
    <2>4. CASE UNCHANGED vars
      <3>1. UNCHANGED <<pumpVars, captureVars, mainVars, publisherVars, topic>>
        BY <2>4 DEF vars, subscriberVars
      <3>2. FilesAreLogs'
        BY <2>4 DEF vars, subscriberVars, captureVars, mainVars, aggregatorVars, FilesAreLogs, CaptureClosed
      <3> QED BY <3>1, <3>2, LogsUnchanged
    <2> QED BY <2>2, <2>3, <2>4 DEF Next
  <1>3. TypeOK /\ TypeOK' /\ Logs /\ [Next]_vars => [Contract!Next]_(Contract!contractVars)
    <2> SUFFICES ASSUME TypeOK, TypeOK', Logs, [Next]_vars
                 PROVE  [Contract!Next]_(Contract!contractVars)
      OBVIOUS
    <2>1. CASE SubscriberNext /\ UNCHANGED aggregatorVars
      BY <2>1, SubscriberKeepsContract DEF TypeOK
    <2>2. CASE AggregatorNext /\ UNCHANGED <<pumpVars, captureVars, mainVars, shutdown, publisherVars>>
      BY <2>2, AggregatorKeepsContract
    <2>3. CASE UNCHANGED vars
      <3>1. UNCHANGED <<active, spool, decoded, pc, captureFailed, verdict, files>>
        BY <2>3 DEF vars, subscriberVars, captureVars, mainVars, aggregatorVars
      <3> QED BY <3>1 DEF Contract!contractVars, Captured, CaptureClosed
    <2> QED BY <2>1, <2>2, <2>3 DEF Next
  <1>4. Spec => []Lines
    BY StreamLined DEF Lines
  <1> HIDE DEF Lines, Logs
  <1> QED BY <1>1, <1>2, <1>3, <1>4, TypeCorrect, PTL DEF Spec, ContractKept, Contract!Spec

=============================================================================
